SPECIFICATION FairSpec
CONSTANTS
  Archives = {a, s}
  Pieces <- PiecesOf
  Reqs = {r1, r2, r3}
  Uploads = {1, 2}
  RetryLimit = 1
  None = None
  Short = Short
  Budgets <- SomeUploads
INVARIANT WholeArchive
INVARIANT ImportedOnce
INVARIANT CompletedIsReal
INVARIANT AllOrNothing
PROPERTY UploadEnds
PROPERTY ProgressEnds
CHECK_DEADLOCK FALSE
