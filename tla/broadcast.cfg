SPECIFICATION FairSpec
CONSTANTS
  Ships = {zod}
  Refs = {r1, r2, r3, r4}
  Crews <- Pairs
INVARIANT LostOnlyByOverlap
 
