SPECIFICATION FairSpec
CONSTANTS
  Conns = {c1, c2}
  Tokens = {t1}
  NoToken = NoToken
  NoConn = NoConn
  Enforcers = {e1, e2}
  MaxFailedLogins = 2
  LockoutTime = 1
  Budgets <- TabsAndLogins
INVARIANT OneSide
 
INVARIANT LockoutHasEnforcer
PROPERTY LockoutEnds
PROPERTY ClosedForgotten
CHECK_DEADLOCK FALSE
