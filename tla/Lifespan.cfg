CONSTANTS
  Ratings = {r1, r2}
  MaxNetFaults = 1
  None = None
  Turns = {t1, t2}
  Budget = 2
  Usage <- Tokens
  MaxRedisFaults = 1
SPECIFICATION Spec
INVARIANTS NoUseAfterRelease MirrorFollowsLatest
PROPERTIES IpWindowIsFixed ShutdownCompletes
CHECK_DEADLOCK FALSE
