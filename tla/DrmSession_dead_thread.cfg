CONSTANTS
  Ids = {s1, s2, s3}
  NoId = NoId
  MayCrash = FALSE
  HwFaults = {}
SPECIFICATION Spec
CHECK_DEADLOCK FALSE
PROPERTY ActivateLeavesThread
