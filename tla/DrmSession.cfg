CONSTANTS
  Ids = {s1, s2, s3, s4}
  NoId = NoId
  MayCrash = TRUE
  HwFaults = {"extract", "end", "key", "timer", "read"}
SPECIFICATION FairSpec
INVARIANTS
  TypeOK
  ThreadHasSession
  SessionIdAgrees
  RunningSessionIsOpen
  StopFlagOnlyInJoin
  NoThreadWhileClosing
  QuietWhenPaused
  CleanExitClosesSession
PROPERTIES
  RoomWhenAlone
  ThreadEndIsReported
  PauseKeepsSession
  StopTerminates
  CallsReturn
  ExpiredIsRenewed
