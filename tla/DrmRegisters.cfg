SPECIFICATION Spec
CONSTANTS
  Accesses <- TheAccesses
  Pages <- ThePages
  NumberOfIps = 1
  LicenseFileSize = 11
  ReadOnlyWords = 2
  ReadWriteWords = 3
INVARIANTS
  TypeOK
  OwnPage
  AcceptedFits
  HeartBeatKnown
  FieldIsOwn
PROPERTY IsFlat
CHECK_DEADLOCK FALSE
