SPECIFICATION Spec
CONSTANTS
  Accesses <- TheAccesses
  Pages <- ThePages
  NumberOfIps = 1
  LicenseFileSize = 11
  ReadOnlyWords = 2
  ReadWriteWords = 3
INVARIANT ErrorCodeIsRead
CHECK_DEADLOCK FALSE
