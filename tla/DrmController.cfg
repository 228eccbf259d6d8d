SPECIFICATION FairSpec
INVARIANTS
  ResultIsOwn
  BitsAreDown
PROPERTY OperationsEnd
