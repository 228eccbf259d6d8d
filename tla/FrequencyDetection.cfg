SPECIFICATION Spec
CONSTANTS
  Rates = {2, 3}
  Configured = 3
  Threshold = 20
  Period = 4
  MaxLate = 1
  Licenses = {43, 46}
  Modulus = 64
INVARIANTS
  MeasuredIsReal
  OneRetry
PROPERTY SpinEnds
CHECK_DEADLOCK FALSE
