CONSTANTS
  l1 = l1
  l2 = l2
  l3 = l3
  Licenses = {l1, l2, l3}
  Refused = {l3}
SYMMETRY Symmetry
SPECIFICATION Spec
INVARIANTS
  LicenseIdAccepted
  PendingSessionEnded
PROPERTIES
  LicenseKept
