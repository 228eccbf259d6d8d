CONSTANTS
  l1 = l1
  Licenses = {l1}
  Refused = {}
SPECIFICATION Spec
PROPERTY KeptRequestIsWhole
