CONSTANTS
  s1 = s1
  s2 = s2
  p1 = p1
  Ssids = {s1, s2}
  Passwords = {p1}
  Empty = Empty
  Accepted <- MCAccepted
SPECIFICATION Spec
INVARIANT StoredIsUsed
PROPERTIES ProvisioningSucceeds LedSettles
