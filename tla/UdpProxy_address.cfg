CONSTANTS
  r1 = r1
  r2 = r2
  c1 = c1
  c2 = c2
  None = None
  Req = {r1, r2}
  Client = {c1, c2}
  MaxStreams = 3
  MaxSends = 3
  MaxInbox = 2
SPECIFICATION Spec
CHECK_DEADLOCK FALSE
PROPERTY AddressIsServed
