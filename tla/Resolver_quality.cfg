CONSTANTS
  r1 = r1
  r2 = r2
  near = near
  far = far
  None = None
  Req = {r1, r2}
  Http = {r1}
  Alloc = {near, far}
  Slots = {1}
  RTT <- NearAndFar
  SoftReq = 1
  MaxAttempts = 3
  MaxFinds = 2
SPECIFICATION Spec
INVARIANTS QualityMet
