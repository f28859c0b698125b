CONSTANTS
  s1 = s1
  c1 = c1
  c2 = c2
  Serv = {s1}
  Caller = {c1, c2}
  Ttl = 2
  MaxLatency = 1
  MaxNow = 7
  MaxVersion = 3
SYMMETRY CallerSymmetry
SPECIFICATION Spec
INVARIANTS TypeOK BoundedStaleness
