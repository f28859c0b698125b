CONSTANTS
  a = a
  b = b
  c = c
  tcp = tcp
  udp = udp
  None = None
  Service = {a, b, c}
  Proto = {tcp, udp}
  Specs <- LongSpecs
  MaxHops = 4
  MaxData = 0
SPECIFICATION FairSpec
CHECK_DEADLOCK FALSE
PROPERTY HandlerMonitorUnblocks
