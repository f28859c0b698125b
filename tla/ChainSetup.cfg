CONSTANTS
  a = a
  b = b
  c = c
  tcp = tcp
  udp = udp
  None = None
  Service = {a, b, c}
  Proto = {tcp, udp}
  Specs <- ShortSpecs
  MaxHops = 4
  MaxData = 2
SPECIFICATION FairSpec
CHECK_DEADLOCK FALSE
INVARIANTS TypeOK AckFromWholeChain PathFollowsSpec EveryServiceAcked
INVARIANTS NoUnexpectedMessage NotAllWaiting
PROPERTIES ReadySpec SetupEndsOrSomeoneReturned SourceMonitorUnblocks
