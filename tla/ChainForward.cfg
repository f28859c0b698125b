CONSTANTS
  N = 2
  Udp = {2}
  MaxMsgs = 2
  MaxBuf = 1
SPECIFICATION FairSpec
INVARIANTS TypeOK RepliesInOrder
PROPERTIES EndingSpreads EverythingAnswered
CHECK_DEADLOCK FALSE
