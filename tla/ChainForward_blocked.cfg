CONSTANTS
  N = 2
  Udp = {1}
  MaxMsgs = 2
  MaxBuf = 1
SPECIFICATION FairSpec
PROPERTIES EndingEndsTheOther
CHECK_DEADLOCK FALSE
