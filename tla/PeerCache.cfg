CONSTANTS
  p1 = p1
  p2 = p2
  p3 = p3
  s1 = s1
  Peer = {p1, p2, p3}
  Serv = {s1}
  SoftReq <- MCSoftReq
  HardReq <- MCHardReq
  Replies <- MixedReply
  LookupMayFail = TRUE
  RInit = 2
  RCap = 4
  RDec = 2
  RHigh = 3
  RLow = 1
  RMax = 2
  MaxEntries = 3
SPECIFICATION FairSpec
INVARIANTS TypeOK LevelBands PingPassComplete MovesConserve NoChainDrop GetPeerComplete
PROPERTIES DeadPeersEvicted GoodPeersPromoted RemovedPeerGone StoreSpec
