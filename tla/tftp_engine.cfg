CONSTANTS
  Peers = {p1, p2}
  NoPeer = NoPeer
  BlkMod = 4
  TimeoutTicks = 2
  MaxRetries = 2
  TimerPool = 3
  Modes = {"client", "server", "clientserver"}
  PbufMayFail = TRUE
  NoData = NoData
  NoReply = NoReply
SPECIFICATION TftpSpec
INVARIANTS
  TftpTypeOK
  BlocksInOrder
  RetransmitsCurrent
  TransferTimed
  ServerKeepsToPeer
PROPERTY SilentPeerDropped
