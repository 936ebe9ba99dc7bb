CONSTANTS
  Peers = {other}
  Other = other
  NoPeer = NoPeer
  BlkMod = 5
  Blocks = 3
  ServerPbufMayFail = FALSE
  TimeoutTicks = 1
  MaxRetries = 1
  TimerPool = 2
  Modes = {"client", "server"}
  PbufMayFail = TRUE
  NoData = NoData
  NoReply = NoReply
SPECIFICATION TransferSpec
INVARIANTS
  CopyInOrder
  ClosedIsWhole
  ServedIsWhole
CHECK_DEADLOCK FALSE
