CONSTANTS
  Peers = {t1}
  NoPeer = NoPeer
  BlkMod = 4
  TimeoutTicks = 2
  MaxRetries = 2
  TimerPool = 1
  Modes = {"client"}
  PbufMayFail = FALSE
  NoData = NoData
  NoReply = NoReply
  Segments = {1, 2}
  Packets = {0}
  TimeSegment = 9
  Stored <- MCSmall
  BLOCK = 2
  MAXPAYLOAD = 1
  MAXSEGMENTSIZE = 2
  Faults = {"loss", "abort", "startup", "reset"}
  NetCapacity = 2
  NoFile = NoFile
  NoRequest = NoRequest
SPECIFICATION GatewaySpec
INVARIANTS
  GatewayTypeOK
  UartOwned
PROPERTY TakesTurns
CHECK_DEADLOCK FALSE
