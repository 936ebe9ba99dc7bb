CONSTANTS
  Peers = {t1, t2}
  NoPeer = NoPeer
  BlkMod = 8
  TimeoutTicks = 2
  MaxRetries = 2
  TimerPool = 1
  Modes = {"client"}
  PbufMayFail = FALSE
  NoData = NoData
  NoReply = NoReply
  Segments = {1, 2}
  Packets = {0}
  TimeSegment = 9
  Stored <- MCTwo
  BLOCK = 2
  MAXPAYLOAD = 3
  MAXSEGMENTSIZE = 8
  Faults = {"late"}
  NetCapacity = 2
  NoFile = NoFile
  NoRequest = NoRequest
SPECIFICATION GatewaySpec
INVARIANT CorrectAnswer
