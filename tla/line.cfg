CONSTANTS
  Bodies <- MCBodies
  Paks <- MCPaks
  BLOCK = 2
  NoBody = NoBody
  Commands = {1, 5, 15, 16, 30, 129, 130, 131, 132, 133}
  PacketRequests <- MCRequests
  Words <- MCWords
  MaxUpsets = 2
  RxDepth = 8
  NoWord = NoWord
SPECIFICATION LineSpec
INVARIANTS
  LineTypeOK
  InStep
  PacketWhole
  ChannelAgreed
PROPERTIES
  StartsOverForCause
  Resyncs
