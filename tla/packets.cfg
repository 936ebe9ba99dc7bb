CONSTANTS
  MAXPAYLOAD = 991
  MAXSEGMENTSIZE = 65536
  Sizes = {1, 2, 990, 991, 992, 1981, 1982, 1983, 32767, 32768, 64414, 64415, 64416, 65405, 65406, 65407, 65534, 65535}
  FileSizes = {0, 1, 2, 990, 991, 992, 1981, 1982, 1983, 32767, 32768, 64414, 64415, 64416, 65405, 65406, 65407, 65534, 65535, 65536}
  SegmentNumbers = {1, 8388606}
  FirstI = {0}
  NoPak = NoPak
SPECIFICATION PacketsSpec
INVARIANTS
  Contiguous
  EndIsEnd
  SamePayload
  AllCut
PROPERTIES
  LoadCompletes
  SameLoad
