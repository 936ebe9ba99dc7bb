CONSTANTS
  First <- Octets
  Others = {{}, {0}, {4}, {0, 1, 2, 3, 4, 5, 6}, {7}, {0, 5, 6, 7},
            {0, 1, 2, 3, 4, 5, 6, 7}}
  MaxLength = 3
SPECIFICATION CrcSpec
INVARIANTS
  SameRemainder
  Residue
CHECK_DEADLOCK FALSE
