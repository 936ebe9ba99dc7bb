SPECIFICATION PioSpec
CONSTANTS
  Kind = "duart"
  Bytes = {0, 131, 255}
  MaxItems = 2
  Answers <- MCAnswers
  BitTimes = {62, 64, 66}
  Noise = 4
INVARIANTS
  PioTypeOK
  GotRight
  HeardRight
PROPERTIES
  AllArrive
