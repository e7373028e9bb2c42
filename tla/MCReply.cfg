\* Every reply of up to eight runes, with newlines anywhere; two lost answers.
SPECIFICATION ReplySpec
CONSTANTS
  Limit <- MCLimit
  Origins <- MCOrigins
  MaxMsgs = 3
  MaxLength = 8
  MaxLost = 2
INVARIANTS
  ChunksInOrder
  NilMeansShown
  RepeatsNeedLoss
\* The reply is sent once.
CHECK_DEADLOCK FALSE
