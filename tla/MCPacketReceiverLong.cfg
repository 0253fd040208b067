CONSTANTS
  DataByte <- MCDataByte
  NUL = NUL
  BUF_SIZE = 3
  RECEIVE_QUEUE_LENGTH = 2
  MaxBody = 4
  Radix = 6
  START_BYTE = 2
  END_BYTE = 3
  ESCAPE_BYTE = 4
  FirstId = 4
  Payload <- MCPayload
  Copies = 3
SPECIFICATION LinkSpec
CHECK_DEADLOCK FALSE
INVARIANTS
  StaysInBuffer
