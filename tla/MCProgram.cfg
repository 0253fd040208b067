CONSTANTS
  Task <- MCTask
  Message <- MCMessage
  Timeout <- MCTimeout
  DelayTicks <- MCDelayTicks
  NULL = NULL
  Size = 2
  m1 = m1
  m2 = m2
  m3 = m3
  DataByte <- MCDataByte
  NUL = NUL
  BUF_SIZE = 3
  RECEIVE_QUEUE_LENGTH = 2
  MaxBody = 3
  Radix = 6
  START_BYTE = 2
  END_BYTE = 3
  ESCAPE_BYTE = 4
  FirstId = 4
  Payload <- MCPayload
  Copies = 3
  InitialSteps <- MCInitialSteps
  InitialSpeed = 2
  TotalSteps = 3
  LidarCycles = 7
  MaxLost = 4
  BusByte <- MCByte
  AnyByte <- MCAnyByte
  User = {"lidar_read", "transfers"}
  Transfer <- MCTransfer
  READ_DELAY = 2
  NONE = NONE
SPECIFICATION ProgramSpec
INVARIANTS
  NoStrandedMessage
  WaitersConsistent
  ExactlyOnce
  WireIsFramed
  WithinArc
  ReadingIsSound
PROPERTIES
  ImplementsMsgQueue
  TimedWaitEnds
  ImplementsPacketDecoder
  IdsAreConsecutive
  EveryPacketIsSent
  FieldTurnsEvenly
  CatchesUp
  ImplementsI2CLink
  LidarReadReturns
