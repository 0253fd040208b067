SPECIFICATION FairSpec
CONSTANTS
  Command = {"l", "x"}
  START = START
  END = END
  NULL = NULL
  MaxBytes = 4
  BtTimeout = 2
  LidarDelay = 1
  Buffer = {b1, b2, b3, b4}
  QueueLength <- MCQueueLength
  InitialDrive <- MCRunning
PROPERTIES
  MotorsEventuallyStop
  LidarNeverStarves
