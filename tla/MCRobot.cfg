SPECIFICATION Spec
CONSTANTS
  Command = {"r"}
  START = START
  END = END
  NULL = NULL
  MaxBytes = 6
  BtTimeout = 2
  LidarDelay = 1
  Buffer = {b1, b2, b3, b4}
  QueueLength <- MCQueueLength
  InitialDrive <- MCInitialDrive
INVARIANTS
  HandOverExact
  OneOwner
  SilenceStopsMotors
PROPERTY ImplementsRemoteDrive
