\* Two recordings, buffers of three messages, one callback for a channel.
SPECIFICATION FairSpec
CONSTANTS
  MaxStarts = 2
  QueueLen = 3
  kMaximumCallbacksPerSource = 1
CHECK_DEADLOCK FALSE
INVARIANTS
  TypeOK
  CallbackAlive
  TableInUse
  ReportAlive
  OneOpenFile
  ClosedIsSilent
PROPERTIES
  Released
