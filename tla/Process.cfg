\* The kernel process and two more, with what they own.
SPECIFICATION ProcessSpec
CONSTANTS
  Proc = {k, a, b}
  Kernel = k
  NULL = NULL
INVARIANTS ProcessTypeOK ListExact OthersReady SearchEnds
PROPERTIES RoundRobin GoesOnInItsFrame FramesKept
