\* A process that exited is dispatched again.
SPECIFICATION Spec
CONSTANTS
  Proc = {k, a, b}
  Kernel = k
  NULL = NULL
PROPERTY TerminatedNeverRuns
