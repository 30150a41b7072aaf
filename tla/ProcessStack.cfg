\* A new process is dispatched with stack pointer 0.
SPECIFICATION ProcessSpec
CONSTANTS
  Proc = {k, a, b}
  Kernel = k
  NULL = NULL
INVARIANT StartsOnItsStack
