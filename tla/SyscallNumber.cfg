\* The number of a system call does not reach its handler.
SPECIFICATION Spec
CONSTANTS
  WORD = 32
  HALF = 8
  KERNEL_DS = 5
  Args = {0}
  Sleeps = {10}
  Numbers = {4, 9}
CHECK_DEADLOCK FALSE
INVARIANT NumberPassed
