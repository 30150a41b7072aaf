\* Words of five bits, halves of three; the square root and the least common
\* multiple that divide by zero, and a counter that wraps under a sleep.
SPECIFICATION Spec
CONSTANTS
  WORD = 32
  HALF = 8
  KERNEL_DS = 5
  Args = {0, 4, 6, 31}
  Sleeps = {5, 10, 31}
  Numbers = {4, 9}
CHECK_DEADLOCK FALSE
INVARIANTS TypeOK ResultRight RightHandler SleepExact OnlyFaultsStop
PROPERTY CallsReturn
