\* The ring as gcc compiles it: keys the ISR stored are forgotten.
SPECIFICATION Spec
CONSTANTS
  KEYBOARD_BUFFER_SIZE = 2
  Codegen = "gcc"
  MaxKeys = 3
  Bytes = {16, 30}
INVARIANT EmptyMeansAllRead
