\* The ring as gcc compiles it.
SPECIFICATION Spec
CONSTANTS
  KEYBOARD_BUFFER_SIZE = 2
  Codegen = "gcc"
  MaxKeys = 6
  Bytes = {16, 30}
INVARIANTS TypeOK CountNeverOverstates OnlyOvertaken
