\* The whole path from the key to the line; three presses, the ring in order.
SPECIFICATION PathSpec
CONSTANTS
  KEYBOARD_BUFFER_SIZE = 2
  Codegen = "source"
  MaxKeys = 0
  Bytes = {}
  Keys <- LockKeyboard
  max_length = 3
  Prompt <- GlyphPrompt
  VGA_WIDTH = 4
  VGA_HEIGHT = 2
  MaxPresses = 3
INVARIANTS PathTypeOK NoStolenEoi TypedInOrder LineFits EchoShown
PROPERTY FifoSpec
