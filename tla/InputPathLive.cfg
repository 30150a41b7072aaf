\* Liveness of the path: keys typed while login_prompt reads are consumed.
SPECIFICATION FairSpec
CONSTANTS
  KEYBOARD_BUFFER_SIZE = 2
  Codegen = "source"
  MaxKeys = 0
  Bytes = {}
  Keys <- EditKeyboard
  max_length = 3
  Prompt <- GlyphPrompt
  VGA_WIDTH = 4
  VGA_HEIGHT = 2
  MaxPresses = 2
PROPERTY KeyConsumed
INVARIANTS NoStuckModifier EchoShown
