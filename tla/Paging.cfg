\* Beside the kernel's directory and the one at address 0, another with a table or
\* none, on a heap that runs out, with another caller of the heap.
SPECIFICATION PagingSpec
CONSTANTS
  WORD = 256
  PAGE_SIZE = 16
  PAGE_ENTRIES = 4
  HEAP_START = 48
  heap_end = 208
  Sizes = {5}
  MaxBlocks = 4
  NFrames = 2
  WordBits = 1
  Identity = 4
  MapPages = {5}
INVARIANTS PagingTypeOK BlocksSound TablesPrivate ArraysAgree FramesOwned
PROPERTIES SpacesSpec MapTakesEffect
