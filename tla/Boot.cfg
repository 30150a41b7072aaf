\* The kernel of 170 sectors on a floppy with 18 sectors per track.
SPECIFICATION Spec
CONSTANTS
  KERNEL_SECTORS = 170
  KERNEL_OFFSET = 4096
  Track = 18
CHECK_DEADLOCK FALSE
INVARIANT KernelLoaded
