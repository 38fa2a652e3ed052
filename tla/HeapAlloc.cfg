SPECIFICATION Spec
CONSTANTS
  PAGE_SIZE = 8
  HeaderSize = 2
  Align = 2
  HEAP_START_VA = 16
  Sizes = {1, 3, 7}
  MaxPages = 4
INVARIANTS TypeOK BlocksApart HeapCovered
PROPERTIES RetrySucceeds ImplementsAllocator
CHECK_DEADLOCK FALSE
