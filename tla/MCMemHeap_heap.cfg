SPECIFICATION Spec
CONSTANTS
  MEM_SIZE = 13
  SIZEOF_STRUCT_MEM = 1
  MIN_SIZE = 2
  Sizes <- MCSizes
  Threads = {t1, t2}
INVARIANTS HeapIntact NoRoomLost
PROPERTIES ImplementsAllocator
