\* A small pool of two blocks and a medium one of one: sizes 1 and 2 are of the
\* first, 3 of the second, 4 of neither.
CONSTANTS
  Threads = {t1, t2}
  SmallCount = 2
  MediumCount = 1
  SmallSize = 2
  MediumSize = 3
  Sizes = {1, 3, 4}
  Word = 2
  HeapBlocks = 1
  Values = {v1, v2}
  Junk = Junk
  Null = Null
SYMMETRY Symmetry
SPECIFICATION Spec
INVARIANTS TypeOK BlocksAccounted PoolPointersStay
PROPERTY ImplementsAllocator
