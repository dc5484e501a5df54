CONSTANTS
  s1 = s1
  s2 = s2
  w1 = w1
  w2 = w2
  Sessions = {s1, s2}
  Workers = {w1, w2}
  CapMessages = 2
  CapBytes = 5
  MaxMessage = 4
  Chunk = 2
  BatchMax = 2
  LineSizes = {2, 3}
SPECIFICATION Spec
INVARIANT NothingStranded
PROPERTY PauseDrains
PROPERTY CloseDrains
