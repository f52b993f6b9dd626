SPECIFICATION FairSpec
CONSTANTS
  Sessions = {s1}
  Writers = {w1, w2}
  Sizes = {z1, z2}
  QueueCap = 1
  ChunkCap = 1
  BatchCap = 2
  MaxChunks = 3
CHECK_DEADLOCK FALSE
INVARIANTS ProcessesAreKnown OutputIsOrdered
 
