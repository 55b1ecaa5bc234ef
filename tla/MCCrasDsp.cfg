SPECIFICATION Spec
INVARIANTS
  NothingLeaked
  CleanStart
  StreamFiltered
CONSTANTS
  o1 = o1
  o2 = o2
  o3 = o3
  o4 = o4
  A = A
  B = B
  C = C
  D = D
  L = L
  Nil = Nil
  Silence = Silence
  Garbage = Garbage
  Objects <- MCObjects
  Buffers <- MCBuffers
  Cells <- MCCells
  Wirings <- MCWirings
  ProcessMax = 2
  PreDelay = 6
  MaxFrames = 4
  MaxPlayed = 5
  MaxStreams = 2
