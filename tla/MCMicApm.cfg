SPECIFICATION Spec
INVARIANTS
  BlocksHoldStream
  StreamDelayed
CONSTANTS
  A = A
  B = B
  C = C
  D = D
  Null = Null
  Silence = Silence
  Garbage = Garbage
  Channels <- MCChannels
  Block = 3
  Buffers <- MCBuffers
  Controls <- MCControls
  NaN = NaN
  Wirings <- MCWirings
  MaxFrames = 4
  MaxStreams = 2
  MaxPlayed = 10
CHECK_DEADLOCK FALSE
