SPECIFICATION Spec
INVARIANTS
  NoFalseAlarm
  FaultsAreSeen
CONSTANTS
  o1 = o1
  o2 = o2
  o3 = o3
  Objects <- MCObjects
  Nil = Nil
  NaN = NaN
  Silence = Silence
  Garbage = Garbage
  PreDelay = 288
  Gain <- MCGain
  Full = 200000
  Scale <- MCScale
  Rate = 48000
  CurveRate = 2000
  NoiseBlocks = 4
