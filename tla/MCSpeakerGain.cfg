SPECIFICATION Spec
INVARIANTS
  SettledOnCurve
  NeverBoosted
  RampLandsOnTarget
PROPERTIES
  VolumeSettles
CONSTANTS
  NaN = NaN
  Channels <- MCChannels
  SampleRate = 20
  Full = 120
  Gain <- MCGain
  Controls <- MCControls
  MaxFrames = 2
