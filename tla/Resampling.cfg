\* Periods of twelve frames: one and a third, two, four, eight, ten and two thirds, twelve codec frames.
CONSTANTS
  Taps = 4
  Silence = Silence
  Streams = 3
  SampleRate = 18
  PeriodFrames = 12
  CodecRates <- Rates
  RatioOf <- MCRatioOf
  MaxBlocks = 7
SPECIFICATION Spec
INVARIANTS TypeOK AsOneStream FitsCapacity KeepsPace EveryBlockFull
