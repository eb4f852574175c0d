SPECIFICATION Spec
CONSTANTS
  Configs <- MCOneConfig
  NoRouting = NoRouting
  Width <- MCWidth
  LineChannels <- MCLineChannels
  RingSize = 2
  MaxCalls = 1
PROPERTY ConferenceHearsNow
