SPECIFICATION Spec
CONSTANTS
  Configs <- MCConfigs
  NoRouting = NoRouting
  Width <- MCWidth
  LineChannels <- MCLineChannels
  RingSize = 2
  MaxCalls = 1
INVARIANTS TypeOK MixMinus HeardOnce OnlyOwned ConferenceWhereClaimed
