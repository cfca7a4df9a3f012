SPECIFICATION Spec
CONSTANTS
  NoNumber = NoNumber
  MaxSlots = 1
  RouterLayers = 2
  RouterLayerSize = 4
  ConnectorLayers = 2
  ConnectorLayerSize = 4
  ConnectorBuffer = 16
  ElementSize = 2
  NodeConfigs <- MCOneConfig
  Prompts <- MCOnePrompt
  CacheSize <- MCOneCacheSize
  LayerNames <- MCNumbers
INVARIANT LoadsWhatWasSaved
CHECK_DEADLOCK FALSE
