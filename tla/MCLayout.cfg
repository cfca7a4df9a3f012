SPECIFICATION Spec
CONSTANTS
  NoNumber = NoNumber
  MaxSlots = 2
  RouterLayers = 2
  RouterLayerSize = 4
  ConnectorLayers = 2
  ConnectorLayerSize = 4
  ConnectorBuffer = 12
  ElementSize = 2
  NodeConfigs <- MCConfigs
  Prompts <- MCPrompts
  CacheSize <- MCCacheSize
  LayerNames <- MCNames
INVARIANT TypeOK
INVARIANT SlotsKeptApart
INVARIANT WriterMeetsTracker
INVARIANT SlotServed
CHECK_DEADLOCK FALSE
