SPECIFICATION FairEntitiesSpec
CONSTANTS
  Broadcast <- OneBroadcast
  ReadOrder <- TwoReads
  Bodies <- TheBodies
  MaxVersion = 1
INVARIANTS EntitiesTypeOK StaleOnlyIfReshaped
PROPERTIES Converges
