CONSTANTS
  NORTHCO = NORTHCO
  MART = MART
  yes = yes
  None = None
  Spans <- MCSpans
  Stores <- MCStores
  Says <- MCSays
  Numbers = {1, 2, 3}
  Texts = {yes}
  SlotLimit = 2
  MaxSlots = 3
SPECIFICATION Spec
INVARIANT EveryNameCounts
