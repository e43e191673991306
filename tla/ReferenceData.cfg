CONSTANTS
  BaseColumns <- MCBaseColumns
  Dimensions <- MCDimensions
  Files <- MCFiles
  Served = {"HOD"}
  Place <- MCPlace
  OpcoMeta <- MCOpcoMeta
  OpcoLabels <- MCOpcoLabels
  NotWords <- MCNotWords
  MaxEdits = 2
  None = None
SPECIFICATION Spec
INVARIANTS
  KeysKeepTheirMeaning
  NoValueShadowsAName
  GlossaryFitsTheViews
