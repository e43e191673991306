CONSTANTS
  None = None
  Rows <- MCRows
  Banners <- MCBanners
  Codes <- MCCodes
  Filler <- MCFiller
  Schema <- MCSchema
  Questions <- MCQuestions
  Ratio <- MCRatio
  ColumnWords <- MCColumnWords
  ColumnPlace <- MCColumnPlace
  Tails <- MCTails
  Places <- MCPlaces
  SuggestScore = 620
  ConfidentScore = 880
  Margin = 40
  OptionWindow = 100
  MaxOptions = 2
  MaxSpanTokens = 6
  MaxFuzzyTokens = 4
SPECIFICATION Spec
CHECK_DEADLOCK FALSE
INVARIANTS
  NoNameIsLost
  LongestNameWins
  GuessesAreLicensed
  OptionsAreChoices
  SilentOnlyIfAlone
  ColumnsAreKept
