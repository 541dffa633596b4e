SPECIFICATION BothSpec
CONSTANTS
  None = None
  HistoryLimit = 2
  FirstText <- MCFirstText
  Uses <- MCUses
  Typed <- MCTyped
  Query <- MCQuery
  Formatted <- MCFormatted
  Completions <- MCCompletions
  TabWidth = 2
  PageHeight = 2
INVARIANTS UndoExact PlacesFound
PROPERTY CharactersKept
CHECK_DEADLOCK FALSE
