SPECIFICATION Spec
CONSTANTS
  MaxId = 3
  FirstChannels <- MCFirstChannels
  Views <- MCViews
  ColumnChoices <- MCColumnChoices
  MaxCommands = 2
  MaxChanges = 1
INVARIANTS
  QuietMeansCurrent
  RecordingIsShown
  TickFollowsTiles
  TilesSitOnTheirCells
  ConfirmationHolds
CHECK_DEADLOCK FALSE
