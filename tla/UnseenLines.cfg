SPECIFICATION EditsSpec
CONSTANTS
  EditFiles = {1, 2}
  Tools = {1, 2}
  Shapes <- MCShapes
  Ranges <- MCRanges
  FirstLines = 3
  MaxRead = 3
  MaxLines = 4
  MaxSnaps = 2
  Margin = 0
  MaxMade = 3
  NoText = NoText
  NoSnap = NoSnap
PROPERTY UnseenIsRejected
CHECK_DEADLOCK FALSE
