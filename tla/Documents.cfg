SPECIFICATION Spec
CONSTANTS
  Headings <- MCHeadings
  Blocks <- MCBlocks
  TitleNumber = 5
  MaxBlocks = 4
  None = None
  Soft = 8
  Hard = 9
  MaxWords = 3
  Margin = 2
  MaxContext = 2
  Heading = 1
  Anchor = 1
  Bars = 1
  MaxLines = 4
  Lines <- MCLines
  Headers <- MCHeaders
  Rows <- MCRows
INVARIANT OutlineIsSound
INVARIANT BlocksKeepTheirPlace
INVARIANT NothingIsLost
 
CHECK_DEADLOCK FALSE
