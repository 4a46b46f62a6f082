SPECIFICATION SearchSpec
CONSTANTS
  Elements <- Pieces
  MaxElements = 4
  MaxResults = 2
  Near = 9
INVARIANT
  FindsTheResults
PROPERTY
  SearchReturns
CHECK_DEADLOCK FALSE
