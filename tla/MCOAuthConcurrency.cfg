SPECIFICATION OAuthSpec
CONSTANTS
  Request = {r1, r2}
  Limit = 2
  MaxSessions = 2
  MaxTokens = 3
  NoRow = NoRow
SYMMETRY Symmetry
PROPERTY ConcurrencyProtected
CHECK_DEADLOCK FALSE
