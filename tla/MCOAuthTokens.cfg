SPECIFICATION OAuthSpec
CONSTANTS
  Request = {r1, r2}
  Limit = 2
  MaxSessions = 4
  MaxTokens = 3
  NoRow = NoRow
SYMMETRY Symmetry
INVARIANTS TokenUsable WithinLimit
PROPERTY ReauthorisedStays
CHECK_DEADLOCK FALSE
