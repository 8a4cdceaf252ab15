SPECIFICATION Spec
CONSTANTS
  None = None
  ZeroDigest = ZeroDigest
  Folded <- MCFolded
  PaymentMethods <- MCMethods
  Registry <- MCRegistry
  Feeds <- MCFeeds
  MinUsdcUnits = 10
  SubUnits = 10
  UintMax = 50
  CodesLength = 27
  CodesAreAscii = TRUE
  Requests <- Asked
  Passthrough = "USD"
  Answers <- MCAnswers
  MaxStaleness = 2
  Horizon = 5
  MaxRounds = 3
INVARIANTS
  QuoteIsOfTheFeed
  StaleIsTrue
CHECK_DEADLOCK FALSE
