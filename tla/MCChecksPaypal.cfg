SPECIFICATION Spec
CONSTANTS
  None = None
  ZeroDigest = ZeroDigest
  Folded <- MCFolded
  PaymentMethods <- PaymentMethodHashes
  Registry <- PaymentMethodCurrencies
  Feeds <- ChainlinkOracleFeeds
  MinUsdcUnits = 10
  SubUnits = 10
  UintMax = 50
  CodesLength = 27
  CodesAreAscii = TRUE
  Places = 1
  Precision = 3
  MaxDigits = 7
  Subjects = {"payee"}
  Inputs <- MCInputs
  Tokens <- MCTokens
  Spellings <- MCSpellings
  Platforms <- MCPlatforms
  Kinds = {"bool", "text", "nan", "inf", "int", "human"}
  Coefficients <- MCCoefficients
  WrittenDigits = {0, 1, 5, 9}
  MaxWritten = 6
  MaxDecimals = 4
  Members <- MCMembers
  Bodies <- MCBodies
INVARIANT PaypalHandleHasNoTail
