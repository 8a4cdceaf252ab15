SPECIFICATION Spec
CONSTANTS
  None = None
  ZeroDigest = ZeroDigest
  Foreign = Foreign
  OwnerTopic = OwnerTopic
  SuppliedHash = SuppliedHash
  c1 = c1
  c2 = c2
  Folded <- MCFolded
  PaymentMethods <- MCMethods
  Registry <- MCRegistry
  OnchainRegistry <- MCRegistry
  Feeds <- MCFeeds
  PlatformsNeedingAttestation <- MCAttested
  MinUsdcUnits = 10
  SubUnits = 10
  UintMax = 50
  CodesLength = 300
  CodesAreAscii = TRUE
  Calls = {c1}
  Requests <- Good
  SignerStyles = {"receipt"}
  Sequential = TRUE
  MaxForeign = 0
INVARIANT LocalErrorsPrecedeThePost
CHECK_DEADLOCK FALSE
