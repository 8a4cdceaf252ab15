SPECIFICATION Spec
CONSTANTS
  None = None
  ZeroDigest = ZeroDigest
  Foreign = Foreign
  OwnerTopic = OwnerTopic
  SuppliedHash = SuppliedHash
  c1 = c1
  c2 = c2
  Folded <- MCFolded
  PaymentMethods <- MCMethods
  Registry <- MCRegistry
  OnchainRegistry <- MCBehind
  Feeds <- MCFeeds
  PlatformsNeedingAttestation <- MCAttested
  MinUsdcUnits = 10
  SubUnits = 10
  UintMax = 50
  CodesLength = 27
  CodesAreAscii = TRUE
  Calls = {c1, c2}
  Requests <- Varied
  SignerStyles = {"receipt", "keyed", "labelled"}
  Sequential = TRUE
  MaxForeign = 1
SYMMETRY Symmetric
INVARIANTS
  RefusedTouchesNothing
  PairRevertsAreStaleRows
  SequentialKeepsItsAllowance
  BestFollowUpFindsItsDeposit
CHECK_DEADLOCK FALSE
