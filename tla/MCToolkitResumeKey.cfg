SPECIFICATION Spec
CONSTANTS
  None = None
  EscrowV2 = EscrowV2
  OldEscrow = OldEscrow
  Maker = Maker
  Taker = Taker
  PageSize = 2
  SignerStyles = {"hash"}
  MaxDeposits = 3
  MaxLag = 1
  MaxTurns = 2
  Configs <- TwoHosts
INVARIANT ResumeKeyIsWatched
CHECK_DEADLOCK FALSE
