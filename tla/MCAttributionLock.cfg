SPECIFICATION Spec
CONSTANTS
  None = None
  Folded <- MCFolded
  PeerRefs <- MCPeerRefs
  Items <- PlainItems
  MaxReferrers = 2
INVARIANTS
  CodesAreLocked
  OneMarkerOnTheWire
  CodesDecodeAsLocked
  FirstMentionLeads
CHECK_DEADLOCK FALSE
