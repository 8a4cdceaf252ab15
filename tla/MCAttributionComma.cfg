SPECIFICATION Spec
CONSTANTS
  None = None
  Folded <- MCFolded
  PeerRefs <- MCPeerRefs
  Items <- JoinedItems
  MaxReferrers = 1
INVARIANT OneMarkerOnTheWire
CHECK_DEADLOCK FALSE
