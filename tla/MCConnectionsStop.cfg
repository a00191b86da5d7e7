CONSTANTS
  Peer = {"p"}
  ChannelPeers = {"p"}
  Reach <- McReachNone
  Addresses <- McAddresses
  MaxLive = 2
  MaxRivals = 1
CHECK_DEADLOCK FALSE
SPECIFICATION Spec
INVARIANTS NoPeerAfterBackgroundStops
