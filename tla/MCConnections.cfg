CONSTANTS
  Peer = {"p", "q", "z", "r"}
  ChannelPeers = {"p", "q", "z"}
  Reach <- McReach
  Addresses <- McAddresses
  MaxLive = 2
  MaxRivals = 1
CHECK_DEADLOCK FALSE
SPECIFICATION FairSpec
INVARIANTS EndsPersisted
PROPERTIES ServesOrEnds
