CONSTANTS
  Hash = {h1, h2, h3}
  Ttl = 1
  MaxTimedOut = 1
  Peers <- McPeers
  AmountMsats <- McAmounts
  GraphNodes = {n1}
  RandomCount = 1
  RandomAmount = 1
  MaxRestarts = 1
SPECIFICATION FairSpec
INVARIANTS TypeOK OneEntryPerHash TimedOutBounded NoStrandedSender NoLostResult BufferedIsExplained AmountsClimbOnSuccess
PROPERTIES ImplementsAttempt EveryPeerProbed
