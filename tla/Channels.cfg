CONSTANTS
  Outbound = {c1, c2}
  Inbound = {c3}
  Bump = {b1}
  Output = {o1}
  Coin = {k1}
  MaxCrashes = 1
SPECIFICATION FairSpec
INVARIANTS
  ReportedIsUnfunded
  SpentOnlyForSigned
  OutputsAccounted
PROPERTY ReadyIsAnswered
