SPECIFICATION FeeSpec
CONSTANTS
  Rates = {1000, 400000}
  MaxU32 = 60000
INVARIANTS
  TypeOK
  FeesFloored
  FailureKeepsFees
  MinBelowBackground
