CONSTANTS
  Owner = {"cli", "events", "main"}
  Bolt11Ids = {"b"}
  KeysendIds = {}
  OfferIds = {"o"}
SPECIFICATION Spec
INVARIANTS TypeOK InFlightIsPending PaidIsRecorded PendingIsExplained
PROPERTIES SucceededIsFinal
