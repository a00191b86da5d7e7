CONSTANTS
  Owner = {"cli", "events"}
  Invoiced = {"i1", "i2"}
  Spontaneous = {"s"}
SPECIFICATION Spec
INVARIANTS ClaimedIsRecorded
PROPERTIES ReceivedIsFinal
