----------------------------- MODULE FeePolling -----------------------------
(***************************************************************************)
(* The fee buckets of bitcoind_client.rs: eight atomics that LDK and the   *)
(* funding of channels read at any moment, and the task that asks bitcoind *)
(* five questions, one after the other, and then stores eight values, one  *)
(* after the other, for ever.                                              *)
(***************************************************************************)
EXTENDS Naturals

CONSTANTS
  Rates,     \* the fee rates bitcoind may answer, in sat per 1000 vB
  MaxU32     \* the largest u32, a constant because TLC's integers are smaller

ASSUME RatesAssumption == Rates \subseteq Nat

ASSUME MaxU32Assumption == MaxU32 \in Nat /\ MaxU32 >= 50000

MinFeerate == 253

\* Mutant: a conversion that does not saturate.
SatPerKwUnbounded(r) == (r + 2) \div 4

\* convert.rs: BTC/kvB to sat/kW, rounded; `as u32` saturates.
SatPerKw(r) == IF (r + 2) \div 4 > MaxU32 THEN MaxU32 ELSE (r + 2) \div 4

\* Mutant: what bitcoind answers is taken as it is.
AtLeastMinDropped(f) == f

\* What bitcoind answers is never less than LDK's minimum.
AtLeastMin(f) == IF f > MinFeerate THEN f ELSE MinFeerate

(***************************************************************************)
(* The questions, in the order in which they are asked: the bucket that is *)
(* taken for the previous value when the call fails, and the estimate when *)
(* bitcoind has none.                                                      *)
(***************************************************************************)
Call(i) ==
  CASE i = 1 -> "mempoolmin"
    [] i = 2 -> "background"
    [] i = 3 -> "normal"
    [] i = 4 -> "high_prio"
    [] OTHER -> "very_high_prio"

Estimates == {"mempoolmin", "background", "normal", "high_prio", "very_high_prio"}

\* Mutant: the background rate is read back from another of its buckets.
PreviousElsewhere(e) ==
  CASE e = "mempoolmin" -> "MinAllowedAnchorChannelRemoteFee"
    [] e = "background" -> "MinAllowedNonAnchorChannelRemoteFee"
    [] e = "normal"     -> "NonAnchorChannelFee"
    [] e = "high_prio"  -> "UrgentOnChainSweep"
    [] OTHER            -> "MaximumFeeEstimate"

Previous(e) ==
  CASE e = "mempoolmin" -> "MinAllowedAnchorChannelRemoteFee"
    [] e = "background" -> "AnchorChannelFee"
    [] e = "normal"     -> "NonAnchorChannelFee"
    [] e = "high_prio"  -> "UrgentOnChainSweep"
    [] OTHER            -> "MaximumFeeEstimate"

Fallback(e) ==
  CASE e = "normal"         -> 2000
    [] e = "high_prio"      -> 5000
    [] e = "very_high_prio" -> 50000
    [] OTHER                -> MinFeerate

(***************************************************************************)
(* The stores, in order, and the estimate each bucket is made from.        *)
(***************************************************************************)
Bucket(i) ==
  CASE i = 1 -> "MaximumFeeEstimate"
    [] i = 2 -> "UrgentOnChainSweep"
    [] i = 3 -> "MinAllowedAnchorChannelRemoteFee"
    [] i = 4 -> "MinAllowedNonAnchorChannelRemoteFee"
    [] i = 5 -> "AnchorChannelFee"
    [] i = 6 -> "NonAnchorChannelFee"
    [] i = 7 -> "ChannelCloseMinimum"
    [] OTHER -> "OutputSpendingFee"

Targets ==
  {"MaximumFeeEstimate", "UrgentOnChainSweep", "MinAllowedAnchorChannelRemoteFee",
   "MinAllowedNonAnchorChannelRemoteFee", "AnchorChannelFee",
   "NonAnchorChannelFee", "ChannelCloseMinimum", "OutputSpendingFee"}

MinNonAnchor == "MinAllowedNonAnchorChannelRemoteFee"

\* Mutant: the bound on proposals is made from the normal estimate.
SourceNormal(t) ==
  CASE t = "MaximumFeeEstimate"               -> "very_high_prio"
    [] t = "UrgentOnChainSweep"               -> "high_prio"
    [] t = "MinAllowedAnchorChannelRemoteFee" -> "mempoolmin"
    [] t \in {"NonAnchorChannelFee", MinNonAnchor} -> "normal"
    [] OTHER                                  -> "background"

Source(t) ==
  CASE t = "MaximumFeeEstimate"               -> "very_high_prio"
    [] t = "UrgentOnChainSweep"               -> "high_prio"
    [] t = "MinAllowedAnchorChannelRemoteFee" -> "mempoolmin"
    [] t = "NonAnchorChannelFee"              -> "normal"
    [] OTHER                                  -> "background"

SaturatingSub(a, b) == IF a > b THEN a - b ELSE 0

\* The value stored in bucket t, given its estimate.
Stored(t, f) ==
  IF t = MinNonAnchor THEN SaturatingSub(f, 250) ELSE f

Calls  == 5
Stores == 8

VARIABLES
  fees,      \* the buckets
  estimate,  \* the estimates of the round
  asked,     \* how many calls of the round have returned
  stored,    \* how many stores of the round are done
  failed,    \* history: the estimates whose call failed in this round
  before,    \* history: the buckets when the round began
  first      \* history: this is the first round

feeVars == <<fees, estimate, asked, stored, failed, before, first>>

InitialFee(t) ==
  CASE t = "MaximumFeeEstimate"  -> 50000
    [] t = "UrgentOnChainSweep"  -> 5000
    [] t = "NonAnchorChannelFee" -> 2000
    [] OTHER                     -> MinFeerate

\* BitcoindClient::new has made the map and spawned the task.
FeeInit ==
  /\ fees = [t \in Targets |-> InitialFee(t)]
  /\ estimate = [e \in Estimates |-> 0]
  /\ asked = 0
  /\ stored = 0
  /\ failed = {}
  /\ before = fees
  /\ first = TRUE

----------------------------------------------------------------------------

Asking == asked < Calls

\* The next call returned, and its estimate is f.
Estimated(f) ==
  /\ estimate' = [estimate EXCEPT ![Call(asked + 1)] = f]
  /\ asked' = asked + 1
  /\ UNCHANGED <<fees, stored, before, first>>

\* bitcoind answered with a rate.
Answered(r) ==
  /\ Asking
  /\ Estimated(AtLeastMin(SatPerKw(r)))
  /\ failed' = failed

\* bitcoind answered, and has no estimate.
NoEstimate ==
  /\ Asking
  /\ Estimated(Fallback(Call(asked + 1)))
  /\ failed' = failed

\* The call failed: load_current, of the bucket that belongs to the call.
CallFails ==
  /\ Asking
  /\ Estimated(fees[Previous(Call(asked + 1))])
  /\ failed' = failed \cup {Call(asked + 1)}

\* store_fee, of the next bucket.
Store ==
  /\ ~Asking
  /\ stored < Stores
  /\ LET t == Bucket(stored + 1)
     IN fees' = [fees EXCEPT ![t] = Stored(t, estimate[Source(t)])]
  /\ stored' = stored + 1
  /\ UNCHANGED <<estimate, asked, failed, before, first>>

Resting == ~Asking /\ stored = Stores

\* The minute is over, the next round begins.
SleepOver ==
  /\ Resting
  /\ asked' = 0
  /\ stored' = 0
  /\ failed' = {}
  /\ before' = fees
  /\ first' = FALSE
  /\ UNCHANGED <<fees, estimate>>

Poll ==
  \/ \E r \in Rates : Answered(r)
  \/ NoEstimate
  \/ CallFails
  \/ Store
  \/ SleepOver

FeeSpec == FeeInit /\ [][Poll]_feeVars

----------------------------------------------------------------------------

\* Types: the buckets and the estimates are rates of 32 bits.
TypeOK ==
  /\ fees \in [Targets -> 0..MaxU32]
  /\ estimate \in [Estimates -> 0..MaxU32]
  /\ asked \in 0..Calls
  /\ stored \in 0..Stores
  /\ failed \subseteq Estimates
  /\ before \in [Targets -> 0..MaxU32]
  /\ first \in BOOLEAN

(***************************************************************************)
(* LDK never reads a rate under 253 sat/kW (bitcoind_client.rs:68, "the    *)
(* minimum feerate we are allowed to send"), whichever calls failed, had   *)
(* no estimate or were answered with less, in whichever rounds.  Only the  *)
(* bound on what peers may propose, MinAllowedNonAnchorChannelRemoteFee,   *)
(* goes below it.                                                          *)
(***************************************************************************)
FeesFloored == \A t \in Targets \ {MinNonAnchor} : fees[t] >= MinFeerate

(***************************************************************************)
(* What a failed call stands for keeps its value: all four buckets of the  *)
(* background estimate, although only one of them is read back, at every   *)
(* moment of the round.  The one exception is MinAllowedNonAnchor... in    *)
(* the first round: new() starts it at 253 like the others, not 250 below, *)
(* so a first background call that fails takes it from 253 to 3, although  *)
(* the comment at bitcoind_client.rs:211 promises the previous value.      *)
(***************************************************************************)
FailureKeepsFees ==
  \A t \in Targets :
    Source(t) \in failed /\ ~(first /\ t = MinNonAnchor) => fees[t] = before[t]

(***************************************************************************)
(* A reader of two buckets sees the least rate that a peer of a non-anchor *)
(* channel may propose above the background rate only between the fourth   *)
(* and the fifth store of a round.                                         *)
(***************************************************************************)
MinBelowBackground ==
  stored # 4 => fees[MinNonAnchor] <= fees["AnchorChannelFee"]
=============================================================================
