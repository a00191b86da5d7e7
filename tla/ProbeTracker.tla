---------------------------- MODULE ProbeTracker ----------------------------
(***************************************************************************)
(* The probe tracker of src/src/probing/tracker.rs: the table, shared by   *)
(* the probing task and the LDK event handler under one mutex, that        *)
(* matches a probe's result to the task waiting for it.                    *)
(*                                                                         *)
(* Each public method runs with the mutex held, so each is one action.     *)
(* The three hash maps are                                                 *)
(*   pending    the hashes that have a oneshot sender in pending_probes;   *)
(*   completed  completed_probes, "none" where there is no entry;          *)
(*   timedOut   timed_out_probes, the AGE of the entry (the time since its *)
(*              Instant, in ticks, saturating just beyond the TTL, where   *)
(*              all ages behave alike), NoEntry where there is none.       *)
(* channel[h] is the oneshot channel of the latest registration of h as    *)
(* its receiver sees it: "open", the outcome sent through it, "closed"     *)
(* (its sender was dropped) or "none" (no receiver is alive).              *)
(***************************************************************************)
EXTENDS Integers, FiniteSets

CONSTANTS Hash,         \* payment hashes
          Ttl,          \* TIMED_OUT_PROBE_TTL, in ticks
          MaxTimedOut   \* MAX_TIMED_OUT_PROBES

ASSUME HashAssumption == IsFiniteSet(Hash)
ASSUME TtlAssumption == Ttl \in Nat
ASSUME MaxTimedOutAssumption == MaxTimedOut \in Nat

VARIABLES pending, completed, timedOut, channel

trackerVars == <<pending, completed, timedOut, channel>>

Outcome == {"success", "failed"}

NoEntry == -1

Ages == 0 .. (Ttl + 1)

\* The hashes with an entry in a timed_out_probes map.
Entries(m) == {h \in Hash : m[h] # NoEntry}

-----------------------------------------------------------------------------

NewTracker ==
  /\ pending = {}
  /\ completed = [h \in Hash |-> "none"]
  /\ timedOut = [h \in Hash |-> NoEntry]
  /\ channel = [h \in Hash |-> "none"]

\* A new process has a new tracker.
RenewTracker ==
  /\ pending' = {}
  /\ completed' = [h \in Hash |-> "none"]
  /\ timedOut' = [h \in Hash |-> NoEntry]
  /\ channel' = [h \in Hash |-> "none"]

(***************************************************************************)
(* prune_timed_out_probes: entries older than the TTL go, then, if more    *)
(* than MAX_TIMED_OUT_PROBES are left, the oldest excess ones.  Entries of *)
(* one age are evicted in the order of the hash map's iterator, which is   *)
(* any order: the result is one of a set.                                  *)
(***************************************************************************)
Live(m) == {h \in Entries(m) : m[h] <= Ttl}

Oldest(m, n) ==
  {S \in SUBSET Live(m) :
     /\ Cardinality(S) = n
     /\ \A h \in S, k \in Live(m) \ S : m[k] <= m[h]}

\* Mutant: nothing is evicted when the cap is exceeded.
NoExcess(m) == 0

Excess(m) ==
  IF Cardinality(Live(m)) <= MaxTimedOut THEN 0 ELSE Cardinality(Live(m)) - MaxTimedOut

Keep(m, S) == [h \in Hash |-> IF h \in S THEN m[h] ELSE NoEntry]

Pruned(m) == {Keep(m, Live(m) \ S) : S \in Oldest(m, Excess(m))}

-----------------------------------------------------------------------------

\* Mutant: a result that came before the registration is not looked for.
RegisterProbeUnbuffered(h) ==
  /\ \E m \in Pruned(timedOut) : timedOut' = [m EXCEPT ![h] = NoEntry]
  /\ channel' = [channel EXCEPT ![h] = "open"]
  /\ pending' = pending \cup {h}
  /\ UNCHANGED completed

\* register_probe: a result that is already there is handed over at once.
RegisterProbe(h) ==
  /\ \E m \in Pruned(timedOut) : timedOut' = [m EXCEPT ![h] = NoEntry]
  /\ completed' = [completed EXCEPT ![h] = "none"]
  /\ IF completed[h] # "none"
       THEN /\ channel' = [channel EXCEPT ![h] = completed[h]]
            /\ UNCHANGED pending
       ELSE /\ channel' = [channel EXCEPT ![h] = "open"]
            /\ pending' = pending \cup {h}

\* Mutant: the timed-out table is not consulted.
CompleteProbeIgnoresTimeout(h, o) ==
  /\ \E m \in Pruned(timedOut) : timedOut' = m
  /\ IF h \in pending
       THEN /\ pending' = pending \ {h}
            /\ channel' = [channel EXCEPT ![h] = IF @ = "open" THEN o ELSE @]
            /\ UNCHANGED completed
       ELSE /\ completed' = [completed EXCEPT ![h] = o]
            /\ UNCHANGED <<pending, channel>>

(***************************************************************************)
(* complete_probe, for complete_success and complete_failed: the result of *)
(* a probe that timed out is discarded, the result of a pending one is     *)
(* sent (to nobody, if its receiver is gone), any other is buffered.       *)
(***************************************************************************)
CompleteProbe(h, o) ==
  \E m \in Pruned(timedOut) :
    /\ timedOut' = [m EXCEPT ![h] = NoEntry]
    /\ \/ /\ m[h] # NoEntry
          /\ UNCHANGED <<pending, completed, channel>>
       \/ /\ m[h] = NoEntry
          /\ h \in pending
          /\ pending' = pending \ {h}
          /\ channel' = [channel EXCEPT ![h] = IF @ = "open" THEN o ELSE @]
          /\ UNCHANGED completed
       \/ /\ m[h] = NoEntry
          /\ h \notin pending
          /\ completed' = [completed EXCEPT ![h] = o]
          /\ UNCHANGED <<pending, channel>>

\* Mutant: the entry is stamped with a deadline in the future instead of now.
MarkTimedOutDeadline(h) ==
  /\ \E m \in Pruned(timedOut) : timedOut' = [m EXCEPT ![h] = -(Ttl + 1)]
  /\ pending' = pending \ {h}
  /\ completed' = [completed EXCEPT ![h] = "none"]
  /\ channel' = [channel EXCEPT ![h] = IF h \in pending /\ @ = "open" THEN "closed" ELSE @]

\* mark_timed_out: the prune comes before the insertion.
MarkTimedOut(h) ==
  /\ \E m \in Pruned(timedOut) : timedOut' = [m EXCEPT ![h] = 0]
  /\ pending' = pending \ {h}
  /\ completed' = [completed EXCEPT ![h] = "none"]
  /\ channel' = [channel EXCEPT ![h] = IF h \in pending /\ @ = "open" THEN "closed" ELSE @]

\* The receiver of h is consumed or dropped by the task that holds it.
ReleaseReceiver(h) ==
  /\ channel' = [channel EXCEPT ![h] = "none"]
  /\ UNCHANGED <<pending, completed, timedOut>>

\* Time passes.
Tick ==
  /\ timedOut' = [h \in Hash |-> IF timedOut[h] \in 0 .. Ttl THEN timedOut[h] + 1 ELSE timedOut[h]]
  /\ timedOut' # timedOut
  /\ UNCHANGED <<pending, completed, channel>>

-----------------------------------------------------------------------------
(***************************************************************************)
(* The tracker on its own, under callers that may call any method with any *)
(* hash in any order.                                                      *)
(***************************************************************************)
TrackerInit == NewTracker

TrackerNext ==
  \/ \E h \in Hash :
       \/ RegisterProbe(h)
       \/ \E o \in Outcome : CompleteProbe(h, o)
       \/ MarkTimedOut(h)
       \/ channel[h] # "none" /\ ReleaseReceiver(h)
  \/ Tick

TrackerSpec == TrackerInit /\ [][TrackerNext]_trackerVars

\* The maps of ProbeTracker (tracker.rs) hold what their declarations say, and
\* no entry of timed_out_probes is stamped later than now.
TrackerTypeOK ==
  /\ pending \subseteq Hash
  /\ completed \in [Hash -> Outcome \cup {"none"}]
  /\ timedOut \in [Hash -> Ages \cup {NoEntry}]
  /\ channel \in [Hash -> Outcome \cup {"none", "open", "closed"}]

(***************************************************************************)
(* A hash is in at most one of the three maps, whatever order              *)
(* register_probe, complete_probe and mark_timed_out are called in: a      *)
(* result is never both waited for and already there, nor remembered as    *)
(* late while it is waited for.                                            *)
(***************************************************************************)
OneEntryPerHash ==
  \A h \in Hash :
    /\ h \in pending => completed[h] = "none" /\ timedOut[h] = NoEntry
    /\ completed[h] # "none" => timedOut[h] = NoEntry

(***************************************************************************)
(* timed_out_probes never holds more than MAX_TIMED_OUT_PROBES + 1         *)
(* entries: mark_timed_out prunes before it inserts, so the cap is         *)
(* overshot by one and no more, however many probes time out in a row.     *)
(***************************************************************************)
TimedOutBounded == Cardinality(Entries(timedOut)) <= MaxTimedOut + 1
=============================================================================
