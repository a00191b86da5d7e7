------------------------------ MODULE Probing ------------------------------
(***************************************************************************)
(* The probing task of src/src/probing/runner.rs and sender.rs, with the   *)
(* tracker it shares with the LDK event handler, and LDK itself            *)
(* (external): who answers each probe at most once in a life of the        *)
(* process, at any time after it was sent, perhaps never.                  *)
(*                                                                         *)
(* The task runs one attempt at a time.  An attempt is several steps with  *)
(* the event handler in between: send_probe, register_probe, the timeout   *)
(* around the oneshot receiver, and mark_timed_out after it fired.         *)
(*                                                                         *)
(* A hash is LDK's name for one probe.  Names of probes that nothing       *)
(* refers to any more are used again, which keeps the model finite without *)
(* a bound on the number of probes.                                        *)
(***************************************************************************)
EXTENDS ProbeTracker, SequencesExt

CONSTANTS Peers,           \* probing.peers: a sequence of PeerEntry
          AmountMsats,     \* probing.amount_msats: a sequence of amounts
          GraphNodes,      \* nodes that may be in the network graph
          RandomCount,     \* probing.random_nodes_per_interval
          RandomAmount,    \* probing.random_min_amount_msat
          MaxRestarts      \* bound on the restarts of the process

\* A peers entry: a usable public key, a string without one before the @,
\* or a string that does not decode to one.
PeerEntry == {"valid", "empty", "badkey"}

ASSUME PeersAssumption == Peers \in Seq(PeerEntry)
ASSUME AmountsAssumption == AmountMsats \in Seq(Nat)
ASSUME RandomAssumption ==
  /\ IsFiniteSet(GraphNodes)
  /\ RandomCount \in Nat
  /\ RandomAmount \in Nat
  /\ MaxRestarts \in Nat

VARIABLES
  pc,          \* where the probing task is
  mode,        \* "whitelist" or "random": the loop the attempt belongs to
  peerIdx,     \* position in Peers
  amountIdx,   \* position in SortedAmounts
  recipients,  \* random recipients not probed yet
  hash,        \* the hash of the current attempt, NoHash outside one
  completion,  \* the ProbeCompletion of the last attempt
  poisoned,    \* the tracker's mutex is poisoned
  ldk,         \* LDK's view of each hash
  restarts,
  orphan,      \* history: hashes the tracker has lost the timeout of
  ladder       \* history: hashes sent to the current peer in this round

taskVars == <<pc, mode, peerIdx, amountIdx, recipients, hash, completion>>
envVars == <<poisoned, ldk, restarts>>
historyVars == <<orphan, ladder>>
vars == <<trackerVars, taskVars, envVars, historyVars>>

NoHash == "nohash"

ASSUME NoHashAssumption == NoHash \notin Hash

Completion == Outcome \cup {"dropped", "timeout", "send_error"}

\* compute_modes
PeerListMode == Peers # <<>> /\ AmountMsats # <<>>

RandomMode == RandomAmount > 0 /\ RandomCount > 0

\* sorted_amounts.sort(), as the order it brings the amounts into.
SortOrder ==
  CHOOSE p \in Bijection(DOMAIN AmountMsats, DOMAIN AmountMsats) :
    \A i, j \in DOMAIN AmountMsats : i < j => AmountMsats[p[i]] <= AmountMsats[p[j]]

SortedAmounts == [i \in DOMAIN AmountMsats |-> AmountMsats[SortOrder[i]]]

\* LDK gives a probe a hash that is in use nowhere.
Unused(h) ==
  /\ ldk[h] # "inflight"
  /\ h \notin pending /\ completed[h] = "none" /\ timedOut[h] = NoEntry
  /\ h # hash /\ h \notin ToSet(ladder)

\* The entries a prune dropped while they could still be needed.
Forgotten(h) == {k \in Hash \ {h} : timedOut[k] # NoEntry /\ timedOut'[k] = NoEntry}

\* The entry of h itself, where the next prune may drop it.
Doomed(h) ==
  IF timedOut[h] # NoEntry /\ \E m \in Pruned(timedOut) : m[h] = NoEntry THEN {h} ELSE {}

-----------------------------------------------------------------------------

\* spawn_probing_loop: without a mode there is no task.
StartPc == IF PeerListMode \/ RandomMode THEN "idle" ELSE "off"

StartTask ==
  /\ pc = StartPc
  /\ mode = "whitelist"
  /\ peerIdx = 1
  /\ amountIdx = 1
  /\ recipients = {}
  /\ hash = NoHash
  /\ completion = "success"

Init ==
  /\ NewTracker
  /\ StartTask
  /\ poisoned = FALSE
  /\ ldk = [h \in Hash |-> "unused"]
  /\ restarts = 0
  /\ orphan = {}
  /\ ladder = <<>>

\* The head of the loop: interval.tick(), then the peer list if it is on.
IntervalTick ==
  /\ pc = "idle"
  /\ pc' = IF PeerListMode THEN "peer" ELSE "sample"
  /\ peerIdx' = 1
  /\ UNCHANGED <<trackerVars, envVars, historyVars, mode, amountIdx, recipients, hash, completion>>

\* The for loop over the peers: the next entry, or the end of the list.
SkipInvalidPeer ==
  /\ pc = "peer" /\ peerIdx <= Len(Peers)
  /\ Peers[peerIdx] = "empty"
  /\ peerIdx' = peerIdx + 1
  /\ UNCHANGED <<trackerVars, envVars, historyVars, pc, mode, amountIdx, recipients, hash, completion>>

StartPeer ==
  /\ pc = "peer" /\ peerIdx <= Len(Peers)
  /\ Peers[peerIdx] # "empty"
  /\ pc' = "send"
  /\ mode' = "whitelist"
  /\ amountIdx' = 1
  /\ ladder' = <<>>
  /\ UNCHANGED <<trackerVars, envVars, orphan, peerIdx, recipients, hash, completion>>

EndPeers ==
  /\ pc = "peer" /\ peerIdx > Len(Peers)
  /\ pc' = IF RandomMode THEN "sample" ELSE "idle"
  /\ UNCHANGED <<trackerVars, envVars, historyVars, mode, peerIdx, amountIdx, recipients, hash, completion>>

(***************************************************************************)
(* The random mode: a sample of the nodes now in the graph other than our  *)
(* own (reservoir_sample), or nothing to do until the next tick.           *)
(***************************************************************************)
SampleGraph ==
  /\ pc = "sample"
  /\ \E nodes \in SUBSET GraphNodes, sample \in SUBSET GraphNodes :
       /\ sample \subseteq nodes
       /\ Cardinality(sample) = IF RandomCount < Cardinality(nodes) THEN RandomCount ELSE Cardinality(nodes)
       /\ recipients' = sample
       /\ pc' = IF sample = {} THEN "idle" ELSE "send"
  /\ mode' = "random"
  /\ UNCHANGED <<trackerVars, envVars, historyVars, peerIdx, amountIdx, hash, completion>>

-----------------------------------------------------------------------------
(***************************************************************************)
(* An attempt.  prepare_probe refuses a zero amount and a bad key; then,   *)
(* and in the random mode, find_route or LDK's send_probe may fail.        *)
(***************************************************************************)
InvalidInput ==
  /\ mode = "whitelist"
  /\ SortedAmounts[amountIdx] = 0 \/ Peers[peerIdx] = "badkey"

TakeRecipient ==
  \/ mode = "whitelist" /\ UNCHANGED recipients
  \/ mode = "random" /\ \E r \in recipients : recipients' = recipients \ {r}

SendProbe ==
  /\ pc = "send" /\ ~InvalidInput
  /\ TakeRecipient
  /\ \E h \in Hash :
       /\ Unused(h)
       /\ hash' = h
       /\ ldk' = [ldk EXCEPT ![h] = "inflight"]
       /\ orphan' = orphan \ {h}
       /\ ladder' = IF mode = "whitelist" THEN Append(ladder, h) ELSE ladder
  /\ pc' = "register"
  /\ UNCHANGED <<trackerVars, mode, peerIdx, amountIdx, completion, poisoned, restarts>>

SendError ==
  /\ pc = "send"
  /\ TakeRecipient
  /\ completion' = "send_error"
  /\ pc' = "delay"
  /\ UNCHANGED <<trackerVars, envVars, historyVars, mode, peerIdx, amountIdx, hash>>

\* The attempt ends with completion c.
Complete(c) ==
  /\ completion' = c
  /\ hash' = NoHash
  /\ pc' = "delay"
  /\ UNCHANGED <<mode, peerIdx, amountIdx, recipients, envVars, ladder>>

Register ==
  /\ pc = "register" /\ ~poisoned
  /\ RegisterProbe(hash)
  /\ orphan' = orphan \cup Forgotten(hash)
  /\ pc' = "await"
  /\ UNCHANGED <<envVars, ladder, mode, peerIdx, amountIdx, recipients, hash, completion>>

RegisterPoisoned ==
  /\ pc = "register" /\ poisoned
  /\ Complete("dropped")
  /\ UNCHANGED <<trackerVars, orphan>>

(***************************************************************************)
(* tokio::time::timeout polls the receiver before the timer: what is in    *)
(* the channel wins over a timeout that has also elapsed.                  *)
(***************************************************************************)
AwaitReady ==
  /\ pc = "await" /\ channel[hash] # "open"
  /\ ReleaseReceiver(hash)
  /\ Complete(IF channel[hash] = "closed" THEN "dropped" ELSE channel[hash])
  /\ UNCHANGED orphan

\* Mutant: a timer that has elapsed wins over a result that is there.
AwaitElapsedFirst ==
  /\ pc = "await"
  /\ ReleaseReceiver(hash)
  /\ pc' = "elapsed"
  /\ UNCHANGED <<envVars, historyVars, mode, peerIdx, amountIdx, recipients, hash, completion>>

AwaitElapsed ==
  /\ pc = "await" /\ channel[hash] = "open"
  /\ ReleaseReceiver(hash)
  /\ pc' = "elapsed"
  /\ UNCHANGED <<envVars, historyVars, mode, peerIdx, amountIdx, recipients, hash, completion>>

\* Mutant: the timeout is reported without telling the tracker.
MarkElapsedForgets ==
  /\ pc = "elapsed" /\ ~poisoned
  /\ UNCHANGED <<trackerVars, orphan>>
  /\ Complete("timeout")

MarkElapsed ==
  /\ pc = "elapsed" /\ ~poisoned
  /\ MarkTimedOut(hash)
  /\ orphan' = orphan \cup Forgotten(hash)
  /\ Complete("timeout")

MarkElapsedPoisoned ==
  /\ pc = "elapsed" /\ poisoned
  /\ UNCHANGED <<trackerVars, orphan>>
  /\ Complete("timeout")

-----------------------------------------------------------------------------
\* After sleep_probe_delay: should_break_peer_amounts and the loops' heads.

\* Mutant: only a failed probe breaks the loop over the amounts.
ShouldBreakOnFailure(c) == c = "failed"

ShouldBreakPeerAmounts(c) == c # "success"

\* Mutant: a failure ends the round, not just the peer.
LeavePeerEndsRound ==
  IF peerIdx < Len(Peers) /\ completion = "success"
    THEN pc' = "peer_delay" /\ UNCHANGED peerIdx
    ELSE pc' = "peer" /\ peerIdx' = Len(Peers) + 1

\* The amounts of this peer are done: sleep before the next peer, if any.
LeavePeer ==
  IF peerIdx < Len(Peers)
    THEN pc' = "peer_delay" /\ UNCHANGED peerIdx
    ELSE pc' = "peer" /\ peerIdx' = peerIdx + 1

WhitelistDelayOver ==
  /\ pc = "delay" /\ mode = "whitelist"
  /\ IF ~ShouldBreakPeerAmounts(completion) /\ amountIdx < Len(SortedAmounts)
       THEN /\ pc' = "send"
            /\ amountIdx' = amountIdx + 1
            /\ UNCHANGED peerIdx
       ELSE LeavePeer /\ UNCHANGED amountIdx
  /\ UNCHANGED <<trackerVars, envVars, historyVars, mode, recipients, hash, completion>>

PeerDelayOver ==
  /\ pc = "peer_delay"
  /\ pc' = "peer"
  /\ peerIdx' = peerIdx + 1
  /\ UNCHANGED <<trackerVars, envVars, historyVars, mode, amountIdx, recipients, hash, completion>>

RandomDelayOver ==
  /\ pc = "delay" /\ mode = "random"
  /\ pc' = IF recipients = {} THEN "idle" ELSE "send"
  /\ UNCHANGED <<trackerVars, envVars, historyVars, mode, peerIdx, amountIdx, recipients, hash, completion>>

-----------------------------------------------------------------------------
\* The environment.

\* The arms Event::ProbeSuccessful and Event::ProbeFailed of the handler.
ProbeEvent(h, o) ==
  /\ ldk[h] = "inflight"
  /\ ldk' = [ldk EXCEPT ![h] = o]
  /\ IF poisoned
       THEN UNCHANGED <<trackerVars, orphan>>
       ELSE CompleteProbe(h, o) /\ orphan' = orphan \cup Forgotten(h) \cup Doomed(h)
  /\ UNCHANGED <<taskVars, poisoned, restarts, ladder>>

\* A thread panics while it holds the tracker's mutex.
Poison ==
  /\ ~poisoned
  /\ poisoned' = TRUE
  /\ UNCHANGED <<trackerVars, taskVars, historyVars, ldk, restarts>>

TimePasses ==
  /\ Tick
  /\ UNCHANGED <<taskVars, envVars, historyVars>>

(***************************************************************************)
(* The process stops and starts again.  Tracker and task begin anew; LDK   *)
(* has of each probe of the former life what its last persisted state had: *)
(* it may still answer it, answer it again, or not know it.                *)
(***************************************************************************)
Restart ==
  /\ restarts < MaxRestarts
  /\ restarts' = restarts + 1
  /\ RenewTracker
  /\ pc' = StartPc
  /\ mode' = "whitelist"
  /\ peerIdx' = 1
  /\ amountIdx' = 1
  /\ recipients' = {}
  /\ hash' = NoHash
  /\ completion' = "success"
  /\ poisoned' = FALSE
  /\ \E S \in SUBSET {h \in Hash : ldk[h] # "unused"} :
       /\ ldk' = [h \in Hash |-> IF h \in S THEN "inflight" ELSE "unused"]
       /\ orphan' = S
  /\ ladder' = <<>>

-----------------------------------------------------------------------------

Task ==
  \/ IntervalTick \/ SkipInvalidPeer \/ StartPeer \/ EndPeers \/ SampleGraph
  \/ SendProbe \/ SendError
  \/ Register \/ RegisterPoisoned \/ AwaitReady \/ AwaitElapsed
  \/ MarkElapsed \/ MarkElapsedPoisoned
  \/ WhitelistDelayOver \/ PeerDelayOver \/ RandomDelayOver

Environment ==
  \/ \E h \in Hash, o \in Outcome : ProbeEvent(h, o)
  \/ Poison
  \/ TimePasses
  \/ Restart

Next == Task \/ Environment

Spec == Init /\ [][Next]_vars

(***************************************************************************)
(* The task's timers fire and its future is polled: tokio runs the task.   *)
(* Nothing is assumed of LDK, of time or of the network.                   *)
(***************************************************************************)
FairSpec == Spec /\ WF_vars(Task)

-----------------------------------------------------------------------------

\* The locals of the probing task, its tracker and the probes LDK knows hold
\* what spawn_probing_loop and ProbeTracker declare.
TypeOK ==
  /\ TrackerTypeOK
  /\ pc \in {"off", "idle", "peer", "peer_delay", "sample", "send", "register",
             "await", "elapsed", "delay"}
  /\ mode \in {"whitelist", "random"}
  /\ peerIdx \in 1 .. (Len(Peers) + 1)
  /\ amountIdx \in Nat \ {0}
  /\ recipients \subseteq GraphNodes
  /\ hash \in Hash \cup {NoHash}
  /\ completion \in Completion
  /\ poisoned \in BOOLEAN
  /\ ldk \in [Hash -> Outcome \cup {"unused", "inflight"}]
  /\ restarts \in 0 .. MaxRestarts
  /\ orphan \subseteq Hash
  /\ ladder \in Seq(Hash)

(***************************************************************************)
(* While the mutex works, pending_probes holds a sender for the probe the  *)
(* task is waiting for and for no other: no order of result, timeout and   *)
(* registration strands a sender there.                                    *)
(***************************************************************************)
NoStrandedSender == ~poisoned => pending \subseteq {hash}

(***************************************************************************)
(* While the mutex works, the task only goes on waiting on an empty        *)
(* channel for a result LDK has still to deliver: a result that arrived    *)
(* between send_probe and register_probe is not lost.                      *)
(***************************************************************************)
NoLostResult ==
  ~poisoned /\ pc = "await" /\ channel[hash] = "open" => ldk[hash] = "inflight"

(***************************************************************************)
(* completed_probes does not grow with late results: an entry belongs to   *)
(* the probe about to be registered, or to one whose timed-out entry was   *)
(* pruned (by age, or as the oldest beyond the cap) or lost in a restart.  *)
(* The code has no other way to leak an entry there.                       *)
(***************************************************************************)
BufferedIsExplained ==
  ~poisoned =>
    \A h \in Hash : completed[h] # "none" => h \in orphan \/ (pc = "register" /\ h = hash)

(***************************************************************************)
(* A peer is sent an amount only if, in this round, LDK has really         *)
(* reported success for every smaller amount: no timeout, late result or   *)
(* reused table entry lets the task climb past a failure.                  *)
(***************************************************************************)
AmountsClimbOnSuccess ==
  /\ \A i \in 1 .. (Len(ladder) - 1) : ldk[ladder[i]] = "success"
  /\ mode = "whitelist" /\ pc = "register" =>
       \A i \in DOMAIN SortedAmounts :
         SortedAmounts[i] < SortedAmounts[amountIdx] => i < Len(ladder)

(***************************************************************************)
(* Every usable peer is probed again and again: neither LDK's silence, a   *)
(* failing or invalid peer before it, nor a poisoned tracker stops the     *)
(* task from getting to it.                                                *)
(***************************************************************************)
EveryPeerProbed ==
  \A i \in DOMAIN Peers : Peers[i] # "empty" /\ PeerListMode =>
    []<>(pc = "send" /\ mode = "whitelist" /\ peerIdx = i)

(***************************************************************************)
(* What an attempt promises, whatever the tracker does inside: see         *)
(* ProbeAttempt.                                                           *)
(***************************************************************************)
Attempt == INSTANCE ProbeAttempt WITH
  phase <- IF hash = NoHash THEN "idle" ELSE IF pc = "elapsed" THEN "expired" ELSE "open",
  answer <- IF hash # NoHash /\ ldk[hash] \in Outcome THEN ldk[hash] ELSE "none",
  completion <- completion,
  lockLost <- poisoned

ImplementsAttempt == Attempt!Spec
=============================================================================
