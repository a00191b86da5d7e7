--------------------------- MODULE PollingProofs ---------------------------
(***************************************************************************)
(* The two tasks that ask a server again and again: rapid gossip sync and  *)
(* the fee poll.  They share nothing, and each has an invariant of its     *)
(* own.                                                                    *)
(***************************************************************************)
EXTENDS RapidSync, FeePolling, TLAPS

-----------------------------------------------------------------------------
(***************************************************************************)
(* For every length of the server's history and every number of retries:   *)
(* the timestamp of the last sync claims no update the node has not had.   *)
(*                                                                         *)
(* GapIsExplained speaks of the file, which sync_network_graph reads at    *)
(* its beginning and writes at its end.  What has to hold in between is    *)
(* that the prefix it counts on is there: up to last_sync while it         *)
(* downloads, up to the snapshot's own time once that is applied.  And     *)
(* while the node is down the graph on disk takes the place of the one in  *)
(* memory.                                                                 *)
(***************************************************************************)

TypeInv ==
  /\ now \in 0 .. MaxTime
  /\ graph \subseteq Time /\ diskGraph \subseteq Time /\ lost \subseteq Time
  /\ stamp \in {Missing, Empty} \cup 0 .. MaxTime
  /\ run \in {"down", "starting", "up"}
  /\ pc \in {"idle", "load", "download", "backoff", "apply", "create", "write"}
  /\ last \in 0 .. MaxTime /\ upTo \in 0 .. MaxTime
  /\ retries \in Nat

\* The node has had every update up to time n.
Had(n) == \A t \in 1 .. n : t \in graph \cup lost

\* A sync counts on what it read from the file, then on what it applied.
SyncCounts ==
  /\ pc # "idle" => run # "down"
  /\ pc \in {"download", "backoff", "apply"} => Had(last)
  /\ pc \in {"create", "write"} => Had(upTo)

\* While the node is down, its graph is the one on disk.
DiskCounts == run = "down" => \A t \in 1 .. LastSync : t \in diskGraph \cup lost

GapInv == TypeInv /\ GapIsExplained /\ SyncCounts /\ DiskCounts

\* The time read from the file is a time of the server's, or 0.
LEMMA LastSyncType == ASSUME TypeInv PROVE LastSync \in 0 .. MaxTime
BY MaxTimeAssumption DEF TypeInv, LastSync, Missing, Empty

\* A fresh node has no file and claims nothing.
LEMMA GapInit == Init => GapInv
<1> SUFFICES ASSUME Init PROVE GapInv
  OBVIOUS
<1>1. TypeInv BY MaxTimeAssumption DEF Init, TypeInv
<1>2. LastSync = 0 /\ pc = "load" /\ run = "starting" BY DEF Init, LastSync
<1> QED BY <1>1, <1>2 DEF GapInv, GapIsExplained, SyncCounts, DiskCounts

\* An attempt that fails is followed by a pause, or ends the sync.
LEMMA FailedAttempt ==
  ASSUME DownloadFails
  PROVE  /\ \/ pc' = "idle" /\ run' = "up"
            \/ pc' = "backoff" /\ run' = run
         /\ retries' = retries + 1
         /\ UNCHANGED <<now, graph, diskGraph, stamp, last, upTo, lost>>
<1> USE DEF fileVars
<1>1. CASE retries + 1 >= MaxRetries BY <1>1 DEF DownloadFails, Finish
<1>2. CASE ~(retries + 1 >= MaxRetries) BY <1>2 DEF DownloadFails
<1> QED BY <1>1, <1>2

\* sync_network_graph, from reading the timestamp to having the snapshot.
LEMMA DownloadGap ==
  ASSUME GapInv, PeriodicTick \/ Load \/ Download \/ DownloadFails \/ BackoffOver
  PROVE  GapInv'
<1> USE MaxTimeAssumption, MaxRetriesAssumption, LastSyncType
    DEF GapInv, TypeInv, GapIsExplained, SyncCounts, DiskCounts, Had, fileVars
<1>1. CASE PeriodicTick BY <1>1 DEF PeriodicTick, LastSync
<1>2. CASE Load
  <2>1. LastSync' = LastSync BY <1>2 DEF Load, LastSync
  <2> QED BY <1>2, <2>1 DEF Load
<1>3. CASE Download BY <1>3 DEF Download, LastSync
<1>4. CASE DownloadFails
  <2>1. LastSync' = LastSync BY <1>4 DEF DownloadFails, LastSync
  <2>2. pc = "download" BY <1>4 DEF DownloadFails
  <2> QED BY <1>4, <2>1, <2>2, FailedAttempt
<1>5. CASE BackoffOver BY <1>5 DEF BackoffOver, LastSync
<1> QED BY <1>1, <1>2, <1>3, <1>4, <1>5

\* The snapshot, applied or not: what came before it and what is in it.
LEMMA ApplyGap ==
  ASSUME GapInv, Apply \/ ApplyFails
  PROVE  GapInv'
<1> USE MaxTimeAssumption, LastSyncType DEF GapInv, fileVars
<1>1. LastSync' = LastSync BY DEF Apply, ApplyFails, LastSync
<1>2. Snapshot \subseteq Time /\ \A t \in 1 .. upTo : t \in 1 .. last \/ t \in Snapshot
  BY DEF TypeInv, Snapshot, Time
<1>3. \A t : t \in graph \cup lost => t \in (graph \cup lost)'
  BY DEF Apply, ApplyFails
<1>4. TypeInv'
  BY <1>2 DEF Apply, ApplyFails, Finish, TypeInv
<1>5. GapIsExplained' /\ DiskCounts'
  BY <1>1, <1>3 DEF Apply, ApplyFails, Finish, SyncCounts, GapIsExplained, DiskCounts
<1>6. SyncCounts'
  BY <1>2, <1>3 DEF Apply, ApplyFails, Finish, SyncCounts, Had
<1> QED BY <1>4, <1>5, <1>6

\* save_last_sync_timestamp: an emptied file claims nothing, a written one
\* what was applied.
LEMMA SaveGap ==
  ASSUME GapInv, Create \/ WriteStamp
  PROVE  GapInv'
<1> USE MaxTimeAssumption DEF GapInv
<1>1. /\ run' # "down"
      /\ \/ pc' = "idle" /\ run' = "up"
         \/ pc' = "write" /\ pc = "create" /\ run' = run
  BY DEF Create, WriteStamp, Finish, SyncCounts
<1>2. stamp' \in {Empty, upTo, stamp} /\ UNCHANGED <<graph, lost, diskGraph, upTo>>
  BY DEF Create, WriteStamp
<1>3. LastSync' \in {0, upTo, LastSync}
  BY <1>2 DEF LastSync
<1>4. Had(upTo) /\ Had(LastSync)
  BY DEF Create, WriteStamp, SyncCounts, GapIsExplained, Had
<1>5. TypeInv'
  BY <1>1, <1>2 DEF Create, WriteStamp, Finish, TypeInv
<1>6. GapIsExplained' /\ DiskCounts'
  BY <1>1, <1>2, <1>3, <1>4 DEF GapIsExplained, DiskCounts, Had
<1>7. SyncCounts'
  BY <1>1, <1>2, <1>4 DEF SyncCounts, Had
<1> QED BY <1>5, <1>6, <1>7

\* The server, the peers and the background processor.
LEMMA EnvironmentGap ==
  ASSUME GapInv, ServerAdvances \/ PersistGraph \/ \E t \in Time : Gossip(t)
  PROVE  GapInv'
<1> USE MaxTimeAssumption DEF GapInv, TypeInv, GapIsExplained, SyncCounts, DiskCounts, Had,
                              fileVars, syncVars
<1>1. CASE ServerAdvances BY <1>1 DEF ServerAdvances, LastSync
<1>2. CASE PersistGraph BY <1>2 DEF PersistGraph, LastSync
<1>3. ASSUME NEW t \in Time, Gossip(t) PROVE GapInv'
  <2>1. LastSync' = LastSync BY <1>3 DEF Gossip, LastSync
  <2> QED BY <1>3, <2>1 DEF Gossip
<1> QED BY <1>1, <1>2, <1>3

\* A crash and the start after it: what the graph on disk had not is lost.
LEMMA CrashGap ==
  ASSUME GapInv, Crash \/ Start
  PROVE  GapInv'
<1> USE MaxTimeAssumption DEF GapInv, TypeInv, GapIsExplained, SyncCounts, DiskCounts, Had, fileVars
<1>1. LastSync' = LastSync BY DEF Crash, Start, LastSync
<1>2. CASE Crash BY <1>1, <1>2 DEF Crash
<1>3. CASE Start BY <1>1, <1>3 DEF Start
<1> QED BY <1>2, <1>3

\* Every step keeps what the timestamp counts on.
LEMMA GapNext == GapInv /\ [Next]_vars => GapInv'
<1> SUFFICES ASSUME GapInv, [Next]_vars PROVE GapInv'
  OBVIOUS
<1>1. CASE Next
  BY <1>1, DownloadGap, ApplyGap, SaveGap, EnvironmentGap, CrashGap DEF Next, Sync
<1>2. CASE UNCHANGED vars
  BY <1>2 DEF vars, fileVars, syncVars, GapInv, TypeInv, GapIsExplained, SyncCounts, DiskCounts,
              Had, LastSync
<1> QED BY <1>1, <1>2

(***************************************************************************)
(* What is not newer than rapid_sync_state is in the graph of a node that  *)
(* is up, or in a graph that did not survive: whatever fails in            *)
(* sync_network_graph, and wherever the process is killed.                 *)
(***************************************************************************)
THEOREM TimestampClaimsNoGap == Spec => []GapIsExplained
<1>1. GapInv => GapIsExplained BY DEF GapInv
<1> QED BY <1>1, GapInit, GapNext, PTL DEF Spec

-----------------------------------------------------------------------------
(***************************************************************************)
(* For every set of rates that bitcoind may answer and any width of the    *)
(* atomics: the floor, what a failed call keeps, and the one store in      *)
(* which two buckets disagree.                                             *)
(***************************************************************************)

\* Nothing is stored before everything has been asked.
AskedBeforeStored == asked < Calls => stored = 0

\* The estimates of the calls that have returned are at least the minimum.
EstimatesFloored == \A i \in 1..Calls : i <= asked => estimate[Call(i)] >= MinFeerate

\* A bucket is either stored in this round or as it was before the round.
BucketsStored ==
  \A i \in 1..Stores :
    IF i <= stored
      THEN fees[Bucket(i)] = Stored(Bucket(i), estimate[Source(Bucket(i))])
      ELSE fees[Bucket(i)] = before[Bucket(i)]

\* A failed call has the value its bucket had before the round.
FailuresRead ==
  \A i \in 1..Calls :
    Call(i) \in failed => i <= asked /\ estimate[Call(i)] = before[Previous(Call(i))]

\* Between rounds the four background buckets agree, the first one apart.
Aligned ==
  /\ before["ChannelCloseMinimum"] = before["AnchorChannelFee"]
  /\ before["OutputSpendingFee"] = before["AnchorChannelFee"]
  /\ ~first => before[MinNonAnchor] = SaturatingSub(before["AnchorChannelFee"], 250)

FeeInv ==
  /\ TypeOK
  /\ AskedBeforeStored
  /\ EstimatesFloored
  /\ FeesFloored
  /\ BucketsStored
  /\ FailuresRead
  /\ Aligned
  /\ MinBelowBackground

\* The tables: the calls and the buckets by number are all there are.
LEMMA Tables ==
  /\ \A i \in 1..Calls : Call(i) \in Estimates
  /\ \A e \in Estimates : Previous(e) \in Targets \ {MinNonAnchor}
  /\ \A i \in 1..Stores : Bucket(i) \in Targets
  /\ \A t \in Targets : Source(t) \in Estimates
  /\ \A t \in Targets : \E i \in 1..Stores : t = Bucket(i)
  /\ \A e \in Estimates : \E i \in 1..Calls : e = Call(i)
<1>1. 1..Calls = {1, 2, 3, 4, 5} /\ 1..Stores = {1, 2, 3, 4, 5, 6, 7, 8}
  BY DEF Calls, Stores
<1>2. \A i \in 1..Calls : Call(i) \in Estimates
  BY <1>1 DEF Call, Estimates
<1>3. \A e \in Estimates : Previous(e) \in Targets \ {MinNonAnchor}
  BY DEF Estimates, Previous, Targets, MinNonAnchor
<1>4. \A i \in 1..Stores : Bucket(i) \in Targets
  BY <1>1 DEF Bucket, Targets
<1>5. \A t \in Targets : Source(t) \in Estimates
  BY DEF Source, Estimates
<1>6. \A t \in Targets : \E i \in 1..Stores : t = Bucket(i)
  BY <1>1 DEF Bucket, Targets
<1>7. \A e \in Estimates : \E i \in 1..Calls : e = Call(i)
  BY <1>1 DEF Call, Estimates
<1> QED
  BY <1>2, <1>3, <1>4, <1>5, <1>6, <1>7

\* No call and no bucket has two numbers.
LEMMA Distinct ==
  /\ \A i, j \in 1..Calls : Call(i) = Call(j) => i = j
  /\ \A i, j \in 1..Stores : Bucket(i) = Bucket(j) => i = j
<1>1. 1..Calls = {1, 2, 3, 4, 5} /\ 1..Stores = {1, 2, 3, 4, 5, 6, 7, 8}
  BY DEF Calls, Stores
<1>2. \A i, j \in 1..Calls : Call(i) = Call(j) => i = j
  BY <1>1 DEF Call
<1>3. \A i, j \in 1..Stores : Bucket(i) = Bucket(j) => i = j
  BY <1>1 DEF Bucket
<1> QED
  BY <1>2, <1>3

\* What an estimate can be: a rate of 32 bits, no less than the minimum.
LEMMA EstimateRange ==
  ASSUME MaxU32 \in Nat
  PROVE  /\ \A r \in Nat : AtLeastMin(SatPerKw(r)) \in MinFeerate..MaxU32
         /\ \A e \in Estimates : Fallback(e) \in MinFeerate..MaxU32
<1>1. MaxU32 >= 50000
  BY MaxU32Assumption
<1>2. ASSUME NEW r \in Nat
      PROVE  AtLeastMin(SatPerKw(r)) \in MinFeerate..MaxU32
  <2>1. (r + 2) \div 4 \in Nat
    OBVIOUS
  <2>2. SatPerKw(r) \in 0..MaxU32
    BY <2>1 DEF SatPerKw
  <2> QED
    BY <1>1, <2>2 DEF AtLeastMin, MinFeerate
<1>3. \A e \in Estimates : Fallback(e) \in MinFeerate..MaxU32
  BY <1>1 DEF Fallback, MinFeerate, Estimates
<1> QED
  BY <1>2, <1>3

\* The map that new() makes satisfies the invariant.
LEMMA FeeInvInit == FeeInit => FeeInv
<1> SUFFICES ASSUME FeeInit PROVE FeeInv
  OBVIOUS
<1> USE DEF FeeInit
<1>1. MaxU32 \in Nat /\ MaxU32 >= 50000
  BY MaxU32Assumption
<1>2. \A t \in Targets : InitialFee(t) \in MinFeerate..MaxU32
  BY <1>1 DEF InitialFee, MinFeerate, Targets
<1>3. TypeOK
  BY <1>1, <1>2 DEF TypeOK, Calls, Stores, MinFeerate
<1>4. FeesFloored
  BY <1>2 DEF FeesFloored, MinFeerate
<1>5. AskedBeforeStored /\ EstimatesFloored /\ BucketsStored /\ FailuresRead
  BY DEF AskedBeforeStored, EstimatesFloored, BucketsStored, FailuresRead, Calls, Stores
<1>6. Aligned /\ MinBelowBackground
  BY DEF Aligned, MinBelowBackground, InitialFee, Targets, MinNonAnchor, MinFeerate
<1> QED
  BY <1>3, <1>4, <1>5, <1>6 DEF FeeInv

\* A call that returns, whatever it returned: f is in range, and failed grows
\* by this call only if f is the previous value.
LEMMA EstimatedKeepsInv ==
  ASSUME FeeInv, Asking, NEW f \in MinFeerate..MaxU32, Estimated(f),
         \/ failed' = failed
         \/ /\ f = fees[Previous(Call(asked + 1))]
            /\ failed' = failed \cup {Call(asked + 1)}
  PROVE  FeeInv'
<1>1. TypeOK /\ asked + 1 \in 1..Calls /\ stored = 0 /\ asked \in Nat /\ asked' = asked + 1
  BY DEF FeeInv, TypeOK, AskedBeforeStored, Asking, Estimated, Calls
<1>2. /\ Call(asked + 1) \in Estimates
      /\ \A i \in 1..Calls : i # asked + 1 => Call(i) # Call(asked + 1)
  BY <1>1, Tables, Distinct
<1>3. MaxU32 \in Nat /\ f \in 0..MaxU32 /\ f >= MinFeerate
  BY MaxU32Assumption DEF MinFeerate
<1>4. TypeOK'
  BY <1>1, <1>2, <1>3 DEF TypeOK, Estimated, Calls, Stores
<1>5. AskedBeforeStored'
  BY <1>1 DEF AskedBeforeStored, Estimated
<1>6. EstimatesFloored'
  <2> SUFFICES ASSUME NEW i \in 1..Calls, i <= asked + 1
               PROVE  estimate'[Call(i)] >= MinFeerate
    BY <1>1 DEF EstimatesFloored
  <2>1. CASE i = asked + 1
    BY <2>1, <1>1, <1>2, <1>3 DEF Estimated, TypeOK
  <2>2. CASE i # asked + 1
    <3>1. estimate'[Call(i)] = estimate[Call(i)]
      BY <2>2, <1>1, <1>2, Tables DEF Estimated, TypeOK
    <3>2. i <= asked
      BY <2>2, <1>1
    <3> QED
      BY <3>1, <3>2 DEF FeeInv, EstimatesFloored
  <2> QED
    BY <2>1, <2>2
<1>7. FeesFloored' /\ Aligned' /\ MinBelowBackground'
  BY DEF FeeInv, FeesFloored, Aligned, MinBelowBackground, Estimated
<1>8. BucketsStored'
  BY <1>1 DEF FeeInv, BucketsStored, Estimated, Stores
<1>9. FailuresRead'
  <2> SUFFICES ASSUME NEW i \in 1..Calls, Call(i) \in failed'
               PROVE  i <= asked + 1 /\ estimate'[Call(i)] = before[Previous(Call(i))]
    BY <1>1 DEF FailuresRead, Estimated
  <2>1. CASE i # asked + 1
    <3>1. Call(i) \in failed
      BY <2>1, <1>2
    <3>2. i <= asked /\ estimate[Call(i)] = before[Previous(Call(i))]
      BY <3>1 DEF FeeInv, FailuresRead
    <3>3. estimate'[Call(i)] = estimate[Call(i)]
      BY <2>1, <1>1, <1>2, Tables DEF Estimated, TypeOK
    <3> QED
      BY <3>2, <3>3, <1>1
  <2>2. CASE i = asked + 1
    <3>1. Call(i) \notin failed
      BY <2>2, <1>1 DEF FeeInv, FailuresRead
    <3>2. f = fees[Previous(Call(i))]
      BY <3>1, <2>2
    <3>3. Previous(Call(i)) \in Targets
      BY Tables
    <3>4. PICK k \in 1..Stores : Previous(Call(i)) = Bucket(k)
      BY <3>3, Tables
    <3>5. fees[Bucket(k)] = before[Bucket(k)]
      BY <1>1, <3>4 DEF FeeInv, BucketsStored, Stores
    <3>6. estimate'[Call(i)] = f
      BY <2>2, <1>1, <1>2 DEF Estimated, TypeOK
    <3> QED
      BY <2>2, <1>1, <3>2, <3>4, <3>5, <3>6
  <2> QED
    BY <2>1, <2>2
<1> QED
  BY <1>4, <1>5, <1>6, <1>7, <1>8, <1>9 DEF FeeInv

\* store_fee: all estimates are there, so the bucket gets one of at least the
\* minimum; the bound on proposals is the fourth, its reference the fifth.
LEMMA StoreKeepsInv ==
  ASSUME FeeInv, Store
  PROVE  FeeInv'
<1> DEFINE t == Bucket(stored + 1)
           f == estimate[Source(t)]
<1>1. /\ TypeOK /\ asked = Calls /\ stored \in Nat /\ stored + 1 \in 1..Stores
      /\ stored' = stored + 1
  BY DEF FeeInv, TypeOK, Store, Asking, Calls, Stores
<1>2. /\ t \in Targets /\ Source(t) \in Estimates
      /\ \A i \in 1..Stores : i # stored + 1 => Bucket(i) # t
      /\ \A i \in 1..Stores : Bucket(i) \in Targets
  BY <1>1, Tables, Distinct
<1>3. \A e \in Estimates : estimate[e] \in 0..MaxU32 /\ estimate[e] >= MinFeerate
  BY <1>1, Tables DEF FeeInv, EstimatesFloored, TypeOK, Calls
<1>4. f \in 0..MaxU32 /\ f >= MinFeerate
  BY <1>2, <1>3
<1>5. Stored(t, f) \in 0..MaxU32
  BY <1>4, MaxU32Assumption DEF Stored, SaturatingSub
<1>6. fees' = [fees EXCEPT ![t] = Stored(t, f)]
  BY DEF Store
<1> HIDE DEF t, f
<1>7. TypeOK'
  BY <1>1, <1>2, <1>5, <1>6 DEF TypeOK, Store, Calls, Stores
<1>8. AskedBeforeStored' /\ EstimatesFloored' /\ FailuresRead' /\ Aligned'
  BY <1>1 DEF FeeInv, AskedBeforeStored, EstimatesFloored, FailuresRead, Aligned, Store, Calls
<1>9. FeesFloored'
  <2> SUFFICES ASSUME NEW u \in Targets \ {MinNonAnchor}
               PROVE  fees'[u] >= MinFeerate
    BY DEF FeesFloored
  <2>1. CASE u = t
    BY <2>1, <1>1, <1>2, <1>4, <1>6 DEF Stored, TypeOK
  <2>2. CASE u # t
    BY <2>2, <1>1, <1>2, <1>6 DEF FeeInv, FeesFloored, TypeOK
  <2> QED
    BY <2>1, <2>2
<1>10. BucketsStored'
  <2> SUFFICES ASSUME NEW i \in 1..Stores
               PROVE  IF i <= stored + 1
                        THEN fees'[Bucket(i)] = Stored(Bucket(i), estimate[Source(Bucket(i))])
                        ELSE fees'[Bucket(i)] = before[Bucket(i)]
    BY <1>1 DEF BucketsStored, Store
  <2>1. CASE i = stored + 1
    BY <2>1, <1>1, <1>2, <1>6 DEF TypeOK, t, f
  <2>2. CASE i # stored + 1
    <3>1. fees'[Bucket(i)] = fees[Bucket(i)]
      BY <2>2, <1>1, <1>2, <1>6 DEF TypeOK
    <3>2. i <= stored + 1 <=> i <= stored
      BY <2>2, <1>1
    <3> QED
      BY <3>1, <3>2 DEF FeeInv, BucketsStored
  <2> QED
    BY <2>1, <2>2
<1>11. MinBelowBackground'
  <2>1. CASE stored + 1 < 4
    <3>1. t \notin {MinNonAnchor, "AnchorChannelFee"}
      BY <2>1, <1>1 DEF t, Bucket, MinNonAnchor
    <3>2. fees[MinNonAnchor] <= fees["AnchorChannelFee"]
      BY <2>1, <1>1 DEF FeeInv, MinBelowBackground
    <3> QED
      BY <3>1, <3>2, <1>1, <1>2, <1>6 DEF MinBelowBackground, TypeOK, Targets, MinNonAnchor
  <2>2. CASE stored + 1 = 4
    BY <2>2, <1>1 DEF MinBelowBackground
  <2>3. CASE stored + 1 > 4
    <3>1. 4 \in 1..Stores /\ 5 \in 1..Stores /\ 4 <= stored' /\ 5 <= stored'
      BY <2>3, <1>1 DEF Stores
    <3>2. /\ Bucket(4) = MinNonAnchor /\ Bucket(5) = "AnchorChannelFee"
          /\ Source(MinNonAnchor) = "background" /\ Source("AnchorChannelFee") = "background"
      BY DEF Bucket, Source, MinNonAnchor
    <3>3. /\ fees'[MinNonAnchor] = Stored(MinNonAnchor, estimate'["background"])
          /\ fees'["AnchorChannelFee"] = Stored("AnchorChannelFee", estimate'["background"])
      BY <1>10, <3>1, <3>2 DEF BucketsStored
    <3>4. estimate'["background"] \in Nat
      BY <1>3, MaxU32Assumption DEF Store, Estimates
    <3> QED
      BY <3>3, <3>4 DEF MinBelowBackground, Stored, SaturatingSub, MinNonAnchor
  <2> QED
    BY <2>1, <2>2, <2>3, <1>1
<1> QED
  BY <1>7, <1>8, <1>9, <1>10, <1>11 DEF FeeInv

\* The next round begins: all eight buckets are stored, hence aligned.
LEMMA SleepOverKeepsInv ==
  ASSUME FeeInv, SleepOver
  PROVE  FeeInv'
<1>1. TypeOK /\ stored = Stores /\ asked' = 0 /\ stored' = 0 /\ fees' = fees /\ before' = fees
  BY DEF FeeInv, SleepOver, Resting
<1>2. TypeOK'
  <2>1. 0 \in 0..Calls /\ 0 \in 0..Stores
    BY DEF Calls, Stores
  <2> QED
    BY <1>1, <2>1 DEF TypeOK, SleepOver
<1>3. AskedBeforeStored' /\ EstimatesFloored' /\ FailuresRead' /\ BucketsStored'
  BY <1>1 DEF AskedBeforeStored, EstimatesFloored, FailuresRead, BucketsStored, SleepOver, Calls, Stores
<1>4. FeesFloored' /\ MinBelowBackground'
  BY <1>1 DEF FeeInv, FeesFloored, MinBelowBackground, Stores
<1>5. Aligned'
  <2>1. \A i \in 1..8 : fees[Bucket(i)] = Stored(Bucket(i), estimate[Source(Bucket(i))])
    BY <1>1 DEF FeeInv, BucketsStored, Stores
  <2>2. /\ Bucket(4) = MinNonAnchor /\ Bucket(5) = "AnchorChannelFee"
        /\ Bucket(7) = "ChannelCloseMinimum" /\ Bucket(8) = "OutputSpendingFee"
    BY DEF Bucket, MinNonAnchor
  <2>3. \A u \in {MinNonAnchor, "AnchorChannelFee", "ChannelCloseMinimum", "OutputSpendingFee"} :
          Source(u) = "background"
    BY DEF Source, MinNonAnchor
  <2>4. \A u \in {MinNonAnchor, "AnchorChannelFee", "ChannelCloseMinimum", "OutputSpendingFee"} :
          fees[u] = Stored(u, estimate["background"])
    BY <2>1, <2>2, <2>3
  <2> QED
    BY <2>4, <1>1 DEF Aligned, Stored, MinNonAnchor
<1> QED
  BY <1>2, <1>3, <1>4, <1>5 DEF FeeInv

\* Every step of the poll keeps the invariant.
LEMMA FeeInvNext == FeeInv /\ [Poll]_feeVars => FeeInv'
<1> SUFFICES ASSUME FeeInv, [Poll]_feeVars PROVE FeeInv'
  OBVIOUS
<1>1. MaxU32 \in Nat
  BY MaxU32Assumption
<1>2. ASSUME NEW r \in Rates, Answered(r) PROVE FeeInv'
  <2>1. AtLeastMin(SatPerKw(r)) \in MinFeerate..MaxU32
    BY <1>1, RatesAssumption, EstimateRange
  <2> QED
    BY <1>2, <2>1, EstimatedKeepsInv DEF Answered
<1>3. CASE NoEstimate
  <2>1. Call(asked + 1) \in Estimates
    BY <1>3, Tables DEF NoEstimate, Asking, FeeInv, TypeOK, Calls
  <2>2. Fallback(Call(asked + 1)) \in MinFeerate..MaxU32
    BY <1>1, <2>1, EstimateRange
  <2> QED
    BY <1>3, <2>2, EstimatedKeepsInv DEF NoEstimate
<1>4. CASE CallFails
  <2>1. Call(asked + 1) \in Estimates
    BY <1>4, Tables DEF CallFails, Asking, FeeInv, TypeOK, Calls
  <2>2. Previous(Call(asked + 1)) \in Targets \ {MinNonAnchor}
    BY <2>1, Tables
  <2>3. fees[Previous(Call(asked + 1))] \in MinFeerate..MaxU32
    BY <1>1, <2>2 DEF FeeInv, TypeOK, FeesFloored, MinFeerate
  <2> QED
    BY <1>4, <2>3, EstimatedKeepsInv DEF CallFails
<1>5. CASE Store
  BY <1>5, StoreKeepsInv
<1>6. CASE SleepOver
  BY <1>6, SleepOverKeepsInv
<1>7. CASE UNCHANGED feeVars
  BY <1>7 DEF feeVars, FeeInv, TypeOK, AskedBeforeStored, EstimatesFloored, FeesFloored,
              BucketsStored, FailuresRead, Aligned, MinBelowBackground
<1> QED
  BY <1>2, <1>3, <1>4, <1>5, <1>6, <1>7 DEF Poll

\* The invariant: what a failed call keeps follows from it.
LEMMA FeeInvKeepsFees == FeeInv => FailureKeepsFees
<1> SUFFICES ASSUME FeeInv, NEW t \in Targets, Source(t) \in failed, ~(first /\ t = MinNonAnchor)
             PROVE  fees[t] = before[t]
  BY DEF FailureKeepsFees
<1>1. PICK i \in 1..Stores : t = Bucket(i)
  BY Tables
<1>2. CASE i > stored
  BY <1>1, <1>2 DEF FeeInv, BucketsStored, TypeOK, Stores
<1>3. CASE i <= stored
  <2>1. fees[t] = Stored(t, estimate[Source(t)])
    BY <1>1, <1>3 DEF FeeInv, BucketsStored
  <2>2. Source(t) \in Estimates
    BY Tables
  <2>3. estimate[Source(t)] = before[Previous(Source(t))]
    BY <2>2, Tables DEF FeeInv, FailuresRead
  <2>4. fees[t] = Stored(t, before[Previous(Source(t))])
    BY <2>1, <2>3
  <2>5. CASE t = MinNonAnchor
    <3>1. Previous(Source(t)) = "AnchorChannelFee"
      BY <2>5 DEF Previous, Source, MinNonAnchor
    <3> QED
      BY <2>4, <2>5, <3>1 DEF FeeInv, Aligned, Stored
  <2>6. CASE t # MinNonAnchor
    <3>1. \/ Previous(Source(t)) = t
          \/ /\ t \in {"ChannelCloseMinimum", "OutputSpendingFee"}
             /\ Previous(Source(t)) = "AnchorChannelFee"
      BY <2>6 DEF Previous, Source, Targets, MinNonAnchor
    <3> QED
      BY <2>4, <2>6, <3>1 DEF FeeInv, Aligned, Stored
  <2> QED
    BY <2>5, <2>6
<1> QED
  BY <1>1, <1>2, <1>3 DEF FeeInv, TypeOK, Stores

(***************************************************************************)
(* The invariant of the poll holds in every reachable state.               *)
(***************************************************************************)
THEOREM FeePollingInvariant == FeeSpec => []FeeInv
  BY FeeInvInit, FeeInvNext, PTL DEF FeeSpec

(***************************************************************************)
(* No rate under LDK's minimum is ever in a bucket but the one exempt, in  *)
(* whatever way the calls of poll_for_fee_estimates end.                   *)
(***************************************************************************)
THEOREM FeesAlwaysFloored == FeeSpec => []FeesFloored
<1>1. FeeInv => FeesFloored
  BY DEF FeeInv
<1> QED
  BY <1>1, FeePollingInvariant, PTL

(***************************************************************************)
(* The buckets of an estimate whose call failed keep their values, but for *)
(* MinAllowedNonAnchorChannelRemoteFee in the first round.                 *)
(***************************************************************************)
THEOREM FailuresKeepFees == FeeSpec => []FailureKeepsFees
  BY FeeInvKeepsFees, FeePollingInvariant, PTL

(***************************************************************************)
(* The bound on what peers propose exceeds the background rate only        *)
(* between two given stores of poll_for_fee_estimates.                     *)
(***************************************************************************)
THEOREM MinAlmostAlwaysBelow == FeeSpec => []MinBelowBackground
<1>1. FeeInv => MinBelowBackground
  BY DEF FeeInv
<1> QED
  BY <1>1, FeePollingInvariant, PTL

(***************************************************************************)
(* Buckets, estimates and the place in the round keep their types: no rate *)
(* that poll_for_fee_estimates stores exceeds the width of its atomic.     *)
(***************************************************************************)
THEOREM FeeTypes == FeeSpec => []TypeOK
<1>1. FeeInv => TypeOK
  BY DEF FeeInv
<1> QED
  BY <1>1, FeePollingInvariant, PTL
=============================================================================
