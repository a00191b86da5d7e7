--------------------------- MODULE ProbingProofs ---------------------------
(***************************************************************************)
(* Theorems about the probe tracker under callers that may do anything,    *)
(* for every set of hashes, every TTL and every cap, and about the tracker *)
(* with the probing task, for every list of peers and amounts, every graph *)
(* and any number of restarts.                                             *)
(*                                                                         *)
(* The task's invariant says where the one probe it waits for is: Matched  *)
(* relates the three maps, the oneshot channel and LDK's view of that      *)
(* probe at each await point of the attempt, and Tracked says the same of  *)
(* all others, that LDK may still answer.                                  *)
(***************************************************************************)
EXTENDS Probing, FiniteSetTheorems, WellFoundedInduction, TLAPS

\* The type of timed_out_probes.
AgeMap == [Hash -> Ages \cup {NoEntry}]

(***************************************************************************)
(* What prune_timed_out_probes returns: a map in which every entry is the  *)
(* former one or gone, with no more than MaxTimedOut of them.              *)
(***************************************************************************)
LEMMA PrunedMap ==
  ASSUME NEW m \in AgeMap, NEW r \in Pruned(m)
  PROVE  /\ r \in AgeMap
         /\ \A h \in Hash : r[h] = m[h] \/ r[h] = NoEntry
         /\ IsFiniteSet(Entries(r))
         /\ Cardinality(Entries(r)) <= MaxTimedOut
<1>1. PICK S \in Oldest(m, Excess(m)) : r = Keep(m, Live(m) \ S)
  BY DEF Pruned
<1>2. /\ S \subseteq Live(m)
      /\ Cardinality(S) = Excess(m)
  BY DEF Oldest
<1>3. /\ r \in AgeMap
      /\ \A h \in Hash : r[h] = m[h] \/ r[h] = NoEntry
  BY <1>1 DEF Keep, AgeMap
<1>4. Entries(r) = Live(m) \ S
  BY <1>1 DEF Keep, Entries, Live
<1>5. IsFiniteSet(Live(m)) /\ IsFiniteSet(S) /\ IsFiniteSet(Live(m) \ S)
  <2>1. Live(m) \subseteq Hash
    BY DEF Live, Entries
  <2> QED
    BY <2>1, <1>2, HashAssumption, FS_Subset
<1>6. Cardinality(Live(m)) \in Nat /\ Cardinality(S) \in Nat
  BY <1>5, FS_CardinalityType
<1>7. Cardinality(Live(m) \ S) = Cardinality(Live(m)) - Cardinality(S)
  <2>1. Cardinality(Live(m) \ S) = Cardinality(Live(m)) - Cardinality(Live(m) \cap S)
    BY <1>5, FS_Difference
  <2>2. Live(m) \cap S = S
    BY <1>2
  <2> QED
    BY <2>1, <2>2
<1>8. Cardinality(Live(m) \ S) <= MaxTimedOut
  BY <1>2, <1>6, <1>7, MaxTimedOutAssumption DEF Excess
<1> QED
  BY <1>3, <1>4, <1>5, <1>8

\* Overwriting one entry of a map adds at most one entry to it.
LEMMA OneMoreEntry ==
  ASSUME NEW m \in AgeMap, NEW h \in Hash, NEW a \in Ages \cup {NoEntry},
         IsFiniteSet(Entries(m)), Cardinality(Entries(m)) <= MaxTimedOut
  PROVE  Cardinality(Entries([m EXCEPT ![h] = a])) <= MaxTimedOut + 1
<1> DEFINE E == Entries(m)
           F == Entries([m EXCEPT ![h] = a])
<1>1. F \subseteq E \cup {h}
  BY DEF Entries, AgeMap
<1>2. /\ IsFiniteSet(E \cup {h})
      /\ Cardinality(E \cup {h}) <= Cardinality(E) + 1
  <2> HIDE DEF E
  <2>1. IsFiniteSet(E)
    BY DEF E
  <2>2. /\ IsFiniteSet(E \cup {h})
        /\ Cardinality(E \cup {h}) = IF h \in E THEN Cardinality(E) ELSE Cardinality(E) + 1
    BY <2>1, FS_AddElement
  <2>3. Cardinality(E) \in Nat
    BY <2>1, FS_CardinalityType
  <2> QED
    BY <2>2, <2>3
<1>3. Cardinality(F) <= Cardinality(E \cup {h}) /\ Cardinality(F) \in Nat
  BY <1>1, <1>2, FS_Subset, FS_CardinalityType
<1>4. Cardinality(E) \in Nat /\ Cardinality(E \cup {h}) \in Nat
  BY <1>2, FS_CardinalityType
<1> HIDE DEF E, F
<1>5. Cardinality(E) <= MaxTimedOut
  BY DEF E
<1> QED
  BY <1>2, <1>3, <1>4, <1>5, MaxTimedOutAssumption DEF F

-----------------------------------------------------------------------------

\* The three invariants are inductive together.
TrackerInv == TrackerTypeOK /\ OneEntryPerHash /\ TimedOutBounded

\* A new tracker, with its three maps empty, satisfies the invariant.
LEMMA TrackerInvInit == TrackerInit => TrackerInv
<1> SUFFICES ASSUME TrackerInit PROVE TrackerInv
  OBVIOUS
<1>1. Entries(timedOut) = {}
  BY DEF TrackerInit, NewTracker, Entries
<1>2. TimedOutBounded
  BY <1>1, FS_EmptySet, MaxTimedOutAssumption DEF TimedOutBounded
<1>3. TrackerTypeOK /\ OneEntryPerHash
  BY DEF TrackerInit, NewTracker, TrackerTypeOK, OneEntryPerHash
<1> QED
  BY <1>2, <1>3 DEF TrackerInv

\* register_probe preserves the invariant: the hash it makes pending leaves
\* the other two maps.
LEMMA RegisterProbeInv ==
  ASSUME TrackerInv, NEW h \in Hash, RegisterProbe(h)
  PROVE  TrackerInv'
<1>0. timedOut \in AgeMap
  BY DEF TrackerInv, TrackerTypeOK, AgeMap
<1>1. PICK m \in Pruned(timedOut) : timedOut' = [m EXCEPT ![h] = NoEntry]
  BY DEF RegisterProbe
<1>2. /\ m \in AgeMap
      /\ \A k \in Hash : m[k] = timedOut[k] \/ m[k] = NoEntry
      /\ IsFiniteSet(Entries(m))
      /\ Cardinality(Entries(m)) <= MaxTimedOut
  BY <1>0, <1>1, PrunedMap
<1>3. TimedOutBounded'
  BY <1>1, <1>2, OneMoreEntry DEF TimedOutBounded, Entries
<1>4. TrackerTypeOK'
  <2>1. timedOut' \in AgeMap
    BY <1>1, <1>2 DEF AgeMap
  <2> QED
    BY <2>1 DEF TrackerInv, TrackerTypeOK, RegisterProbe, AgeMap, Outcome
<1>5. OneEntryPerHash'
  BY <1>1, <1>2 DEF TrackerInv, TrackerTypeOK, OneEntryPerHash, RegisterProbe, AgeMap
<1> QED
  BY <1>3, <1>4, <1>5 DEF TrackerInv

\* complete_probe preserves the invariant in each of its three cases: the late
\* result discarded, the awaited one sent, the early one buffered.
LEMMA CompleteProbeInv ==
  ASSUME TrackerInv, NEW h \in Hash, NEW o \in Outcome, CompleteProbe(h, o)
  PROVE  TrackerInv'
<1>0. timedOut \in AgeMap
  BY DEF TrackerInv, TrackerTypeOK, AgeMap
<1>1. PICK m \in Pruned(timedOut) :
        /\ timedOut' = [m EXCEPT ![h] = NoEntry]
        /\ \/ /\ m[h] # NoEntry
              /\ UNCHANGED <<pending, completed, channel>>
           \/ /\ m[h] = NoEntry
              /\ h \in pending
              /\ pending' = pending \ {h}
              /\ channel' = [channel EXCEPT ![h] = IF @ = "open" THEN o ELSE @]
              /\ UNCHANGED completed
           \/ /\ m[h] = NoEntry
              /\ h \notin pending
              /\ completed' = [completed EXCEPT ![h] = o]
              /\ UNCHANGED <<pending, channel>>
  BY DEF CompleteProbe
<1>2. /\ m \in AgeMap
      /\ \A k \in Hash : m[k] = timedOut[k] \/ m[k] = NoEntry
      /\ IsFiniteSet(Entries(m))
      /\ Cardinality(Entries(m)) <= MaxTimedOut
  BY <1>0, <1>1, PrunedMap
<1>3. TimedOutBounded'
  BY <1>1, <1>2, OneMoreEntry DEF TimedOutBounded, Entries
<1>4. TrackerTypeOK'
  BY <1>1, <1>2 DEF TrackerInv, TrackerTypeOK, AgeMap, Outcome
<1>5. OneEntryPerHash'
  BY <1>1, <1>2 DEF TrackerInv, TrackerTypeOK, OneEntryPerHash, AgeMap
<1> QED
  BY <1>3, <1>4, <1>5 DEF TrackerInv

\* mark_timed_out preserves the invariant: it prunes before it inserts, and the
\* hash leaves pending_probes and completed_probes.
LEMMA MarkTimedOutInv ==
  ASSUME TrackerInv, NEW h \in Hash, MarkTimedOut(h)
  PROVE  TrackerInv'
<1>0. timedOut \in AgeMap
  BY DEF TrackerInv, TrackerTypeOK, AgeMap
<1>1. PICK m \in Pruned(timedOut) : timedOut' = [m EXCEPT ![h] = 0]
  BY DEF MarkTimedOut
<1>2. /\ m \in AgeMap
      /\ \A k \in Hash : m[k] = timedOut[k] \/ m[k] = NoEntry
      /\ IsFiniteSet(Entries(m))
      /\ Cardinality(Entries(m)) <= MaxTimedOut
  BY <1>0, <1>1, PrunedMap
<1>a. 0 \in Ages
  BY TtlAssumption DEF Ages
<1>3. TimedOutBounded'
  BY <1>1, <1>2, <1>a, OneMoreEntry DEF TimedOutBounded, Entries
<1>4. TrackerTypeOK'
  BY <1>1, <1>2, <1>a DEF TrackerInv, TrackerTypeOK, MarkTimedOut, AgeMap, Outcome
<1>5. OneEntryPerHash'
  BY <1>1, <1>2 DEF TrackerInv, TrackerTypeOK, OneEntryPerHash, MarkTimedOut, AgeMap
<1> QED
  BY <1>3, <1>4, <1>5 DEF TrackerInv

\* Dropping a receiver does not touch the maps.
LEMMA ReleaseReceiverInv ==
  ASSUME TrackerInv, NEW h \in Hash, ReleaseReceiver(h)
  PROVE  TrackerInv'
<1>1. TrackerTypeOK' /\ OneEntryPerHash'
  BY DEF TrackerInv, TrackerTypeOK, OneEntryPerHash, ReleaseReceiver
<1>2. TimedOutBounded'
  BY DEF TrackerInv, TimedOutBounded, Entries, ReleaseReceiver
<1> QED
  BY <1>1, <1>2 DEF TrackerInv

\* The passage of time ages entries of timed_out_probes; it adds or drops none.
LEMMA TickInv ==
  ASSUME TrackerInv, Tick
  PROVE  TrackerInv'
<1>1. \A h \in Hash : /\ timedOut'[h] \in Ages \cup {NoEntry}
                      /\ timedOut'[h] = NoEntry <=> timedOut[h] = NoEntry
  BY TtlAssumption DEF TrackerInv, TrackerTypeOK, Tick, Ages, NoEntry
<1>2. Entries(timedOut') = Entries(timedOut)
  BY <1>1 DEF Entries
<1>3. TrackerTypeOK'
  BY <1>1 DEF TrackerInv, TrackerTypeOK, Tick
<1>4. OneEntryPerHash'
  BY <1>1 DEF TrackerInv, OneEntryPerHash, Tick
<1>5. TimedOutBounded'
  BY <1>2 DEF TrackerInv, TimedOutBounded, Entries
<1> QED
  BY <1>3, <1>4, <1>5 DEF TrackerInv

\* The invariant is inductive over the methods of the tracker.
LEMMA TrackerInvNext == TrackerInv /\ [TrackerNext]_trackerVars => TrackerInv'
<1> SUFFICES ASSUME TrackerInv, [TrackerNext]_trackerVars PROVE TrackerInv'
  OBVIOUS
<1>1. CASE UNCHANGED trackerVars
  BY <1>1 DEF trackerVars, TrackerInv, TrackerTypeOK, OneEntryPerHash, TimedOutBounded, Entries
<1>2. CASE TrackerNext
  BY <1>2, RegisterProbeInv, CompleteProbeInv, MarkTimedOutInv, ReleaseReceiverInv, TickInv
     DEF TrackerNext
<1> QED
  BY <1>1, <1>2

(***************************************************************************)
(* The types of the three maps and of the channels, the disjointness of    *)
(* the maps and the bound on timed_out_probes hold in every state of the   *)
(* tracker, under callers that may call its methods in any order.          *)
(***************************************************************************)
THEOREM TrackerInvariant == TrackerSpec => []TrackerInv
BY TrackerInvInit, TrackerInvNext, PTL DEF TrackerSpec

\* The methods keep every map within its type: in particular an age that
\* prune_timed_out_probes compares with the TTL is never negative.
THEOREM TrackerTypes == TrackerSpec => []TrackerTypeOK
<1>1. TrackerInv => TrackerTypeOK
  BY DEF TrackerInv
<1> QED
  BY <1>1, TrackerInvariant, PTL

\* register_probe, complete_probe and mark_timed_out keep every hash in at
\* most one of the three maps.
THEOREM TrackerDisjoint == TrackerSpec => []OneEntryPerHash
<1>1. TrackerInv => OneEntryPerHash
  BY DEF TrackerInv
<1> QED
  BY <1>1, TrackerInvariant, PTL

\* prune_timed_out_probes keeps timed_out_probes within one entry of its cap.
THEOREM TrackerBounded == TrackerSpec => []TimedOutBounded
<1>1. TrackerInv => TimedOutBounded
  BY DEF TrackerInv
<1> QED
  BY <1>1, TrackerInvariant, PTL

-----------------------------------------------------------------------------
(***************************************************************************)
(* The probing task with its tracker.                                      *)
(***************************************************************************)

\* An attempt has a hash from send_probe to its end, and the loop over the
\* peers is at one while an attempt on a peer runs.
Places ==
  /\ hash # NoHash <=> pc \in {"register", "await", "elapsed"}
  /\ pc = "peer_delay" => peerIdx < Len(Peers)
  /\ mode = "whitelist" /\ pc \in {"send", "register", "await", "elapsed", "delay"} =>
       peerIdx <= Len(Peers)

\* Where the result of the current attempt is.
Matched ==
  /\ hash # NoHash => ldk[hash] # "unused"
  /\ pc \in {"register", "await"} => timedOut[hash] = NoEntry
  /\ pc = "register" /\ ~poisoned =>
       /\ hash \notin pending
       /\ IF ldk[hash] = "inflight" THEN completed[hash] = "none" ELSE completed[hash] = ldk[hash]
  /\ pc = "await" => channel[hash] \in {"open", ldk[hash]}
  /\ pc = "await" /\ ~poisoned => (channel[hash] = "open" <=> ldk[hash] = "inflight")
  /\ pc \in {"await", "elapsed"} /\ ~poisoned => (hash \in pending <=> ldk[hash] = "inflight")

\* A probe LDK may still answer is the current one, or is known to have timed
\* out, or is one the tracker has lost the timeout of.
Tracked ==
  ~poisoned => \A h \in Hash : ldk[h] = "inflight" => h \in orphan \/ h = hash \/ timedOut[h] # NoEntry

\* The probes sent to the current peer: one for each amount so far, the last one
\* the current attempt, the others, and it too where the loop goes on, successful.
Climbed(n) == \A i \in 1 .. n : ldk[ladder[i]] = "success"

Ladder ==
  /\ Climbed(Len(ladder) - 1)
  /\ mode = "whitelist" =>
       /\ pc = "send" => amountIdx = Len(ladder) + 1 /\ Climbed(Len(ladder))
       /\ hash # NoHash => amountIdx = Len(ladder) /\ ladder[Len(ladder)] = hash
       /\ pc = "delay" /\ completion = "success" =>
            amountIdx = Len(ladder) /\ Climbed(Len(ladder))

ProbingInv ==
  /\ TypeOK /\ OneEntryPerHash /\ TimedOutBounded
  /\ Places /\ Matched /\ Tracked /\ Ladder
  /\ NoStrandedSender /\ BufferedIsExplained

-----------------------------------------------------------------------------
(***************************************************************************)
(* Sorting: the order the amounts are brought into exists, so the sorted   *)
(* amounts ascend.                                                         *)
(***************************************************************************)

\* A set of numbers has a least one; what this says of the counterexamples of
\* a claim is induction.
LEMMA Least ==
  ASSUME NEW T, T \subseteq Nat, T # {}
  PROVE  \E x \in T : \A y \in T : x <= y
<1>1. IsWellFoundedOn(OpToRel(<, Nat), Nat) BY NatLessThanWellFounded
<1>2. PICK x \in T : \A y \in T : <<y, x>> \notin OpToRel(<, Nat) BY <1>1, WFMin
<1>3. ASSUME NEW y \in T PROVE x <= y
  <2>1. x \in Nat /\ y \in Nat OBVIOUS
  <2>2. y < x => <<y, x>> \in OpToRel(<, Nat) BY <2>1 DEF OpToRel
  <2>3. ~(y < x) BY <1>2, <2>2
  <2> QED BY <2>1, <2>3
<1> QED BY <1>3

Sorts(p, f, n) ==
  /\ p \in Bijection(1 .. n, 1 .. n)
  /\ \A i, j \in 1 .. n : i < j => f[p[i]] <= f[p[j]]

Sortable(n) == \A f \in [1 .. n -> Nat] : \E p : Sorts(p, f, n)

\* One more number: a least one comes first, the others as they are sorted.
LEMMA SortOneMore ==
  ASSUME NEW n \in Nat, Sortable(n)
  PROVE  Sortable(n + 1)
<1> SUFFICES ASSUME NEW f \in [1 .. n + 1 -> Nat] PROVE \E q : Sorts(q, f, n + 1)
  BY DEF Sortable
<1>1. PICK M \in 1 .. n + 1 : \A i \in 1 .. n + 1 : f[M] <= f[i]
  <2> DEFINE T == {f[i] : i \in 1 .. n + 1}
  <2>1. T \subseteq Nat /\ f[1] \in T OBVIOUS
  <2>2. T # {} BY <2>1
  <2>3. PICK x \in T : \A y \in T : x <= y BY <2>1, <2>2, Least
  <2>4. PICK k \in 1 .. n + 1 : x = f[k] BY <2>3
  <2> QED BY <2>3, <2>4
<1>2. PICK u \in [1 .. n -> 1 .. n + 1] :
        /\ \A i \in 1 .. n : u[i] # M
        /\ \A i, j \in 1 .. n : u[i] = u[j] => i = j
        /\ \A t \in 1 .. n + 1 : t = M \/ \E i \in 1 .. n : u[i] = t
  <2> DEFINE v == [i \in 1 .. n |-> IF i < M THEN i ELSE i + 1]
  <2>1. /\ v \in [1 .. n -> 1 .. n + 1]
        /\ \A i \in 1 .. n : v[i] # M
        /\ \A i, j \in 1 .. n : v[i] = v[j] => i = j
    OBVIOUS
  <2>2. ASSUME NEW t \in 1 .. n + 1, t # M PROVE \E i \in 1 .. n : v[i] = t
    <3>1. CASE t < M
      <4>1. t \in 1 .. n /\ v[t] = t BY <3>1
      <4> QED BY <4>1
    <3>2. CASE t > M
      <4>1. t - 1 \in 1 .. n /\ v[t - 1] = t BY <3>2
      <4> QED BY <4>1
    <3> QED BY <2>2, <3>1, <3>2
  <2> HIDE DEF v
  <2> QED BY <2>1, <2>2
<1>3. PICK g \in [1 .. n -> Nat] : \A i \in 1 .. n : g[i] = f[u[i]]
  <2>1. [i \in 1 .. n |-> f[u[i]]] \in [1 .. n -> Nat] OBVIOUS
  <2> QED BY <2>1
<1>4. PICK p : Sorts(p, g, n) BY Sortable(n) DEF Sortable
<1>5. /\ p \in [1 .. n -> 1 .. n]
      /\ \A i, j \in 1 .. n : p[i] = p[j] => i = j
      /\ \A t \in 1 .. n : \E i \in 1 .. n : p[i] = t
      /\ \A i, j \in 1 .. n : i < j => g[p[i]] <= g[p[j]]
  BY <1>4 DEF Sorts, Bijection, Injection, Surjection, IsInjective
<1>6. PICK q \in [1 .. n + 1 -> 1 .. n + 1] :
        q[1] = M /\ \A i \in 2 .. n + 1 : q[i] = u[p[i - 1]]
  <2> DEFINE w == [i \in 1 .. n + 1 |-> IF i = 1 THEN M ELSE u[p[i - 1]]]
  <2>1. ASSUME NEW i \in 2 .. n + 1 PROVE u[p[i - 1]] \in 1 .. n + 1
    <3>1. i - 1 \in 1 .. n OBVIOUS
    <3> QED BY <1>5, <3>1
  <2>2. w \in [1 .. n + 1 -> 1 .. n + 1] BY <2>1
  <2>3. w[1] = M /\ \A i \in 2 .. n + 1 : w[i] = u[p[i - 1]] OBVIOUS
  <2> QED BY <2>2, <2>3
<1>7. ASSUME NEW i \in 1 .. n + 1, i # 1 PROVE \E a \in 1 .. n : i = a + 1 /\ q[i] = u[p[a]]
  <2>1. i \in 2 .. n + 1 /\ i - 1 \in 1 .. n /\ i = (i - 1) + 1 BY <1>7
  <2> QED BY <1>6, <2>1
<1>8. ASSUME NEW i \in 1 .. n + 1, NEW j \in 1 .. n + 1, q[i] = q[j] PROVE i = j
  <2>1. CASE i = 1 /\ j # 1
    <3>1. PICK b \in 1 .. n : j = b + 1 /\ q[j] = u[p[b]] BY <1>7, <2>1
    <3>2. p[b] \in 1 .. n BY <1>5
    <3> QED BY <1>2, <1>6, <1>8, <2>1, <3>1, <3>2
  <2>2. CASE i # 1 /\ j = 1
    <3>1. PICK a \in 1 .. n : i = a + 1 /\ q[i] = u[p[a]] BY <1>7, <2>2
    <3>2. p[a] \in 1 .. n BY <1>5
    <3> QED BY <1>2, <1>6, <1>8, <2>2, <3>1, <3>2
  <2>3. CASE i # 1 /\ j # 1
    <3>1. PICK a \in 1 .. n : i = a + 1 /\ q[i] = u[p[a]] BY <1>7, <2>3
    <3>2. PICK b \in 1 .. n : j = b + 1 /\ q[j] = u[p[b]] BY <1>7, <2>3
    <3>3. p[a] \in 1 .. n /\ p[b] \in 1 .. n BY <1>5
    <3>4. p[a] = p[b] BY <1>2, <1>8, <3>1, <3>2, <3>3
    <3> QED BY <1>5, <3>1, <3>2, <3>4
  <2> QED BY <2>1, <2>2, <2>3
<1>9. ASSUME NEW t \in 1 .. n + 1 PROVE \E i \in 1 .. n + 1 : q[i] = t
  <2>1. CASE t = M BY <1>6, <2>1
  <2>2. CASE t # M
    <3>1. PICK k \in 1 .. n : u[k] = t BY <1>2, <2>2
    <3>2. PICK i \in 1 .. n : p[i] = k BY <1>5
    <3>3. i + 1 \in 2 .. n + 1 /\ (i + 1) - 1 = i OBVIOUS
    <3>4. q[i + 1] = u[p[i]] BY <1>6, <3>3
    <3> QED BY <3>1, <3>2, <3>3, <3>4
  <2> QED BY <2>1, <2>2
<1>10. ASSUME NEW i \in 1 .. n + 1, NEW j \in 1 .. n + 1, i < j PROVE f[q[i]] <= f[q[j]]
  <2>1. CASE i = 1 BY <1>1, <1>6, <2>1
  <2>2. CASE i # 1
    <3>1. PICK a \in 1 .. n : i = a + 1 /\ q[i] = u[p[a]] BY <1>7, <2>2
    <3>2. j # 1 BY <1>10, <2>2
    <3>3. PICK b \in 1 .. n : j = b + 1 /\ q[j] = u[p[b]] BY <1>7, <3>2
    <3>4. a < b BY <1>10, <3>1, <3>3
    <3>5. p[a] \in 1 .. n /\ p[b] \in 1 .. n BY <1>5
    <3>6. g[p[a]] <= g[p[b]] BY <1>5, <3>4
    <3> QED BY <1>3, <3>1, <3>3, <3>5, <3>6
  <2> QED BY <2>1, <2>2
<1> QED BY <1>8, <1>9, <1>10
        DEF Sorts, Bijection, Injection, Surjection, IsInjective

\* Any number of amounts can be sorted: the least number for which it fails
\* would be one more than a number for which it holds.
LEMMA AllSortable == \A n \in Nat : Sortable(n)
<1> DEFINE Bad == {n \in Nat : ~Sortable(n)}
<1> SUFFICES ASSUME Bad # {} PROVE FALSE
  OBVIOUS
<1>1. Bad \subseteq Nat OBVIOUS
<1>2. PICK n \in Bad : \A k \in Bad : n <= k BY <1>1, Least
<1>3. n \in Nat /\ ~Sortable(n) OBVIOUS
<1>4. Sortable(0)
  <2> SUFFICES ASSUME NEW f \in [1 .. 0 -> Nat] PROVE \E p : Sorts(p, f, 0)
    BY DEF Sortable
  <2>1. 1 .. 0 = {} OBVIOUS
  <2>2. Sorts([i \in {} |-> i], f, 0)
    BY <2>1 DEF Sorts, Bijection, Injection, Surjection, IsInjective
  <2> QED BY <2>2
<1>5. n # 0 BY <1>3, <1>4
<1>6. n - 1 \in Nat /\ (n - 1) + 1 = n /\ ~(n <= n - 1) BY <1>3, <1>5
<1>7. Sortable(n - 1) BY <1>2, <1>6
<1> QED BY <1>3, <1>6, <1>7, SortOneMore

\* The amounts of a peer are tried from the smallest to the largest.
LEMMA AmountsAscend ==
  /\ SortedAmounts \in [DOMAIN AmountMsats -> Nat]
  /\ DOMAIN AmountMsats = 1 .. Len(AmountMsats)
  /\ \A i, j \in DOMAIN AmountMsats : i < j => SortedAmounts[i] <= SortedAmounts[j]
<1> DEFINE n == Len(AmountMsats)
<1>1. n \in Nat /\ DOMAIN AmountMsats = 1 .. n /\ AmountMsats \in [1 .. n -> Nat]
  BY AmountsAssumption
<1>2. \E p : Sorts(p, AmountMsats, n) BY <1>1, AllSortable DEF Sortable
<1>3. Sorts(SortOrder, AmountMsats, n) BY <1>1, <1>2 DEF Sorts, SortOrder
<1>4. SortOrder \in [1 .. n -> 1 .. n] BY <1>3 DEF Sorts, Bijection, Injection
<1> HIDE DEF n
<1> QED BY <1>1, <1>3, <1>4 DEF SortedAmounts, Sorts

-----------------------------------------------------------------------------
(***************************************************************************)
(* The steps of the probing task and of what surrounds it.                 *)
(***************************************************************************)

\* The parts of ProbingInv that only look at the task's own variables.
TaskTypeOK ==
  /\ pc \in {"off", "idle", "peer", "peer_delay", "sample", "send", "register",
             "await", "elapsed", "delay"}
  /\ mode \in {"whitelist", "random"}
  /\ peerIdx \in 1 .. (Len(Peers) + 1)
  /\ amountIdx \in Nat \ {0}
  /\ recipients \subseteq GraphNodes
  /\ hash \in Hash \cup {NoHash}
  /\ completion \in Completion
  /\ poisoned \in BOOLEAN
  /\ ldk \in [Hash -> Outcome \cup {"unused", "inflight"}]
  /\ restarts \in 0 .. MaxRestarts
  /\ orphan \subseteq Hash
  /\ ladder \in Seq(Hash)

\* The types of the tracker and those of the task around it.
LEMMA TypeParts == TypeOK <=> TrackerTypeOK /\ TaskTypeOK
BY DEF TypeOK, TaskTypeOK

\* The part of the invariant that is the tracker's own.
LEMMA InvParts ==
  ProbingInv <=> /\ TrackerInv /\ TaskTypeOK /\ Places /\ Matched /\ Tracked /\ Ladder
                 /\ NoStrandedSender /\ BufferedIsExplained
BY TypeParts DEF ProbingInv, TrackerInv

\* While there is an attempt its hash is one of LDK's.
LEMMA HashInAttempt ==
  ASSUME TaskTypeOK, Places
  PROVE  /\ pc \in {"register", "await", "elapsed"} => hash \in Hash
         /\ pc \notin {"register", "await", "elapsed"} => hash = NoHash
BY DEF TaskTypeOK, Places

\* The list of peers is finite.
LEMMA LengthOfPeers == Len(Peers) \in Nat
BY PeersAssumption

\* The loops over the peers, the amounts and the sampled nodes, between attempts.
Between ==
  \/ IntervalTick \/ SkipInvalidPeer \/ StartPeer \/ EndPeers \/ SampleGraph \/ SendError
  \/ WhitelistDelayOver \/ PeerDelayOver \/ RandomDelayOver

\* They keep the invariant: what they change is the place in the loops.
LEMMA BetweenKeeps ==
  ASSUME ProbingInv, Between
  PROVE  ProbingInv'
<1> USE InvParts, LengthOfPeers
<1>1. /\ UNCHANGED <<pending, completed, timedOut, channel, hash, poisoned, ldk, restarts, orphan>>
      /\ pc \notin {"register", "await", "elapsed"} /\ pc' \notin {"register", "await", "elapsed"}
  BY DEF Between, IntervalTick, SkipInvalidPeer, StartPeer, EndPeers, SampleGraph, SendError,
         WhitelistDelayOver, PeerDelayOver, RandomDelayOver, LeavePeer, trackerVars, envVars,
         historyVars
<1>2. hash = NoHash BY <1>1, HashInAttempt
<1>3. TrackerInv'
  BY <1>1, TrackerInvNext DEF trackerVars
<1>4. TaskTypeOK' /\ Places' /\ Ladder'
  <2>1. CASE IntervalTick
    BY <1>1, <1>2, <2>1 DEF IntervalTick, historyVars, TaskTypeOK, Places, Ladder, Climbed
  <2>2. CASE SkipInvalidPeer
    BY <1>1, <1>2, <2>2 DEF SkipInvalidPeer, historyVars, TaskTypeOK, Places, Ladder, Climbed
  <2>3. CASE StartPeer
    BY <1>1, <1>2, <2>3 DEF StartPeer, TaskTypeOK, Places, Ladder, Climbed
  <2>4. CASE EndPeers
    BY <1>1, <1>2, <2>4 DEF EndPeers, historyVars, TaskTypeOK, Places, Ladder, Climbed
  <2>5. CASE SampleGraph
    BY <1>1, <1>2, <2>5 DEF SampleGraph, historyVars, TaskTypeOK, Places, Ladder, Climbed
  <2>6. CASE SendError
    BY <1>1, <1>2, <2>6
       DEF SendError, TakeRecipient, historyVars, TaskTypeOK, Places, Ladder, Climbed, Completion
  <2>7. CASE WhitelistDelayOver
    BY <1>1, <1>2, <2>7 DEF WhitelistDelayOver, LeavePeer, ShouldBreakPeerAmounts, historyVars,
                            TaskTypeOK, Places, Ladder, Climbed
  <2>8. CASE PeerDelayOver
    BY <1>1, <1>2, <2>8 DEF PeerDelayOver, historyVars, TaskTypeOK, Places, Ladder, Climbed
  <2>9. CASE RandomDelayOver
    BY <1>1, <1>2, <2>9 DEF RandomDelayOver, historyVars, TaskTypeOK, Places, Ladder, Climbed
  <2> QED BY <2>1, <2>2, <2>3, <2>4, <2>5, <2>6, <2>7, <2>8, <2>9 DEF Between
<1>5. Matched' BY <1>1, <1>2 DEF Matched
<1>6. Tracked' /\ NoStrandedSender' /\ BufferedIsExplained'
  BY <1>1, <1>2 DEF Tracked, NoStrandedSender, BufferedIsExplained
<1> QED BY <1>3, <1>4, <1>5, <1>6 DEF ProbingInv, TrackerInv, TypeOK, TaskTypeOK

\* A probe is sent: its hash is in none of the maps.
LEMMA SendKeeps ==
  ASSUME ProbingInv, SendProbe
  PROVE  ProbingInv'
<1> USE InvParts
<1>1. PICK h \in Hash :
        /\ Unused(h)
        /\ hash' = h
        /\ ldk' = [ldk EXCEPT ![h] = "inflight"]
        /\ orphan' = orphan \ {h}
        /\ ladder' = IF mode = "whitelist" THEN Append(ladder, h) ELSE ladder
  BY DEF SendProbe
<1>2. /\ UNCHANGED <<pending, completed, timedOut, channel, mode, peerIdx, amountIdx, completion,
                     poisoned, restarts>>
      /\ pc = "send" /\ pc' = "register"
      /\ recipients' \subseteq recipients
  BY DEF SendProbe, TakeRecipient, trackerVars
<1>3. hash = NoHash /\ h # NoHash BY <1>2, HashInAttempt, NoHashAssumption
<1>4. /\ ldk[h] # "inflight" /\ h \notin pending /\ completed[h] = "none" /\ timedOut[h] = NoEntry
      /\ \A i \in 1 .. Len(ladder) : ladder[i] # h
  BY <1>1 DEF Unused, ToSet, TaskTypeOK
<1>5. /\ ldk'[h] = "inflight"
      /\ \A k \in Hash : k # h => ldk'[k] = ldk[k]
      /\ ldk' \in [Hash -> Outcome \cup {"unused", "inflight"}]
  BY <1>1 DEF TaskTypeOK
<1>6. TrackerInv' BY <1>2, TrackerInvNext DEF trackerVars
<1>7. TaskTypeOK' BY <1>1, <1>2, <1>5 DEF TaskTypeOK
<1>8. Places' BY <1>1, <1>2, <1>3 DEF Places
<1>9. Matched' BY <1>1, <1>2, <1>4, <1>5 DEF Matched
<1>10. Tracked' BY <1>1, <1>2, <1>3, <1>5, NoHashAssumption DEF Tracked
<1>11. Ladder'
  <2>1. ladder \in Seq(Hash) /\ \A i \in 1 .. Len(ladder) : ldk'[ladder[i]] = ldk[ladder[i]]
    BY <1>4, <1>5 DEF TaskTypeOK
  <2>2. CASE mode = "whitelist"
    <3>1. ladder' = Append(ladder, h) BY <1>1, <2>2
    <3>2. /\ Len(ladder') = Len(ladder) + 1 /\ ladder'[Len(ladder')] = h
          /\ \A i \in 1 .. Len(ladder) : ladder'[i] = ladder[i]
      BY <2>1, <3>1
    <3>3. amountIdx = Len(ladder) + 1 /\ Climbed(Len(ladder)) BY <1>2, <2>2 DEF Ladder
    <3>4. Len(ladder') - 1 = Len(ladder) BY <2>1, <3>2
    <3>5. \A i \in 1 .. Len(ladder) : ldk'[ladder'[i]] = "success"
      BY <2>1, <3>2, <3>3 DEF Climbed
    <3> QED BY <1>1, <1>2, <3>2, <3>3, <3>4, <3>5 DEF Ladder, Climbed
  <2>3. CASE mode # "whitelist"
    <3>1. ladder' = ladder BY <1>1, <2>3
    <3> QED BY <1>2, <2>1, <2>3, <3>1 DEF Ladder, Climbed
  <2> QED BY <2>2, <2>3
<1>12. NoStrandedSender' BY <1>1, <1>2, <1>3, NoHashAssumption
  DEF NoStrandedSender, TrackerInv, TrackerTypeOK
<1>13. BufferedIsExplained' BY <1>1, <1>2, <1>3, <1>4 DEF BufferedIsExplained
<1> QED BY <1>6, <1>7, <1>8, <1>9, <1>10, <1>11, <1>12, <1>13
  DEF ProbingInv, TrackerInv, TypeOK, TaskTypeOK

\* What a prune leaves of timed_out_probes.
LEMMA PrunedEntries ==
  ASSUME TrackerInv, NEW m \in Pruned(timedOut)
  PROVE  m \in AgeMap /\ \A k \in Hash : m[k] = timedOut[k] \/ m[k] = NoEntry
<1>1. timedOut \in AgeMap BY DEF TrackerInv, TrackerTypeOK, AgeMap
<1> QED BY <1>1, PrunedMap

\* The probe is registered: a result that came first is in its channel.
LEMMA RegisterKeeps ==
  ASSUME ProbingInv, Register
  PROVE  ProbingInv'
<1> USE InvParts
<1>1. PICK m \in Pruned(timedOut) : timedOut' = [m EXCEPT ![hash] = NoEntry]
  BY DEF Register, RegisterProbe
<1>2. /\ UNCHANGED <<poisoned, ldk, restarts, ladder, mode, peerIdx, amountIdx, recipients, hash,
                     completion>>
      /\ pc = "register" /\ pc' = "await" /\ ~poisoned
      /\ completed' = [completed EXCEPT ![hash] = "none"]
      /\ orphan' = orphan \cup Forgotten(hash)
      /\ IF completed[hash] # "none"
           THEN /\ channel' = [channel EXCEPT ![hash] = completed[hash]]
                /\ pending' = pending
           ELSE /\ channel' = [channel EXCEPT ![hash] = "open"]
                /\ pending' = pending \cup {hash}
  BY DEF Register, RegisterProbe, envVars
<1>3. hash \in Hash BY <1>2, HashInAttempt
<1>4. m \in AgeMap /\ \A k \in Hash : m[k] = timedOut[k] \/ m[k] = NoEntry
  BY <1>1, PrunedEntries
<1>5. TrackerInv' BY <1>3, RegisterProbeInv DEF Register
<1>6. timedOut[hash] = NoEntry /\ timedOut'[hash] = NoEntry
  BY <1>1, <1>2, <1>3, <1>4 DEF Matched, AgeMap
<1>7. TaskTypeOK' BY <1>2 DEF TaskTypeOK, Forgotten
<1>8. Places' BY <1>2 DEF Places
<1>9. Matched'
  <2>1. completed \in [Hash -> Outcome \cup {"none"}] /\ channel \in [Hash -> Outcome \cup {"none", "open", "closed"}]
    BY DEF TrackerInv, TrackerTypeOK
  <2>2. /\ hash \notin pending /\ ldk[hash] # "unused"
        /\ IF ldk[hash] = "inflight" THEN completed[hash] = "none" ELSE completed[hash] = ldk[hash]
    BY <1>2, <1>3, NoHashAssumption DEF Matched
  <2>3. ldk[hash] \in Outcome \cup {"unused", "inflight"} BY <1>3 DEF TaskTypeOK
  <2>4. CASE ldk[hash] = "inflight"
    <3>1. channel'[hash] = "open" /\ hash \in pending' BY <1>2, <1>3, <2>1, <2>2, <2>4
    <3> QED BY <1>2, <1>6, <2>2, <2>4, <3>1 DEF Matched
  <2>5. CASE ldk[hash] \in Outcome
    <3>1. channel'[hash] = ldk[hash] /\ pending' = pending
      BY <1>2, <1>3, <2>1, <2>2, <2>5 DEF Outcome
    <3> QED BY <1>2, <1>6, <2>2, <2>5, <3>1 DEF Matched, Outcome
  <2> QED BY <2>2, <2>3, <2>4, <2>5
<1>10. Tracked' BY <1>2, <1>6 DEF Tracked, Forgotten
<1>11. Ladder' BY <1>2 DEF Ladder, Climbed
<1>12. NoStrandedSender' BY <1>2 DEF NoStrandedSender
<1>13. BufferedIsExplained' BY <1>2, <1>3 DEF BufferedIsExplained, TrackerInv, TrackerTypeOK
<1> QED BY <1>5, <1>7, <1>8, <1>9, <1>10, <1>11, <1>12, <1>13
  DEF ProbingInv, TrackerInv, TypeOK, TaskTypeOK

\* The attempt is over: with what came through the channel, or as timed out and
\* marked so, or without the tracker where its mutex is poisoned.
LEMMA EndKeeps ==
  ASSUME ProbingInv, RegisterPoisoned \/ AwaitReady \/ MarkElapsed \/ MarkElapsedPoisoned
  PROVE  ProbingInv'
<1> USE InvParts
<1>1. /\ UNCHANGED <<mode, peerIdx, amountIdx, recipients, poisoned, ldk, restarts, ladder>>
      /\ pc \in {"register", "await", "elapsed"} /\ pc' = "delay" /\ hash' = NoHash
  BY DEF RegisterPoisoned, AwaitReady, MarkElapsed, MarkElapsedPoisoned, Complete, envVars
<1>2. hash \in Hash BY <1>1, HashInAttempt
<1>3. \/ /\ poisoned
         /\ completion' \in {"dropped", "timeout"}
         /\ UNCHANGED <<pending, completed, timedOut, channel, orphan>>
      \/ /\ AwaitReady /\ completion' \in {"dropped", ldk[hash]} /\ completion' \in Completion
         /\ ReleaseReceiver(hash) /\ orphan' = orphan
         /\ ~poisoned => ldk[hash] # "inflight"
         /\ pc = "await"
      \/ /\ ~poisoned /\ MarkTimedOut(hash) /\ completion' = "timeout"
         /\ orphan' = orphan \cup Forgotten(hash)
  <2>1. CASE RegisterPoisoned BY <2>1 DEF RegisterPoisoned, Complete, trackerVars
  <2>2. CASE AwaitReady
    <3>1. /\ pc = "await" /\ channel[hash] # "open" /\ ReleaseReceiver(hash) /\ orphan' = orphan
          /\ completion' = IF channel[hash] = "closed" THEN "dropped" ELSE channel[hash]
      BY <2>2 DEF AwaitReady, Complete
    <3>2. channel[hash] = ldk[hash] /\ (~poisoned => ldk[hash] # "inflight")
      BY <3>1 DEF Matched
    <3>3. ldk[hash] # "unused" /\ ldk[hash] \in Outcome \cup {"unused", "inflight"}
      BY <1>2, NoHashAssumption DEF Matched, TaskTypeOK
    <3>4. channel[hash] \in Outcome \cup {"none", "open", "closed"}
      BY <1>2 DEF TrackerInv, TrackerTypeOK
    <3> QED BY <2>2, <3>1, <3>2, <3>3, <3>4 DEF Completion, Outcome
  <2>3. CASE MarkElapsed BY <2>3 DEF MarkElapsed, Complete
  <2>4. CASE MarkElapsedPoisoned BY <2>4 DEF MarkElapsedPoisoned, Complete, trackerVars
  <2> QED BY <2>1, <2>2, <2>3, <2>4
<1>4. TrackerInv'
  <2>1. \/ UNCHANGED trackerVars \/ ReleaseReceiver(hash) \/ MarkTimedOut(hash)
    BY <1>3 DEF trackerVars
  <2> QED BY <1>2, <2>1, TrackerInvNext, ReleaseReceiverInv, MarkTimedOutInv
<1>5. TaskTypeOK'
  <2>1. completion' \in Completion BY <1>3 DEF Completion
  <2>2. orphan' \subseteq Hash BY <1>3 DEF TaskTypeOK, Forgotten
  <2> QED BY <1>1, <2>1, <2>2 DEF TaskTypeOK
<1>6. Places' BY <1>1 DEF Places
<1>7. Matched' BY <1>1 DEF Matched
<1>8. Ladder'
  <2>1. ladder \in Seq(Hash) BY DEF TaskTypeOK
  <2>2. completion' = "success" => ldk[hash] = "success" BY <1>3
  <2>3. hash # NoHash BY <1>2, NoHashAssumption
  <2>4. ASSUME mode = "whitelist", completion' = "success"
        PROVE  amountIdx = Len(ladder) /\ Climbed(Len(ladder))
    <3>1. amountIdx = Len(ladder) /\ ladder[Len(ladder)] = hash BY <2>3, <2>4 DEF Ladder
    <3>2. \A i \in 1 .. (Len(ladder) - 1) : ldk[ladder[i]] = "success" BY DEF Ladder, Climbed
    <3>3. \A i \in 1 .. Len(ladder) : i = Len(ladder) \/ i \in 1 .. (Len(ladder) - 1)
      BY <2>1
    <3> QED BY <2>2, <2>4, <3>1, <3>2, <3>3 DEF Climbed
  <2> QED BY <1>1, <2>4 DEF Ladder, Climbed
<1>9. Tracked' /\ NoStrandedSender' /\ BufferedIsExplained'
  <2>1. CASE poisoned BY <1>1, <2>1 DEF Tracked, NoStrandedSender, BufferedIsExplained
  <2>2. CASE ~poisoned /\ pc = "await" /\ ldk[hash] # "inflight" /\ ReleaseReceiver(hash) /\ orphan' = orphan
    <3>1. hash \notin pending BY <2>2 DEF Matched
    <3> QED BY <1>1, <2>2, <3>1
            DEF Tracked, NoStrandedSender, BufferedIsExplained, ReleaseReceiver
  <2>3. CASE ~poisoned /\ MarkTimedOut(hash) /\ orphan' = orphan \cup Forgotten(hash)
    <3>1. PICK m \in Pruned(timedOut) : timedOut' = [m EXCEPT ![hash] = 0]
      BY <2>3 DEF MarkTimedOut
    <3>2. m \in AgeMap BY <3>1, PrunedEntries
    <3>3. timedOut'[hash] # NoEntry BY <1>2, <3>1, <3>2 DEF AgeMap, NoEntry
    <3>4. /\ pending' = pending \ {hash}
          /\ completed' = [completed EXCEPT ![hash] = "none"]
      BY <2>3 DEF MarkTimedOut
    <3>5. Tracked' BY <1>1, <2>3, <3>3 DEF Tracked, Forgotten
    <3>6. NoStrandedSender' BY <2>3, <3>4 DEF NoStrandedSender
    <3>7. BufferedIsExplained'
      BY <1>1, <1>2, <2>3, <3>4 DEF BufferedIsExplained, TrackerInv, TrackerTypeOK
    <3> QED BY <3>5, <3>6, <3>7
  <2> QED BY <1>3, <2>1, <2>2, <2>3
<1> QED BY <1>4, <1>5, <1>6, <1>7, <1>8, <1>9
  DEF ProbingInv, TrackerInv, TypeOK, TaskTypeOK

\* The timer elapses: the sender stays in pending_probes until it is marked.
LEMMA ElapsedKeeps ==
  ASSUME ProbingInv, AwaitElapsed
  PROVE  ProbingInv'
<1> USE InvParts
<1>1. /\ UNCHANGED <<mode, peerIdx, amountIdx, recipients, hash, completion, poisoned, ldk, restarts,
                     orphan, ladder, pending, completed, timedOut>>
      /\ pc = "await" /\ pc' = "elapsed" /\ ReleaseReceiver(hash)
  BY DEF AwaitElapsed, ReleaseReceiver, envVars, historyVars
<1>2. TrackerInv' BY <1>1, HashInAttempt, ReleaseReceiverInv
<1>3. TaskTypeOK' BY <1>1 DEF TaskTypeOK
<1>4. Places' BY <1>1 DEF Places
<1>5. Matched' BY <1>1 DEF Matched
<1>6. Tracked' /\ NoStrandedSender' /\ BufferedIsExplained'
  BY <1>1 DEF Tracked, NoStrandedSender, BufferedIsExplained
<1>7. Ladder' BY <1>1 DEF Ladder, Climbed
<1> QED BY <1>2, <1>3, <1>4, <1>5, <1>6, <1>7
  DEF ProbingInv, TrackerInv, TypeOK, TaskTypeOK

\* LDK answers a probe, the current one or one of long ago.
LEMMA EventKeeps ==
  ASSUME ProbingInv, NEW h \in Hash, NEW o \in Outcome, ProbeEvent(h, o)
  PROVE  ProbingInv'
<1> USE InvParts
<1>1. /\ UNCHANGED <<pc, mode, peerIdx, amountIdx, recipients, hash, completion, poisoned, restarts,
                     ladder>>
      /\ ldk[h] = "inflight" /\ ldk' = [ldk EXCEPT ![h] = o]
  BY DEF ProbeEvent, taskVars
<1>2. /\ ldk'[h] = o /\ \A k \in Hash : k # h => ldk'[k] = ldk[k]
      /\ ldk' \in [Hash -> Outcome \cup {"unused", "inflight"}]
      /\ o # "inflight" /\ o # "unused"
  BY <1>1 DEF TaskTypeOK, Outcome
<1>3. \A k \in Hash : ldk[k] = "success" => ldk'[k] = "success" BY <1>1, <1>2
<1>4. Ladder'
  <2>1. ladder \in Seq(Hash) BY DEF TaskTypeOK
  <2>2. \A i \in 1 .. Len(ladder) : ldk[ladder[i]] = "success" => ldk'[ladder[i]] = "success"
    BY <1>3, <2>1
  <2>3. \A i \in 1 .. (Len(ladder) - 1) : i \in 1 .. Len(ladder) BY <2>1
  <2> QED BY <1>1, <2>2, <2>3 DEF Ladder, Climbed
<1>5. Places' BY <1>1 DEF Places
<1>6. channel \in [Hash -> Outcome \cup {"none", "open", "closed"}]
  BY DEF TrackerInv, TrackerTypeOK
<1>7. pc \in {"register", "await", "elapsed"} => hash \in Hash BY HashInAttempt
<1>8. CASE poisoned
  <2>1. UNCHANGED <<pending, completed, timedOut, channel, orphan>>
    BY <1>8 DEF ProbeEvent, trackerVars
  <2>2. TrackerInv' BY <2>1, TrackerInvNext DEF trackerVars
  <2>3. TaskTypeOK' BY <1>1, <1>2, <2>1 DEF TaskTypeOK
  <2>4. Matched'
    <3>1. hash # NoHash => ldk'[hash] # "unused" BY <1>2, <1>7 DEF Matched, Places
    <3>2. pc = "await" => channel[hash] \in {"open", ldk'[hash]}
      BY <1>1, <1>2, <1>6, <1>7 DEF Matched, Outcome
    <3> QED BY <1>1, <1>8, <2>1, <3>1, <3>2 DEF Matched
  <2>5. Tracked' /\ NoStrandedSender' /\ BufferedIsExplained'
    BY <1>1, <1>8 DEF Tracked, NoStrandedSender, BufferedIsExplained
  <2> QED BY <1>4, <1>5, <2>2, <2>3, <2>4, <2>5 DEF ProbingInv, TrackerInv, TypeOK, TaskTypeOK
<1>9. CASE ~poisoned
  <2>1. CompleteProbe(h, o) /\ orphan' = orphan \cup Forgotten(h) \cup Doomed(h)
    BY <1>9 DEF ProbeEvent
  <2>2. PICK m \in Pruned(timedOut) :
          /\ timedOut' = [m EXCEPT ![h] = NoEntry]
          /\ \/ /\ m[h] # NoEntry
                /\ UNCHANGED <<pending, completed, channel>>
             \/ /\ m[h] = NoEntry
                /\ h \in pending
                /\ pending' = pending \ {h}
                /\ channel' = [channel EXCEPT ![h] = IF @ = "open" THEN o ELSE @]
                /\ UNCHANGED completed
             \/ /\ m[h] = NoEntry
                /\ h \notin pending
                /\ completed' = [completed EXCEPT ![h] = o]
                /\ UNCHANGED <<pending, channel>>
    BY <2>1 DEF CompleteProbe
  <2>3. m \in AgeMap /\ \A k \in Hash : m[k] = timedOut[k] \/ m[k] = NoEntry
    BY <2>2, PrunedEntries
  <2>4. /\ timedOut'[h] = NoEntry
        /\ \A k \in Hash : k # h => timedOut'[k] = m[k]
        /\ \A k \in Hash : timedOut[k] = NoEntry => timedOut'[k] = NoEntry
    BY <2>2, <2>3 DEF AgeMap
  <2>5. TrackerInv' BY <2>1, CompleteProbeInv
  <2>6. TaskTypeOK' BY <1>1, <1>2, <2>1 DEF TaskTypeOK, Forgotten, Doomed
  <2>7. /\ h \in pending => timedOut[h] = NoEntry
        /\ completed \in [Hash -> Outcome \cup {"none"}]
    BY DEF TrackerInv, OneEntryPerHash, TrackerTypeOK
  <2>8. \A k \in Hash : k # h => /\ k \in pending' <=> k \in pending
                                 /\ completed'[k] = completed[k]
                                 /\ channel'[k] = channel[k]
    BY <1>6, <2>2, <2>7
  <2>9. Matched'
    <3>1. CASE hash # h BY <1>1, <1>2, <1>7, <2>4, <2>8, <3>1 DEF Matched, Places
    <3>2. CASE hash = h /\ pc = "register"
      <4>1. timedOut[h] = NoEntry /\ h \notin pending BY <1>9, <3>2 DEF Matched
      <4>2. m[h] = NoEntry BY <2>3, <4>1
      <4>3. completed'[h] = o /\ pending' = pending BY <2>2, <2>7, <4>1, <4>2
      <4> QED BY <1>1, <1>2, <2>4, <3>2, <4>1, <4>3 DEF Matched
    <3>3. CASE hash = h /\ pc \in {"await", "elapsed"}
      <4>1. h \in pending BY <1>1, <1>9, <3>3 DEF Matched
      <4>2. m[h] = NoEntry BY <2>3, <2>7, <4>1
      <4>3. /\ pending' = pending \ {h}
            /\ channel' = [channel EXCEPT ![h] = IF @ = "open" THEN o ELSE @]
        BY <2>2, <4>1, <4>2
      <4>4. pc = "await" => channel[h] = "open" BY <1>1, <1>9, <3>3 DEF Matched
      <4>5. pc = "await" => channel'[h] = o BY <1>6, <4>3, <4>4
      <4>6. o # "open" BY DEF Outcome
      <4> QED BY <1>1, <1>2, <2>4, <3>3, <4>3, <4>5, <4>6 DEF Matched
    <3> QED BY <3>1, <3>2, <3>3, <1>7, NoHashAssumption DEF Places
  <2>10. ASSUME NEW k \in Hash, ldk'[k] = "inflight"
         PROVE  k \in orphan' \/ k = hash \/ timedOut'[k] # NoEntry
    <3>1. k # h /\ ldk[k] = "inflight" BY <1>2, <2>10
    <3>2. k \in orphan \/ k = hash \/ timedOut[k] # NoEntry BY <1>9, <3>1 DEF Tracked
    <3>3. timedOut[k] # NoEntry /\ timedOut'[k] = NoEntry => k \in Forgotten(h)
      BY <3>1 DEF Forgotten
    <3> QED BY <2>1, <3>2, <3>3
  <2>11. NoStrandedSender' BY <1>1, <1>9, <2>2 DEF NoStrandedSender
  <2>12. ASSUME NEW k \in Hash, completed'[k] # "none"
         PROVE  k \in orphan' \/ (pc = "register" /\ k = hash)
    <3>1. CASE completed[k] # "none" BY <1>9, <2>1, <3>1 DEF BufferedIsExplained
    <3>2. CASE completed[k] = "none"
      <4>1. k = h /\ m[h] = NoEntry /\ h \notin pending BY <2>2, <2>8, <2>12, <3>2
      <4>2. h \in orphan \/ h = hash \/ timedOut[h] # NoEntry BY <1>1, <1>9 DEF Tracked
      <4>3. timedOut[h] # NoEntry => h \in Doomed(h) BY <2>2, <4>1 DEF Doomed
      <4>4. h = hash => pc = "register"
        BY <1>1, <1>9, <4>1, NoHashAssumption DEF Matched, Places
      <4> QED BY <2>1, <4>1, <4>2, <4>3, <4>4
    <3> QED BY <3>1, <3>2
  <2> QED BY <1>1, <1>4, <1>5, <2>5, <2>6, <2>9, <2>10, <2>11, <2>12
    DEF ProbingInv, TrackerInv, TypeOK, TaskTypeOK, Tracked, BufferedIsExplained
<1> QED BY <1>8, <1>9

\* The mutex is poisoned, or time passes.
LEMMA QuietKeeps ==
  ASSUME ProbingInv, Poison \/ TimePasses
  PROVE  ProbingInv'
<1> USE InvParts
<1>1. CASE Poison
  <2>1. /\ UNCHANGED <<pending, completed, timedOut, channel, pc, mode, peerIdx, amountIdx,
                       recipients, hash, completion, ldk, restarts, orphan, ladder>>
        /\ poisoned' = TRUE
    BY <1>1 DEF Poison, trackerVars, taskVars, historyVars
  <2>2. TrackerInv' BY <2>1, TrackerInvNext DEF trackerVars
  <2>3. TaskTypeOK' BY <2>1 DEF TaskTypeOK
  <2> QED BY <2>1, <2>2, <2>3 DEF ProbingInv, TrackerInv, TypeOK, TaskTypeOK, Places, Matched,
          Tracked, Ladder, Climbed, NoStrandedSender, BufferedIsExplained
<1>2. CASE TimePasses
  <2>1. /\ UNCHANGED <<pending, completed, channel, pc, mode, peerIdx, amountIdx, recipients, hash,
                       completion, poisoned, ldk, restarts, orphan, ladder>>
        /\ Tick
    BY <1>2 DEF TimePasses, Tick, taskVars, envVars, historyVars
  <2>2. TrackerInv' BY <2>1, TickInv
  <2>3. \A h \in Hash : timedOut'[h] = NoEntry <=> timedOut[h] = NoEntry
    BY <2>1, TtlAssumption DEF TrackerInv, TrackerTypeOK, Tick, Ages, NoEntry
  <2>4. TaskTypeOK' BY <2>1 DEF TaskTypeOK
  <2>5. Matched' BY <2>1, <2>3, HashInAttempt DEF Matched
  <2>6. Tracked' BY <2>1, <2>3 DEF Tracked
  <2> QED BY <2>1, <2>2, <2>4, <2>5, <2>6 DEF ProbingInv, TrackerInv, TypeOK, TaskTypeOK, Places,
          Ladder, Climbed, NoStrandedSender, BufferedIsExplained
<1> QED BY <1>1, <1>2

\* The task starts outside any attempt, or not at all.
LEMMA StartPcIsOutside == StartPc \in {"idle", "off"}
BY DEF StartPc

\* A new process: every probe LDK may still answer is an orphan.
LEMMA RestartKeeps ==
  ASSUME ProbingInv, Restart
  PROVE  ProbingInv'
<1> USE InvParts, LengthOfPeers, StartPcIsOutside
<1>1. /\ restarts < MaxRestarts /\ restarts' = restarts + 1
      /\ pending' = {} /\ completed' = [h \in Hash |-> "none"]
      /\ timedOut' = [h \in Hash |-> NoEntry] /\ channel' = [h \in Hash |-> "none"]
      /\ pc' = StartPc /\ mode' = "whitelist" /\ peerIdx' = 1 /\ amountIdx' = 1
      /\ recipients' = {} /\ hash' = NoHash /\ completion' = "success" /\ poisoned' = FALSE
      /\ ladder' = <<>>
  BY DEF Restart, RenewTracker
<1>2. PICK S \in SUBSET {h \in Hash : ldk[h] # "unused"} :
        /\ ldk' = [h \in Hash |-> IF h \in S THEN "inflight" ELSE "unused"]
        /\ orphan' = S
  BY DEF Restart
<1>3. TrackerInv'
  <2>1. (Entries(timedOut))' = {} BY <1>1 DEF Entries
  <2>2. TimedOutBounded' BY <2>1, FS_EmptySet, MaxTimedOutAssumption DEF TimedOutBounded
  <2>3. TrackerTypeOK' /\ OneEntryPerHash' BY <1>1 DEF TrackerTypeOK, OneEntryPerHash
  <2> QED BY <2>2, <2>3 DEF TrackerInv
<1>4. TaskTypeOK'
  <2>1. restarts' \in 0 .. MaxRestarts BY <1>1, RandomAssumption DEF TaskTypeOK
  <2>2. ldk' \in [Hash -> Outcome \cup {"unused", "inflight"}] /\ orphan' \subseteq Hash
    BY <1>2
  <2>3. completion' \in Completion BY <1>1 DEF Completion, Outcome
  <2>4. peerIdx' \in 1 .. (Len(Peers) + 1) /\ ladder' \in Seq(Hash) BY <1>1
  <2>5. pc' \in {"idle", "off"} /\ mode' \in {"whitelist", "random"} /\ poisoned' \in BOOLEAN
    BY <1>1
  <2>6. amountIdx' \in Nat \ {0} /\ recipients' \subseteq GraphNodes /\ hash' \in Hash \cup {NoHash}
    BY <1>1
  <2> QED BY <2>1, <2>2, <2>3, <2>4, <2>5, <2>6 DEF TaskTypeOK
<1>5. Places' /\ Matched' BY <1>1 DEF Places, Matched
<1>6. Tracked' /\ NoStrandedSender' /\ BufferedIsExplained'
  BY <1>1, <1>2 DEF Tracked, NoStrandedSender, BufferedIsExplained
<1>7. Ladder' BY <1>1 DEF Ladder, Climbed
<1> QED BY <1>3, <1>4, <1>5, <1>6, <1>7 DEF ProbingInv, TrackerInv, TypeOK, TaskTypeOK

\* A process starts with empty maps and no attempt.
LEMMA ProbingInit == Init => ProbingInv
<1> SUFFICES ASSUME Init PROVE ProbingInv
  OBVIOUS
<1> USE LengthOfPeers, StartPcIsOutside
<1>1. /\ NewTracker /\ pc = StartPc /\ mode = "whitelist" /\ peerIdx = 1 /\ amountIdx = 1
      /\ recipients = {} /\ hash = NoHash /\ completion = "success" /\ poisoned = FALSE
      /\ ldk = [h \in Hash |-> "unused"] /\ restarts = 0 /\ orphan = {} /\ ladder = <<>>
  BY DEF Init, StartTask
<1>2. TrackerInv BY <1>1, TrackerInvInit DEF TrackerInit
<1>3. TaskTypeOK
  <2>1. completion \in Completion BY <1>1 DEF Completion, Outcome
  <2>2. restarts \in 0 .. MaxRestarts BY <1>1, RandomAssumption
  <2>3. peerIdx \in 1 .. (Len(Peers) + 1) /\ ladder \in Seq(Hash) BY <1>1
  <2>4. pc \in {"idle", "off"} /\ mode \in {"whitelist", "random"} /\ poisoned \in BOOLEAN
    BY <1>1
  <2>5. amountIdx \in Nat \ {0} /\ recipients \subseteq GraphNodes /\ hash \in Hash \cup {NoHash}
    BY <1>1
  <2>6. ldk \in [Hash -> Outcome \cup {"unused", "inflight"}] /\ orphan \subseteq Hash BY <1>1
  <2> QED BY <2>1, <2>2, <2>3, <2>4, <2>5, <2>6 DEF TaskTypeOK
<1>4. Places /\ Matched BY <1>1 DEF Places, Matched
<1>5. Tracked /\ NoStrandedSender /\ BufferedIsExplained
  BY <1>1 DEF Tracked, NoStrandedSender, BufferedIsExplained, NewTracker
<1>6. Ladder BY <1>1 DEF Ladder, Climbed
<1> QED BY <1>2, <1>3, <1>4, <1>5, <1>6, InvParts

\* Every step of the task, the event handler and LDK keeps the invariant.
LEMMA ProbingNext == ProbingInv /\ [Next]_vars => ProbingInv'
<1> SUFFICES ASSUME ProbingInv, [Next]_vars PROVE ProbingInv'
  OBVIOUS
<1>1. CASE Task
  BY <1>1, BetweenKeeps, SendKeeps, RegisterKeeps, EndKeeps, ElapsedKeeps DEF Task, Between
<1>2. CASE Environment
  BY <1>2, EventKeeps, QuietKeeps, RestartKeeps DEF Environment
<1>3. CASE UNCHANGED vars
  BY <1>3 DEF vars, trackerVars, taskVars, envVars, historyVars, ProbingInv, TypeOK, TrackerTypeOK,
              OneEntryPerHash, TimedOutBounded, Entries, Places, Matched, Tracked, Ladder, Climbed,
              NoStrandedSender, BufferedIsExplained
<1> QED BY <1>1, <1>2, <1>3 DEF Next

-----------------------------------------------------------------------------
(***************************************************************************)
(* The locals of the task, the tracker's maps and LDK's probes keep their  *)
(* types; in particular the loops never step beyond the list of peers.     *)
(***************************************************************************)
THEOREM Types == Spec => []TypeOK
<1>1. ProbingInv => TypeOK BY DEF ProbingInv
<1> QED BY <1>1, ProbingInit, ProbingNext, PTL DEF Spec

\* No order of result, timeout, registration and restart strands a sender in
\* pending_probes while the mutex works.
THEOREM SendersAreAwaited == Spec => []NoStrandedSender
<1>1. ProbingInv => NoStrandedSender BY DEF ProbingInv
<1> QED BY <1>1, ProbingInit, ProbingNext, PTL DEF Spec

\* A result that comes before register_probe is not lost: an empty channel is
\* awaited only while LDK has still to answer.
THEOREM ResultsArrive == Spec => []NoLostResult
<1>1. ProbingInv => NoLostResult BY DEF ProbingInv, Matched, NoLostResult
<1> QED BY <1>1, ProbingInit, ProbingNext, PTL DEF Spec

\* completed_probes keeps no result of a probe whose timeout the tracker still
\* knows of.
THEOREM BufferLeaksOnlyOrphans == Spec => []BufferedIsExplained
<1>1. ProbingInv => BufferedIsExplained BY DEF ProbingInv
<1> QED BY <1>1, ProbingInit, ProbingNext, PTL DEF Spec

(***************************************************************************)
(* The task goes on to a larger amount only after LDK reported success for *)
(* every smaller one, whatever the order of the configured amounts.        *)
(***************************************************************************)
THEOREM AmountsClimb == Spec => []AmountsClimbOnSuccess
<1>1. ProbingInv => AmountsClimbOnSuccess
  <2> SUFFICES ASSUME ProbingInv PROVE AmountsClimbOnSuccess
    OBVIOUS
  <2>1. \A i \in 1 .. (Len(ladder) - 1) : ldk[ladder[i]] = "success"
    BY DEF ProbingInv, Ladder, Climbed
  <2>2. ASSUME mode = "whitelist", pc = "register", NEW i \in DOMAIN SortedAmounts,
               SortedAmounts[i] < SortedAmounts[amountIdx]
        PROVE  i < Len(ladder)
    <3>1. amountIdx = Len(ladder) BY <2>2 DEF ProbingInv, Ladder, Places
    <3>2. amountIdx \in Nat \ {0} BY DEF ProbingInv, TypeOK
    <3>3. i \in 1 .. Len(AmountMsats) /\ DOMAIN SortedAmounts = 1 .. Len(AmountMsats)
      BY AmountsAscend
    <3>4. Len(AmountMsats) \in Nat BY AmountsAssumption
    <3>5. CASE i >= amountIdx
      <4>1. amountIdx \in 1 .. Len(AmountMsats) BY <3>2, <3>3, <3>4, <3>5
      <4>2. SortedAmounts[amountIdx] <= SortedAmounts[i]
        <5>1. SortedAmounts[i] \in Nat BY <3>3, AmountsAscend
        <5> QED BY <3>2, <3>3, <3>5, <4>1, <5>1, AmountsAscend
      <4>3. SortedAmounts[amountIdx] \in Nat /\ SortedAmounts[i] \in Nat
        BY <3>3, <4>1, AmountsAscend
      <4> QED BY <2>2, <4>2, <4>3
    <3> QED BY <3>1, <3>2, <3>3, <3>5
  <2> QED BY <2>1, <2>2 DEF AmountsClimbOnSuccess
<1> QED BY <1>1, ProbingInit, ProbingNext, PTL DEF Spec

(***************************************************************************)
(* The tracker's own invariants, now under the calls the task and the      *)
(* event handler really make, with restarts in between.                    *)
(***************************************************************************)
THEOREM TrackerInUse == Spec => [](OneEntryPerHash /\ TimedOutBounded)
<1>1. ProbingInv => OneEntryPerHash /\ TimedOutBounded BY DEF ProbingInv
<1> QED BY <1>1, ProbingInit, ProbingNext, PTL DEF Spec

-----------------------------------------------------------------------------
(***************************************************************************)
(* The attempts the task runs are those of ProbeAttempt.                   *)
(***************************************************************************)

\* What the refinement mapping makes of the task's state.
Phase == IF hash = NoHash THEN "idle" ELSE IF pc = "elapsed" THEN "expired" ELSE "open"
Answer == IF hash # NoHash /\ ldk[hash] \in Outcome THEN ldk[hash] ELSE "none"

AttemptUnchanged == UNCHANGED <<Phase, Answer, completion, poisoned>>

\* Between attempts nothing is open; a refused one is reported as such.
LEMMA BetweenMaps ==
  ASSUME ProbingInv, Between
  PROVE  AttemptUnchanged \/ Attempt!Refuse
<1>1. hash' = hash /\ poisoned' = poisoned /\ pc \notin {"register", "await", "elapsed"}
  BY DEF Between, IntervalTick, SkipInvalidPeer, StartPeer, EndPeers, SampleGraph, SendError,
         WhitelistDelayOver, PeerDelayOver, RandomDelayOver, LeavePeer, envVars
<1>2. hash = NoHash BY <1>1, HashInAttempt, InvParts
<1>3. completion' = completion \/ completion' = "send_error"
  BY DEF Between, IntervalTick, SkipInvalidPeer, StartPeer, EndPeers, SampleGraph, SendError,
         WhitelistDelayOver, PeerDelayOver, RandomDelayOver, LeavePeer
<1> QED BY <1>1, <1>2, <1>3 DEF AttemptUnchanged, Phase, Answer, Attempt!Refuse

\* send_probe opens the attempt.
LEMMA SendMaps ==
  ASSUME ProbingInv, SendProbe
  PROVE  Attempt!Open
<1>1. PICK h \in Hash : hash' = h /\ ldk' = [ldk EXCEPT ![h] = "inflight"]
  BY DEF SendProbe
<1>2. pc' = "register" /\ hash = NoHash /\ completion' = completion /\ poisoned' = poisoned
  BY HashInAttempt, InvParts DEF SendProbe
<1>3. ldk'[h] = "inflight" BY <1>1, InvParts DEF TaskTypeOK
<1> QED BY <1>1, <1>2, <1>3, NoHashAssumption DEF Attempt!Open, Outcome

\* The attempt ends with LDK's answer, or dropped, or as timed out.
LEMMA EndMaps ==
  ASSUME ProbingInv, RegisterPoisoned \/ AwaitReady \/ MarkElapsed \/ MarkElapsedPoisoned
  PROVE  Attempt!Close
<1> USE InvParts
<1>1. /\ hash' = NoHash /\ poisoned' = poisoned /\ pc \in {"register", "await", "elapsed"}
  BY DEF RegisterPoisoned, AwaitReady, MarkElapsed, MarkElapsedPoisoned, Complete, envVars
<1>2. hash \in Hash /\ hash # NoHash BY <1>1, HashInAttempt, NoHashAssumption
<1>3. CASE RegisterPoisoned
  <2>1. pc = "register" /\ poisoned /\ completion' = "dropped"
    BY <1>3 DEF RegisterPoisoned, Complete
  <2> QED BY <1>1, <1>2, <2>1 DEF Attempt!Close, Attempt!End
<1>4. CASE AwaitReady
  <2>1. /\ pc = "await" /\ channel[hash] # "open"
        /\ completion' = IF channel[hash] = "closed" THEN "dropped" ELSE channel[hash]
    BY <1>4 DEF AwaitReady, Complete
  <2>2. channel[hash] = ldk[hash] BY <2>1 DEF Matched
  <2>3. ldk[hash] # "unused" /\ ldk[hash] \in Outcome \cup {"unused", "inflight"}
    BY <1>2 DEF Matched, TaskTypeOK
  <2>4. channel[hash] \in Outcome \cup {"none", "open", "closed"}
    BY <1>2 DEF TrackerInv, TrackerTypeOK
  <2>5. completion' = ldk[hash] /\ ldk[hash] \in Outcome /\ ldk[hash] # "none"
    BY <2>1, <2>2, <2>3, <2>4 DEF Outcome
  <2> QED BY <1>1, <1>2, <2>1, <2>5 DEF Attempt!Close, Attempt!End
<1>5. CASE MarkElapsed \/ MarkElapsedPoisoned
  <2>1. pc = "elapsed" /\ completion' = "timeout"
    BY <1>5 DEF MarkElapsed, MarkElapsedPoisoned, Complete
  <2> QED BY <1>1, <1>2, <2>1 DEF Attempt!Close, Attempt!End
<1> QED BY <1>3, <1>4, <1>5

\* The deadline passes without an answer, unless the lock was lost.
LEMMA ElapsedMaps ==
  ASSUME ProbingInv, AwaitElapsed
  PROVE  Attempt!Expire
<1> USE InvParts
<1>1. /\ pc = "await" /\ pc' = "elapsed" /\ channel[hash] = "open"
      /\ UNCHANGED <<hash, ldk, completion, poisoned>>
  BY DEF AwaitElapsed, envVars
<1>2. hash # NoHash BY <1>1 DEF Places
<1>3. poisoned \/ ldk[hash] = "inflight" BY <1>1 DEF Matched
<1> QED BY <1>1, <1>2, <1>3 DEF Attempt!Expire, Outcome

\* An answer to the current probe is its answer; one to another changes nothing.
LEMMA EventMaps ==
  ASSUME ProbingInv, NEW h \in Hash, NEW o \in Outcome, ProbeEvent(h, o)
  PROVE  AttemptUnchanged \/ Attempt!Answer
<1> USE InvParts
<1>1. /\ UNCHANGED <<pc, hash, completion, poisoned>>
      /\ ldk[h] = "inflight" /\ ldk' = [ldk EXCEPT ![h] = o]
  BY DEF ProbeEvent, taskVars
<1>2. ldk'[h] = o /\ \A k \in Hash : k # h => ldk'[k] = ldk[k] BY <1>1 DEF TaskTypeOK
<1>3. CASE hash # h
  <2>1. hash # NoHash => hash \in Hash BY DEF TaskTypeOK
  <2> QED BY <1>1, <1>2, <1>3, <2>1 DEF AttemptUnchanged, Phase, Answer
<1>4. CASE hash = h BY <1>1, <1>2, <1>4, NoHashAssumption DEF Attempt!Answer, Outcome
<1> QED BY <1>3, <1>4

\* Every step of the task and around it is a step of an attempt, or none.
LEMMA AttemptNext == ProbingInv /\ [Next]_vars => [Attempt!Next]_Attempt!vars
<1> SUFFICES ASSUME ProbingInv, [Next]_vars PROVE Attempt!Next \/ AttemptUnchanged
  BY DEF AttemptUnchanged, Phase, Answer, Attempt!vars
<1>1. CASE Between BY <1>1, BetweenMaps DEF Attempt!Next
<1>2. CASE SendProbe BY <1>2, SendMaps DEF Attempt!Next
<1>3. CASE Register
  BY <1>3, InvParts DEF Register, envVars, AttemptUnchanged, Phase, Answer
<1>4. CASE RegisterPoisoned \/ AwaitReady \/ MarkElapsed \/ MarkElapsedPoisoned
  BY <1>4, EndMaps DEF Attempt!Next
<1>5. CASE AwaitElapsed BY <1>5, ElapsedMaps DEF Attempt!Next
<1>6. ASSUME NEW h \in Hash, NEW o \in Outcome, ProbeEvent(h, o)
      PROVE  Attempt!Next \/ AttemptUnchanged
  BY <1>6, EventMaps DEF Attempt!Next
<1>7. CASE Poison
  BY <1>7 DEF Poison, taskVars, Attempt!Next, Attempt!LoseLock
<1>8. CASE TimePasses
  BY <1>8 DEF TimePasses, taskVars, envVars, AttemptUnchanged, Phase, Answer
<1>9. CASE Restart
  BY <1>9 DEF Restart, Attempt!Next, Attempt!Restart
<1>10. CASE UNCHANGED vars
  BY <1>10 DEF vars, taskVars, envVars, AttemptUnchanged, Phase, Answer
<1> QED BY <1>1, <1>2, <1>3, <1>4, <1>5, <1>6, <1>7, <1>8, <1>9, <1>10
  DEF Next, Task, Environment, Between

(***************************************************************************)
(* The task with its tracker implements ProbeAttempt: run_probe_attempt    *)
(* reports LDK's own answer or a timeout that came first, through every    *)
(* interleaving of the table, the channel, the timer and the handler.      *)
(***************************************************************************)
THEOREM AttemptsRefined == Spec => ImplementsAttempt
<1>1. Init => Attempt!Init
  BY DEF Init, StartTask, Attempt!Init
<1> QED BY <1>1, AttemptNext, ProbingInit, ProbingNext, PTL DEF Spec, ImplementsAttempt, Attempt!Spec
=============================================================================
