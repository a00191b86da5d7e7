----------------------- MODULE OutboundPaymentsProofs -----------------------
(***************************************************************************)
(* For every set of payments of each kind: what LDK has in flight is       *)
(* Pending in the file, what was paid is Succeeded there and stays so, and *)
(* a Pending record is never stale without one of the known causes.        *)
(*                                                                         *)
(* A record only moves on, from none over Pending to Succeeded or Failed   *)
(* (Le), unless its invoice is sent again.  Three tasks write one file and *)
(* await their writes outside the mutex; Chain says that what the writes   *)
(* under way carry moves on in the order they were called, between what    *)
(* the file has and what the map has.  So where LDK's state bounds the map *)
(* from above it bounds every write that may still land, and the file.     *)
(*                                                                         *)
(* A start that could not read the file breaks this for the records it did *)
(* not read, until it writes over the file and they are gone for good      *)
(* (Unread, Dropped).                                                      *)
(***************************************************************************)
EXTENDS OutboundPayments, TLAPS

SucceededRecord == [status |-> "succeeded", preimage |-> TRUE]
FailedRecord == [status |-> "failed", preimage |-> FALSE]

WriteType == [owner : Owner, data : [Id -> Record], older : SUBSET Owner, skipped : BOOLEAN]

\* The record a may be replaced by the record b, of a payment sent once.
Le(a, b) ==
  a = b \/ a = NoRecord \/ (a.status = "pending" /\ b.status \in {"succeeded", "failed"})

\* The same of the payment i, where R were sent again: no record disappears.
Kept(R, i, a, b) == (a # NoRecord => b # NoRecord) /\ (i \notin R => Le(a, b))

\* A task has at most one write; of two one was called before the other, and
\* the tasks a write counts as older have one.
Ordered ==
  /\ \A v, w \in writes : v.owner = w.owner => v = w
  /\ \A v, w \in writes : v.owner # w.owner => v.owner \in w.older \/ w.owner \in v.older
  /\ \A w \in writes : \A o \in w.older : \E v \in writes : v.owner = o

\* Whoever has a write is awaiting it.
Awaited ==
  /\ \A w \in writes : result[w.owner] = "none"
  /\ \A w \in writes : w.owner = "cli" => cli.pc \in {"persist", "note"}
  /\ \A w \in writes : w.owner = "events" => events # Idle
  /\ \A w \in writes : w.owner = "main" => run = "restoring"
  /\ run # "up" => cli = Idle /\ events = Idle
  /\ run = "restoring" => \A w \in writes : w.owner = "main"
  /\ run = "down" => writes = {}

Chain ==
  \A i \in Id :
    /\ \A v, w \in writes : v.owner \in w.older => Kept(resent, i, v.data[i], w.data[i])
    /\ \A w \in writes : Kept(resent, i, w.data[i], mem[i])
    /\ i \notin unread =>
         /\ run # "down" => Kept(resent, i, disk[i], mem[i])
         /\ \A w \in writes : IF w.skipped THEN Kept(resent, i, w.data[i], disk[i])
                                           ELSE Kept(resent, i, disk[i], w.data[i])

\* A start that could not read the file has an empty map, until it wrote it.
Unread ==
  unread # {} =>
    /\ run = "restoring" /\ result["main"] # "ok"
    /\ \A w \in writes : ~w.skipped
    /\ \A i \in Id : mem[i] = NoRecord

\* What was written over does not come back, unless its invoice is sent again.
Dropped == \A i \in dropped \ resent : disk[i] = NoRecord /\ mem[i] = NoRecord

\* What the command task is doing for a payment.
Command ==
  /\ \A w \in writes : w.owner = "cli" /\ cli.pc = "persist" => w.data[cli.id] # NoRecord
  /\ cli.pc = "persist" /\ result["cli"] = "ok" => disk[cli.id] # NoRecord
  /\ cli.pc = "pay" => disk[cli.id] # NoRecord
  /\ cli # Idle /\ cli.id \notin resent =>
       /\ ldk[cli.id] = "none"
       /\ mem[cli.id] = IF cli.pc = "note" THEN FailedRecord ELSE NewRecord

\* What the event handler is doing for a payment.
Handler ==
  /\ events # Idle => ldk[events.id] = events.pc
  /\ events # Idle /\ events.id \notin resent \cup dropped =>
       mem[events.id] = IF events.pc = "sent" THEN SucceededRecord ELSE FailedRecord
  /\ \A w \in writes : w.owner = "events" /\ events.pc = "sent" /\ events.id \notin resent \cup dropped =>
       w.data[events.id] = SucceededRecord
  /\ events.pc = "sent" /\ result["events"] = "ok" /\ events.id \notin resent \cup dropped =>
       disk[events.id] = SucceededRecord

\* LDK's state of a payment bounds its record in the file and in the map.
InFile(i, S) == disk[i] \in S /\ (run # "down" /\ i \notin unread => mem[i] \in S)

Bounded ==
  \A i \in Id :
    /\ ldk[i] = "inflight" /\ i \notin dropped => disk[i] # NoRecord
    /\ i \notin resent \cup dropped =>
         /\ ldk[i] = "inflight" => InFile(i, {NewRecord})
         /\ ldk[i] \in {"sent", "sent_handled", "fulfilled"} =>
              InFile(i, {NewRecord, SucceededRecord})
         /\ ldk[i] \in {"failed", "failed_handled"} => InFile(i, {NewRecord, FailedRecord})
         /\ ldk[i] = "failed_handled" => mem[i] = FailedRecord
         /\ i \notin unnoted /\ (ldk[i] \in {"sent_handled", "fulfilled"} \/ i \in paid) =>
              disk[i] = SucceededRecord
    /\ run # "up" => ldk[i] \notin {"sent_handled", "failed_handled"}

\* A Pending record nobody works on is explained; the start leaves none.
Explained ==
  \A i \in Id : mem[i].status = "pending" /\ ldk[i] = "none" /\ i \notin resent =>
    /\ run # "restoring"
    /\ cli = Idle \/ cli.id # i => i \in unsent \cup unnoted

OutboundInv ==
  /\ TypeOK /\ Ordered /\ Awaited /\ Chain /\ Unread /\ Dropped
  /\ Command /\ Handler /\ Bounded /\ Explained

-----------------------------------------------------------------------------
(***************************************************************************)
(* Records and their order.                                                *)
(***************************************************************************)

\* The four records, apart.
LEMMA Records ==
  /\ {NoRecord, NewRecord, SucceededRecord, FailedRecord} \subseteq Record
  /\ NoRecord.status = "none" /\ NewRecord.status = "pending"
  /\ SucceededRecord.status = "succeeded" /\ FailedRecord.status = "failed"
  /\ NoRecord # NewRecord /\ NoRecord # SucceededRecord /\ NoRecord # FailedRecord
  /\ NewRecord # SucceededRecord /\ NewRecord # FailedRecord /\ SucceededRecord # FailedRecord
BY DEF NoRecord, NewRecord, SucceededRecord, FailedRecord, Record

\* The changes the code makes to a record: PaymentSent, PaymentFailed, PayErr and
\* the repair at start-up.
LEMMA Changes ==
  ASSUME NEW r \in Record
  PROVE  /\ Settled(r) \in Record /\ Abandoned(r) \in Record
         /\ [r EXCEPT !.status = "failed"] \in Record
         /\ [r EXCEPT !.status = "failed"] # NoRecord
         /\ r # NoRecord => Settled(r) = SucceededRecord /\ Abandoned(r) # NoRecord
         /\ r = NewRecord => [r EXCEPT !.status = "failed"] = FailedRecord
         /\ r \in {NewRecord, FailedRecord} => Abandoned(r) = FailedRecord
         /\ \A i : Restored(r, i) \in Record
         /\ \A i : r # NoRecord => Restored(r, i) # NoRecord
         /\ \A i : Restored(r, i).status = "pending" => ldk[i] # "none"
         /\ \A i : ldk[i] # "none" => Restored(r, i) = r
<1> USE Records
<1>1. /\ [r EXCEPT !.status = "failed"] \in Record
      /\ [r EXCEPT !.status = "failed"].status = "failed"
      /\ r = NewRecord => [r EXCEPT !.status = "failed"] = FailedRecord
      /\ r = FailedRecord => [r EXCEPT !.status = "failed"] = FailedRecord
  BY DEF Record, NewRecord, FailedRecord
<1>2. Settled(r) \in {r, SucceededRecord} /\ (r # NoRecord => Settled(r) = SucceededRecord)
  BY DEF Settled, SucceededRecord
<1> QED BY <1>1, <1>2 DEF Abandoned, Restored

\* The order: a record stays as it is, moves on twice, or has no bound any more.
LEMMA KeptRefl == ASSUME NEW R, NEW i, NEW a PROVE Kept(R, i, a, a)
BY DEF Kept, Le

\* Moving on twice is moving on.
LEMMA KeptTrans ==
  ASSUME NEW R, NEW i, NEW a, NEW b, NEW c, Kept(R, i, a, b), Kept(R, i, b, c)
  PROVE  Kept(R, i, a, c)
BY Records DEF Kept, Le

\* Sending more payments again only weakens what is kept.
LEMMA KeptGrows ==
  ASSUME NEW R, NEW T, R \subseteq T, NEW i, NEW a, NEW b, Kept(R, i, a, b)
  PROVE  Kept(T, i, a, b)
BY DEF Kept

\* What lies between two records.
LEMMA Between ==
  ASSUME NEW R, NEW i, i \notin R, NEW a, NEW b, NEW c, Kept(R, i, a, b), Kept(R, i, b, c)
  PROVE  /\ a = NewRecord /\ c = NewRecord => b = NewRecord
         /\ a \in {NewRecord, SucceededRecord} /\ c \in {NewRecord, SucceededRecord} =>
              b \in {NewRecord, SucceededRecord}
         /\ a \in {NewRecord, FailedRecord} /\ c \in {NewRecord, FailedRecord} =>
              b \in {NewRecord, FailedRecord}
BY Records DEF Kept, Le

\* A success is the end of it.
LEMMA SuccessIsLast ==
  ASSUME NEW R, NEW i, i \notin R, NEW a, NEW b, Kept(R, i, a, b), a.status = "succeeded"
  PROVE  a = b
BY Records DEF Kept, Le

-----------------------------------------------------------------------------
(***************************************************************************)
(* The writes under way.                                                   *)
(***************************************************************************)

\* What the return of w makes of another write v.
After(v, w, S) == [v EXCEPT !.older = @ \ {w.owner}, !.skipped = @ \/ v.owner \in S]

\* The fields of a write after another returned.
LEMMA AfterFields ==
  ASSUME NEW v \in WriteType, NEW w, NEW S
  PROVE  /\ After(v, w, S) \in WriteType
         /\ After(v, w, S).owner = v.owner
         /\ After(v, w, S).data = v.data
         /\ After(v, w, S).older = v.older \ {w.owner}
         /\ After(v, w, S).skipped <=> v.skipped \/ v.owner \in S
<1>1. (v.skipped \/ v.owner \in S) \in BOOLEAN OBVIOUS
<1> QED BY <1>1 DEF After, WriteType

\* The writes left by a return, each from one that was there.
LEMMA ReturnShape ==
  ASSUME NEW w, NEW r, NEW S, Return(w, r, S)
  PROVE  /\ \A x \in writes' : \E v \in writes \ {w} : x = After(v, w, S)
         /\ \A v \in writes \ {w} : After(v, w, S) \in writes'
BY DEF Return, After

\* Of the writes left by a return each pair is as ordered as before.
LEMMA ReturnOrdered ==
  ASSUME writes \subseteq WriteType, Ordered, NEW w \in writes, NEW r, NEW S, Return(w, r, S)
  PROVE  writes' \subseteq WriteType /\ Ordered'
<1>1. writes' \subseteq WriteType BY AfterFields, ReturnShape
<1>2. ASSUME NEW x \in writes', NEW y \in writes', x.owner = y.owner PROVE x = y
  <2>1. PICK v \in writes \ {w} : x = After(v, w, S) BY ReturnShape
  <2>2. PICK u \in writes \ {w} : y = After(u, w, S) BY ReturnShape
  <2>3. v.owner = u.owner BY <1>2, <2>1, <2>2, AfterFields
  <2> QED BY <2>1, <2>2, <2>3 DEF Ordered
<1>3. ASSUME NEW x \in writes', NEW y \in writes', x.owner # y.owner
      PROVE  x.owner \in y.older \/ y.owner \in x.older
  <2>1. PICK v \in writes \ {w} : x = After(v, w, S) BY ReturnShape
  <2>2. PICK u \in writes \ {w} : y = After(u, w, S) BY ReturnShape
  <2>3. x.owner = v.owner /\ x.older = v.older \ {w.owner} BY <2>1, AfterFields
  <2>4. y.owner = u.owner /\ y.older = u.older \ {w.owner} BY <2>2, AfterFields
  <2>5. v.owner # w.owner /\ u.owner # w.owner BY DEF Ordered
  <2> QED BY <1>3, <2>3, <2>4, <2>5 DEF Ordered
<1>4. ASSUME NEW x \in writes', NEW o \in x.older PROVE \E y \in writes' : y.owner = o
  <2>1. PICK v \in writes \ {w} : x = After(v, w, S) BY ReturnShape
  <2>2. o \in v.older /\ o # w.owner BY <2>1, AfterFields
  <2>3. PICK u \in writes : u.owner = o BY <2>2 DEF Ordered
  <2>4. After(u, w, S) \in writes' /\ After(u, w, S).owner = o
    BY <2>2, <2>3, ReturnShape, AfterFields
  <2> QED BY <2>4
<1> QED BY <1>1, <1>2, <1>3, <1>4 DEF Ordered

\* A write called by a task that has none is the latest of all: it moves every
\* record on.
LEMMA CallKeeps ==
  ASSUME OutboundInv, NEW o \in Owner, NEW records \in [Id -> Record],
         \A w \in writes : w.owner # o,
         resent \subseteq resent', run' # "down", unread \subseteq unread',
         \A i \in Id \ unread' : Kept(resent', i, disk[i], records[i]),
         \A i \in Id : \A w \in writes : Kept(resent', i, w.data[i], records[i]),
         Update(o, records)
  PROVE  /\ disk' = disk /\ mem' = records
         /\ writes' \subseteq WriteType
         /\ result' \in [Owner -> {"none", "ok", "err"}]
         /\ Ordered' /\ Chain'
         /\ \A w \in writes' : w \in writes \/ (w.owner = o /\ w.data = records /\ ~w.skipped)
         /\ result'[o] = "none" /\ \A p \in Owner : p # o => result'[p] = result[p]
<1> DEFINE new == [owner |-> o, data |-> records, older |-> {w.owner : w \in writes},
                   skipped |-> FALSE]
<1>1. /\ disk' = disk /\ mem' = records
      /\ writes' = writes \cup {new}
      /\ result' = [result EXCEPT ![o] = "none"]
  BY DEF Update, Write
<1>2. writes \subseteq WriteType /\ result \in [Owner -> {"none", "ok", "err"}]
  BY DEF OutboundInv, TypeOK, WriteType
<1>3. /\ new \in WriteType
      /\ new.owner = o /\ new.data = records /\ ~new.skipped
      /\ \A w \in writes : w.owner \in new.older
      /\ \A p \in new.older : \E w \in writes : w.owner = p
  <2>1. {w.owner : w \in writes} \in SUBSET Owner BY <1>2 DEF WriteType
  <2>2. new \in WriteType BY <2>1 DEF WriteType
  <2> QED BY <2>2
<1> HIDE DEF new
<1>4. writes' \subseteq WriteType BY <1>1, <1>2, <1>3
<1>5. \A w \in writes : o \notin w.older BY DEF OutboundInv, Ordered
<1>6. Ordered' BY <1>1, <1>3, <1>5 DEF OutboundInv, Ordered
<1>7. Chain'
  <2> SUFFICES ASSUME NEW i \in Id
               PROVE  /\ \A v, w \in writes' :
                           v.owner \in w.older => Kept(resent', i, v.data[i], w.data[i])
                      /\ \A w \in writes' : Kept(resent', i, w.data[i], mem'[i])
                      /\ i \notin unread' => Kept(resent', i, disk'[i], mem'[i])
                      /\ i \notin unread' =>
                           \A w \in writes' :
                             IF w.skipped THEN Kept(resent', i, w.data[i], disk'[i])
                                          ELSE Kept(resent', i, disk'[i], w.data[i])
    BY DEF Chain
  <2>1. ASSUME NEW v \in writes', NEW w \in writes', v.owner \in w.older
        PROVE  Kept(resent', i, v.data[i], w.data[i])
    <3>1. CASE v \in writes /\ w \in writes
      <4>1. Kept(resent, i, v.data[i], w.data[i]) BY <2>1, <3>1 DEF OutboundInv, Chain
      <4> QED BY <4>1, KeptGrows
    <3>2. CASE v \in writes /\ w = new BY <1>3, <3>2
    <3>3. CASE v = new /\ w \in writes BY <1>3, <1>5, <2>1, <3>3
    <3>4. CASE v = new /\ w = new BY <3>4, KeptRefl
    <3> QED BY <1>1, <3>1, <3>2, <3>3, <3>4
  <2>2. ASSUME NEW w \in writes' PROVE Kept(resent', i, w.data[i], mem'[i])
    BY <1>1, <1>3, KeptRefl
  <2>3. i \notin unread' => Kept(resent', i, disk'[i], mem'[i]) BY <1>1
  <2>4. ASSUME i \notin unread', NEW w \in writes'
        PROVE  IF w.skipped THEN Kept(resent', i, w.data[i], disk'[i])
                            ELSE Kept(resent', i, disk'[i], w.data[i])
    <3>1. CASE w \in writes
      <4>1. IF w.skipped THEN Kept(resent, i, w.data[i], disk[i])
                         ELSE Kept(resent, i, disk[i], w.data[i])
        BY <2>4, <3>1 DEF OutboundInv, Chain
      <4> QED BY <1>1, <4>1, KeptGrows
    <3>2. CASE w = new BY <1>1, <1>3, <2>4, <3>2
    <3> QED BY <1>1, <3>1, <3>2
  <2> QED BY <2>1, <2>2, <2>3, <2>4
<1>9. /\ result' \in [Owner -> {"none", "ok", "err"}]
      /\ result'[o] = "none" /\ \A p \in Owner : p # o => result'[p] = result[p]
  BY <1>1, <1>2
<1> QED BY <1>1, <1>3, <1>4, <1>6, <1>7, <1>9

\* A write returns: the file has what it had, or what the write carries.
LEMMA FileKeeps ==
  ASSUME OutboundInv, FileStep
  PROVE  /\ OutboundInv'
         /\ \A i \in Id \ unread : Kept(resent, i, disk[i], disk'[i])
<1> PICK w \in writes : WriteLands(w) \/ WriteSkipped(w) \/ WriteFails(w) BY DEF FileStep
<1>1. /\ UNCHANGED <<mem, run, cli, events, ldk, paid, resent, unnoted, unsent>>
      /\ dropped' = dropped \cup {i \in unread : disk'[i] = NoRecord}
      /\ unread' = {i \in unread : disk'[i] # NoRecord}
      /\ writes \subseteq WriteType /\ w \in WriteType
  BY DEF FileStep, OutboundInv, TypeOK, WriteType, ldkVars, historyVars
<1>2. PICK r \in {"ok", "err"}, T \in SUBSET Owner :
        /\ Return(w, r, T)
        /\ \/ ~w.skipped /\ disk' = w.data /\ r = "ok" /\ T = w.older
           \/ w.skipped /\ disk' = disk /\ r = "ok" /\ T = {}
           \/ ~w.skipped /\ disk' = disk /\ r = "err" /\ T = {}
  BY <1>1 DEF WriteLands, WriteSkipped, WriteFails, WriteType
<1>3. writes' \subseteq WriteType /\ Ordered'
  BY <1>1, <1>2, ReturnOrdered DEF OutboundInv
<1>4. /\ result' \in [Owner -> {"none", "ok", "err"}]
      /\ result'[w.owner] = r /\ \A p \in Owner : p # w.owner => result'[p] = result[p]
  BY <1>1, <1>2 DEF Return, OutboundInv, TypeOK, WriteType
<1>5. disk' \in [Id -> Record] BY <1>1, <1>2 DEF OutboundInv, TypeOK, WriteType
<1>6. TypeOK' BY <1>1, <1>3, <1>4, <1>5 DEF OutboundInv, TypeOK, WriteType
<1>7. ASSUME NEW x \in writes'
      PROVE  \E v \in writes :
               /\ v # w /\ v.owner # w.owner
               /\ x.owner = v.owner /\ x.data = v.data /\ x.older = v.older \ {w.owner}
               /\ x.skipped <=> v.skipped \/ v.owner \in T
  <2>1. PICK v \in writes \ {w} : x = After(v, w, T) BY <1>2, ReturnShape
  <2>2. v.owner # w.owner BY DEF OutboundInv, Ordered
  <2>3. v \in WriteType BY <1>1
  <2> QED BY <2>1, <2>2, <2>3, AfterFields
<1>8. run # "down" BY DEF OutboundInv, Awaited
<1>9. Awaited'
  <2>1. ASSUME NEW x \in writes'
        PROVE  /\ result'[x.owner] = "none"
               /\ x.owner = "cli" => cli'.pc \in {"persist", "note"}
               /\ x.owner = "events" => events' # Idle
               /\ x.owner = "main" => run' = "restoring"
               /\ run' = "restoring" => x.owner = "main"
    <3>1. PICK v \in writes : v.owner # w.owner /\ x.owner = v.owner /\ x.data = v.data
      BY <1>7
    <3>2. v.owner \in Owner BY <1>1 DEF WriteType
    <3> QED BY <1>1, <1>4, <3>1, <3>2 DEF OutboundInv, Awaited
  <2> QED BY <1>1, <1>8, <2>1 DEF OutboundInv, Awaited
\* The file moves on, and no further than the map.
<1>10. ASSUME NEW i \in Id, i \notin unread
       PROVE  Kept(resent, i, disk[i], disk'[i]) /\ Kept(resent, i, disk'[i], mem[i])
  <2>1. CASE disk' = disk BY <1>8, <1>10, <2>1, KeptRefl DEF OutboundInv, Chain
  <2>2. CASE disk' = w.data /\ ~w.skipped BY <1>10, <2>2 DEF OutboundInv, Chain
  <2> QED BY <1>2, <2>1, <2>2
\* What a start that could not read the file writes is empty.
<1>18. ASSUME NEW i \in Id, unread # {}
       PROVE  mem[i] = NoRecord /\ \A v \in writes : v.data[i] = NoRecord
  <2>1. mem[i] = NoRecord BY <1>18 DEF OutboundInv, Unread
  <2>2. \A v \in writes : Kept(resent, i, v.data[i], mem[i]) BY DEF OutboundInv, Chain
  <2> QED BY <2>1, <2>2 DEF Kept
<1>19. unread' \subseteq unread /\ dropped' \subseteq dropped \cup unread BY <1>1
<1>11. Chain'
  <2> SUFFICES ASSUME NEW i \in Id
               PROVE  /\ \A x, y \in writes' :
                           x.owner \in y.older => Kept(resent', i, x.data[i], y.data[i])
                      /\ \A x \in writes' : Kept(resent', i, x.data[i], mem'[i])
                      /\ i \notin unread' => Kept(resent', i, disk'[i], mem'[i])
                      /\ i \notin unread' =>
                           \A x \in writes' :
                             IF x.skipped THEN Kept(resent', i, x.data[i], disk'[i])
                                          ELSE Kept(resent', i, disk'[i], x.data[i])
    BY DEF Chain
  <2>1. ASSUME NEW x \in writes', NEW y \in writes', x.owner \in y.older
        PROVE  Kept(resent', i, x.data[i], y.data[i])
    <3>1. PICK v \in writes : x.owner = v.owner /\ x.data = v.data BY <1>7
    <3>2. PICK u \in writes : y.data = u.data /\ y.older = u.older \ {w.owner} BY <1>7
    <3> QED BY <1>1, <2>1, <3>1, <3>2 DEF OutboundInv, Chain
  <2>2. ASSUME NEW x \in writes' PROVE Kept(resent', i, x.data[i], mem'[i])
    <3>1. PICK v \in writes : x.data = v.data BY <1>7
    <3> QED BY <1>1, <3>1 DEF OutboundInv, Chain
  <2>3. ASSUME i \notin unread, NEW x \in writes'
        PROVE  IF x.skipped THEN Kept(resent', i, x.data[i], disk'[i])
                            ELSE Kept(resent', i, disk'[i], x.data[i])
    <3>1. PICK v \in writes :
            /\ v # w /\ v.owner # w.owner
            /\ x.owner = v.owner /\ x.data = v.data
            /\ x.skipped <=> v.skipped \/ v.owner \in T
      BY <1>7
    <3>2. CASE v.skipped
      <4>1. Kept(resent, i, v.data[i], disk[i]) BY <2>3, <3>2 DEF OutboundInv, Chain
      <4>2. Kept(resent, i, v.data[i], disk'[i]) BY <1>10, <2>3, <4>1, KeptTrans
      <4> QED BY <1>1, <3>1, <3>2, <4>2
    <3>3. CASE ~v.skipped /\ disk' = w.data /\ T = w.older /\ v.owner \in w.older
      <4>1. Kept(resent, i, v.data[i], w.data[i]) BY <3>3 DEF OutboundInv, Chain
      <4> QED BY <1>1, <3>1, <3>3, <4>1
    <3>4. CASE ~v.skipped /\ disk' = w.data /\ T = w.older /\ v.owner \notin w.older
      <4>1. w.owner \in v.older BY <3>1, <3>4 DEF OutboundInv, Ordered
      <4>2. Kept(resent, i, w.data[i], v.data[i]) BY <4>1 DEF OutboundInv, Chain
      <4> QED BY <1>1, <3>1, <3>4, <4>2
    <3>5. CASE ~v.skipped /\ disk' = disk /\ T = {}
      <4>1. Kept(resent, i, disk[i], v.data[i]) BY <2>3, <3>5 DEF OutboundInv, Chain
      <4> QED BY <1>1, <3>1, <3>5, <4>1
    <3> QED BY <1>2, <3>2, <3>3, <3>4, <3>5
  <2>4. CASE i \notin unread BY <1>1, <1>10, <2>1, <2>2, <2>3, <2>4
  <2>5. CASE i \in unread
    <3>1. i \notin unread' => disk'[i] = NoRecord BY <1>1, <2>5
    <3>2. mem'[i] = NoRecord BY <1>1, <1>18, <2>5
    <3>3. ASSUME NEW x \in writes' PROVE x.data[i] = NoRecord
      <4>1. PICK v \in writes : x.data = v.data BY <1>7
      <4> QED BY <1>18, <2>5, <4>1
    <3>4. Kept(resent', i, NoRecord, NoRecord) BY KeptRefl
    <3> QED BY <2>1, <2>2, <3>1, <3>2, <3>3, <3>4
  <2> QED BY <2>4, <2>5
<1>20. Unread'
  <2> SUFFICES ASSUME unread' # {} PROVE Unread'
    BY DEF Unread
  <2>1. unread # {} BY <1>19
  <2>2. run = "restoring" /\ w.owner = "main" /\ ~w.skipped
    BY <2>1 DEF OutboundInv, Unread, Awaited
  <2>3. PICK i \in unread : disk'[i] # NoRecord BY <1>1
  <2>4. i \in Id BY DEF OutboundInv, TypeOK
  <2>5. r = "err" BY <1>2, <1>18, <2>1, <2>2, <2>3, <2>4
  <2>6. result'["main"] # "ok" BY <1>4, <2>2, <2>5
  <2>7. \A x \in writes' : FALSE BY <1>7, <2>2 DEF OutboundInv, Awaited
  <2> QED BY <1>1, <1>18, <2>1, <2>2, <2>6, <2>7 DEF Unread
<1>21. Dropped'
  <2> SUFFICES ASSUME NEW i \in dropped', i \notin resent
               PROVE  disk'[i] = NoRecord /\ mem[i] = NoRecord
    BY <1>1 DEF Dropped
  <2>0. i \in Id BY <1>1, <1>19 DEF OutboundInv, TypeOK
  <2>1. CASE i \in unread /\ disk'[i] = NoRecord BY <1>18, <2>0, <2>1
  <2>2. CASE i \in dropped
    <3>1. disk[i] = NoRecord /\ mem[i] = NoRecord BY <2>2 DEF OutboundInv, Dropped
    <3>2. Kept(resent, i, w.data[i], mem[i]) BY <2>0 DEF OutboundInv, Chain
    <3> QED BY <1>2, <3>1, <3>2 DEF Kept
  <2> QED BY <1>1, <2>1, <2>2
\* A write that returns ok has brought the file at least to what it carries.
<1>12. ASSUME NEW i \in Id, i \notin unread, r = "ok"
       PROVE  Kept(resent, i, w.data[i], disk'[i])
  <2>1. CASE w.skipped /\ disk' = disk BY <1>12, <2>1 DEF OutboundInv, Chain
  <2>2. CASE disk' = w.data BY <2>2, KeptRefl
  <2> QED BY <1>2, <1>12, <2>1, <2>2
<1>13. "cli" \in Owner /\ "events" \in Owner BY OwnerAssumption
<1>22. cli # Idle \/ events # Idle => unread = {} /\ unread' = {} /\ dropped' = dropped
  BY <1>1 DEF OutboundInv, Awaited, Unread
<1>14. Command'
  <2>1. ASSUME NEW x \in writes', x.owner = "cli", cli.pc = "persist"
        PROVE  x.data[cli.id] # NoRecord
    <3>1. PICK v \in writes : x.owner = v.owner /\ x.data = v.data BY <1>7
    <3> QED BY <2>1, <3>1 DEF OutboundInv, Command
  <2>2. ASSUME cli.pc = "persist" PROVE cli.id \in Id /\ cli.id \notin unread
    BY <1>22, <2>2 DEF OutboundInv, TypeOK, Idle
  <2>3. ASSUME cli.pc = "pay" PROVE cli.id \in Id /\ cli.id \notin unread
    BY <1>22, <2>3 DEF OutboundInv, TypeOK, Idle
  <2>4. ASSUME cli.pc = "persist", result'["cli"] = "ok" PROVE disk'[cli.id] # NoRecord
    <3>1. CASE w.owner = "cli"
      <4>1. w.data[cli.id] # NoRecord BY <2>4, <3>1 DEF OutboundInv, Command
      <4> QED BY <1>4, <1>12, <2>2, <2>4, <3>1, <4>1 DEF Kept
    <3>2. CASE w.owner # "cli"
      <4>1. disk[cli.id] # NoRecord BY <1>4, <1>13, <2>4, <3>2 DEF OutboundInv, Command
      <4> QED BY <1>10, <2>2, <2>4, <4>1 DEF Kept
    <3> QED BY <3>1, <3>2
  <2>5. ASSUME cli.pc = "pay" PROVE disk'[cli.id] # NoRecord
    <3>1. disk[cli.id] # NoRecord BY <2>5 DEF OutboundInv, Command
    <3> QED BY <1>10, <2>3, <2>5, <3>1 DEF Kept
  <2> QED BY <1>1, <2>1, <2>4, <2>5 DEF OutboundInv, Command
<1>15. Handler'
  <2>1. ASSUME NEW x \in writes', x.owner = "events", events.pc = "sent",
               events.id \notin resent \cup dropped
        PROVE  x.data[events.id] = SucceededRecord
    <3>1. PICK v \in writes : x.owner = v.owner /\ x.data = v.data BY <1>7
    <3> QED BY <2>1, <3>1 DEF OutboundInv, Handler
  <2>2. ASSUME events.pc = "sent", result'["events"] = "ok",
               events.id \notin resent \cup dropped
        PROVE  disk'[events.id] = SucceededRecord
    <3>0. events.id \in Id /\ events.id \notin unread
      BY <1>22, <2>2 DEF OutboundInv, TypeOK, Idle
    <3>1. CASE w.owner = "events"
      <4>1. w.data[events.id] = SucceededRecord BY <2>2, <3>1 DEF OutboundInv, Handler
      <4>2. Kept(resent, events.id, w.data[events.id], disk'[events.id])
        BY <1>4, <1>12, <2>2, <3>0, <3>1
      <4> QED BY <2>2, <4>1, <4>2, SuccessIsLast, Records
    <3>2. CASE w.owner # "events"
      <4>1. disk[events.id] = SucceededRecord
        BY <1>4, <1>13, <2>2, <3>2 DEF OutboundInv, Handler
      <4>2. Kept(resent, events.id, disk[events.id], disk'[events.id]) BY <1>10, <3>0
      <4> QED BY <2>2, <4>1, <4>2, SuccessIsLast, Records
    <3> QED BY <3>1, <3>2
  <2>3. events # Idle => dropped' = dropped BY <1>22
  <2>4. events.pc = "sent" => events # Idle BY DEF Idle
  <2> QED BY <1>1, <2>1, <2>2, <2>3, <2>4 DEF OutboundInv, Handler
<1>16. Bounded'
  <2> SUFFICES ASSUME NEW i \in Id, i \notin dropped'
               PROVE  /\ ldk[i] = "inflight" => disk'[i] # NoRecord
                      /\ i \notin resent =>
                           /\ ldk[i] = "inflight" => disk'[i] = NewRecord
                           /\ ldk[i] \in {"sent", "sent_handled", "fulfilled"} =>
                                disk'[i] \in {NewRecord, SucceededRecord}
                           /\ ldk[i] \in {"failed", "failed_handled"} =>
                                disk'[i] \in {NewRecord, FailedRecord}
                           /\ disk[i] = SucceededRecord => disk'[i] = SucceededRecord
    BY <1>1, <1>19 DEF OutboundInv, Bounded, InFile
  <2>5. i \notin dropped BY <1>1
  <2>6. CASE i \in unread
    <3>1. disk'[i] # NoRecord BY <1>1, <2>6
    <3>2. disk' = disk BY <1>2, <1>18, <2>6, <3>1
    <3> QED BY <2>5, <3>2 DEF OutboundInv, Bounded, InFile
  <2>7. CASE i \notin unread
    <3>1. Kept(resent, i, disk[i], disk'[i]) /\ Kept(resent, i, disk'[i], mem[i])
      BY <1>10, <2>7
    <3>2. ldk[i] = "inflight" => disk'[i] # NoRecord
      BY <2>5, <3>1 DEF OutboundInv, Bounded, Kept
    <3>3. ASSUME i \notin resent
          PROVE  /\ ldk[i] = "inflight" => disk'[i] = NewRecord
                 /\ ldk[i] \in {"sent", "sent_handled", "fulfilled"} =>
                      disk'[i] \in {NewRecord, SucceededRecord}
                 /\ ldk[i] \in {"failed", "failed_handled"} =>
                      disk'[i] \in {NewRecord, FailedRecord}
      BY <1>8, <2>5, <2>7, <3>1, <3>3, Between DEF OutboundInv, Bounded, InFile
    <3>4. i \notin resent /\ disk[i] = SucceededRecord => disk'[i] = SucceededRecord
      BY <3>1, SuccessIsLast, Records
    <3> QED BY <3>2, <3>3, <3>4
  <2> QED BY <2>6, <2>7
<1>17. Explained' BY <1>1 DEF OutboundInv, Explained
<1> QED
  BY <1>3, <1>6, <1>9, <1>10, <1>11, <1>14, <1>15, <1>16, <1>17, <1>20, <1>21 DEF OutboundInv

\* A task of a running node changes one record and calls the write.
LEMMA UpdateOne ==
  ASSUME OutboundInv, run = "up", run' = run, NEW o \in Owner, NEW i \in Id, NEW rec \in Record,
         \A w \in writes : w.owner # o,
         resent \subseteq resent', UNCHANGED <<unread, dropped>>,
         Kept(resent', i, mem[i], rec), i \in dropped \ resent' => rec = NoRecord,
         Update(o, [mem EXCEPT ![i] = rec])
  PROVE  /\ disk' = disk
         /\ mem' \in [Id -> Record] /\ mem'[i] = rec /\ \A j \in Id : j # i => mem'[j] = mem[j]
         /\ writes' \subseteq WriteType
         /\ result' \in [Owner -> {"none", "ok", "err"}]
         /\ Ordered' /\ Chain' /\ Unread' /\ Dropped'
         /\ \A w \in writes' : w \in writes \/ (w.owner = o /\ w.data = mem')
         /\ result'[o] = "none" /\ \A p \in Owner : p # o => result'[p] = result[p]
<1> DEFINE records == [mem EXCEPT ![i] = rec]
<1>1. mem \in [Id -> Record] BY DEF OutboundInv, TypeOK
<1>2. /\ records \in [Id -> Record] /\ records[i] = rec
      /\ \A j \in Id : j # i => records[j] = mem[j]
  BY <1>1
<1> HIDE DEF records
<1>3. \A j \in Id : Kept(resent', j, mem[j], records[j])
  <2> SUFFICES ASSUME NEW j \in Id PROVE Kept(resent', j, mem[j], records[j])
    OBVIOUS
  <2>1. CASE j = i BY <1>2, <2>1
  <2>2. CASE j # i BY <1>2, <2>2, KeptRefl
  <2> QED BY <2>1, <2>2
<1>8. unread = {} /\ unread \subseteq unread' /\ run' # "down" BY DEF OutboundInv, Unread
<1>4. ASSUME NEW j \in Id PROVE Kept(resent', j, disk[j], records[j])
  <2>1. Kept(resent, j, disk[j], mem[j]) BY <1>8 DEF OutboundInv, Chain
  <2> QED BY <1>3, <2>1, KeptGrows, KeptTrans
<1>5. ASSUME NEW j \in Id, NEW w \in writes PROVE Kept(resent', j, w.data[j], records[j])
  <2>1. Kept(resent, j, w.data[j], mem[j]) BY DEF OutboundInv, Chain
  <2> QED BY <1>3, <2>1, KeptGrows, KeptTrans
<1>6. Update(o, records) BY DEF records
<1>7. /\ disk' = disk /\ mem' = records
      /\ writes' \subseteq WriteType
      /\ result' \in [Owner -> {"none", "ok", "err"}]
      /\ Ordered' /\ Chain'
      /\ \A w \in writes' : w \in writes \/ (w.owner = o /\ w.data = records)
      /\ result'[o] = "none" /\ \A p \in Owner : p # o => result'[p] = result[p]
  BY <1>2, <1>4, <1>5, <1>6, <1>8, CallKeeps
<1>9. Unread' BY <1>8 DEF Unread
<1>10. Dropped'
  <2> SUFFICES ASSUME NEW j \in dropped, j \notin resent'
               PROVE  disk[j] = NoRecord /\ records[j] = NoRecord
    BY <1>7 DEF Dropped
  <2>1. j \in Id /\ disk[j] = NoRecord /\ mem[j] = NoRecord
    BY DEF OutboundInv, TypeOK, Dropped
  <2> QED BY <1>2, <2>1
<1> QED BY <1>2, <1>7, <1>9, <1>10

-----------------------------------------------------------------------------
(***************************************************************************)
(* The commands.                                                           *)
(***************************************************************************)

\* Where the command task and the event handler are.
LEMMA Places ==
  ASSUME TypeOK
  PROVE  /\ cli # Idle => cli.pc \in {"persist", "pay", "note"} /\ cli.id \in Id
         /\ cli.pc \in {"persist", "pay", "note"} => cli # Idle
         /\ events # Idle => events.pc \in {"sent", "failed"} /\ events.id \in Id
         /\ events.pc \in {"sent", "failed"} => events # Idle
         /\ Idle.pc = "idle"
BY DEF TypeOK, Idle

\* A record becomes Pending: of a payment never seen before, or of an invoice
\* whose record is not to be trusted from then on.
LEMMA SendKeeps ==
  ASSUME OutboundInv, NEW i \in Id, SendPayment(i)
  PROVE  OutboundInv'
<1> USE Records
<1>1. /\ run = "up" /\ cli = Idle /\ cli' = [pc |-> "persist", id |-> i]
      /\ Fresh(i) \/ i \in Bolt11Ids
      /\ Update("cli", [mem EXCEPT ![i] = NewRecord])
      /\ resent' = IF Fresh(i) THEN resent ELSE resent \cup {i}
      /\ unsent' = unsent \ {i}
      /\ UNCHANGED <<run, events, ldk, paid, unnoted, unread, dropped>>
  BY DEF SendPayment, ldkVars, lossVars
<1>2. cli'.pc = "persist" /\ cli'.id = i /\ cli' # Idle BY <1>1 DEF Idle
<1>3. /\ resent \subseteq resent' /\ resent' \subseteq resent \cup {i}
      /\ i \notin resent' => Fresh(i)
  BY <1>1
<1>4. Kept(resent', i, mem[i], NewRecord) BY <1>3 DEF Kept, Le, Fresh
<1>5. \A w \in writes : w.owner # "cli" BY <1>1, Places DEF OutboundInv, Awaited
<1>6. /\ disk' = disk
      /\ mem' \in [Id -> Record] /\ mem'[i] = NewRecord
      /\ \A j \in Id : j # i => mem'[j] = mem[j]
      /\ writes' \subseteq WriteType
      /\ result' \in [Owner -> {"none", "ok", "err"}]
      /\ Ordered' /\ Chain' /\ Unread' /\ Dropped'
      /\ \A w \in writes' : w \in writes \/ (w.owner = "cli" /\ w.data = mem')
      /\ result'["cli"] = "none" /\ \A p \in Owner : p # "cli" => result'[p] = result[p]
  <2>1. /\ "cli" \in Owner /\ NewRecord \in Record /\ run = "up" /\ run' = run
        /\ resent \subseteq resent' /\ UNCHANGED <<unread, dropped>>
        /\ i \in dropped \ resent' => NewRecord = NoRecord
    BY <1>1, <1>3, OwnerAssumption DEF Fresh
  <2>2. Update("cli", [mem EXCEPT ![i] = NewRecord]) BY <1>1
  <2> QED BY <1>4, <1>5, <2>1, <2>2, UpdateOne
<1>7. TypeOK'
  BY <1>1, <1>3, <1>6 DEF OutboundInv, TypeOK, WriteType
<1>8. Awaited'
  BY <1>1, <1>2, <1>6, OwnerAssumption DEF OutboundInv, TypeOK, Awaited
<1>9. Command'
  BY <1>1, <1>2, <1>3, <1>5, <1>6 DEF OutboundInv, Command, Fresh
<1>10. Handler'
  <2>1. events # Idle /\ events.id \notin resent' => events.id # i
    BY <1>1, <1>3, Places DEF OutboundInv, Handler, Fresh
  <2>2. "events" \in Owner /\ "events" # "cli" BY OwnerAssumption
  <2> QED BY <1>1, <1>3, <1>5, <1>6, <2>1, <2>2, Places DEF OutboundInv, Handler
<1>11. Bounded'
  BY <1>1, <1>3, <1>6 DEF OutboundInv, Bounded, InFile, Fresh
<1>12. Explained'
  BY <1>1, <1>2, <1>3, <1>6 DEF OutboundInv, Explained
<1> QED BY <1>6, <1>7, <1>8, <1>9, <1>10, <1>11, <1>12 DEF OutboundInv

\* The steps of a command that leave the map, the file and its writes alone.
LEMMA CommandKeeps ==
  ASSUME OutboundInv,
         PendingPersisted \/ PendingNotPersisted \/ PayOk \/ FailureNoted \/ PayOfferErr
  PROVE  OutboundInv'
<1> USE Records
<1>1. UNCHANGED <<disk, writes, result, mem, run, events, paid, resent, unnoted, unread, dropped>>
  BY DEF PendingPersisted, PendingNotPersisted, PayOk, FailureNoted, PayOfferErr,
         fileVars, ldkVars, historyVars, lossVars
<1>2. Ordered' /\ Chain' /\ Unread' /\ Dropped'
  BY <1>1 DEF OutboundInv, Ordered, Chain, Unread, Dropped
<1>3. cli # Idle /\ cli.id \in Id /\ run = "up"
  BY Places DEF PendingPersisted, PendingNotPersisted, PayOk, FailureNoted, PayOfferErr,
                OutboundInv, Awaited
<1>4. CASE PendingPersisted
  <2>1. /\ cli.pc = "persist" /\ result["cli"] = "ok" /\ UNCHANGED <<ldk, unsent>>
        /\ cli' = [cli EXCEPT !.pc = "pay"]
    BY <1>4 DEF PendingPersisted, ldkVars, historyVars
  <2>2. cli \in [pc : {"persist", "pay", "note"}, id : Id]
    BY <1>3 DEF OutboundInv, TypeOK
  <2>3. /\ cli'.pc = "pay" /\ cli'.id = cli.id /\ cli' # Idle
        /\ cli' \in [pc : {"persist", "pay", "note"}, id : Id]
    BY <2>1, <2>2 DEF Idle
  <2>4. \A w \in writes : w.owner # "cli" BY <2>1 DEF OutboundInv, Awaited
  <2>5. TypeOK' BY <1>1, <2>1, <2>3 DEF OutboundInv, TypeOK
  <2>6. Awaited' BY <1>1, <1>3, <2>4 DEF OutboundInv, Awaited
  <2>7. Command' BY <1>1, <1>3, <2>1, <2>3, <2>4 DEF OutboundInv, Command
  <2>8. Handler' /\ Bounded' BY <1>1, <2>1 DEF OutboundInv, Handler, Bounded, InFile
  <2>9. Explained' BY <1>1, <1>3, <2>1, <2>3 DEF OutboundInv, Explained
  <2> QED BY <1>2, <2>5, <2>6, <2>7, <2>8, <2>9 DEF OutboundInv
<1>5. CASE PendingNotPersisted \/ FailureNoted \/ PayOfferErr
  <2>1. /\ cli' = Idle /\ ldk' = ldk
        /\ unsent \subseteq unsent' /\ unsent' \subseteq unsent \cup {cli.id}
        /\ cli.pc = "note" \/ cli.id \in unsent'
        /\ cli.pc = "pay" \/ result["cli"] # "none"
    BY <1>5 DEF PendingNotPersisted, FailureNoted, PayOfferErr, ldkVars, historyVars
  <2>2. \A w \in writes : w.owner # "cli" BY <2>1 DEF OutboundInv, Awaited
  <2>3. TypeOK' BY <1>1, <1>3, <2>1 DEF OutboundInv, TypeOK
  <2>4. Awaited' BY <1>1, <1>3, <2>2 DEF OutboundInv, Awaited
  <2>5. Command' BY <1>1, <2>1, <2>2, Places DEF OutboundInv, Command
  <2>6. Handler' /\ Bounded' BY <1>1, <2>1 DEF OutboundInv, Handler, Bounded, InFile
  <2>7. ASSUME NEW i \in Id, mem[i].status = "pending", ldk[i] = "none", i \notin resent
        PROVE  i \in unsent' \cup unnoted
    <3>1. CASE cli.id = i
      <4>1. cli.pc # "note" BY <1>3, <2>7, <3>1 DEF OutboundInv, Command
      <4> QED BY <2>1, <3>1, <4>1
    <3>2. CASE cli.id # i BY <2>1, <2>7, <3>2 DEF OutboundInv, Explained
    <3> QED BY <3>1, <3>2
  <2>8. Explained' BY <1>1, <1>3, <2>1, <2>7 DEF Explained
  <2> QED BY <1>2, <2>3, <2>4, <2>5, <2>6, <2>8 DEF OutboundInv
<1>6. CASE PayOk
  <2>1. /\ cli.pc = "pay" /\ ldk[cli.id] = "none" /\ cli' = Idle /\ unsent' = unsent
        /\ ldk' = [ldk EXCEPT ![cli.id] = "inflight"]
    BY <1>6 DEF PayOk, historyVars
  <2>2. /\ ldk' \in [Id -> LdkState] /\ ldk'[cli.id] = "inflight"
        /\ \A j \in Id : j # cli.id => ldk'[j] = ldk[j]
    BY <1>3, <2>1 DEF OutboundInv, TypeOK, LdkState
  <2>3. \A w \in writes : w.owner # "cli" BY <2>1 DEF OutboundInv, Awaited
  <2>4. TypeOK' BY <1>1, <2>1, <2>2 DEF OutboundInv, TypeOK
  <2>5. Awaited' BY <1>1, <1>3, <2>3 DEF OutboundInv, Awaited
  <2>6. Command' BY <1>1, <2>1, <2>3, Places DEF OutboundInv, Command
  <2>7. events # Idle => events.id # cli.id
    BY <2>1, Places DEF OutboundInv, Handler
  <2>8. Handler' BY <1>1, <2>2, <2>7, Places DEF OutboundInv, Handler
  <2>9. disk[cli.id] # NoRecord BY <2>1 DEF OutboundInv, Command
  <2>10. cli.id \notin resent => mem[cli.id] = NewRecord /\ disk[cli.id] = NewRecord
    <3> SUFFICES ASSUME cli.id \notin resent
                 PROVE  mem[cli.id] = NewRecord /\ disk[cli.id] = NewRecord
      OBVIOUS
    <3>1. mem[cli.id] = NewRecord BY <1>3, <2>1 DEF OutboundInv, Command
    <3>2. Kept(resent, cli.id, disk[cli.id], mem[cli.id])
      BY <1>3 DEF OutboundInv, Chain, Unread
    <3> QED BY <2>9, <3>1, <3>2 DEF Kept, Le
  <2>11. Bounded' BY <1>1, <1>3, <2>2, <2>9, <2>10 DEF OutboundInv, Bounded, InFile
  <2>12. Explained' BY <1>1, <1>3, <2>1, <2>2 DEF OutboundInv, Explained
  <2> QED BY <1>2, <2>4, <2>5, <2>6, <2>8, <2>11, <2>12 DEF OutboundInv
<1> QED BY <1>4, <1>5, <1>6

\* The pay call returns an error, which is noted.
LEMMA PayErrKeeps ==
  ASSUME OutboundInv, PayErr
  PROVE  OutboundInv'
<1> USE Records
<1> DEFINE i == cli.id
           rec == [mem[cli.id] EXCEPT !.status = "failed"]
<1>1. /\ cli.pc = "pay" /\ cli' = [cli EXCEPT !.pc = "note"]
      /\ Update("cli", [mem EXCEPT ![i] = rec])
      /\ UNCHANGED <<run, events, ldk, paid, resent, unnoted, unsent, unread, dropped>>
  BY DEF PayErr, ldkVars, historyVars, lossVars
<1>2. i \in Id /\ cli # Idle /\ run = "up"
  BY <1>1, Places DEF OutboundInv, Awaited
<1>3. cli \in [pc : {"persist", "pay", "note"}, id : Id] BY <1>2 DEF OutboundInv, TypeOK
<1>4. /\ cli'.pc = "note" /\ cli'.id = i /\ cli' # Idle
      /\ cli' \in [pc : {"persist", "pay", "note"}, id : Id]
  BY <1>1, <1>3 DEF Idle
<1>5. mem[i] \in Record BY <1>2 DEF OutboundInv, TypeOK
<1>6. rec \in Record /\ rec # NoRecord /\ (mem[i] = NewRecord => rec = FailedRecord)
  BY <1>5, Changes
<1> HIDE DEF rec
<1>7. i \notin resent => mem[i] = NewRecord /\ ldk[i] = "none"
  BY <1>1, <1>2 DEF OutboundInv, Command
<1>8. \A w \in writes : w.owner # "cli" BY <1>1 DEF OutboundInv, Awaited
<1>9. Kept(resent', i, mem[i], rec) BY <1>1, <1>6, <1>7 DEF Kept, Le
<1>10. /\ disk' = disk
       /\ mem' \in [Id -> Record] /\ mem'[i] = rec
       /\ \A j \in Id : j # i => mem'[j] = mem[j]
       /\ writes' \subseteq WriteType
       /\ result' \in [Owner -> {"none", "ok", "err"}]
       /\ Ordered' /\ Chain' /\ Unread' /\ Dropped'
       /\ \A w \in writes' : w \in writes \/ (w.owner = "cli" /\ w.data = mem')
       /\ result'["cli"] = "none" /\ \A p \in Owner : p # "cli" => result'[p] = result[p]
  <2>1. /\ "cli" \in Owner /\ run' = run /\ resent \subseteq resent'
        /\ UNCHANGED <<unread, dropped>>
        /\ i \in dropped \ resent' => rec = NoRecord
    BY <1>1, <1>7, OwnerAssumption DEF OutboundInv, Dropped
  <2>2. Update("cli", [mem EXCEPT ![i] = rec]) BY <1>1
  <2> HIDE DEF i
  <2> QED BY <1>2, <1>6, <1>8, <1>9, <2>1, <2>2, UpdateOne
<1> HIDE DEF i
<1>11. TypeOK' BY <1>1, <1>4, <1>10 DEF OutboundInv, TypeOK, WriteType
<1>12. Awaited'
  BY <1>1, <1>2, <1>4, <1>10, OwnerAssumption DEF OutboundInv, TypeOK, Awaited
<1>13. Command' BY <1>1, <1>4, <1>6, <1>7, <1>8, <1>10 DEF OutboundInv, Command
<1>14. Handler'
  <2>1. events # Idle /\ events.id \notin resent => events.id # i
    BY <1>7, Places DEF OutboundInv, Handler
  <2>2. "events" \in Owner /\ "events" # "cli" BY OwnerAssumption
  <2> QED BY <1>1, <1>8, <1>10, <2>1, <2>2, Places DEF OutboundInv, Handler
<1>15. Bounded' BY <1>1, <1>2, <1>7, <1>10 DEF OutboundInv, Bounded, InFile
<1>16. Explained'
  <2> SUFFICES ASSUME NEW j \in Id, mem'[j].status = "pending", ldk[j] = "none", j \notin resent
               PROVE  j \in unsent \cup unnoted
    BY <1>1, <1>2 DEF Explained
  <2>1. j # i BY <1>6, <1>7, <1>10
  <2> QED BY <1>2, <1>10, <2>1 DEF OutboundInv, Explained, i
<1> QED BY <1>10, <1>11, <1>12, <1>13, <1>14, <1>15, <1>16 DEF OutboundInv

-----------------------------------------------------------------------------
(***************************************************************************)
(* The event handler.                                                      *)
(***************************************************************************)

\* PaymentSent and PaymentFailed move the record on to the end.
LEMMA EventKeeps ==
  ASSUME OutboundInv, NEW i \in Id, PaymentSent(i) \/ PaymentFailed(i)
  PROVE  OutboundInv'
<1> USE Records
<1>1. PICK p \in {"sent", "failed"}, rec \in Record :
        /\ rec = IF p = "sent" THEN Settled(mem[i]) ELSE Abandoned(mem[i])
        /\ run = "up" /\ events = Idle /\ ldk[i] = p
        /\ Update("events", [mem EXCEPT ![i] = rec])
        /\ events' = [pc |-> p, id |-> i]
        /\ UNCHANGED <<run, cli, ldk, paid, resent, unnoted, unsent, unread, dropped>>
  <2>1. Settled(mem[i]) \in Record /\ Abandoned(mem[i]) \in Record
    BY Changes DEF OutboundInv, TypeOK
  <2>2. CASE PaymentSent(i) BY <2>1, <2>2 DEF PaymentSent, ldkVars, historyVars, lossVars
  <2>3. CASE PaymentFailed(i) BY <2>1, <2>3 DEF PaymentFailed, ldkVars, historyVars, lossVars
  <2> QED BY <2>2, <2>3
<1>2. events'.pc = p /\ events'.id = i /\ events' # Idle BY <1>1 DEF Idle
<1>3. mem[i] \in Record BY DEF OutboundInv, TypeOK
<1>4. /\ i \notin resent \cup dropped /\ p = "sent" => mem[i] \in {NewRecord, SucceededRecord}
      /\ i \notin resent \cup dropped /\ p = "failed" => mem[i] \in {NewRecord, FailedRecord}
      /\ i \in dropped \ resent => mem[i] = NoRecord
  BY <1>1 DEF OutboundInv, Bounded, InFile, Unread, Dropped
<1>15. mem[i] = NoRecord => rec = NoRecord BY <1>1 DEF Settled, Abandoned
<1>5. /\ rec \in Record /\ (mem[i] # NoRecord => rec # NoRecord)
      /\ i \notin resent \cup dropped => rec = IF p = "sent" THEN SucceededRecord ELSE FailedRecord
  <2>1. CASE p = "sent" BY <1>1, <1>3, <1>4, <2>1, Changes
  <2>2. CASE p = "failed" BY <1>1, <1>3, <1>4, <2>2, Changes
  <2> QED BY <2>1, <2>2
<1>6. \A w \in writes : w.owner # "events" BY <1>1 DEF OutboundInv, Awaited
<1>7. Kept(resent', i, mem[i], rec) BY <1>1, <1>4, <1>5 DEF Kept, Le
<1>8. /\ disk' = disk
      /\ mem' \in [Id -> Record] /\ mem'[i] = rec
      /\ \A j \in Id : j # i => mem'[j] = mem[j]
      /\ writes' \subseteq WriteType
      /\ result' \in [Owner -> {"none", "ok", "err"}]
      /\ Ordered' /\ Chain' /\ Unread' /\ Dropped'
      /\ \A w \in writes' : w \in writes \/ (w.owner = "events" /\ w.data = mem')
      /\ result'["events"] = "none" /\ \A o \in Owner : o # "events" => result'[o] = result[o]
  <2>1. /\ "events" \in Owner /\ run = "up" /\ run' = run /\ resent \subseteq resent'
        /\ UNCHANGED <<unread, dropped>>
        /\ i \in dropped \ resent' => rec = NoRecord
    BY <1>1, <1>4, <1>15, OwnerAssumption
  <2>2. Update("events", [mem EXCEPT ![i] = rec]) BY <1>1
  <2> QED BY <1>5, <1>6, <1>7, <2>1, <2>2, UpdateOne
<1>9. TypeOK' BY <1>1, <1>8 DEF OutboundInv, TypeOK, WriteType
<1>10. Awaited'
  BY <1>1, <1>2, <1>8, OwnerAssumption DEF OutboundInv, TypeOK, Awaited
<1>11. Command'
  <2>1. cli # Idle /\ cli.id \notin resent => cli.id # i
    BY <1>1, Places DEF OutboundInv, Command
  <2>2. "cli" \in Owner /\ "cli" # "events" BY OwnerAssumption
  <2> QED BY <1>1, <1>6, <1>8, <2>1, <2>2, Places DEF OutboundInv, Command
<1>12. Handler' BY <1>1, <1>2, <1>5, <1>6, <1>8 DEF OutboundInv, Handler
<1>13. Bounded'
  BY <1>1, <1>4, <1>5, <1>8 DEF OutboundInv, Bounded, InFile
<1>14. Explained' BY <1>1, <1>8 DEF OutboundInv, Explained
<1> QED BY <1>8, <1>9, <1>10, <1>11, <1>12, <1>13, <1>14 DEF OutboundInv

\* The handler returns.
LEMMA HandledKeeps ==
  ASSUME OutboundInv, EventHandled
  PROVE  OutboundInv'
<1> USE Records
<1> DEFINE i == events.id
           state == IF events.pc = "sent" THEN "sent_handled" ELSE "failed_handled"
<1>1. /\ events # Idle /\ result["events"] # "none" /\ events' = Idle
      /\ ldk' = [ldk EXCEPT ![i] = state]
      /\ unnoted' = IF events.pc = "sent" /\ result["events"] = "err"
                      THEN unnoted \cup {i} ELSE unnoted
      /\ UNCHANGED <<disk, writes, result, mem, run, cli, paid, resent, unsent, unread, dropped>>
  BY DEF EventHandled, fileVars, lossVars
<1>2. /\ i \in Id /\ events.pc \in {"sent", "failed"} /\ ldk[i] = events.pc /\ run = "up"
      /\ result["events"] \in {"ok", "err"}
  BY <1>1, Places, OwnerAssumption DEF OutboundInv, TypeOK, Handler, Awaited
<1>3. /\ ldk' \in [Id -> LdkState] /\ ldk'[i] = state
      /\ \A j \in Id : j # i => ldk'[j] = ldk[j]
  BY <1>1, <1>2 DEF OutboundInv, TypeOK, LdkState
<1>4. /\ unnoted \subseteq unnoted' /\ unnoted' \subseteq unnoted \cup {i}
      /\ events.pc = "sent" /\ i \notin unnoted' => result["events"] = "ok"
  BY <1>1, <1>2
<1>5. \A w \in writes : w.owner # "events" BY <1>1 DEF OutboundInv, Awaited
<1>6. cli # Idle /\ cli.id \notin resent => cli.id # i BY <1>2 DEF OutboundInv, Command
<1>7. i \notin resent \cup dropped =>
        /\ mem[i] = IF events.pc = "sent" THEN SucceededRecord ELSE FailedRecord
        /\ events.pc = "sent" /\ i \notin unnoted' => disk[i] = SucceededRecord
  BY <1>1, <1>4 DEF OutboundInv, Handler
<1> HIDE DEF i
<1>8. Ordered' /\ Chain' /\ Unread' /\ Dropped'
  BY <1>1 DEF OutboundInv, Ordered, Chain, Unread, Dropped
<1>9. TypeOK' BY <1>1, <1>2, <1>3, <1>4 DEF OutboundInv, TypeOK
<1>10. Awaited' BY <1>1, <1>2, <1>5 DEF OutboundInv, Awaited
<1>11. Command' BY <1>1, <1>3, <1>6, Places DEF OutboundInv, Command
<1>12. Handler' BY <1>1, <1>5, Places DEF OutboundInv, Handler
<1>13. Bounded'
  BY <1>1, <1>2, <1>3, <1>4, <1>7 DEF OutboundInv, Bounded, InFile
<1>14. Explained'
  BY <1>1, <1>2, <1>3, <1>4 DEF OutboundInv, Explained
<1> QED BY <1>8, <1>9, <1>10, <1>11, <1>12, <1>13, <1>14 DEF OutboundInv

-----------------------------------------------------------------------------
(***************************************************************************)
(* LDK, crashes and the start.                                             *)
(***************************************************************************)

\* LDK settles, persists and forgets.
LEMMA LdkKeeps ==
  ASSUME OutboundInv, PersistManager \/ \E i \in Id : Fulfil(i) \/ Abandon(i) \/ Forget(i)
  PROVE  OutboundInv'
<1> USE Records
<1>1. /\ run = "up"
      /\ UNCHANGED <<disk, writes, result, mem, run, cli, events, resent, unnoted, unsent>>
      /\ UNCHANGED <<unread, dropped>>
  BY DEF PersistManager, Fulfil, Abandon, Forget, fileVars, historyVars, lossVars
<1>2. /\ ldk' \in [Id -> LdkState]
      /\ \A i \in Id :
           \/ ldk'[i] = ldk[i]
           \/ ldk[i] = "inflight" /\ ldk'[i] \in {"sent", "failed"}
           \/ ldk[i] = "sent_handled" /\ ldk'[i] = "fulfilled"
           \/ ldk[i] = "failed_handled" /\ ldk'[i] = "none"
           \/ ldk[i] = "fulfilled" /\ ldk'[i] = "none"
  <2>1. ldk \in [Id -> LdkState] BY DEF OutboundInv, TypeOK
  <2>2. CASE PersistManager BY <2>1, <2>2 DEF PersistManager, LdkState
  <2>3. ASSUME NEW i \in Id, Fulfil(i) \/ Abandon(i) \/ Forget(i)
        PROVE  /\ ldk' \in [Id -> LdkState]
               /\ \A j \in Id :
                    \/ ldk'[j] = ldk[j]
                    \/ ldk[j] = "inflight" /\ ldk'[j] \in {"sent", "failed"}
                    \/ ldk[j] = "fulfilled" /\ ldk'[j] = "none"
    BY <2>1, <2>3 DEF Fulfil, Abandon, Forget, LdkState
  <2> QED BY <2>2, <2>3
<1>3. paid' \subseteq Id /\ \A i \in Id : i \in paid' => i \in paid \/ ldk[i] = "sent_handled"
  BY DEF PersistManager, Fulfil, Abandon, Forget, OutboundInv, TypeOK
<1>4. Ordered' /\ Chain' /\ Unread' /\ Dropped'
  BY <1>1 DEF OutboundInv, Ordered, Chain, Unread, Dropped
<1>5. TypeOK' BY <1>1, <1>2, <1>3 DEF OutboundInv, TypeOK
<1>6. Awaited' BY <1>1 DEF OutboundInv, Awaited
<1>7. Command' BY <1>1, <1>2, Places DEF OutboundInv, Command
<1>8. Handler' BY <1>1, <1>2, Places DEF OutboundInv, Handler
<1>9. Bounded' BY <1>1, <1>2, <1>3 DEF OutboundInv, Bounded, InFile
<1>10. Explained'
  <2> SUFFICES ASSUME NEW i \in Id, mem[i].status = "pending", ldk'[i] = "none", i \notin resent,
                      cli = Idle \/ cli.id # i
               PROVE  i \in unsent \cup unnoted
    BY <1>1 DEF Explained
  <2>1. CASE ldk'[i] = ldk[i] BY <2>1 DEF OutboundInv, Explained
  <2>0. i \notin dropped BY DEF OutboundInv, Dropped
  <2>2. CASE ldk[i] = "failed_handled"
    BY <2>0, <2>2 DEF OutboundInv, Bounded
  <2>3. CASE ldk[i] = "fulfilled"
    <3>1. CASE i \in unnoted BY <3>1
    <3>2. CASE i \notin unnoted
      <4>1. disk[i] = SucceededRecord BY <2>0, <2>3, <3>2 DEF OutboundInv, Bounded
      <4>2. Kept(resent, i, disk[i], mem[i]) BY <1>1 DEF OutboundInv, Chain, Unread
      <4> QED BY <4>1, <4>2, SuccessIsLast
    <3> QED BY <3>1, <3>2
  <2> QED BY <1>2, <2>1, <2>2, <2>3
<1> QED BY <1>4, <1>5, <1>6, <1>7, <1>8, <1>9, <1>10 DEF OutboundInv

\* A crash: the writes never land, and LDK replays what it had not persisted.
LEMMA CrashKeeps ==
  ASSUME OutboundInv, Crash
  PROVE  OutboundInv'
<1> USE Records
<1>1. /\ run' = "down" /\ writes' = {} /\ disk' = disk /\ cli' = Idle /\ events' = Idle
      /\ mem' = [i \in Id |-> NoRecord] /\ unsent' = {}
      /\ result' = [o \in Owner |-> "none"]
      /\ unread' = {}
      /\ UNCHANGED <<paid, resent, unnoted, dropped>>
  BY DEF Crash, AbandonWrites
<1>2. /\ ldk' \in [Id -> LdkState]
      /\ \A i \in Id :
           \/ ldk'[i] = ldk[i] /\ ldk[i] \notin {"sent_handled", "failed_handled"}
           \/ ldk[i] = "inflight" /\ ldk'[i] = "none"
           \/ ldk[i] = "sent_handled" /\ ldk'[i] = "sent"
           \/ ldk[i] = "failed_handled" /\ ldk'[i] = "failed"
  <2>1. ldk \in [Id -> LdkState] BY DEF OutboundInv, TypeOK
  <2>2. PICK lost \in SUBSET {i \in Id : ldk[i] = "inflight"} :
          ldk' = [i \in Id |-> CASE i \in lost -> "none"
                                 [] ldk[i] = "sent_handled" -> "sent"
                                 [] ldk[i] = "failed_handled" -> "failed"
                                 [] OTHER -> ldk[i]]
    BY DEF Crash
  <2> QED BY <2>1, <2>2 DEF LdkState
<1>3. TypeOK' BY <1>1, <1>2 DEF OutboundInv, TypeOK
<1>4. Bounded' BY <1>1, <1>2 DEF OutboundInv, Bounded, InFile
<1>5. Explained' BY <1>1 DEF Explained
<1> QED BY <1>1, <1>3, <1>4, <1>5, Places
    DEF OutboundInv, TypeOK, Ordered, Awaited, Chain, Unread, Dropped, Command, Handler

\* The start: what LDK does not know has failed, and nothing else changes.
LEMMA RestoreKeeps ==
  ASSUME OutboundInv, Restore
  PROVE  OutboundInv'
<1> USE Records
<1> DEFINE records == [i \in Id |-> Restored(disk[i], i)]
<1>1. /\ run = "down" /\ run' = "restoring" /\ Update("main", records)
      /\ UNCHANGED <<cli, events, ldk, paid, resent, unnoted, unsent, unread, dropped>>
  BY DEF Restore, ldkVars, historyVars, lossVars
<1>2. disk \in [Id -> Record] BY DEF OutboundInv, TypeOK
<1>3. /\ records \in [Id -> Record]
      /\ \A i \in Id : ldk[i] # "none" => records[i] = disk[i]
      /\ \A i \in Id : records[i].status = "pending" => ldk[i] # "none"
  <2>1. ASSUME NEW i \in Id
        PROVE  /\ Restored(disk[i], i) \in Record
               /\ ldk[i] # "none" => Restored(disk[i], i) = disk[i]
               /\ Restored(disk[i], i).status = "pending" => ldk[i] # "none"
    <3>1. disk[i] \in Record BY <1>2
    <3> QED BY <3>1, Changes
  <2> QED BY <2>1
<1>4. \A i \in Id : Kept(resent', i, disk[i], records[i])
  <2> SUFFICES ASSUME NEW i \in Id PROVE Kept(resent, i, disk[i], Restored(disk[i], i))
    BY <1>1
  <2>1. CASE disk[i].status = "pending" /\ ldk[i] = "none"
    <3>1. Restored(disk[i], i) = [disk[i] EXCEPT !.status = "failed"] BY <2>1 DEF Restored
    <3>2. disk[i] \in Record BY <1>2
    <3>3. [disk[i] EXCEPT !.status = "failed"].status = "failed" BY <3>2 DEF Record
    <3> QED BY <2>1, <3>1, <3>3 DEF Kept, Le
  <2>2. CASE ~(disk[i].status = "pending" /\ ldk[i] = "none")
    BY <2>2, KeptRefl DEF Restored
  <2> QED BY <2>1, <2>2
<1> HIDE DEF records
<1>5. writes = {} BY <1>1 DEF OutboundInv, Awaited
<1>6. /\ disk' = disk /\ mem' = records
      /\ writes' \subseteq WriteType
      /\ result' \in [Owner -> {"none", "ok", "err"}]
      /\ Ordered' /\ Chain'
      /\ \A w \in writes' : w.owner = "main" /\ w.data = records
      /\ result'["main"] = "none"
  <2>1. /\ "main" \in Owner /\ resent \subseteq resent' /\ run' # "down"
        /\ unread \subseteq unread'
    BY <1>1, OwnerAssumption
  <2> QED BY <1>1, <1>3, <1>4, <1>5, <2>1, CallKeeps
<1>7. TypeOK' BY <1>1, <1>3, <1>6 DEF OutboundInv, TypeOK, WriteType
<1>8. cli = Idle /\ events = Idle BY <1>1 DEF OutboundInv, Awaited
<1>9. Awaited' BY <1>1, <1>6, <1>8 DEF Awaited
<1>10. Command' /\ Handler' BY <1>1, <1>8, Places DEF OutboundInv, Command, Handler
<1>11. Bounded' BY <1>1, <1>3, <1>6 DEF OutboundInv, Bounded, InFile
<1>12. Explained' BY <1>1, <1>3, <1>6 DEF Explained
<1>13. Unread' BY <1>1 DEF OutboundInv, Unread
<1>14. Dropped'
  <2>1. ASSUME NEW i \in Id, disk[i] = NoRecord PROVE records[i] = NoRecord
    BY <2>1 DEF records, Restored
  <2> QED BY <1>1, <1>6, <2>1 DEF OutboundInv, TypeOK, Dropped
<1> QED BY <1>6, <1>7, <1>9, <1>10, <1>11, <1>12, <1>13, <1>14 DEF OutboundInv

\* The start that could not read the file: an empty map, to be written.
LEMMA RestoreUnreadKeeps ==
  ASSUME OutboundInv, RestoreUnread
  PROVE  OutboundInv'
<1> USE Records
<1> DEFINE records == [i \in Id |-> NoRecord]
<1>1. /\ run = "down" /\ run' = "restoring" /\ Update("main", records)
      /\ unread' = {i \in Id : disk[i] # NoRecord}
      /\ UNCHANGED <<cli, events, ldk, paid, resent, unnoted, unsent, dropped>>
  BY DEF RestoreUnread, ldkVars
<1>2. records \in [Id -> Record] /\ \A i \in Id : records[i] = NoRecord OBVIOUS
<1> HIDE DEF records
<1>3. \A i \in Id \ unread' : Kept(resent', i, disk[i], records[i])
  BY <1>1, <1>2, KeptRefl
<1>4. writes = {} /\ unread = {} BY <1>1 DEF OutboundInv, Awaited, Unread
<1>5. /\ disk' = disk /\ mem' = records
      /\ writes' \subseteq WriteType
      /\ result' \in [Owner -> {"none", "ok", "err"}]
      /\ Ordered' /\ Chain'
      /\ \A w \in writes' : w.owner = "main" /\ w.data = records /\ ~w.skipped
      /\ result'["main"] = "none"
  <2>1. /\ "main" \in Owner /\ resent \subseteq resent' /\ run' # "down"
        /\ unread \subseteq unread'
    BY <1>1, <1>4, OwnerAssumption
  <2> QED BY <1>1, <1>2, <1>3, <1>4, <2>1, CallKeeps
<1>6. TypeOK' BY <1>1, <1>2, <1>5 DEF OutboundInv, TypeOK, WriteType
<1>7. cli = Idle /\ events = Idle BY <1>1 DEF OutboundInv, Awaited
<1>8. Awaited' BY <1>1, <1>5, <1>7 DEF Awaited
<1>9. Command' /\ Handler' BY <1>1, <1>7, Places DEF OutboundInv, Command, Handler
<1>10. Bounded'
  <2>1. \A i \in Id \ unread' : disk[i] = NoRecord BY <1>1
  <2> QED BY <1>1, <1>5, <2>1 DEF OutboundInv, Bounded, InFile
<1>11. Explained' BY <1>2, <1>5 DEF Explained
<1>12. Unread' /\ Dropped' BY <1>1, <1>2, <1>5 DEF OutboundInv, TypeOK, Unread, Dropped
<1> QED BY <1>5, <1>6, <1>8, <1>9, <1>10, <1>11, <1>12 DEF OutboundInv

\* The repair is written, or the node does not start.
LEMMA RestartedKeeps ==
  ASSUME OutboundInv, Restarted
  PROVE  OutboundInv'
<1> USE Records
<1>1. /\ run = "restoring" /\ result["main"] # "none"
      /\ UNCHANGED <<disk, writes, cli, events, ldk, paid, resent, unnoted, unsent, dropped>>
      /\ unread' = {}
      /\ result' = [result EXCEPT !["main"] = "none"]
      /\ \/ run' = "up" /\ mem' = mem
         \/ run' = "down" /\ mem' = [i \in Id |-> NoRecord]
      /\ run' = "up" => result["main"] = "ok"
  BY DEF Restarted, ldkVars
<1>2. writes = {} /\ cli = Idle /\ events = Idle
  BY <1>1 DEF OutboundInv, Awaited
<1>10. run' = "up" => unread = {} BY <1>1 DEF OutboundInv, Unread
<1>3. result' \in [Owner -> {"none", "ok", "err"}] BY <1>1 DEF OutboundInv, TypeOK
<1>4. TypeOK' BY <1>1, <1>3 DEF OutboundInv, TypeOK
<1>5. Ordered' /\ Awaited' BY <1>1, <1>2 DEF Ordered, Awaited
<1>6. Chain' /\ Unread' /\ Dropped'
  BY <1>1, <1>2, <1>10 DEF OutboundInv, TypeOK, Chain, Unread, Dropped
<1>7. Command' /\ Handler' BY <1>1, <1>2, Places DEF OutboundInv, Command, Handler
<1>8. Bounded' BY <1>1, <1>10 DEF OutboundInv, Bounded, InFile
<1>9. Explained' BY <1>1 DEF OutboundInv, Explained
<1> QED BY <1>4, <1>5, <1>6, <1>7, <1>8, <1>9 DEF OutboundInv

\* The first start: no record, and nothing under way.
LEMMA OutboundInit == Init => OutboundInv
<1> SUFFICES ASSUME Init PROVE OutboundInv
  OBVIOUS
<1> USE Records
<1>1. /\ writes = {} /\ run = "up" /\ cli = Idle /\ events = Idle /\ paid = {}
      /\ resent = {} /\ unnoted = {} /\ unsent = {} /\ unread = {} /\ dropped = {}
      /\ disk = [i \in Id |-> NoRecord] /\ mem = [i \in Id |-> NoRecord]
      /\ ldk = [i \in Id |-> "none"] /\ result = [o \in Owner |-> "none"]
  BY DEF Init
<1>2. TypeOK BY <1>1 DEF TypeOK, LdkState
<1>3. Ordered /\ Awaited BY <1>1 DEF Ordered, Awaited
<1>4. Chain /\ Unread /\ Dropped BY <1>1, KeptRefl DEF Chain, Unread, Dropped
<1>5. Command /\ Handler BY <1>1, <1>2, Places DEF Command, Handler
<1>6. Bounded BY <1>1 DEF Bounded, InFile
<1>7. Explained BY <1>1 DEF Explained
<1> QED BY <1>2, <1>3, <1>4, <1>5, <1>6, <1>7 DEF OutboundInv

\* Every step.
LEMMA OutboundNext == OutboundInv /\ [Next]_vars => OutboundInv'
<1> SUFFICES ASSUME OutboundInv, [Next]_vars PROVE OutboundInv'
  OBVIOUS
<1>1. CASE Next
  BY <1>1, SendKeeps, CommandKeeps, PayErrKeeps, EventKeeps, HandledKeeps, LdkKeeps,
     CrashKeeps, RestoreKeeps, RestoreUnreadKeeps, RestartedKeeps, FileKeeps DEF Next
<1>2. CASE UNCHANGED vars
  BY <1>2 DEF vars, fileVars, ldkVars, historyVars, lossVars, OutboundInv, TypeOK, Ordered,
              Awaited, Chain, Unread, Dropped, Command, Handler, Bounded, InFile, Explained
<1> QED BY <1>1, <1>2

-----------------------------------------------------------------------------

\* The records, in memory, in the file and in every write under way, are ones
\* that HTLCStatus and PaymentInfo allow, and each task is at a place of its own.
THEOREM Types == Spec => []TypeOK
<1>1. OutboundInv => TypeOK BY DEF OutboundInv
<1> QED BY <1>1, OutboundInit, OutboundNext, PTL DEF Spec

(***************************************************************************)
(* What LDK has in flight is Pending in the file, however the commands,    *)
(* the event handler, the start and crashes interleave with their writes,  *)
(* unless a start that could not read the file wrote over it.              *)
(***************************************************************************)
THEOREM SentIsOnDisk == Spec => []InFlightIsPending
<1>1. OutboundInv => InFlightIsPending
  BY DEF OutboundInv, Bounded, InFile, InFlightIsPending
<1> QED BY <1>1, OutboundInit, OutboundNext, PTL DEF Spec

(***************************************************************************)
(* A payment whose PaymentSent LDK will not deliver again is Succeeded in  *)
(* the file, unless that write failed, the invoice was sent again or a     *)
(* start that could not read the file wrote over it.                       *)
(***************************************************************************)
THEOREM SuccessIsOnDisk == Spec => []PaidIsRecorded
<1>1. OutboundInv => PaidIsRecorded
  BY DEF OutboundInv, TypeOK, Bounded, PaidIsRecorded, SucceededRecord
<1> QED BY <1>1, OutboundInit, OutboundNext, PTL DEF Spec

(***************************************************************************)
(* A record Pending in memory with nothing under way for it was left so by *)
(* a failed command or a failed write, or its invoice was sent again.      *)
(***************************************************************************)
THEOREM StalePendingHasACause == Spec => []PendingIsExplained
<1>1. OutboundInv => PendingIsExplained
  BY DEF OutboundInv, Explained, PendingIsExplained
<1> QED BY <1>1, OutboundInit, OutboundNext, PTL DEF Spec

(***************************************************************************)
(* No write called earlier, no repair and no failed write takes a          *)
(* Succeeded record out of the file, unless the invoice is sent again: the *)
(* write of a start that could not read the file is the one that does.     *)
(***************************************************************************)
THEOREM SuccessNeverUndone == Spec => SucceededIsFinal
<1> DEFINE Final ==
      \A i \in Id : 
        disk[i].status = "succeeded" /\ i \notin resent' \cup unread => disk'[i] = disk[i]
<1>1. OutboundInv /\ [Next]_vars => [Final]_vars
  <2> SUFFICES ASSUME OutboundInv, Next PROVE Final
    OBVIOUS
  <2>1. CASE FileStep
    <3>1. resent' = resent BY <2>1 DEF FileStep
    <3> QED BY <2>1, <3>1, FileKeeps, SuccessIsLast
  <2>2. CASE ~FileStep
    <3>1. disk' = disk
      BY <2>2 DEF Next, SendPayment, PendingPersisted, PendingNotPersisted, PayOk, PayErr,
                  FailureNoted, PayOfferErr, PaymentSent, PaymentFailed, EventHandled, Fulfil,
                  Abandon, Forget, PersistManager, Crash, Restore, RestoreUnread, Restarted,
                  Update, Write, AbandonWrites, fileVars
    <3> QED BY <3>1
  <2> QED BY <2>1, <2>2
<1> QED BY <1>1, OutboundInit, OutboundNext, PTL DEF Spec, SucceededIsFinal
=============================================================================
