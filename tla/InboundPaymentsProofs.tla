----------------------- MODULE InboundPaymentsProofs -----------------------
(***************************************************************************)
(* For every set of payments: money that was received is in the file, and  *)
(* nothing undoes that record.                                             *)
(*                                                                         *)
(* Two tasks write one file and await their writes outside the mutex, so   *)
(* the proof is about what the writes under way carry.  They are ordered   *)
(* (Ordered), a later one carries every received payment an earlier one    *)
(* carries (Carried), one that may still land carries every received       *)
(* payment the file has, and one that was overtaken carries none that the  *)
(* file has not (AgainstFile).  Of a file that could not be read the first *)
(* holds again once a write replaced it (Unread).                          *)
(***************************************************************************)
EXTENDS InboundPayments, TLAPS

Record == [status : {"none", "pending", "succeeded"}, preimage : BOOLEAN]

TypeInv ==
  /\ disk \in [InHash -> Record]
  /\ writes \subseteq [owner : Owner, data : [InHash -> Record], older : SUBSET Owner,
                       skipped : BOOLEAN]
  /\ result \in [Owner -> {"none", "ok", "err"}]
  /\ mem \in [InHash -> Record]
  /\ run \in {"down", "up"}
  /\ cli \in {"idle", "persist"}
  /\ events \in InHash \cup {NoHash}
  /\ ldk \in [InHash -> LdkState]
  /\ unread \subseteq InHash /\ dropped \subseteq InHash

Claimed(records, h) == records[h] = ClaimedRecord

\* A task has at most one write, which it awaits; of two writes one was called
\* before the other, and the tasks a write counts as older have one.
Ordered ==
  /\ \A v, w \in writes : v.owner = w.owner => v = w
  /\ \A v, w \in writes : v.owner # w.owner => v.owner \in w.older \/ w.owner \in v.older
  /\ \A w \in writes : \A o \in w.older : \E v \in writes : v.owner = o

Awaited ==
  /\ \A w \in writes : result[w.owner] = "none"
  /\ \A w \in writes : w.owner = "cli" => cli = "persist"
  /\ \A w \in writes : w.owner = "events" => events # NoHash /\ Claimed(w.data, events)
  /\ run = "down" => writes = {} /\ events = NoHash /\ cli = "idle"
  /\ run = "down" => \A o \in Owner : result[o] # "ok"

\* A received payment is carried on by every write called later, and by the map.
Carried ==
  \A h \in InHash :
    /\ \A v, w \in writes : v.owner \in w.older /\ Claimed(v.data, h) => Claimed(w.data, h)
    /\ \A w \in writes : Claimed(w.data, h) => Claimed(mem, h)
    /\ run = "up" /\ h \notin unread /\ Claimed(disk, h) => Claimed(mem, h)

AgainstFile ==
  \A w \in writes : \A h \in InHash :
    IF w.skipped THEN Claimed(w.data, h) => Claimed(disk, h)
                 ELSE h \notin unread /\ Claimed(disk, h) => Claimed(w.data, h)

\* While the file is one that could not be read no write has reached it, and
\* whoever was received again is still to be noted, or could not be.
Unread ==
  unread # {} =>
    /\ run = "up"
    /\ \A o \in Owner : result[o] # "ok"
    /\ \A w \in writes : ~w.skipped
    /\ \A h \in unread : Claimed(mem, h) => ldk[h] = "claimed" \/ h \in unnoted

\* A record says received only of a payment whose claim is irrevocable.
Irrevocable ==
  \A h \in InHash :
    Claimed(mem, h) \/ Claimed(disk, h) => ldk[h] \in {"claimed", "handled", "done"}

\* PaymentClaimed: handled only with its record in the file, or not noted, or
\* written over since.
Noted ==
  /\ events # NoHash => ldk[events] = "claimed"
  /\ events # NoHash /\ result["events"] = "ok" => Claimed(disk, events)
  /\ \A h \in InHash :
       ldk[h] \in {"handled", "done"} /\ h \notin unnoted \cup dropped => Claimed(disk, h)

InboundInv ==
  TypeInv /\ Ordered /\ Awaited /\ Carried /\ AgainstFile /\ Unread /\ Irrevocable /\ Noted

-----------------------------------------------------------------------------
(***************************************************************************)
(* The writes under way.                                                   *)
(***************************************************************************)
WriteType == [owner : Owner, data : [InHash -> Record], older : SUBSET Owner, skipped : BOOLEAN]

\* What the return of w makes of another write v.
After(v, w, S) == [v EXCEPT !.older = @ \ {w.owner}, !.skipped = @ \/ v.owner \in S]

\* The fields of a write after another returned.
LEMMA AfterFields ==
  ASSUME NEW v \in WriteType, NEW w, NEW S
  PROVE  /\ After(v, w, S) \in WriteType
         /\ After(v, w, S).owner = v.owner
         /\ After(v, w, S).data = v.data
         /\ After(v, w, S).older = v.older \ {w.owner}
         /\ After(v, w, S).skipped <=> v.skipped \/ v.owner \in S
<1>1. (v.skipped \/ v.owner \in S) \in BOOLEAN OBVIOUS
<1> QED BY <1>1 DEF After, WriteType

\* The writes left by a return, each from one that was there.
LEMMA ReturnShape ==
  ASSUME NEW w, NEW r, NEW S, Return(w, r, S)
  PROVE  /\ \A x \in writes' : \E v \in writes \ {w} : x = After(v, w, S)
         /\ \A v \in writes \ {w} : After(v, w, S) \in writes'
BY DEF Return, After

\* Of the writes left by a return each pair is as ordered as before.
LEMMA ReturnOrdered ==
  ASSUME writes \subseteq WriteType, Ordered, NEW w \in writes, NEW r, NEW S, Return(w, r, S)
  PROVE  writes' \subseteq WriteType /\ Ordered'
<1>1. writes' \subseteq WriteType BY AfterFields, ReturnShape
<1>2. ASSUME NEW x \in writes', NEW y \in writes', x.owner = y.owner PROVE x = y
  <2>1. PICK v \in writes \ {w} : x = After(v, w, S) BY ReturnShape
  <2>2. PICK u \in writes \ {w} : y = After(u, w, S) BY ReturnShape
  <2>3. v.owner = u.owner BY <1>2, <2>1, <2>2, AfterFields
  <2> QED BY <2>1, <2>2, <2>3 DEF Ordered
<1>3. ASSUME NEW x \in writes', NEW y \in writes', x.owner # y.owner
      PROVE  x.owner \in y.older \/ y.owner \in x.older
  <2>1. PICK v \in writes \ {w} : x = After(v, w, S) BY ReturnShape
  <2>2. PICK u \in writes \ {w} : y = After(u, w, S) BY ReturnShape
  <2>3. x.owner = v.owner /\ x.older = v.older \ {w.owner} BY <2>1, AfterFields
  <2>4. y.owner = u.owner /\ y.older = u.older \ {w.owner} BY <2>2, AfterFields
  <2>5. v.owner # w.owner /\ u.owner # w.owner BY DEF Ordered
  <2> QED BY <1>3, <2>3, <2>4, <2>5 DEF Ordered
<1>4. ASSUME NEW x \in writes', NEW o \in x.older PROVE \E y \in writes' : y.owner = o
  <2>1. PICK v \in writes \ {w} : x = After(v, w, S) BY ReturnShape
  <2>2. o \in v.older /\ o # w.owner BY <2>1, AfterFields
  <2>3. PICK u \in writes : u.owner = o BY <2>2 DEF Ordered
  <2>4. After(u, w, S) \in writes' /\ After(u, w, S).owner = o
    BY <2>2, <2>3, ReturnShape, AfterFields
  <2> QED BY <2>4
<1> QED BY <1>1, <1>2, <1>3, <1>4 DEF Ordered

\* A write called by a task that has none is the latest of all.
LEMMA CallKeeps ==
  ASSUME InboundInv, run = "up", NEW o \in Owner, NEW records \in [InHash -> Record],
         \A w \in writes : w.owner # o,
         \A h \in InHash : Claimed(mem, h) => Claimed(records, h),
         Update(o, records), UNCHANGED <<run, unread>>
  PROVE  /\ disk' = disk /\ mem' = records
         /\ writes' \subseteq WriteType
         /\ result' \in [Owner -> {"none", "ok", "err"}]
         /\ Ordered' /\ Carried' /\ AgainstFile'
         /\ \A w \in writes' : w \in writes \/ (w.owner = o /\ w.data = records /\ ~w.skipped)
         /\ result'[o] = "none" /\ \A p \in Owner : p # o => result'[p] = result[p]
<1> DEFINE new == [owner |-> o, data |-> records, older |-> {w.owner : w \in writes},
                   skipped |-> FALSE]
<1>1. /\ disk' = disk /\ mem' = records
      /\ writes' = writes \cup {new}
      /\ result' = [result EXCEPT ![o] = "none"]
  BY DEF Update, Write
<1>2. writes \subseteq WriteType /\ result \in [Owner -> {"none", "ok", "err"}]
  BY DEF InboundInv, TypeInv, WriteType
<1>3. /\ new \in WriteType
      /\ new.owner = o /\ new.data = records /\ ~new.skipped
      /\ \A w \in writes : w.owner \in new.older
      /\ \A p \in new.older : \E w \in writes : w.owner = p
  <2>1. {w.owner : w \in writes} \in SUBSET Owner BY <1>2 DEF WriteType
  <2>2. new \in WriteType BY <2>1 DEF WriteType
  <2> QED BY <2>2
<1> HIDE DEF new
<1>4. writes' \subseteq WriteType BY <1>1, <1>2, <1>3
<1>5. \A w \in writes : o \notin w.older BY DEF InboundInv, Ordered
<1>6. Ordered' BY <1>1, <1>3, <1>5 DEF InboundInv, Ordered
<1>7. Carried' BY <1>1, <1>3, <1>5 DEF InboundInv, Carried, Claimed
<1>8. AgainstFile' BY <1>1, <1>3 DEF InboundInv, AgainstFile, Carried, Claimed
<1>9. /\ result' \in [Owner -> {"none", "ok", "err"}]
      /\ result'[o] = "none" /\ \A p \in Owner : p # o => result'[p] = result[p]
  BY <1>1, <1>2
<1> QED BY <1>1, <1>3, <1>4, <1>6, <1>7, <1>8, <1>9

\* The write w ends, in one of the three ways.
LEMMA FileKeeps ==
  ASSUME InboundInv, FileStep
  PROVE  InboundInv'
<1> PICK w \in writes :
      \/ /\ WriteLands(w)
         /\ unread' = {} /\ dropped' = dropped \cup {h \in unread : mem[h] # ClaimedRecord}
      \/ (WriteSkipped(w) \/ WriteFails(w)) /\ UNCHANGED <<unread, dropped>>
  BY DEF FileStep
<1>1. /\ UNCHANGED <<mem, run, cli, events, ldk, unnoted>>
      /\ writes \subseteq WriteType /\ w \in WriteType
  BY DEF FileStep, InboundInv, TypeInv, WriteType
<1>2. PICK r \in {"ok", "err"}, T \in SUBSET Owner :
        /\ Return(w, r, T)
        /\ \/ /\ ~w.skipped /\ disk' = w.data /\ r = "ok" /\ T = w.older
              /\ unread' = {} /\ dropped' = dropped \cup {h \in unread : ~Claimed(mem, h)}
           \/ /\ w.skipped /\ disk' = disk /\ r = "ok" /\ T = {}
              /\ UNCHANGED <<unread, dropped>>
           \/ /\ ~w.skipped /\ disk' = disk /\ r = "err" /\ T = {}
              /\ UNCHANGED <<unread, dropped>>
  BY <1>1 DEF WriteLands, WriteSkipped, WriteFails, WriteType, Claimed
<1>3. writes' \subseteq WriteType /\ Ordered'
  BY <1>1, <1>2, ReturnOrdered DEF InboundInv
<1>4. /\ result' = [result EXCEPT ![w.owner] = r]
      /\ result' \in [Owner -> {"none", "ok", "err"}]
      /\ result'[w.owner] = r /\ \A p \in Owner : p # w.owner => result'[p] = result[p]
  BY <1>1, <1>2 DEF Return, InboundInv, TypeInv, WriteType
<1>5. disk' \in [InHash -> Record] BY <1>1, <1>2 DEF InboundInv, TypeInv, WriteType
<1>6. TypeInv' BY <1>1, <1>2, <1>3, <1>4, <1>5 DEF InboundInv, TypeInv, WriteType
\* Each write left is one of before, other than w.
<1>7. ASSUME NEW x \in writes'
      PROVE  \E v \in writes :
               /\ v # w /\ v.owner # w.owner
               /\ x.owner = v.owner /\ x.data = v.data /\ x.older = v.older \ {w.owner}
               /\ x.skipped <=> v.skipped \/ v.owner \in T
  <2>1. PICK v \in writes \ {w} : x = After(v, w, T) BY <1>2, ReturnShape
  <2>2. v.owner # w.owner BY DEF InboundInv, Ordered
  <2>3. v \in WriteType BY <1>1
  <2> QED BY <2>1, <2>2, <2>3, AfterFields
<1>8. Awaited'
  <2>1. ASSUME NEW x \in writes'
        PROVE  /\ result'[x.owner] = "none"
               /\ x.owner = "cli" => cli' = "persist"
               /\ x.owner = "events" => events' # NoHash /\ Claimed(x.data, events')
    <3>1. PICK v \in writes : v.owner # w.owner /\ x.owner = v.owner /\ x.data = v.data
      BY <1>7
    <3>2. v.owner \in Owner BY <1>1 DEF WriteType
    <3> QED BY <1>1, <1>4, <3>1, <3>2 DEF InboundInv, Awaited
  <2>2. run' = "up" BY <1>1 DEF InboundInv, Awaited, TypeInv
  <2> QED BY <2>1, <2>2 DEF Awaited
<1>9. ASSUME NEW h \in InHash, disk' = w.data, Claimed(w.data, h) PROVE Claimed(mem, h)
  BY <1>9 DEF InboundInv, Carried
<1>10. Carried'
  <2>1. ASSUME NEW h \in InHash, NEW x \in writes', NEW y \in writes',
               x.owner \in y.older, Claimed(x.data, h)
        PROVE  Claimed(y.data, h)
    <3>1. PICK v \in writes : x.owner = v.owner /\ x.data = v.data BY <1>7
    <3>2. PICK u \in writes : y.data = u.data /\ y.older = u.older \ {w.owner} BY <1>7
    <3> QED BY <2>1, <3>1, <3>2 DEF InboundInv, Carried
  <2>2. ASSUME NEW h \in InHash, NEW x \in writes', Claimed(x.data, h) PROVE Claimed(mem', h)
    <3>1. PICK v \in writes : x.data = v.data BY <1>7
    <3> QED BY <1>1, <2>2, <3>1 DEF InboundInv, Carried
  <2>3. ASSUME NEW h \in InHash, run' = "up", h \notin unread', Claimed(disk', h)
        PROVE  Claimed(mem', h)
    BY <1>1, <1>2, <1>9, <2>3 DEF InboundInv, Carried
  <2> QED BY <2>1, <2>2, <2>3 DEF Carried, Claimed
\* No received payment of a file that was read is lost by the step.
<1>11. ASSUME NEW h \in InHash, h \notin unread, Claimed(disk, h) PROVE Claimed(disk', h)
  BY <1>2, <1>11 DEF InboundInv, AgainstFile
<1>12. AgainstFile'
  <2>1. ASSUME NEW x \in writes', NEW h \in InHash
        PROVE  IF x.skipped THEN Claimed(x.data, h) => Claimed(disk', h)
                            ELSE h \notin unread' /\ Claimed(disk', h) => Claimed(x.data, h)
    <3>1. PICK v \in writes :
            /\ v # w /\ v.owner # w.owner
            /\ x.owner = v.owner /\ x.data = v.data
            /\ x.skipped <=> v.skipped \/ v.owner \in T
      BY <1>7
    <3>2. CASE v.skipped
      <4>1. unread = {} BY <3>2 DEF InboundInv, Unread
      <4> QED BY <1>11, <3>1, <3>2, <4>1 DEF InboundInv, AgainstFile
    <3>3. CASE ~v.skipped /\ disk' = w.data /\ T = w.older /\ v.owner \in w.older
      BY <3>1, <3>3 DEF InboundInv, Carried
    <3>4. CASE ~v.skipped /\ disk' = w.data /\ T = w.older /\ v.owner \notin w.older
      <4>1. w.owner \in v.older BY <3>1, <3>4 DEF InboundInv, Ordered
      <4> QED BY <3>1, <3>4, <4>1 DEF InboundInv, Carried
    <3>5. CASE ~v.skipped /\ disk' = disk /\ T = {} /\ unread' = unread
      BY <3>1, <3>5 DEF InboundInv, AgainstFile
    <3> QED BY <1>2, <3>2, <3>3, <3>4, <3>5
  <2> QED BY <2>1 DEF AgainstFile, Claimed
<1>13. Irrevocable'
  BY <1>1, <1>2, <1>9 DEF InboundInv, Irrevocable, Claimed
<1>15. Unread'
  <2> SUFFICES ASSUME unread' # {} PROVE Unread'
    BY DEF Unread
  <2>1. unread' = unread /\ r = "err" /\ T = {} BY <1>2 DEF InboundInv, Unread
  <2>2. \A x \in writes' : ~x.skipped BY <1>7, <2>1 DEF InboundInv, Unread
  <2>3. \A o \in Owner : result'[o] # "ok" BY <1>1, <1>4, <2>1 DEF InboundInv, Unread
  <2> QED BY <1>1, <2>1, <2>2, <2>3 DEF InboundInv, Unread, Claimed
<1>14. Noted'
  <2>1. ASSUME events' # NoHash, result'["events"] = "ok" PROVE Claimed(disk', events')
    <3>0. events \in InHash /\ "events" \in Owner
      BY <1>1, <2>1, InOwnerAssumption DEF InboundInv, TypeInv
    <3>1. CASE w.owner = "events"
      <4>1. Claimed(w.data, events) BY <3>1 DEF InboundInv, Awaited
      <4>2. r = "ok" BY <1>4, <2>1, <3>1
      <4>3. CASE w.skipped BY <1>1, <1>2, <3>0, <4>1, <4>3 DEF InboundInv, AgainstFile
      <4>4. CASE ~w.skipped BY <1>1, <1>2, <4>1, <4>2, <4>4
      <4> QED BY <4>3, <4>4
    <3>2. CASE w.owner # "events"
      <4>1. Claimed(disk, events) BY <1>1, <1>4, <2>1, <3>0, <3>2 DEF InboundInv, Noted
      <4>2. unread = {} BY <1>4, <2>1, <3>0, <3>2 DEF InboundInv, Unread
      <4> QED BY <1>1, <1>11, <3>0, <4>1, <4>2
    <3> QED BY <3>1, <3>2
  <2>2. ASSUME NEW h \in InHash, ldk[h] \in {"handled", "done"},
               h \notin unnoted \cup dropped'
        PROVE  Claimed(disk', h)
    <3>1. h \notin dropped BY <1>2, <2>2
    <3>2. Claimed(disk, h) BY <2>2, <3>1 DEF InboundInv, Noted
    <3>3. CASE h \in unread
      <4>1. ~Claimed(mem, h) BY <2>2, <3>3 DEF InboundInv, Unread
      <4> QED BY <1>2, <2>2, <3>2, <3>3, <4>1
    <3> QED BY <1>11, <3>2, <3>3
  <2>3. events' # NoHash => ldk'[events'] = "claimed" BY <1>1 DEF InboundInv, Noted
  <2> QED BY <1>1, <2>1, <2>2, <2>3 DEF Noted, Claimed
<1> QED BY <1>3, <1>6, <1>8, <1>10, <1>12, <1>13, <1>14, <1>15 DEF InboundInv

-----------------------------------------------------------------------------
(***************************************************************************)
(* The other steps.                                                        *)
(***************************************************************************)

\* A node without a record.
LEMMA InboundInit == Init => InboundInv
<1> SUFFICES ASSUME Init PROVE InboundInv
  OBVIOUS
<1>1. NoRecord \in Record /\ NoRecord # ClaimedRecord
  BY DEF NoRecord, Record, ClaimedRecord
<1>2. TypeInv BY <1>1 DEF Init, TypeInv, LdkState
<1>3. \A h \in InHash : ~Claimed(mem, h) /\ ~Claimed(disk, h) /\ ldk[h] \in {"none", "payable"}
  BY <1>1 DEF Init, Claimed
<1> QED BY <1>2, <1>3 DEF Init, InboundInv, Ordered, Awaited, Carried, AgainstFile, Unread, Irrevocable,
                        Noted

\* getinvoice, which writes of a payment that has not been claimed.
LEMMA GetInvoiceKeeps ==
  ASSUME InboundInv, GetInvoiceFails \/ \E h \in Invoiced : GetInvoice(h)
  PROVE  InboundInv'
<1>1. /\ run = "up" /\ cli = "idle" /\ cli' = "persist"
      /\ UNCHANGED <<run, events, unnoted, unread, dropped>>
  BY DEF GetInvoiceFails, GetInvoice, historyVars
<1>2. \A w \in writes : w.owner # "cli" BY <1>1 DEF InboundInv, Awaited
<1>3. PICK records \in [InHash -> Record] :
        /\ Update("cli", records)
        /\ \A g \in InHash : Claimed(mem, g) <=> Claimed(records, g)
        /\ ldk' \in [InHash -> LdkState]
        /\ \A g \in InHash : ldk'[g] = ldk[g] \/ (ldk[g] = "none" /\ ldk'[g] = "payable")
  <2>1. CASE GetInvoiceFails
    <3>1. mem \in [InHash -> Record] /\ ldk \in [InHash -> LdkState] BY DEF InboundInv, TypeInv
    <3> QED BY <2>1, <3>1 DEF GetInvoiceFails
  <2>2. ASSUME NEW h \in Invoiced, GetInvoice(h)
        PROVE  \E records \in [InHash -> Record] :
                 /\ Update("cli", records)
                 /\ \A g \in InHash : Claimed(mem, g) <=> Claimed(records, g)
                 /\ ldk' \in [InHash -> LdkState]
                 /\ \A g \in InHash : ldk'[g] = ldk[g] \/ (ldk[g] = "none" /\ ldk'[g] = "payable")
    <3> DEFINE records == [mem EXCEPT ![h] = NewRecord]
    <3>1. NewRecord \in Record /\ NewRecord # ClaimedRecord
      BY DEF NewRecord, Record, ClaimedRecord
    <3>2. h \in InHash BY DEF InHash
    <3>3. mem \in [InHash -> Record] /\ ldk \in [InHash -> LdkState] BY DEF InboundInv, TypeInv
    <3>4. ldk[h] = "none" /\ ldk' = [ldk EXCEPT ![h] = "payable"] /\ Update("cli", records)
      BY <2>2 DEF GetInvoice
    <3>5. ~Claimed(mem, h) BY <3>2, <3>4 DEF InboundInv, Irrevocable
    <3>6. records \in [InHash -> Record] BY <3>1, <3>2, <3>3
    <3>7. \A g \in InHash : Claimed(mem, g) <=> Claimed(records, g)
      BY <3>1, <3>2, <3>3, <3>5 DEF Claimed
    <3>8. /\ ldk' \in [InHash -> LdkState]
          /\ \A g \in InHash : ldk'[g] = ldk[g] \/ (ldk[g] = "none" /\ ldk'[g] = "payable")
      BY <3>2, <3>3, <3>4 DEF LdkState
    <3> HIDE DEF records
    <3> QED BY <3>4, <3>6, <3>7, <3>8
  <2> QED BY <2>1, <2>2
<1>4. /\ disk' = disk /\ mem' = records
      /\ writes' \subseteq WriteType
      /\ result' \in [Owner -> {"none", "ok", "err"}]
      /\ Ordered' /\ Carried' /\ AgainstFile'
      /\ \A w \in writes' : w \in writes \/ (w.owner = "cli" /\ w.data = records /\ ~w.skipped)
      /\ result'["cli"] = "none" /\ result'["events"] = result["events"]
  BY <1>1, <1>2, <1>3, CallKeeps, InOwnerAssumption
<1>5. TypeInv' BY <1>1, <1>3, <1>4 DEF InboundInv, TypeInv, WriteType
<1>6. Awaited'
  BY <1>1, <1>4, InOwnerAssumption DEF InboundInv, Awaited, TypeInv
<1>7. Irrevocable' BY <1>3, <1>4 DEF InboundInv, Irrevocable, Claimed
<1>8. Noted' BY <1>1, <1>3, <1>4 DEF InboundInv, Noted, TypeInv, Claimed
<1>9. Unread'
  BY <1>1, <1>3, <1>4, InOwnerAssumption DEF InboundInv, Unread, TypeInv, Claimed
<1> QED BY <1>4, <1>5, <1>6, <1>7, <1>8, <1>9 DEF InboundInv

\* PaymentClaimed, whose write carries the payment.
LEMMA ClaimedKeeps ==
  ASSUME InboundInv, NEW h \in InHash, PaymentClaimed(h)
  PROVE  InboundInv'
<1> DEFINE records == [mem EXCEPT ![h] = ClaimedRecord]
<1>1. /\ run = "up" /\ events = NoHash /\ ldk[h] = "claimed" /\ events' = h
      /\ Update("events", records)
      /\ dropped' = dropped \ {h}
      /\ UNCHANGED <<run, cli, ldk, unnoted, unread>>
  BY DEF PaymentClaimed
<1>2. mem \in [InHash -> Record] BY DEF InboundInv, TypeInv
<1>3. ClaimedRecord \in Record BY DEF ClaimedRecord, Record
<1>4. /\ records \in [InHash -> Record]
      /\ \A g \in InHash : Claimed(records, g) <=> Claimed(mem, g) \/ g = h
  BY <1>2, <1>3 DEF Claimed
<1>5. \A w \in writes : w.owner # "events" BY <1>1 DEF InboundInv, Awaited
<1> HIDE DEF records
<1>6. /\ disk' = disk /\ mem' = records
      /\ writes' \subseteq WriteType
      /\ result' \in [Owner -> {"none", "ok", "err"}]
      /\ Ordered' /\ Carried' /\ AgainstFile'
      /\ \A w \in writes' : w \in writes \/ (w.owner = "events" /\ w.data = records /\ ~w.skipped)
      /\ result'["events"] = "none" /\ result'["cli"] = result["cli"]
  BY <1>1, <1>4, <1>5, CallKeeps, InOwnerAssumption
<1>7. h # NoHash BY NoHashAssumption
<1>8. TypeInv' BY <1>1, <1>4, <1>6 DEF InboundInv, TypeInv, WriteType
<1>9. Awaited'
  BY <1>1, <1>4, <1>5, <1>6, <1>7, InOwnerAssumption DEF InboundInv, Awaited, TypeInv, Claimed
<1>10. Irrevocable' BY <1>1, <1>4, <1>6 DEF InboundInv, Irrevocable, Claimed
<1>11. Noted' BY <1>1, <1>6 DEF InboundInv, Noted, Claimed
<1>12. Unread'
  BY <1>1, <1>4, <1>6, InOwnerAssumption DEF InboundInv, Unread, TypeInv, Claimed
<1> QED BY <1>6, <1>8, <1>9, <1>10, <1>11, <1>12 DEF InboundInv

\* The steps that leave the map, the file and its writes alone.
LEMMA OtherKeeps ==
  ASSUME InboundInv,
         \/ GetInvoiceDone
         \/ \E h \in InHash : PaymentClaimable(h) \/ Ldk(h)
         \/ EventHandled
  PROVE  InboundInv'
<1>1. UNCHANGED <<disk, writes, result, mem, run, unread, dropped>>
  BY DEF GetInvoiceDone, PaymentClaimable, Ldk, LdkStep, EventHandled, fileVars, historyVars
<1>2. Ordered' /\ Carried' /\ AgainstFile'
  BY <1>1 DEF InboundInv, Ordered, Carried, AgainstFile, Claimed
<1>3. CASE GetInvoiceDone
  BY <1>1, <1>2, <1>3 DEF GetInvoiceDone, historyVars, InboundInv, TypeInv, Awaited, Unread,
                          Irrevocable, Noted, Claimed
<1>4. ASSUME NEW h \in InHash, PaymentClaimable(h) \/ Ldk(h) PROVE InboundInv'
  <2>1. /\ ldk' \in [InHash -> LdkState]
        /\ \A g \in InHash : g # h => ldk'[g] = ldk[g]
        /\ \/ ldk[h] \in {"claimable", "payable"} /\ ldk'[h] \in {"claiming", "lost", "claimable"}
           \/ ldk[h] = "claiming" /\ ldk'[h] = "claimed"
           \/ ldk[h] = "handled" /\ ldk'[h] = "done"
    BY <1>4 DEF PaymentClaimable, Ldk, LdkStep, InboundInv, TypeInv, LdkState
  <2>2. UNCHANGED <<cli, events, unnoted>>
    BY <1>4 DEF PaymentClaimable, Ldk, LdkStep, historyVars
  <2>3. TypeInv' /\ Awaited'
    BY <1>1, <2>1, <2>2 DEF InboundInv, TypeInv, Awaited, Claimed
  <2>4. Irrevocable' BY <1>1, <2>1 DEF InboundInv, Irrevocable, Claimed
  <2>5. Noted' BY <1>1, <2>1, <2>2 DEF InboundInv, TypeInv, Noted, Claimed
  <2>6. Unread' BY <1>1, <2>1, <2>2 DEF InboundInv, TypeInv, Unread, Claimed
  <2> QED BY <1>2, <2>3, <2>4, <2>5, <2>6 DEF InboundInv
<1>5. CASE EventHandled
  <2>1. /\ events # NoHash /\ result["events"] # "none" /\ events' = NoHash
        /\ ldk' = [ldk EXCEPT ![events] = "handled"]
        /\ unnoted' = IF result["events"] = "err" THEN unnoted \cup {events} ELSE unnoted
        /\ UNCHANGED cli
    BY <1>5 DEF EventHandled
  <2>2. events \in InHash /\ result["events"] \in {"ok", "err"}
    BY <2>1, InOwnerAssumption DEF InboundInv, TypeInv
  <2>3. /\ ldk' \in [InHash -> LdkState] /\ ldk'[events] = "handled"
        /\ \A g \in InHash : g # events => ldk'[g] = ldk[g]
    BY <2>1, <2>2 DEF InboundInv, TypeInv, LdkState
  <2>4. TypeInv' BY <1>1, <2>1, <2>3 DEF InboundInv, TypeInv
  <2>5. \A w \in writes : w.owner # "events" BY <2>1 DEF InboundInv, Awaited
  <2>6. Awaited' BY <1>1, <2>1, <2>5 DEF InboundInv, Awaited
  <2>7. Irrevocable' BY <1>1, <2>3 DEF InboundInv, Irrevocable, Claimed
  <2>8. Noted' BY <1>1, <2>1, <2>2, <2>3 DEF InboundInv, Noted, Claimed
  <2>9. Unread'
    <3> SUFFICES ASSUME unread # {} PROVE \A g \in unread : g = events => g \in unnoted'
      BY <1>1, <2>1, <2>2, <2>3 DEF InboundInv, TypeInv, Unread, Claimed
    <3>1. result["events"] = "err" BY <2>2, InOwnerAssumption DEF InboundInv, Unread
    <3> QED BY <2>1, <3>1
  <2> QED BY <1>2, <2>4, <2>6, <2>7, <2>8, <2>9 DEF InboundInv
<1> QED BY <1>3, <1>4, <1>5

\* A crash replays what LDK had not persisted as handled; the start reads the file.
LEMMA CrashKeeps ==
  ASSUME InboundInv, Crash \/ Restart \/ RestartUnread
  PROVE  InboundInv'
<1>1. NoRecord \in Record /\ NoRecord # ClaimedRecord
  BY DEF NoRecord, Record, ClaimedRecord
<1>2. CASE Crash
  <2>1. /\ run' = "down" /\ writes' = {} /\ disk' = disk /\ cli' = "idle" /\ events' = NoHash
        /\ mem' = [h \in InHash |-> NoRecord] /\ UNCHANGED <<unnoted, dropped>>
        /\ unread' = {}
        /\ result' = [o \in Owner |-> "none"]
    BY <1>2 DEF Crash, AbandonWrites
  <2>2. /\ ldk' \in [InHash -> LdkState]
        /\ \A h \in InHash :
             /\ ldk[h] \in {"claimed", "handled"} => ldk'[h] = "claimed"
             /\ ldk[h] = "done" => ldk'[h] = "done"
             /\ ldk'[h] \in {"handled", "done"} => ldk[h] = "done"
    BY <1>2 DEF Crash, InboundInv, TypeInv, LdkState
  <2>3. TypeInv' BY <1>1, <2>1, <2>2 DEF InboundInv, TypeInv
  <2>4. \A h \in InHash : ~Claimed(mem', h) BY <1>1, <2>1 DEF Claimed
  <2>5. Irrevocable' BY <2>1, <2>2, <2>4 DEF InboundInv, Irrevocable, Claimed
  <2>6. Noted' BY <2>1, <2>2 DEF InboundInv, Noted, Claimed
  <2> QED BY <2>1, <2>3, <2>5, <2>6
      DEF InboundInv, Ordered, Awaited, Carried, AgainstFile, Unread
<1>3. CASE Restart
  <2>1. /\ run = "down" /\ run' = "up" /\ mem' = disk
        /\ UNCHANGED <<disk, writes, result, cli, events, ldk, unnoted, unread, dropped>>
    BY <1>3 DEF Restart, fileVars, historyVars
  <2>2. writes = {} /\ unread = {} BY <2>1 DEF InboundInv, Awaited, Unread
  <2> QED BY <2>1, <2>2 DEF InboundInv, TypeInv, Ordered, Awaited, Carried, AgainstFile,
                            Unread, Irrevocable, Noted, Claimed
<1>4. CASE RestartUnread
  <2>1. /\ run = "down" /\ run' = "up" /\ mem' = [h \in InHash |-> NoRecord]
        /\ unread' = {h \in InHash : disk[h] # NoRecord}
        /\ UNCHANGED <<disk, writes, result, cli, events, ldk, unnoted, dropped>>
    BY <1>4 DEF RestartUnread, fileVars
  <2>2. writes = {} /\ \A o \in Owner : result[o] # "ok"
    BY <2>1 DEF InboundInv, Awaited
  <2>3. \A h \in InHash : ~Claimed(mem', h) /\ (h \notin unread' => ~Claimed(disk', h))
    BY <1>1, <2>1 DEF Claimed
  <2>4. TypeInv' BY <1>1, <2>1 DEF InboundInv, TypeInv
  <2>5. Unread' BY <2>1, <2>2, <2>3 DEF InboundInv, TypeInv, Unread
  <2>6. Irrevocable' BY <2>1, <2>3 DEF InboundInv, Irrevocable, Claimed
  <2>7. Noted' BY <2>1 DEF InboundInv, Noted, Claimed
  <2> QED BY <2>1, <2>2, <2>3, <2>4, <2>5, <2>6, <2>7
      DEF InboundInv, Ordered, Awaited, Carried, AgainstFile
<1> QED BY <1>2, <1>3, <1>4

\* Every step.
LEMMA InboundNext == InboundInv /\ [Next]_vars => InboundInv'
<1> SUFFICES ASSUME InboundInv, [Next]_vars PROVE InboundInv'
  OBVIOUS
<1>1. CASE Next
  BY <1>1, GetInvoiceKeeps, ClaimedKeeps, OtherKeeps, CrashKeeps, FileKeeps DEF Next
<1>2. CASE UNCHANGED vars
  BY <1>2 DEF vars, fileVars, historyVars, InboundInv, TypeInv, Ordered, Awaited, Carried,
              AgainstFile, Unread, Irrevocable, Noted, Claimed
<1> QED BY <1>1, <1>2

-----------------------------------------------------------------------------
(***************************************************************************)
(* A payment whose PaymentClaimed LDK will not deliver again is Succeeded  *)
(* in the file with its preimage, unless the write of that event failed or *)
(* a process that could not read the file wrote over it.                   *)
(***************************************************************************)
THEOREM ReceivedIsRecorded == Spec => []ClaimedIsRecorded
<1>1. InboundInv => ClaimedIsRecorded
  BY DEF InboundInv, Noted, ClaimedIsRecorded, Claimed
<1> QED BY <1>1, InboundInit, InboundNext, PTL DEF Spec

(***************************************************************************)
(* No write called earlier, no failed write and no restart takes the       *)
(* record of a received payment out of the file: only the first write of a *)
(* process that could not read the file does.                              *)
(***************************************************************************)
THEOREM ReceivedNeverUndone == Spec => ReceivedIsFinal
<1> DEFINE Kept == \A h \in InHash :
      disk[h] = ClaimedRecord /\ h \notin unread => disk'[h] = ClaimedRecord
<1>1. InboundInv /\ [Next]_vars => [Kept]_vars
  <2> SUFFICES ASSUME InboundInv, Next PROVE Kept
    OBVIOUS
  <2>1. CASE FileStep
    <3> PICK w \in writes : WriteLands(w) \/ WriteSkipped(w) \/ WriteFails(w)
      BY <2>1 DEF FileStep
    <3> QED BY DEF WriteLands, WriteSkipped, WriteFails, InboundInv, AgainstFile, Claimed
  <2>2. CASE ~FileStep
    BY <2>2 DEF Next, GetInvoice, GetInvoiceFails, GetInvoiceDone, PaymentClaimable,
                PaymentClaimed, Ldk, LdkStep, EventHandled, Crash, Restart, RestartUnread, Update, Write,
                AbandonWrites, fileVars
  <2> QED BY <2>1, <2>2
<1> QED BY <1>1, InboundInit, InboundNext, PTL DEF Spec, ReceivedIsFinal
=============================================================================
