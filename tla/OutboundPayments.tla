-------------------------- MODULE OutboundPayments --------------------------
(***************************************************************************)
(* The outbound payment records: the map behind an async mutex, the file   *)
(* it is written to, the commands that start payments                      *)
(* (src/src/cli/commands/payment.rs, src/src/cli/mod.rs), the event arms   *)
(* that settle them (src/src/events/mod.rs) and the repair at start-up     *)
(* (src/src/main.rs), against an LDK (external) whose state survives a     *)
(* crash as LDK documents it: an event whose handling was not followed by  *)
(* a persisted ChannelManager is delivered again, and a payment whose      *)
(* HTLC was not committed before the crash never happened.                 *)
(*                                                                         *)
(* Three tasks write the file: "cli", "events" and, at start-up, "main".   *)
(* The mutex is held for the change of the map and the call of             *)
(* fs_store.write, which are one step; the await is another.               *)
(***************************************************************************)
EXTENDS VersionedFile

CONSTANTS Bolt11Ids,    \* ids of BOLT11 invoices: the payment hash, so an
                        \* invoice paid again has its former id
          KeysendIds,   \* random ids, used once
          OfferIds      \* random ids of offers and human-readable names

ASSUME OwnerAssumption == Owner = {"cli", "events", "main"}
ASSUME IdsAssumption ==
  /\ Bolt11Ids \cap KeysendIds = {}
  /\ OfferIds \cap (Bolt11Ids \cup KeysendIds) = {}

VARIABLES
  mem,      \* OutboundPaymentInfoStorage.payments
  run,      \* "down", "restoring" or "up"
  cli,      \* what the command task is doing: [pc, id]
  events,   \* what the event handler is doing: [pc, id]
  ldk,      \* LDK's state of each payment
  paid,     \* history: payments whose PaymentSent LDK considers handled
  resent,   \* history: invoices paid, or tried to be, more than once
  unnoted,  \* history: ids whose PaymentSent record could not be written
  unsent,   \* history: ids left Pending in memory by a failed command
  unread,   \* history: records of the file that the start under way could not read
  dropped   \* history: records lost when such a start wrote over the file

ldkVars == <<ldk, paid>>
lossVars == <<unread, dropped>>
historyVars == <<resent, unnoted, unsent, lossVars>>
vars == <<fileVars, mem, run, cli, events, ldkVars, historyVars>>

Id == Bolt11Ids \cup KeysendIds \cup OfferIds

\* PaymentInfo, without the secret and the amount, and "none": no record.
NoRecord == [status |-> "none", preimage |-> FALSE]
NewRecord == [status |-> "pending", preimage |-> FALSE]
Record == [status : {"none", "pending", "succeeded", "failed"}, preimage : BOOLEAN]

Idle == [pc |-> "idle", id |-> "none"]

(***************************************************************************)
(* ldk[i]: "none" (unknown, or forgotten), "inflight", "sent" and "failed" *)
(* (the event waits to be handled), "sent_handled" and "failed_handled"    *)
(* (handled, but the ChannelManager that says so is not persisted) and     *)
(* "fulfilled" (kept for a while against duplicates).                      *)
(***************************************************************************)
LdkState == {"none", "inflight", "sent", "sent_handled", "fulfilled", "failed", "failed_handled"}

Init ==
  /\ disk = [i \in Id |-> NoRecord]
  /\ writes = {}
  /\ result = [o \in Owner |-> "none"]
  /\ mem = [i \in Id |-> NoRecord]
  /\ run = "up"
  /\ cli = Idle
  /\ events = Idle
  /\ ldk = [i \in Id |-> "none"]
  /\ paid = {}
  /\ resent = {}
  /\ unnoted = {}
  /\ unsent = {}
  /\ unread = {}
  /\ dropped = {}

\* The map is changed and the write of what it then holds is called.
Update(o, records) ==
  /\ mem' = records
  /\ Write(o, records)

-----------------------------------------------------------------------------
(***************************************************************************)
(* The commands.  The record is Pending on disk before LDK is called.      *)
(***************************************************************************)
Fresh(i) == mem[i] = NoRecord /\ disk[i] = NoRecord /\ ldk[i] = "none" /\ i \notin dropped

SendPayment(i) ==
  /\ run = "up" /\ cli = Idle
  /\ Fresh(i) \/ i \in Bolt11Ids
  /\ Update("cli", [mem EXCEPT ![i] = NewRecord])
  /\ cli' = [pc |-> "persist", id |-> i]
  /\ resent' = IF Fresh(i) THEN resent ELSE resent \cup {i}
  /\ unsent' = unsent \ {i}
  /\ UNCHANGED <<run, events, ldkVars, unnoted, lossVars>>

\* Mutant: the payment is sent without waiting for the record on disk.
PendingPersistedEarly ==
  /\ cli.pc = "persist"
  /\ cli' = [cli EXCEPT !.pc = "pay"]
  /\ UNCHANGED <<fileVars, mem, run, events, ldkVars, historyVars>>

PendingPersisted ==
  /\ cli.pc = "persist" /\ result["cli"] = "ok"
  /\ cli' = [cli EXCEPT !.pc = "pay"]
  /\ UNCHANGED <<fileVars, mem, run, events, ldkVars, historyVars>>

PendingNotPersisted ==
  /\ cli.pc = "persist" /\ result["cli"] = "err"
  /\ cli' = Idle
  /\ unsent' = unsent \cup {cli.id}
  /\ UNCHANGED <<fileVars, mem, run, events, ldkVars, resent, unnoted, lossVars>>

PayOk ==
  /\ cli.pc = "pay" /\ ldk[cli.id] = "none"
  /\ ldk' = [ldk EXCEPT ![cli.id] = "inflight"]
  /\ cli' = Idle
  /\ UNCHANGED <<fileVars, mem, run, events, paid, historyVars>>

\* Mutant: the error of the pay call is only printed.
PayErrIgnored ==
  /\ cli.pc = "pay" /\ cli.id \notin OfferIds
  /\ cli' = Idle
  /\ UNCHANGED <<fileVars, mem, run, events, ldkVars, historyVars>>

\* send_payment and keysend note the failure (a duplicate is one).
PayErr ==
  /\ cli.pc = "pay" /\ cli.id \notin OfferIds
  /\ Update("cli", [mem EXCEPT ![cli.id].status = "failed"])
  /\ cli' = [cli EXCEPT !.pc = "note"]
  /\ UNCHANGED <<run, events, ldkVars, historyVars>>

FailureNoted ==
  /\ cli.pc = "note" /\ result["cli"] # "none"
  /\ cli' = Idle
  /\ UNCHANGED <<fileVars, mem, run, events, ldkVars, historyVars>>

\* The commands for offers and human-readable names only print the error.
PayOfferErr ==
  /\ cli.pc = "pay" /\ cli.id \in OfferIds
  /\ cli' = Idle
  /\ unsent' = unsent \cup {cli.id}
  /\ UNCHANGED <<fileVars, mem, run, events, ldkVars, resent, unnoted, lossVars>>

-----------------------------------------------------------------------------
(***************************************************************************)
(* The event handler, one event at a time.                                 *)
(***************************************************************************)
Settled(r) == IF r = NoRecord THEN r ELSE [status |-> "succeeded", preimage |-> TRUE]

\* Mutant: a status of its own for an abandoned payment.
AbandonedApart(r) == IF r = NoRecord THEN r ELSE [r EXCEPT !.status = "abandoned"]

Abandoned(r) == IF r = NoRecord THEN r ELSE [r EXCEPT !.status = "failed"]

PaymentSent(i) ==
  /\ run = "up" /\ events = Idle /\ ldk[i] = "sent"
  /\ Update("events", [mem EXCEPT ![i] = Settled(@)])
  /\ events' = [pc |-> "sent", id |-> i]
  /\ UNCHANGED <<run, cli, ldkVars, historyVars>>

PaymentFailed(i) ==
  /\ run = "up" /\ events = Idle /\ ldk[i] = "failed"
  /\ Update("events", [mem EXCEPT ![i] = Abandoned(@)])
  /\ events' = [pc |-> "failed", id |-> i]
  /\ UNCHANGED <<run, cli, ldkVars, historyVars>>

\* Mutant: the handler returns without waiting for its write.
EventHandledEarly ==
  /\ events # Idle
  /\ ldk' = [ldk EXCEPT ![events.id] =
               IF events.pc = "sent" THEN "sent_handled" ELSE "failed_handled"]
  /\ events' = Idle
  /\ UNCHANGED <<fileVars, mem, run, cli, paid, historyVars>>

\* The handler returns: to LDK the event is handled, the write failed or not.
EventHandled ==
  /\ events # Idle /\ result["events"] # "none"
  /\ ldk' = [ldk EXCEPT ![events.id] =
               IF events.pc = "sent" THEN "sent_handled" ELSE "failed_handled"]
  /\ unnoted' = IF events.pc = "sent" /\ result["events"] = "err"
                  THEN unnoted \cup {events.id} ELSE unnoted
  /\ events' = Idle
  /\ UNCHANGED <<fileVars, mem, run, cli, paid, resent, unsent, lossVars>>

-----------------------------------------------------------------------------
\* LDK.

Fulfil(i) ==
  /\ run = "up" /\ ldk[i] = "inflight"
  /\ ldk' = [ldk EXCEPT ![i] = "sent"]
  /\ UNCHANGED <<fileVars, mem, run, cli, events, paid, historyVars>>

Abandon(i) ==
  /\ run = "up" /\ ldk[i] = "inflight"
  /\ ldk' = [ldk EXCEPT ![i] = "failed"]
  /\ UNCHANGED <<fileVars, mem, run, cli, events, paid, historyVars>>

\* The background processor persists the ChannelManager.
PersistManager ==
  /\ run = "up"
  /\ ldk' = [i \in Id |-> CASE ldk[i] = "sent_handled" -> "fulfilled"
                            [] ldk[i] = "failed_handled" -> "none"
                            [] OTHER -> ldk[i]]
  /\ ldk' # ldk
  /\ paid' = paid \cup {i \in Id : ldk[i] = "sent_handled"}
  /\ UNCHANGED <<fileVars, mem, run, cli, events, historyVars>>

\* The payment leaves list_recent_payments.
Forget(i) ==
  /\ run = "up" /\ ldk[i] = "fulfilled"
  /\ ldk' = [ldk EXCEPT ![i] = "none"]
  /\ UNCHANGED <<fileVars, mem, run, cli, events, paid, historyVars>>

-----------------------------------------------------------------------------
\* Crash and start.

Crash ==
  /\ run # "down"
  /\ run' = "down"
  /\ AbandonWrites
  /\ mem' = [i \in Id |-> NoRecord]
  /\ cli' = Idle
  /\ events' = Idle
  /\ \E lost \in SUBSET {i \in Id : ldk[i] = "inflight"} :
       ldk' = [i \in Id |-> CASE i \in lost -> "none"
                              [] ldk[i] = "sent_handled" -> "sent"
                              [] ldk[i] = "failed_handled" -> "failed"
                              [] OTHER -> ldk[i]]
  /\ unsent' = {}
  /\ unread' = {}
  /\ UNCHANGED <<paid, resent, unnoted, dropped>>

\* A Pending record that list_recent_payments does not know has failed.
Restored(r, i) ==
  IF r.status = "pending" /\ ldk[i] = "none" THEN [r EXCEPT !.status = "failed"] ELSE r

Restore ==
  /\ run = "down"
  /\ run' = "restoring"
  /\ Update("main", [i \in Id |-> Restored(disk[i], i)])
  /\ UNCHANGED <<cli, events, ldkVars, historyVars>>

\* A file that cannot be opened or decoded is an empty map, with a warning: the
\* start goes on, and writes the empty map over the file.
RestoreUnread ==
  /\ run = "down"
  /\ run' = "restoring"
  /\ Update("main", [i \in Id |-> NoRecord])
  /\ unread' = {i \in Id : disk[i] # NoRecord}
  /\ UNCHANGED <<cli, events, ldkVars, resent, unnoted, unsent, dropped>>

\* Without the write the node does not start.
Restarted ==
  /\ run = "restoring" /\ result["main"] # "none"
  /\ run' = IF result["main"] = "ok" THEN "up" ELSE "down"
  /\ mem' = IF result["main"] = "ok" THEN mem ELSE [i \in Id |-> NoRecord]
  /\ result' = [result EXCEPT !["main"] = "none"]
  /\ unread' = {}
  /\ UNCHANGED <<disk, writes, cli, events, ldkVars, resent, unnoted, unsent, dropped>>

-----------------------------------------------------------------------------

FileStep ==
  /\ \E w \in writes : WriteLands(w) \/ WriteSkipped(w) \/ WriteFails(w)
  /\ dropped' = dropped \cup {i \in unread : disk'[i] = NoRecord}
  /\ unread' = {i \in unread : disk'[i] # NoRecord}
  /\ UNCHANGED <<mem, run, cli, events, ldkVars, resent, unnoted, unsent>>

Next ==
  \/ \E i \in Id : SendPayment(i)
  \/ PendingPersisted \/ PendingNotPersisted
  \/ PayOk \/ PayErr \/ FailureNoted \/ PayOfferErr
  \/ \E i \in Id : PaymentSent(i) \/ PaymentFailed(i)
  \/ EventHandled
  \/ \E i \in Id : Fulfil(i) \/ Abandon(i) \/ Forget(i)
  \/ PersistManager
  \/ Crash \/ Restore \/ RestoreUnread \/ Restarted
  \/ FileStep

Spec == Init /\ [][Next]_vars

-----------------------------------------------------------------------------

\* The outbound map, its file and the commands' places are of their types: a
\* record is one that HTLCStatus and PaymentInfo allow.
TypeOK ==
  /\ disk \in [Id -> Record]
  /\ writes \subseteq [owner : Owner, data : [Id -> Record], older : SUBSET Owner, skipped : BOOLEAN]
  /\ result \in [Owner -> {"none", "ok", "err"}]
  /\ mem \in [Id -> Record]
  /\ run \in {"down", "restoring", "up"}
  /\ cli \in {Idle} \cup [pc : {"persist", "pay", "note"}, id : Id]
  /\ events \in {Idle} \cup [pc : {"sent", "failed"}, id : Id]
  /\ ldk \in [Id -> LdkState]
  /\ paid \subseteq Id /\ resent \subseteq Id /\ unnoted \subseteq Id /\ unsent \subseteq Id
  /\ unread \subseteq Id /\ dropped \subseteq Id

(***************************************************************************)
(* A payment LDK has in flight is Pending in the file, through crashes,    *)
(* concurrent writes of the same file and failed writes: what was sent is  *)
(* never missing from the records or recorded as failed, unless a start    *)
(* that could not read the file wrote an empty map over it.  An invoice    *)
(* sent a second time is still recorded, but its record is not to be       *)
(* trusted.                                                                *)
(***************************************************************************)
InFlightIsPending ==
  \A i \in Id : ldk[i] = "inflight" /\ i \notin dropped =>
    /\ disk[i] # NoRecord
    /\ i \notin resent => disk[i] = NewRecord

(***************************************************************************)
(* A payment that was made, and whose PaymentSent LDK will not deliver     *)
(* again, is Succeeded in the file with its preimage, unless the write of  *)
(* that event failed (the handler has no way to ask for the event again),  *)
(* the invoice was sent a second time (which replaces its record) or a     *)
(* start that could not read the file wrote over it.  Neither a start that *)
(* could not read the file and ended before its write, nor one whose write *)
(* failed, loses anything.                                                 *)
(***************************************************************************)
PaidIsRecorded ==
  \A i \in paid \ (resent \cup unnoted \cup dropped) :
    disk[i] = [status |-> "succeeded", preimage |-> TRUE]

(***************************************************************************)
(* A record Pending in memory with nothing under way for it in LDK or in a *)
(* command was left so by a command that could not write the record or, of *)
(* an offer, could not pay (until the next restart), or comes from the     *)
(* file of a process that could not write the success of the payment, or   *)
(* was sent a second time: there is no other way to a stale Pending.       *)
(***************************************************************************)
PendingIsExplained ==
  run = "up" =>
    \A i \in Id :
      mem[i].status = "pending" /\ ldk[i] = "none" /\ cli.id # i => i \in unsent \cup unnoted \cup resent

(***************************************************************************)
(* The file never goes back on a success: no write called earlier, no      *)
(* start-up repair and no failed write turns a Succeeded record into       *)
(* another, unless the invoice is sent again.  The one step that takes a   *)
(* success off the file is the first write of a start that could not read  *)
(* it.                                                                     *)
(***************************************************************************)
SucceededIsFinal ==
  [][\A i \in Id :
       disk[i].status = "succeeded" /\ i \notin resent' \cup unread => disk'[i] = disk[i]]_vars
=============================================================================
