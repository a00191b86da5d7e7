-------------------------- MODULE InboundPayments --------------------------
(***************************************************************************)
(* The inbound payment records: the map behind an async mutex and its      *)
(* file, the getinvoice command (src/src/cli/mod.rs,                       *)
(* src/src/cli/commands/payment.rs) and the event arms PaymentClaimable    *)
(* and PaymentClaimed (src/src/events/mod.rs), against an LDK (external)   *)
(* that replays after a crash the events whose handling it had not         *)
(* persisted.  As in OutboundPayments, the change of the map and the call  *)
(* of fs_store.write are one step under the mutex, the await is another.   *)
(***************************************************************************)
EXTENDS VersionedFile

CONSTANTS Invoiced,     \* hashes of invoices this node makes
          Spontaneous   \* hashes of keysend, offer and refund payments

ASSUME InOwnerAssumption == Owner = {"cli", "events"}
ASSUME InHashAssumption == Invoiced \cap Spontaneous = {}

VARIABLES
  mem,      \* InboundPaymentInfoStorage.payments
  run,      \* "down" or "up"
  cli,      \* "idle" or "persist"
  events,   \* the hash whose PaymentClaimed is being handled, or NoHash
  ldk,      \* LDK's state of each payment
  unnoted,  \* history: hashes whose PaymentClaimed record was not written
  unread,   \* history: records of the file that the last start could not read
  dropped   \* history: those of them lost when the file was written over

historyVars == <<unnoted, unread, dropped>>
vars == <<fileVars, mem, run, cli, events, ldk, historyVars>>

InHash == Invoiced \cup Spontaneous
NoHash == "nohash"

ASSUME NoHashAssumption == NoHash \notin InHash

NoRecord == [status |-> "none", preimage |-> FALSE]
NewRecord == [status |-> "pending", preimage |-> FALSE]
ClaimedRecord == [status |-> "succeeded", preimage |-> TRUE]

(***************************************************************************)
(* ldk[h]: "none", "payable" (the invoice is out, or the payer needs       *)
(* none), "claimable" (its event waits), "claiming" (claim_funds was       *)
(* called), "claimed" (its event waits), "handled" (handled, but not yet   *)
(* persisted as such), "done", "lost" (not claimed; the payer is refunded).*)
(***************************************************************************)
LdkState == {"none", "payable", "claimable", "claiming", "claimed", "handled", "done", "lost"}

Init ==
  /\ disk = [h \in InHash |-> NoRecord]
  /\ writes = {}
  /\ result = [o \in Owner |-> "none"]
  /\ mem = [h \in InHash |-> NoRecord]
  /\ run = "up"
  /\ cli = "idle"
  /\ events = NoHash
  /\ ldk = [h \in InHash |-> IF h \in Invoiced THEN "none" ELSE "payable"]
  /\ unnoted = {} /\ unread = {} /\ dropped = {}

Update(o, records) ==
  /\ mem' = records
  /\ Write(o, records)

-----------------------------------------------------------------------------
\* getinvoice: the invoice is printed, and may be paid, before it is written.
GetInvoice(h) ==
  /\ run = "up" /\ cli = "idle"
  /\ ldk[h] = "none"
  /\ ldk' = [ldk EXCEPT ![h] = "payable"]
  /\ Update("cli", [mem EXCEPT ![h] = NewRecord])
  /\ cli' = "persist"
  /\ UNCHANGED <<run, events, historyVars>>

\* The invoice could not be made: the map is written as it was.
GetInvoiceFails ==
  /\ run = "up" /\ cli = "idle"
  /\ Update("cli", mem)
  /\ cli' = "persist"
  /\ UNCHANGED <<run, events, ldk, historyVars>>

GetInvoiceDone ==
  /\ cli = "persist" /\ result["cli"] # "none"
  /\ cli' = "idle"
  /\ UNCHANGED <<fileVars, mem, run, events, ldk, historyVars>>

-----------------------------------------------------------------------------
\* The event handler, one event at a time.

PaymentClaimable(h) ==
  /\ run = "up" /\ events = NoHash /\ ldk[h] = "claimable"
  /\ \E next \in {"claiming", "lost"} :   \* with the preimage, or without it
       ldk' = [ldk EXCEPT ![h] = next]
  /\ UNCHANGED <<fileVars, mem, run, cli, events, historyVars>>

\* Mutant: only a payment that has a record is recorded.
PaymentClaimedOccupied(h) ==
  /\ run = "up" /\ events = NoHash /\ ldk[h] = "claimed"
  /\ Update("events", [mem EXCEPT ![h] = IF @ = NoRecord THEN @ ELSE ClaimedRecord])
  /\ events' = h
  /\ dropped' = dropped \ {h}
  /\ UNCHANGED <<run, cli, ldk, unnoted, unread>>

\* The entry is updated or, for a payment nobody was told of, inserted.
PaymentClaimed(h) ==
  /\ run = "up" /\ events = NoHash /\ ldk[h] = "claimed"
  /\ Update("events", [mem EXCEPT ![h] = ClaimedRecord])
  /\ events' = h
  /\ dropped' = dropped \ {h}
  /\ UNCHANGED <<run, cli, ldk, unnoted, unread>>

EventHandled ==
  /\ events # NoHash /\ result["events"] # "none"
  /\ ldk' = [ldk EXCEPT ![events] = "handled"]
  /\ unnoted' = IF result["events"] = "err" THEN unnoted \cup {events} ELSE unnoted
  /\ events' = NoHash
  /\ UNCHANGED <<fileVars, mem, run, cli, unread, dropped>>

-----------------------------------------------------------------------------
\* LDK.

LdkStep(h, from, to) ==
  /\ run = "up" /\ ldk[h] = from
  /\ ldk' = [ldk EXCEPT ![h] = to]
  /\ UNCHANGED <<fileVars, mem, run, cli, events, historyVars>>

Ldk(h) ==
  \/ LdkStep(h, "payable", "claimable")    \* the HTLCs arrive
  \/ LdkStep(h, "claiming", "claimed")     \* the claim is irrevocable
  \/ LdkStep(h, "handled", "done")         \* the ChannelManager is persisted

\* An event not persisted as handled, and a claim not yet durable, is replayed.
Crash ==
  /\ run = "up"
  /\ run' = "down"
  /\ AbandonWrites
  /\ mem' = [h \in InHash |-> NoRecord]
  /\ cli' = "idle"
  /\ events' = NoHash
  /\ ldk' = [h \in InHash |-> CASE ldk[h] = "claiming" -> "claimable"
                                [] ldk[h] = "handled" -> "claimed"
                                [] OTHER -> ldk[h]]
  /\ unread' = {}
  /\ UNCHANGED <<unnoted, dropped>>

\* read_inbound_payment_info
Restart ==
  /\ run = "down"
  /\ run' = "up"
  /\ mem' = disk
  /\ UNCHANGED <<fileVars, cli, events, ldk, historyVars>>

\* A file that cannot be opened or decoded is an empty map, with a warning: the
\* next write, of any command or event, replaces the file.
RestartUnread ==
  /\ run = "down"
  /\ run' = "up"
  /\ mem' = [h \in InHash |-> NoRecord]
  /\ unread' = {h \in InHash : disk[h] # NoRecord}
  /\ UNCHANGED <<fileVars, cli, events, ldk, unnoted, dropped>>

\* What was not read, and not received again since, is gone with the first write.
FileStep ==
  /\ \/ /\ \E w \in writes : WriteLands(w)
        /\ unread' = {}
        /\ dropped' = dropped \cup {h \in unread : mem[h] # ClaimedRecord}
     \/ /\ \E w \in writes : WriteSkipped(w) \/ WriteFails(w)
        /\ UNCHANGED <<unread, dropped>>
  /\ UNCHANGED <<mem, run, cli, events, ldk, unnoted>>

Next ==
  \/ \E h \in Invoiced : GetInvoice(h)
  \/ GetInvoiceFails \/ GetInvoiceDone
  \/ \E h \in InHash : PaymentClaimable(h) \/ PaymentClaimed(h) \/ Ldk(h)
  \/ EventHandled
  \/ Crash \/ Restart \/ RestartUnread \/ FileStep

Spec == Init /\ [][Next]_vars

-----------------------------------------------------------------------------

(***************************************************************************)
(* Money that was received is in the file: a payment whose PaymentClaimed  *)
(* LDK will not deliver again is Succeeded there with its preimage, with   *)
(* an invoice recorded for it before or not, unless the write of that      *)
(* event failed, or a process that could not read the file wrote over it.  *)
(* An unreadable file alone loses nothing: until a write, the next start   *)
(* that reads it has every record.                                         *)
(***************************************************************************)
ClaimedIsRecorded ==
  \A h \in InHash : ldk[h] = "done" /\ h \notin unnoted \cup dropped => disk[h] = ClaimedRecord

(***************************************************************************)
(* A payment recorded as received stays so: a getinvoice that called its   *)
(* write before the event, and whose write comes late, does not undo it,   *)
(* and neither does a restart.  Only the first write of a process that     *)
(* could not read the file takes it off.                                   *)
(***************************************************************************)
ReceivedIsFinal ==
  [][\A h \in InHash : disk[h] = ClaimedRecord /\ h \notin unread => disk'[h] = ClaimedRecord]_vars
=============================================================================
