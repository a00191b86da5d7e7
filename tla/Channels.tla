------------------------------ MODULE Channels ------------------------------
(***************************************************************************)
(* Channels from the command that opens them to the outputs they leave     *)
(* (src/src/cli/commands/channel.rs and its commands in src/src/cli/mod.rs,*)
(* src/src/events/funding.rs, the channel arms of src/src/events/mod.rs,   *)
(* the wallet calls and the broadcaster of src/src/bitcoind_client.rs).    *)
(*                                                                         *)
(* The event handler takes LDK's events one at a time and waits for        *)
(* bitcoind in the middle of them; the CLI, the peer and the tasks that    *)
(* broadcast go on meanwhile.  A crash loses what LDK has not persisted:   *)
(* channels without a signed funding transaction, and their events.        *)
(*                                                                         *)
(* LDK, the peer and bitcoind's wallet are external.  There is one peer.   *)
(***************************************************************************)
EXTENDS Integers, Sequences, SequencesExt

CONSTANTS Outbound,   \* channels opened by openchannel
          Inbound,    \* channels the peer asks for
          Bump,       \* transactions whose fee LDK asks to bump
          Output,     \* spendable outputs
          Coin,       \* coins of bitcoind's wallet
          MaxCrashes  \* bound on the crashes

ASSUME CrashAssumption == MaxCrashes \in Nat
ASSUME OutputAssumption == IsFiniteSet(Output)

VARIABLES
  peerUp,    \* the peer is connected
  cli,       \* the openchannel under way: [pc, ch]
  chan,      \* each channel as LDK has it
  events,    \* LDK's pending events, [kind, id]
  h,         \* the event handler: [pc, id, coins]
  coins,     \* the coins of each transaction given to LDK or made by it
  signed,    \* channels whose funding the peer signed
  sending,   \* broadcasts under way
  mempool,   \* transactions bitcoind accepted
  output,    \* the event of each output: "unborn", "pending", "handled", "persisted"
  swept,     \* each output in the sweeper: "no", "memory", "disk"
  told,      \* what the event handler reported as failed
  crashes,   \* bounds the crashes
  forgotten  \* history: funding events lost in a crash

ldkVars == <<chan, signed>>
vars == <<peerUp, cli, chan, events, h, coins, signed, sending, mempool, output, swept,
          told, crashes, forgotten>>

Channel == Outbound \cup Inbound
Tx == Outbound \cup Bump
Nobody == "nobody"

\* Channels, transactions and outputs have names of their own.
ASSUME NamesAssumption ==
  /\ Outbound \cap Inbound = {}
  /\ Bump \cap Channel = {}
  /\ Output \cap (Channel \cup Bump) = {}
  /\ Nobody \notin Channel \cup Bump \cup Output

Idle == [pc |-> "idle", id |-> Nobody, coins |-> {}]
NoCommand == [pc |-> "idle", ch |-> Nobody]

\* A channel whose funding is not signed survives neither its peer's leaving
\* nor a crash.
Unfunded(c) == chan[c] \in {"asked", "ready", "handed", "requested"}

\* The coins that no transaction bitcoind has accepted spends.
Unspent == Coin \ UNION {coins[t] : t \in mempool}

Init ==
  /\ peerUp = FALSE
  /\ cli = NoCommand
  /\ chan = [c \in Channel |-> "none"]
  /\ events = <<>>
  /\ h = Idle
  /\ coins = [t \in Tx |-> {}]
  /\ signed = {} /\ sending = {} /\ mempool = {}
  /\ output = [o \in Output |-> "unborn"]
  /\ swept = [o \in Output |-> "no"]
  /\ told = {}
  /\ crashes = 0
  /\ forgotten = {}

-----------------------------------------------------------------------------
(***************************************************************************)
(* The commands.                                                           *)
(***************************************************************************)
Command(next) ==
  /\ cli' = next
  /\ UNCHANGED <<peerUp, events, h, signed, coins, sending, mempool, output, swept,
                 told, crashes, forgotten>>

\* openchannel: with an address the peer is connected first, without one it
\* must be connected.  A command refused for its arguments changes nothing.
OpenStart(c) ==
  /\ cli.pc = "idle" /\ chan[c] = "none"
  /\ \/ Command([pc |-> "connect", ch |-> c])
     \/ peerUp /\ Command([pc |-> "open", ch |-> c])
  /\ UNCHANGED chan

\* connect_peer_if_necessary (see Connections) returns, perhaps with an error.
OpenConnect ==
  /\ cli.pc = "connect"
  /\ \/ Command([cli EXCEPT !.pc = "open"])
     \/ Command(NoCommand)
  /\ UNCHANGED chan

(***************************************************************************)
(* The amount (refused if it is no number), the flags (one that is not     *)
(* known is reported, and the channel opened all the same), create_channel *)
(* (refused if the peer is gone again).                                    *)
(***************************************************************************)
OpenCreate ==
  /\ cli.pc = "open"
  /\ Command(NoCommand)
  /\ \/ peerUp /\ chan' = [chan EXCEPT ![cli.ch] = "asked"]
     \/ UNCHANGED chan

\* closechannel, forceclosechannel: LDK drops a channel that is not funded,
\* closes one that is, and refuses any other.
CloseCommand(c) ==
  /\ cli.pc = "idle"
  /\ Command(cli)
  /\ \/ Unfunded(c) /\ chan' = [chan EXCEPT ![c] = "gone"]
     \/ chan[c] \in {"signed", "accepted"} /\ chan' = [chan EXCEPT ![c] = "closed"]

-----------------------------------------------------------------------------
(***************************************************************************)
(* LDK and the peer.                                                       *)
(***************************************************************************)
Ldk == UNCHANGED <<cli, h, coins, mempool, swept, told, crashes, forgotten>>

PeerConnects ==
  /\ ~peerUp
  /\ peerUp' = TRUE
  /\ Ldk /\ UNCHANGED <<ldkVars, events, sending, output>>

PeerLeaves ==
  /\ peerUp
  /\ peerUp' = FALSE
  /\ chan' = [c \in Channel |-> IF Unfunded(c) THEN "gone" ELSE chan[c]]
  /\ Ldk /\ UNCHANGED <<signed, events, sending, output>>

Emit(kind, id) == events' = Append(events, [kind |-> kind, id |-> id])

\* accept_channel: LDK asks for the funding transaction.
PeerAccepts(c) ==
  /\ peerUp /\ chan[c] = "asked"
  /\ chan' = [chan EXCEPT ![c] = "ready"]
  /\ Emit("FundingGenerationReady", c)
  /\ Ldk /\ UNCHANGED <<peerUp, signed, sending, output>>

\* funding_signed: LDK persists the monitor and broadcasts.
PeerSigns(c) ==
  /\ peerUp /\ chan[c] = "handed"
  /\ chan' = [chan EXCEPT ![c] = "signed"]
  /\ signed' = signed \cup {c}
  /\ sending' = sending \cup {c}
  /\ Ldk /\ UNCHANGED <<peerUp, events, output>>

PeerRequests(c) ==
  /\ peerUp /\ chan[c] = "none"
  /\ chan' = [chan EXCEPT ![c] = "requested"]
  /\ Emit("OpenChannelRequest", c)
  /\ Ldk /\ UNCHANGED <<peerUp, signed, sending, output>>

\* A closed channel's commitment needs fees, or has left outputs to us.
SomeClosed == \E c \in Channel : chan[c] = "closed"

BumpNeeded(b) ==
  /\ SomeClosed /\ coins[b] = {} /\ h.id # b
  /\ \A i \in DOMAIN events : events[i].id # b
  /\ Emit("BumpTransaction", b)
  /\ Ldk /\ UNCHANGED <<peerUp, ldkVars, sending, output>>

OutputSpendable(o) ==
  /\ SomeClosed /\ output[o] = "unborn"
  /\ output' = [output EXCEPT ![o] = "pending"]
  /\ Emit("SpendableOutputs", o)
  /\ Ldk /\ UNCHANGED <<peerUp, ldkVars, sending>>

\* LDK persists that the event was handled; until then it delivers it again
\* after a crash.
HandledPersisted(o) ==
  /\ output[o] = "handled"
  /\ output' = [output EXCEPT ![o] = "persisted"]
  /\ Ldk /\ UNCHANGED <<peerUp, ldkVars, events, sending>>

-----------------------------------------------------------------------------
(***************************************************************************)
(* The event handler.  It reports every event as handled, whatever became  *)
(* of it.                                                                  *)
(***************************************************************************)
Handler(next) ==
  /\ h' = next
  /\ UNCHANGED <<peerUp, cli, crashes, forgotten>>

\* The next event; what its arm does first is an await, but for the request.
FirstStep(kind) ==
  CASE kind = "FundingGenerationReady" -> "create"
    [] kind = "OpenChannelRequest" -> "accept"
    [] kind = "BumpTransaction" -> "list"
    [] kind = "SpendableOutputs" -> "track"

TakeEvent ==
  /\ h.pc = "idle" /\ events # <<>>
  /\ Handler([Idle EXCEPT !.pc = FirstStep(Head(events).kind), !.id = Head(events).id])
  /\ events' = Tail(events)
  /\ UNCHANGED <<ldkVars, coins, sending, mempool, output, swept, told>>

\* accept_inbound_channel
AcceptInbound ==
  /\ h.pc = "accept"
  /\ Handler(Idle)
  /\ \/ /\ chan[h.id] = "requested"
        /\ chan' = [chan EXCEPT ![h.id] = "accepted"]
        /\ UNCHANGED told
     \/ told' = told \cup {h.id} /\ UNCHANGED chan
  /\ UNCHANGED <<events, signed, coins, sending, mempool, output, swept>>

Bitcoind == UNCHANGED <<ldkVars, events, sending, mempool, output, swept>>

\* The address of the output script, create_raw_transaction.
CreateRaw ==
  /\ h.pc = "create"
  /\ Handler([h EXCEPT !.pc = "fund"])
  /\ Bitcoind /\ UNCHANGED <<coins, told>>

\* fund_raw_transaction: bitcoind chooses among the coins that no transaction
\* it has accepted spends, and does not lock them.
FundRaw ==
  /\ h.pc = "fund"
  /\ \E coin \in Unspent : Handler([h EXCEPT !.pc = "sign", !.coins = {coin}])
  /\ Bitcoind /\ UNCHANGED <<coins, told>>

\* sign_raw_transaction_with_wallet, complete.
SignRaw ==
  /\ h.pc = "sign"
  /\ Handler([h EXCEPT !.pc = "submit"])
  /\ Bitcoind /\ UNCHANGED <<coins, told>>

\* Mutant: only errors of the calls are reported.
RpcFailsQuietly ==
  /\ h.pc \in {"create", "fund", "sign"}
  /\ Handler(Idle)
  /\ told' \in {told, told \cup {h.id}}
  /\ Bitcoind /\ UNCHANGED coins

\* Mutant: after a failure the calls are made once more.
FundingRetried ==
  /\ h.pc \in {"create", "fund", "sign"}
  /\ Handler([h EXCEPT !.pc = "create", !.coins = {}])
  /\ told' = told \cup {h.id}
  /\ Bitcoind /\ UNCHANGED coins

\* One of the calls fails or times out, the signature is incomplete, or what
\* was signed does not decode: the user is told, the channel is left as it is.
FundingFails ==
  /\ h.pc \in {"create", "fund", "sign"}
  /\ Handler(Idle)
  /\ told' = told \cup {h.id}
  /\ Bitcoind /\ UNCHANGED coins

\* Mutant: the transaction is broadcast at once.
SubmitAndSend ==
  /\ h.pc = "submit"
  /\ Handler(Idle)
  /\ coins' = [coins EXCEPT ![h.id] = h.coins]
  /\ sending' = sending \cup {h.id}
  /\ \/ chan[h.id] = "ready" /\ chan' = [chan EXCEPT ![h.id] = "handed"] /\ UNCHANGED told
     \/ told' = told \cup {h.id} /\ UNCHANGED chan
  /\ UNCHANGED <<events, signed, mempool, output, swept>>

\* funding_transaction_generated: LDK takes the transaction for a channel that
\* still waits for it; it may refuse it, and does if the channel is gone.
Submit ==
  /\ h.pc = "submit"
  /\ Handler(Idle)
  /\ \/ /\ chan[h.id] = "ready"
        /\ chan' = [chan EXCEPT ![h.id] = "handed"]
        /\ coins' = [coins EXCEPT ![h.id] = h.coins]
        /\ UNCHANGED told
     \/ told' = told \cup {h.id} /\ UNCHANGED <<chan, coins>>
  /\ UNCHANGED <<events, signed, sending, mempool, output, swept>>

\* The bump handler: list_confirmed_utxos, sign_psbt, broadcast.  What fails
\* is LDK's to try again with the next block.
BumpList ==
  /\ h.pc = "list"
  /\ \/ \E coin \in Unspent : Handler([h EXCEPT !.pc = "psbt", !.coins = {coin}])
     \/ Handler(Idle)
  /\ Bitcoind /\ UNCHANGED <<coins, told>>

BumpSign ==
  /\ h.pc = "psbt"
  /\ Handler(Idle)
  /\ \/ /\ coins' = [coins EXCEPT ![h.id] = h.coins]
        /\ sending' = sending \cup {h.id}
     \/ UNCHANGED <<coins, sending>>
  /\ UNCHANGED <<ldkVars, events, mempool, output, swept, told>>

\* Mutant: the outputs are tracked in a task of their own.
TrackSpawned ==
  /\ h.pc = "track"
  /\ Handler(Idle)
  /\ output' = [output EXCEPT ![h.id] = "handled"]
  /\ swept' = [swept EXCEPT ![h.id] = IF @ = "disk" THEN @ ELSE "memory"]
  /\ UNCHANGED <<ldkVars, events, coins, sending, mempool, told>>

\* track_spendable_outputs returns once the sweeper is persisted; if that
\* fails, the sweeper has the outputs in memory alone.
Track ==
  /\ h.pc = "track"
  /\ Handler(Idle)
  /\ output' = [output EXCEPT ![h.id] = "handled"]
  /\ \/ swept' = [swept EXCEPT ![h.id] = "disk"] /\ UNCHANGED told
     \/ /\ swept' = [swept EXCEPT ![h.id] = IF @ = "disk" THEN @ ELSE "memory"]
        /\ told' = told \cup {h.id}
  /\ UNCHANGED <<ldkVars, events, coins, sending, mempool>>

-----------------------------------------------------------------------------
(***************************************************************************)
(* The tasks that broadcast: sendrawtransaction for one transaction,       *)
(* submitpackage for several (a bumped one and its parent).  bitcoind      *)
(* refuses what spends a spent coin; an error is logged, nothing more.     *)
(***************************************************************************)
Broadcast(t) ==
  /\ t \in sending
  /\ sending' = sending \ {t}
  /\ \/ coins[t] \subseteq Unspent /\ mempool' = mempool \cup {t}
     \/ UNCHANGED mempool
  /\ UNCHANGED <<peerUp, cli, ldkVars, events, h, coins, output, swept, told, crashes, forgotten>>

\* The background processor persists a sweeper that a failed write left dirty.
SweeperPersisted ==
  /\ \E o \in Output : swept[o] = "memory"
  /\ swept' = [o \in Output |-> IF swept[o] = "memory" THEN "disk" ELSE swept[o]]
  /\ UNCHANGED <<peerUp, cli, ldkVars, events, h, coins, sending, mempool, output, told,
                 crashes, forgotten>>

\* LDK broadcasts again what it holds, after a restart and with new blocks.
Rebroadcast(t) ==
  /\ t \in signed \cup Bump /\ coins[t] # {} /\ t \notin sending \cup mempool
  /\ sending' = sending \cup {t}
  /\ Ldk /\ UNCHANGED <<peerUp, ldkVars, events, output>>

\* What LDK persists of its events: neither those of unfunded channels nor
\* the bumps, which it makes again.
Redelivered == {o \in Output : output[o] \in {"pending", "handled"}}

Lost == {events[i].id : i \in DOMAIN events} \cup ({h.id} \ {Nobody})

\* The process ends and starts again.
Crash ==
  /\ crashes < MaxCrashes
  /\ crashes' = crashes + 1
  /\ peerUp' = FALSE
  /\ cli' = NoCommand
  /\ h' = Idle
  /\ chan' = [c \in Channel |-> IF Unfunded(c) THEN "gone" ELSE chan[c]]
  /\ sending' = {}
  /\ forgotten' = forgotten \cup (Lost \ Output)
  /\ output' = [o \in Output |-> IF output[o] = "handled" THEN "pending" ELSE output[o]]
  /\ swept' = [o \in Output |-> IF swept[o] = "memory" THEN "no" ELSE swept[o]]
  /\ \E order \in SetToSeqs(Redelivered) :
       events' = [i \in DOMAIN order |-> [kind |-> "SpendableOutputs", id |-> order[i]]]
  /\ UNCHANGED <<coins, signed, mempool, told>>

-----------------------------------------------------------------------------
HandlerStep ==
  \/ TakeEvent \/ AcceptInbound \/ CreateRaw \/ FundRaw \/ SignRaw \/ FundingFails
  \/ Submit \/ BumpList \/ BumpSign \/ Track

Next ==
  \/ \E c \in Outbound : OpenStart(c) \/ PeerAccepts(c) \/ PeerSigns(c)
  \/ OpenConnect
  \/ OpenCreate
  \/ \E c \in Channel : CloseCommand(c)
  \/ PeerConnects
  \/ PeerLeaves
  \/ \E c \in Inbound : PeerRequests(c)
  \/ \E b \in Bump : BumpNeeded(b)
  \/ \E o \in Output : OutputSpendable(o) \/ HandledPersisted(o)
  \/ HandlerStep
  \/ \E t \in Tx : Broadcast(t) \/ Rebroadcast(t)
  \/ SweeperPersisted
  \/ Crash

Spec == Init /\ [][Next]_vars

\* The event handler runs, and bitcoind answers, refuses or times out.
FairSpec == Spec /\ WF_vars(HandlerStep)

-----------------------------------------------------------------------------
(***************************************************************************)
(* A channel whose funding the user was told has failed is never funded:   *)
(* no funding transaction of it is signed, broadcast or accepted before or *)
(* after the report, whatever LDK, the peer and a crash do, so opening     *)
(* another channel instead does not pay twice.                             *)
(***************************************************************************)
ReportedIsUnfunded == told \cap (signed \cup sending \cup mempool) = {}

(***************************************************************************)
(* The wallet's coins go into a channel only when the peer has signed the  *)
(* commitment that gives them back: whatever the peer, the commands and    *)
(* crashes did while handle_funding_generation_ready waited for bitcoind,  *)
(* a funding transaction bitcoind accepted is one the peer signed for.     *)
(***************************************************************************)
SpentOnlyForSigned == mempool \cap Outbound \subseteq signed

(***************************************************************************)
(* A SpendableOutputs event counts as handled only when the sweeper has    *)
(* the outputs on disk, or the failure to write them was reported: until   *)
(* then a crash brings the event back.                                     *)
(***************************************************************************)
OutputsAccounted ==
  \A o \in Output : output[o] \in {"handled", "persisted"} => swept[o] = "disk" \/ o \in told

\* An event about the channel is waiting for the handler.
Queued(c) == \E i \in DOMAIN events : events[i].id = c

(***************************************************************************)
(* Every FundingGenerationReady and OpenChannelRequest is answered: LDK    *)
(* gets the transaction or the acceptance, or the failure is reported.     *)
(* Only a crash may lose one.                                              *)
(***************************************************************************)
ReadyIsAnswered ==
  \A c \in Channel :
    Queued(c) ~> \/ chan[c] \in {"handed", "signed", "accepted", "closed"}
                 \/ c \in told \cup forgotten
=============================================================================
