---------------------------- MODULE Connections ----------------------------
(***************************************************************************)
(* Peer connections and the node's shutdown (src/src/main.rs,              *)
(* src/src/net/peer.rs, src/src/cli/commands/peer.rs, the ConnectionNeeded *)
(* arm of src/src/events/mod.rs).                                          *)
(*                                                                         *)
(* Four tasks dial out, each one connection at a time: "reconnect" (the    *)
(* channel peers, every second), "bootstrap" (peers found by DNS), "cli"   *)
(* (connectpeer and openchannel) and "events" (ConnectionNeeded); "in" is  *)
(* the listener.  main waits for the CLI or the background processor to    *)
(* end, raises the stop flag, disconnects the peers and ends the           *)
(* background processor, which persists the ChannelManager.                *)
(*                                                                         *)
(* LDK's PeerManager, the network and the background processor are         *)
(* external.  A connection is [peer, via, nth]: who opened it, and to      *)
(* which of the peer's addresses.                                          *)
(***************************************************************************)
EXTENDS Integers, FiniteSets

CONSTANTS Peer,          \* other nodes
          ChannelPeers,  \* those we have channels with
          Reach,         \* the peers that "bootstrap", "cli", "events" and "in" meet
          Addresses,     \* how many of its addresses are known: none but onion ones is 0
          MaxLive,       \* bound on the connections at a time
          MaxRivals      \* bound on the tasks besides "reconnect" at work at a time

ASSUME PeerAssumption == ChannelPeers \subseteq Peer
ASSUME ReachAssumption == Reach \in [{"bootstrap", "cli", "events", "in"} -> SUBSET Peer]
ASSUME AddressesAssumption == Addresses \in [Peer -> Nat]
ASSUME MaxLiveAssumption == MaxLive \in Nat \ {0}
ASSUME MaxRivalsAssumption == MaxRivals \in Nat \ {0}

VARIABLES
  live,     \* TCP connections the PeerManager knows
  up,       \* those with a completed handshake
  task,     \* each task: [pc, peer, nth, todo]
  stop,     \* stop_listen_connect
  main,     \* where main is, from the select on
  bg,       \* the background processor
  bgRes,    \* bg_res: how it ended, if the select saw it end
  unsaved,  \* channel data changed since the ChannelManager was persisted
  late      \* history: a peer got connected after the peers were disconnected

vars == <<live, up, task, stop, main, bg, bgRes, unsaved, late>>

Dialer == {"reconnect", "bootstrap", "cli", "events"}
NoPeer == "nopeer"
Idle == [pc |-> "idle", peer |-> NoPeer, nth |-> 1, todo |-> {}]

Connected == {c.peer : c \in up}        \* peer_by_node_id(..).is_some()
Dialed(t) == [peer |-> task[t].peer, via |-> t, nth |-> task[t].nth]

Init ==
  /\ live = {} /\ up = {}
  /\ task = [t \in Dialer \cup {"in"} |-> Idle]
  /\ stop = FALSE
  /\ main = "select"
  /\ bg = "running"
  /\ bgRes = "ok"
  /\ unsaved = FALSE
  /\ late = FALSE

Become(t, state) ==
  /\ task' = [task EXCEPT ![t] = state]
  /\ UNCHANGED <<live, up, stop, main, bg, bgRes, unsaved, late>>

\* The tasks run until main returns and the runtime is dropped.
Running == main # "ended"

AtWork == {t \in DOMAIN task \ {"reconnect"} : task[t].pc \notin {"idle", "returned"}}
RivalFree == Cardinality(AtWork) < MaxRivals

-----------------------------------------------------------------------------
(***************************************************************************)
(* do_connect_peer: connect_outbound, then polling until the peer is there *)
(* or this connection is closed.  Where the task goes on is its own.       *)
(***************************************************************************)
\* Another address of the same peer: the reconnect task dials them all, the
\* event's task until one works.
MoreAddresses(t, ok) ==
  /\ task[t].nth < Addresses[task[t].peer]
  /\ t = "reconnect" \/ (t = "events" /\ ~ok /\ task[t].peer \notin Connected)

\* After an attempt: that address, the round's next peer, or nothing to do.
AfterDial(t, ok) ==
  IF MoreAddresses(t, ok)
    THEN [task[t] EXCEPT !.pc = "dial", !.nth = @ + 1]
    ELSE [task[t] EXCEPT !.pc = IF t \in {"reconnect", "bootstrap"} THEN "next" ELSE "idle",
                         !.peer = NoPeer, !.nth = 1]

\* connect_outbound succeeds: the PeerManager has a new connection.
DialOk(t) ==
  /\ Running /\ task[t].pc = "dial" /\ Cardinality(live) < MaxLive
  /\ live' = live \cup {Dialed(t)}
  /\ task' = [task EXCEPT ![t].pc = "wait"]
  /\ UNCHANGED <<up, stop, main, bg, bgRes, unsaved, late>>

\* connect_outbound fails or times out.
DialFails(t) ==
  /\ Running /\ task[t].pc = "dial"
  /\ Become(t, AfterDial(t, FALSE))

\* Mutant: only the peer's arrival ends the polling.
WaitIgnoresClosed(t) ==
  /\ Running /\ task[t].pc = "wait"
  /\ task[t].peer \in Connected
  /\ Become(t, AfterDial(t, TRUE))

\* The closed future resolves, or a poll finds the peer.
WaitOver(t) ==
  /\ Running /\ task[t].pc = "wait"
  /\ \/ Dialed(t) \notin live /\ Become(t, AfterDial(t, FALSE))
     \/ task[t].peer \in Connected /\ Become(t, AfterDial(t, TRUE))

-----------------------------------------------------------------------------
(***************************************************************************)
(* The reconnect task: every second, the channel peers that are not        *)
(* connected when their turn comes.  It looks at the flag before each peer *)
(* and not between the addresses of one; a peer of which the graph has no  *)
(* address it can dial is passed over.                                     *)
(***************************************************************************)
ReconnectTick ==
  /\ Running /\ task["reconnect"].pc = "idle"
  /\ Become("reconnect", [Idle EXCEPT !.pc = "next", !.todo = ChannelPeers])

ReconnectPeer(p) ==
  LET r == task["reconnect"] IN
  /\ Running /\ r.pc = "next" /\ p \in r.todo
  /\ \/ /\ p \notin Connected /\ stop
        /\ Become("reconnect", [Idle EXCEPT !.pc = "returned"])
     \/ /\ p \in Connected \/ (~stop /\ Addresses[p] = 0)
        /\ Become("reconnect", [r EXCEPT !.todo = @ \ {p}])
     \/ /\ p \notin Connected /\ ~stop /\ Addresses[p] > 0
        /\ Become("reconnect", [r EXCEPT !.pc = "dial", !.peer = p, !.todo = @ \ {p}])

ReconnectRoundOver ==
  /\ Running /\ task["reconnect"].pc = "next" /\ task["reconnect"].todo = {}
  /\ Become("reconnect", Idle)

(***************************************************************************)
(* The bootstrap task: the flag is looked at once a round; then it dials   *)
(* what the seeds gave other than the peers connected before the queries.  *)
(***************************************************************************)
BootstrapTick ==
  /\ Running /\ task["bootstrap"].pc = "idle"
  /\ IF stop
       THEN Become("bootstrap", [Idle EXCEPT !.pc = "returned"])
       ELSE RivalFree /\ \E found \in SUBSET (Reach["bootstrap"] \ Connected) :
              Become("bootstrap", [Idle EXCEPT !.pc = "next", !.todo = found])

BootstrapPeer(p) ==
  LET b == task["bootstrap"] IN
  /\ Running /\ b.pc = "next" /\ p \in b.todo
  /\ Become("bootstrap", [b EXCEPT !.pc = "dial", !.peer = p, !.todo = @ \ {p}])

BootstrapRoundOver ==
  /\ Running /\ task["bootstrap"].pc = "next" /\ task["bootstrap"].todo = {}
  /\ Become("bootstrap", Idle)

\* connect_peer_if_necessary, for a command and for a ConnectionNeeded event.
ConnectCommand(p) ==
  /\ Running /\ RivalFree /\ task["cli"].pc = "idle" /\ p \in Reach["cli"] \ Connected
  /\ Become("cli", [Idle EXCEPT !.pc = "dial", !.peer = p])

ConnectionNeeded(p) ==
  /\ Running /\ RivalFree /\ bg \in {"running", "asked"} /\ task["events"].pc = "idle"
  /\ p \in Reach["events"] \ Connected /\ Addresses[p] > 0
  /\ Become("events", [Idle EXCEPT !.pc = "dial", !.peer = p])

\* do_disconnect_peer refuses a peer with a channel.
DisconnectCommand(p) ==
  /\ Running /\ task["cli"].pc = "idle"
  /\ p \in Connected \ ChannelPeers
  /\ live' = {c \in live : c.peer # p}
  /\ up' = {c \in up : c.peer # p}
  /\ UNCHANGED <<task, stop, main, bg, bgRes, unsaved, late>>

\* The listener: the flag is looked at after accept; the connection is set
\* up in a task of its own.
Accept(p) ==
  /\ Running /\ task["in"].pc = "idle" /\ p \in Reach["in"]
  /\ \/ stop /\ Become("in", [Idle EXCEPT !.pc = "returned"])
     \/ ~stop /\ RivalFree /\ Become("in", [Idle EXCEPT !.pc = "setup", !.peer = p])

SetupInbound ==
  /\ Running /\ task["in"].pc = "setup" /\ Cardinality(live) < MaxLive
  /\ live' = live \cup {Dialed("in")}
  /\ task' = [task EXCEPT !["in"] = Idle]
  /\ UNCHANGED <<up, stop, main, bg, bgRes, unsaved, late>>

-----------------------------------------------------------------------------
\* PeerManager and network.

\* The handshake completes; a second connection of a peer is refused.
Handshake(c) ==
  /\ Running /\ c \in live \ up
  /\ IF c.peer \in Connected
       THEN live' = live \ {c} /\ UNCHANGED <<up, late>>
       ELSE /\ up' = up \cup {c}
            /\ late' = (late \/ main \in {"finish", "join"})
            /\ UNCHANGED live
  /\ UNCHANGED <<task, stop, main, bg, bgRes, unsaved>>

\* A connection is lost, or LDK gives up on its handshake or its pings.
Lose(c) ==
  /\ Running /\ c \in live
  /\ live' = live \ {c}
  /\ up' = up \ {c}
  /\ UNCHANGED <<task, stop, main, bg, bgRes, unsaved, late>>

\* A message of a channel peer changes channel data.
PeerMessage ==
  /\ Running /\ Connected \cap ChannelPeers # {} /\ ~unsaved
  /\ unsaved' = TRUE
  /\ UNCHANGED <<live, up, task, stop, main, bg, bgRes, late>>

-----------------------------------------------------------------------------
\* The background processor.

BgStep(to) ==
  /\ bg' = to
  /\ UNCHANGED <<live, up, task, stop, main, bgRes, late>>

BgPersist ==
  /\ Running /\ bg \in {"running", "asked"} /\ unsaved
  /\ unsaved' = FALSE
  /\ BgStep(bg)

\* A write fails, or the task panics.
BgFails ==
  /\ Running /\ bg \in {"running", "asked"}
  /\ BgStep("error") \/ BgStep("panicked")
  /\ UNCHANGED unsaved

\* Told to exit, it persists the ChannelManager once more.
BgExits ==
  /\ Running /\ bg = "asked"
  /\ unsaved' = FALSE
  /\ BgStep("ended")

-----------------------------------------------------------------------------
\* main, after the start.

MainStep(to) ==
  /\ main' = to
  /\ UNCHANGED <<live, up, task, bg, bgRes, unsaved, late>>

\* The CLI ends (quit, or the end of stdin), or the background processor.
Select ==
  /\ main = "select"
  /\ \/ /\ task["cli"].pc = "idle"
        /\ task' = [task EXCEPT !["cli"].pc = "returned"]
        /\ UNCHANGED bgRes
     \/ /\ bg \in {"error", "panicked"}
        /\ bgRes' = bg
        /\ UNCHANGED task
  /\ main' = "stop"
  /\ UNCHANGED <<live, up, stop, bg, unsaved, late>>

SetStop ==
  /\ main = "stop"
  /\ stop' = TRUE
  /\ MainStep("disconnect")

\* Mutant: the peers are left connected.
DisconnectNobody ==
  /\ main = "disconnect"
  /\ main' = "finish"
  /\ UNCHANGED <<live, up, task, stop, bg, bgRes, unsaved, late>>

DisconnectAllPeers ==
  /\ main = "disconnect"
  /\ live' = {} /\ up' = {}
  /\ main' = "finish"
  /\ UNCHANGED <<task, stop, bg, bgRes, unsaved, late>>

\* Mutant: the background processor is joined without being told to exit.
FinishUnsignalled ==
  /\ main = "finish"
  /\ \/ bgRes = "panicked" /\ unsaved' \in {unsaved, FALSE} /\ main' = "ended" /\ UNCHANGED bg
     \/ bgRes # "panicked" /\ bg # "running" /\ main' = "ended" /\ UNCHANGED <<bg, unsaved>>
     \/ bg = "running" /\ main' = "join" /\ UNCHANGED <<bg, unsaved>>
  /\ UNCHANGED <<live, up, task, stop, bgRes, late>>

(***************************************************************************)
(* A panic the select saw: the last-ditch write of the ChannelManager,     *)
(* which may fail.  An error, or a panic since: the exit channel is closed *)
(* already, and nothing is written.  Otherwise the background processor is *)
(* told to exit and joined.                                                *)
(***************************************************************************)
Finish ==
  /\ main = "finish"
  /\ \/ bgRes = "panicked" /\ unsaved' \in {unsaved, FALSE} /\ main' = "ended" /\ UNCHANGED bg
     \/ bgRes # "panicked" /\ bg # "running" /\ main' = "ended" /\ UNCHANGED <<bg, unsaved>>
     \/ bg = "running" /\ bg' = "asked" /\ main' = "join" /\ UNCHANGED unsaved
  /\ UNCHANGED <<live, up, task, stop, bgRes, late>>

Join ==
  /\ main = "join" /\ bg \in {"ended", "error", "panicked"}
  /\ UNCHANGED stop
  /\ MainStep("ended")

-----------------------------------------------------------------------------

Dial == \E t \in Dialer : DialOk(t) \/ DialFails(t) \/ WaitOver(t)

Reconnect == ReconnectTick \/ ReconnectRoundOver \/ \E p \in Peer : ReconnectPeer(p)

Next ==
  \/ Dial \/ Reconnect
  \/ BootstrapTick \/ BootstrapRoundOver
  \/ \E p \in Peer : \/ BootstrapPeer(p) \/ ConnectCommand(p) \/ ConnectionNeeded(p)
                     \/ DisconnectCommand(p) \/ Accept(p)
  \/ SetupInbound
  \/ \E c \in live : Handshake(c) \/ Lose(c)
  \/ PeerMessage
  \/ BgPersist \/ BgFails \/ BgExits
  \/ Select \/ SetStop \/ DisconnectAllPeers \/ Finish \/ Join

Spec == Init /\ [][Next]_vars

(***************************************************************************)
(* tokio polls the tasks and their timers fire; connect_outbound gives up  *)
(* after its timeout; a handshake that is not completed is given up by     *)
(* LDK's timer, which the background processor drives while it runs; the   *)
(* select sees the end of the background processor, and that answers the   *)
(* exit signal.  No dial and no handshake is assumed to succeed.           *)
(***************************************************************************)
Fairness ==
  /\ WF_vars(DialOk("reconnect") \/ DialFails("reconnect") \/ WaitOver("reconnect"))
  /\ WF_vars(Reconnect)
  /\ \A p \in ChannelPeers : \A n \in 1 .. Addresses[p] :
       LET c == [peer |-> p, via |-> "reconnect", nth |-> n] IN
       WF_vars(bg = "running" /\ c \in live \ up /\ (Handshake(c) \/ Lose(c)))
  /\ WF_vars(Select /\ bg # "running")
  /\ WF_vars(SetStop) /\ WF_vars(DisconnectAllPeers) /\ WF_vars(Finish) /\ WF_vars(Join)
  /\ WF_vars(BgExits)

FairSpec == Spec /\ Fairness

-----------------------------------------------------------------------------

(***************************************************************************)
(* What a channel peer did is on disk when the process ends: main stops    *)
(* the connections before it stops the background processor, whose last    *)
(* act is to persist the ChannelManager.  The exceptions are a peer that   *)
(* got connected after the peers were disconnected, and a background       *)
(* processor that ended in an error or a panic.                            *)
(***************************************************************************)
EndsPersisted == main = "ended" /\ ~late /\ bg = "ended" => ~unsaved

(***************************************************************************)
(* What the comment in main says of the shutdown: the connections are      *)
(* ended "so we don't continue updating our channel data after we've       *)
(* stopped the background processor".                                      *)
(***************************************************************************)
NoPeerAfterBackgroundStops == bg = "ended" => up = {}

(***************************************************************************)
(* Time and again each channel peer with a known address is connected or   *)
(* being dialed, and time and again the reconnect task is not at that peer *)
(* but done with it, until the node is told to stop; and then the node     *)
(* stops.  No dial that fails, no handshake that is never completed, no    *)
(* peer without an address and no other task keeps the reconnect task from *)
(* a peer or at it, and none of the waits of the shutdown is for ever.     *)
(***************************************************************************)
ServesOrEnds ==
  \A p \in {x \in ChannelPeers : Addresses[x] > 0} :
    /\ []<>\/ main = "select" /\ (p \in Connected \/ task["reconnect"].peer = p)
           \/ main = "ended"
    /\ []<>(task["reconnect"].peer # p \/ main = "ended")
=============================================================================
