--------------------------- MODULE ChannelsProofs ---------------------------
(***************************************************************************)
(* For every set of channels, bumped transactions, outputs and coins: a    *)
(* funding transaction bitcoind accepted is one the peer signed for, a     *)
(* channel whose funding was reported as failed is never funded, and a     *)
(* handled SpendableOutputs event is in the sweeper on disk or was         *)
(* reported.                                                               *)
(*                                                                         *)
(* The second needs that a transaction is asked for once: by one event,    *)
(* which is either waiting or with the handler, and its coins are unset    *)
(* until the handler is done with it (Once).  So a report ends the one     *)
(* attempt there is (Reported), and what is signed or broadcast has coins  *)
(* (Spending).                                                             *)
(***************************************************************************)
EXTENDS Channels, FiniteSetTheorems, TLAPS

ChannelState ==
  {"none", "asked", "ready", "handed", "requested", "signed", "accepted", "closed", "gone"}

Name == Channel \cup Bump \cup Output

Event ==
  [kind : {"FundingGenerationReady", "OpenChannelRequest", "BumpTransaction", "SpendableOutputs"},
   id : Name]

TypeInv ==
  /\ cli \in [pc : {"idle", "connect", "open"}, ch : Outbound \cup {Nobody}]
  /\ chan \in [Channel -> ChannelState]
  /\ events \in Seq(Event)
  /\ h \in [pc : {"idle", "create", "fund", "sign", "submit", "accept", "list", "psbt", "track"},
            id : Name \cup {Nobody}, coins : SUBSET Coin]
  /\ coins \in [Tx -> SUBSET Coin]
  /\ signed \subseteq Outbound /\ sending \subseteq Tx /\ mempool \subseteq Tx
  /\ output \in [Output -> {"unborn", "pending", "handled", "persisted"}]
  /\ swept \in [Output -> {"no", "memory", "disk"}]

\* What an event is about, and what the place of the handler says of its event.
About(kind, id) ==
  /\ kind = "FundingGenerationReady" => id \in Outbound
  /\ kind = "OpenChannelRequest" => id \in Inbound
  /\ kind = "BumpTransaction" => id \in Bump
  /\ kind = "SpendableOutputs" => id \in Output

Places ==
  /\ \A i \in 1 .. Len(events) : About(events[i].kind, events[i].id)
  /\ h.pc = "idle" <=> h.id = Nobody
  /\ h.pc \in {"create", "fund", "sign", "submit"} => h.id \in Outbound
  /\ h.pc = "accept" => h.id \in Inbound
  /\ h.pc \in {"list", "psbt"} => h.id \in Bump
  /\ h.pc = "track" => h.id \in Output
  /\ h.pc \in {"sign", "submit", "psbt"} => h.coins # {}
  /\ cli.pc # "idle" => cli.ch \in Outbound /\ chan[cli.ch] = "none"

\* LDK asks for a transaction once at a time, and not after it has coins.
Once ==
  /\ \A i, j \in 1 .. Len(events) : events[i].id = events[j].id /\ events[i].id \in Tx => i = j
  /\ \A i \in 1 .. Len(events) : events[i].id \in Tx => events[i].id # h.id /\ coins[events[i].id] = {}
  /\ h.id \in Tx => coins[h.id] = {}
  /\ \A c \in Outbound : chan[c] \in {"none", "asked"} =>
       /\ coins[c] = {} /\ h.id # c
       /\ \A i \in 1 .. Len(events) : events[i].id # c

\* What is broadcast, or may be, has coins; of the channels only signed ones are.
Spending ==
  /\ \A c \in Outbound : chan[c] = "handed" => coins[c] # {}
  /\ \A t \in signed \cup sending \cup mempool : coins[t] # {}
  /\ \A t \in sending \cup mempool : t \in Outbound => t \in signed

\* What was reported as failed has no coins and will not be asked for again.
Reported ==
  /\ told \cap Bump = {}
  /\ \A c \in Outbound : c \in told =>
       /\ coins[c] = {} /\ h.id # c /\ chan[c] \notin {"none", "asked"}
       /\ \A i \in 1 .. Len(events) : events[i].id # c

ChannelsInv ==
  /\ TypeInv /\ Places /\ Once /\ Spending /\ Reported /\ OutputsAccounted

-----------------------------------------------------------------------------

\* Steps of the commands and the peer that only touch the channels: one is
\* created by the command under way, and any other goes on or goes away.
ChannelsMove ==
  \/ \E c \in Outbound : OpenStart(c)
  \/ OpenConnect
  \/ OpenCreate
  \/ \E c \in Channel : CloseCommand(c)
  \/ PeerConnects
  \/ PeerLeaves

\* These leave alone the transactions and the event handler.
LEMMA MoveKeeps ==
  ASSUME ChannelsInv, ChannelsMove
  PROVE  ChannelsInv'
<1>1. UNCHANGED <<events, h, coins, signed, sending, mempool, output, swept, told>>
  BY DEF ChannelsMove, OpenStart, OpenConnect, OpenCreate, CloseCommand, PeerConnects, PeerLeaves,
         Command, Ldk, ldkVars
<1>2. /\ cli' \in [pc : {"idle", "connect", "open"}, ch : Outbound \cup {Nobody}]
      /\ cli'.pc # "idle" => cli'.ch \in Outbound /\ chan'[cli'.ch] = "none"
      /\ chan' \in [Channel -> ChannelState]
      /\ \A c \in Outbound : chan'[c] \in {"none", "asked"} => chan[c] \in {"none", "asked"}
      /\ \A c \in Outbound : chan'[c] = "handed" => chan[c] = "handed"
  <2>1. /\ cli \in [pc : {"idle", "connect", "open"}, ch : Outbound \cup {Nobody}]
        /\ cli.pc # "idle" => cli.ch \in Outbound /\ chan[cli.ch] = "none"
        /\ chan \in [Channel -> ChannelState]
        /\ Outbound \subseteq Channel
    BY DEF ChannelsInv, TypeInv, Places, Channel
  <2>2. ASSUME NEW c \in Outbound, OpenStart(c) PROVE <1>2!:
    BY <2>1, <2>2 DEF OpenStart, Command
  <2>3. CASE OpenConnect BY <2>1, <2>3 DEF OpenConnect, Command, NoCommand
  <2>4. CASE OpenCreate BY <2>1, <2>4 DEF OpenCreate, Command, NoCommand, ChannelState
  <2>5. ASSUME NEW c \in Channel, CloseCommand(c) PROVE <1>2!:
    BY <2>1, <2>5 DEF CloseCommand, Command, Unfunded, ChannelState
  <2>6. CASE PeerConnects BY <2>1, <2>6 DEF PeerConnects, Ldk, ldkVars
  <2>7. CASE PeerLeaves BY <2>1, <2>7 DEF PeerLeaves, Ldk, Unfunded, ChannelState
  <2> QED BY <2>2, <2>3, <2>4, <2>5, <2>6, <2>7 DEF ChannelsMove
<1>3. TypeInv' BY <1>1, <1>2 DEF ChannelsInv, TypeInv
<1>4. Places' BY <1>1, <1>2 DEF ChannelsInv, Places
<1>5. Once' BY <1>1, <1>2 DEF ChannelsInv, Once
<1>6. Spending' BY <1>1, <1>2 DEF ChannelsInv, Spending
<1>7. Reported' BY <1>1, <1>2 DEF ChannelsInv, Reported
<1> QED BY <1>1, <1>3, <1>4, <1>5, <1>6, <1>7 DEF ChannelsInv, OutputsAccounted

\* LDK emits one more event: one about a transaction, only if none about it is
\* waiting or being handled and it has no coins.
LEMMA EmitInv ==
  ASSUME ChannelsInv, NEW kind, NEW id, Emit(kind, id),
         [kind |-> kind, id |-> id] \in Event, About(kind, id),
         UNCHANGED <<cli, h, coins, mempool, swept, told, signed, sending>>,
         id \in Tx => h.id # id /\ coins[id] = {} /\ \A i \in 1 .. Len(events) : events[i].id # id,
         chan' \in [Channel -> ChannelState],
         \A c \in Outbound : chan'[c] = chan[c] \/ (chan[c] = "asked" /\ chan'[c] = "ready"),
         id \in Outbound => chan[id] = "asked" /\ chan'[id] = "ready",
         output' \in [Output -> {"unborn", "pending", "handled", "persisted"}],
         \A o \in Output : output'[o] \in {"handled", "persisted"} => output'[o] = output[o]
  PROVE  ChannelsInv'
<1>1. TypeInv /\ Places /\ Once /\ h' = h /\ coins' = coins BY DEF ChannelsInv
<1>2. /\ events' \in Seq(Event)
      /\ \A i \in 1 .. Len(events') : About(events'[i].kind, events'[i].id)
      /\ \A i, j \in 1 .. Len(events') :
           events'[i].id = events'[j].id /\ events'[i].id \in Tx => i = j
      /\ \A i \in 1 .. Len(events') :
           events'[i].id \in Tx => events'[i].id # h'.id /\ coins'[events'[i].id] = {}
      /\ \A i \in 1 .. Len(events') : events'[i].id = id \/
           \E j \in 1 .. Len(events) : events'[i].id = events[j].id
  <2> DEFINE e == [kind |-> kind, id |-> id]
  <2>1. events \in Seq(Event) /\ e \in Event /\ events' = Append(events, e)
    BY <1>1 DEF TypeInv, Emit
  <2>2. e.id = id /\ e.kind = kind OBVIOUS
  <2> HIDE DEF e
  <2>3. /\ events' \in Seq(Event) /\ Len(events) \in Nat /\ Len(events') = Len(events) + 1
        /\ events'[Len(events) + 1] = e
        /\ \A i \in 1 .. Len(events) : events'[i] = events[i]
    BY <2>1
  <2>4. \A i \in 1 .. Len(events') : i \in 1 .. Len(events) \/ i = Len(events) + 1 BY <2>3
  <2>5. \A i \in 1 .. Len(events') :
          \/ i \in 1 .. Len(events) /\ events'[i] = events[i]
          \/ i = Len(events) + 1 /\ events'[i] = e
    BY <2>3, <2>4
  <2>6. \A i \in 1 .. Len(events') : About(events'[i].kind, events'[i].id)
    BY <1>1, <2>2, <2>5 DEF Places
  <2>7. ASSUME NEW i \in 1 .. Len(events'), NEW j \in 1 .. Len(events'),
               events'[i].id = events'[j].id, events'[i].id \in Tx
        PROVE  i = j
    BY <1>1, <2>2, <2>5, <2>7 DEF Once
  <2>8. ASSUME NEW i \in 1 .. Len(events'), events'[i].id \in Tx
        PROVE  events'[i].id # h.id /\ coins[events'[i].id] = {}
    BY <1>1, <2>2, <2>5, <2>8 DEF Once
  <2> QED BY <1>1, <2>2, <2>3, <2>5, <2>6, <2>7, <2>8
<1>3. TypeInv' BY <1>1, <1>2 DEF TypeInv
<1>4. Places' BY <1>1, <1>2 DEF Places
<1>5. ASSUME NEW c \in Outbound, chan'[c] \in {"none", "asked"}
      PROVE  coins[c] = {} /\ h.id # c /\ \A i \in 1 .. Len(events') : events'[i].id # c
  <2>1. chan[c] \in {"none", "asked"} /\ c # id BY <1>5
  <2>2. coins[c] = {} /\ h.id # c /\ \A j \in 1 .. Len(events) : events[j].id # c
    BY <1>1, <2>1 DEF Once
  <2>3. ASSUME NEW i \in 1 .. Len(events') PROVE events'[i].id # c
    BY <1>2, <2>1, <2>2, <2>3
  <2> QED BY <2>2, <2>3
<1>6. Once' BY <1>1, <1>2, <1>5 DEF Once
<1>7. Spending' BY DEF ChannelsInv, Spending
<1>8. Reported'
  <2>1. ASSUME NEW c \in Outbound, c \in told
        PROVE  /\ coins[c] = {} /\ h.id # c /\ chan'[c] \notin {"none", "asked"}
               /\ \A i \in 1 .. Len(events') : events'[i].id # c
    <3>1. /\ coins[c] = {} /\ h.id # c /\ chan[c] \notin {"none", "asked"}
          /\ \A i \in 1 .. Len(events) : events[i].id # c
      BY <2>1 DEF ChannelsInv, Reported
    <3>2. id # c /\ chan'[c] = chan[c] BY <3>1
    <3>3. ASSUME NEW i \in 1 .. Len(events') PROVE events'[i].id # c
      BY <1>2, <3>1, <3>2, <3>3
    <3> QED BY <3>1, <3>2, <3>3
  <2> QED BY <1>1, <2>1 DEF ChannelsInv, Reported
<1> QED BY <1>3, <1>4, <1>6, <1>7, <1>8 DEF ChannelsInv, OutputsAccounted

\* LDK asks for a funding transaction or an acceptance, for a bump, or reports
\* an output.
LEMMA EmitKeeps ==
  ASSUME ChannelsInv,
         \/ \E c \in Outbound : PeerAccepts(c)
         \/ \E c \in Inbound : PeerRequests(c)
         \/ \E b \in Bump : BumpNeeded(b)
         \/ \E o \in Output : OutputSpendable(o)
  PROVE  ChannelsInv'
<1> USE NamesAssumption DEF Ldk, ldkVars, Name, Event, About, Channel, Tx
<1>1. /\ chan \in [Channel -> ChannelState]
      /\ output \in [Output -> {"unborn", "pending", "handled", "persisted"}]
      /\ Once
  BY DEF ChannelsInv, TypeInv
<1>2. ASSUME NEW c \in Outbound, PeerAccepts(c) PROVE ChannelsInv'
  <2>1. /\ Emit("FundingGenerationReady", c) /\ chan[c] = "asked"
        /\ chan' = [chan EXCEPT ![c] = "ready"] /\ output' = output
        /\ UNCHANGED <<cli, h, coins, mempool, swept, told, signed, sending>>
    BY <1>2 DEF PeerAccepts
  <2>2. [kind |-> "FundingGenerationReady", id |-> c] \in Event /\ About("FundingGenerationReady", c)
    OBVIOUS
  <2>3. h.id # c /\ coins[c] = {} /\ \A i \in 1 .. Len(events) : events[i].id # c
    BY <1>1, <2>1 DEF Once
  <2>4. chan' \in [Channel -> ChannelState] BY <1>1, <2>1 DEF ChannelState
  <2> HIDE DEF Event, About
  <2> QED BY <1>1, <2>1, <2>2, <2>3, <2>4, EmitInv
<1>3. ASSUME NEW c \in Inbound, PeerRequests(c) PROVE ChannelsInv'
  <2>1. /\ Emit("OpenChannelRequest", c)
        /\ chan' = [chan EXCEPT ![c] = "requested"] /\ output' = output
        /\ UNCHANGED <<cli, h, coins, mempool, swept, told, signed, sending>>
    BY <1>3 DEF PeerRequests
  <2>2. [kind |-> "OpenChannelRequest", id |-> c] \in Event /\ About("OpenChannelRequest", c)
    OBVIOUS
  <2>3. c \notin Tx /\ c \notin Outbound OBVIOUS
  <2>4. chan' \in [Channel -> ChannelState] BY <1>1, <2>1 DEF ChannelState
  <2> HIDE DEF Event, About
  <2> QED BY <1>1, <2>1, <2>2, <2>3, <2>4, EmitInv
<1>4. ASSUME NEW b \in Bump, BumpNeeded(b) PROVE ChannelsInv'
  <2>1. /\ Emit("BumpTransaction", b) /\ chan' = chan /\ output' = output
        /\ UNCHANGED <<cli, h, coins, mempool, swept, told, signed, sending>>
        /\ coins[b] = {} /\ h.id # b /\ \A i \in DOMAIN events : events[i].id # b
    BY <1>4 DEF BumpNeeded
  <2>2. [kind |-> "BumpTransaction", id |-> b] \in Event /\ About("BumpTransaction", b)
    OBVIOUS
  <2>3. DOMAIN events = 1 .. Len(events) BY DEF ChannelsInv, TypeInv
  <2>4. b \notin Outbound OBVIOUS
  <2> HIDE DEF Event, About
  <2> QED BY <1>1, <2>1, <2>2, <2>3, <2>4, EmitInv
<1>5. ASSUME NEW o \in Output, OutputSpendable(o) PROVE ChannelsInv'
  <2>1. /\ Emit("SpendableOutputs", o) /\ chan' = chan
        /\ output' = [output EXCEPT ![o] = "pending"]
        /\ UNCHANGED <<cli, h, coins, mempool, swept, told, signed, sending>>
    BY <1>5 DEF OutputSpendable
  <2>2. [kind |-> "SpendableOutputs", id |-> o] \in Event /\ About("SpendableOutputs", o)
    OBVIOUS
  <2>3. o \notin Tx /\ o \notin Outbound OBVIOUS
  <2>4. /\ output' \in [Output -> {"unborn", "pending", "handled", "persisted"}]
        /\ \A p \in Output : output'[p] \in {"handled", "persisted"} => output'[p] = output[p]
    BY <1>1, <2>1
  <2> HIDE DEF Event, About
  <2> QED BY <1>1, <2>1, <2>2, <2>3, <2>4, EmitInv
<1> QED BY <1>2, <1>3, <1>4, <1>5

\* The peer signs what LDK was handed, and it is broadcast.
LEMMA SignKeeps ==
  ASSUME ChannelsInv, NEW c \in Outbound, PeerSigns(c)
  PROVE  ChannelsInv'
<1>1. /\ UNCHANGED <<cli, h, events, coins, mempool, output, swept, told>>
      /\ chan[c] = "handed" /\ chan' = [chan EXCEPT ![c] = "signed"]
      /\ signed' = signed \cup {c} /\ sending' = sending \cup {c}
  BY DEF PeerSigns, Ldk
<1>2. chan \in [Channel -> ChannelState] /\ Outbound \subseteq Channel /\ Outbound \subseteq Tx
  BY DEF ChannelsInv, TypeInv, Channel, Tx
<1>3. chan' \in [Channel -> ChannelState] BY <1>1, <1>2 DEF ChannelState
<1>4. \A d \in Outbound : chan'[d] = chan[d] \/ (d = c /\ chan'[d] = "signed") BY <1>1, <1>2
<1>5. TypeInv' BY <1>1, <1>2, <1>3 DEF ChannelsInv, TypeInv
<1>6. Places' BY <1>1, <1>4 DEF ChannelsInv, Places
<1>7. Once' BY <1>1, <1>4 DEF ChannelsInv, Once
<1>8. Spending' BY <1>1, <1>4 DEF ChannelsInv, Spending
<1>9. Reported' BY <1>1, <1>4 DEF ChannelsInv, Reported
<1> QED BY <1>1, <1>5, <1>6, <1>7, <1>8, <1>9 DEF ChannelsInv, OutputsAccounted

\* Steps that leave the channels, their events and the handler alone: what is
\* broadcast, and what of the outputs is persisted.
LEMMA AroundKeeps ==
  ASSUME ChannelsInv,
         \/ \E o \in Output : HandledPersisted(o)
         \/ \E t \in Tx : Broadcast(t) \/ Rebroadcast(t)
         \/ SweeperPersisted
  PROVE  ChannelsInv'
<1>1. UNCHANGED <<cli, chan, events, h, coins, signed, told>>
  BY DEF HandledPersisted, Broadcast, Rebroadcast, SweeperPersisted, Ldk, ldkVars
<1>2. /\ signed \subseteq Outbound /\ sending \subseteq Tx /\ mempool \subseteq Tx
      /\ output \in [Output -> {"unborn", "pending", "handled", "persisted"}]
      /\ swept \in [Output -> {"no", "memory", "disk"}]
  BY DEF ChannelsInv, TypeInv
<1>3. /\ sending' \subseteq Tx /\ mempool' \subseteq Tx /\ mempool \subseteq mempool'
      /\ \A t \in sending' \cup mempool' :
           t \in sending \cup mempool \/ (t \in signed \cup Bump /\ coins[t] # {})
      /\ output' \in [Output -> {"unborn", "pending", "handled", "persisted"}]
      /\ swept' \in [Output -> {"no", "memory", "disk"}]
      /\ \A o \in Output : output'[o] \in {"handled", "persisted"} => output[o] \in {"handled", "persisted"}
      /\ \A o \in Output : swept[o] = "disk" => swept'[o] = "disk"
  <2>1. ASSUME NEW o \in Output, HandledPersisted(o) PROVE <1>3!:
    BY <1>2, <2>1 DEF HandledPersisted, Ldk
  <2>2. ASSUME NEW t \in Tx, Broadcast(t) PROVE <1>3!:
    BY <1>2, <2>2 DEF Broadcast
  <2>3. ASSUME NEW t \in Tx, Rebroadcast(t) PROVE <1>3!:
    BY <1>2, <2>3 DEF Rebroadcast, Ldk
  <2>4. CASE SweeperPersisted
    BY <1>2, <2>4 DEF SweeperPersisted
  <2> QED BY <2>1, <2>2, <2>3, <2>4
<1>4. TypeInv' BY <1>1, <1>3 DEF ChannelsInv, TypeInv
<1>5. Places' /\ Once' BY <1>1 DEF ChannelsInv, Places, Once
<1>6. Spending'
  BY <1>1, <1>2, <1>3, NamesAssumption DEF ChannelsInv, Spending, Channel
<1>7. OutputsAccounted' BY <1>1, <1>3 DEF ChannelsInv, OutputsAccounted
<1> QED BY <1>1, <1>4, <1>5, <1>6, <1>7 DEF ChannelsInv, Reported

\* The handler takes the first event.
LEMMA TakeKeeps ==
  ASSUME ChannelsInv, TakeEvent
  PROVE  ChannelsInv'
<1>1. /\ UNCHANGED <<cli, chan, coins, signed, sending, mempool, output, swept, told>>
      /\ h.pc = "idle" /\ events # <<>> /\ events' = Tail(events)
      /\ h' = [Idle EXCEPT !.pc = FirstStep(Head(events).kind), !.id = Head(events).id]
  BY DEF TakeEvent, Handler, ldkVars
<1>2. events \in Seq(Event) BY DEF ChannelsInv, TypeInv
<1>3. /\ Len(events) \in Nat /\ Len(events) > 0 /\ Head(events) = events[1] /\ events[1] \in Event
      /\ events' \in Seq(Event) /\ Len(events') = Len(events) - 1
      /\ \A i \in 1 .. Len(events') : events'[i] = events[i + 1]
  BY <1>1, <1>2
<1>4. \A i \in 1 .. Len(events') : i + 1 \in 1 .. Len(events) /\ i + 1 # 1 BY <1>3
<1> DEFINE k == events[1].kind
           n == events[1].id
<1>5. n \in Name /\ About(k, n)
  <2>1. 1 \in 1 .. Len(events) BY <1>3
  <2> QED BY <1>3, <2>1 DEF ChannelsInv, Places, Event
<1>6. /\ h' = [pc |-> FirstStep(k), id |-> n, coins |-> {}]
      /\ \/ FirstStep(k) = "create" /\ n \in Outbound
         \/ FirstStep(k) = "accept" /\ n \in Inbound
         \/ FirstStep(k) = "list" /\ n \in Bump
         \/ FirstStep(k) = "track" /\ n \in Output
  <2>1. h' = [pc |-> FirstStep(k), id |-> n, coins |-> {}] BY <1>1, <1>3 DEF Idle
  <2>2. k \in {"FundingGenerationReady", "OpenChannelRequest", "BumpTransaction", "SpendableOutputs"}
    BY <1>3 DEF Event
  <2>3. CASE k = "FundingGenerationReady" BY <1>5, <2>1, <2>3 DEF FirstStep, About
  <2>4. CASE k = "OpenChannelRequest" BY <1>5, <2>1, <2>4 DEF FirstStep, About
  <2>5. CASE k = "BumpTransaction" BY <1>5, <2>1, <2>5 DEF FirstStep, About
  <2>6. CASE k = "SpendableOutputs" BY <1>5, <2>1, <2>6 DEF FirstStep, About
  <2> QED BY <2>2, <2>3, <2>4, <2>5, <2>6
<1>7. h'.pc = FirstStep(k) /\ h'.id = n /\ h'.coins = {} BY <1>6
<1>8. \A i \in 1 .. Len(events') : events'[i].id \in Tx => events'[i].id # n
  <2> SUFFICES ASSUME NEW i \in 1 .. Len(events'), events'[i].id \in Tx, events'[i].id = n
               PROVE  FALSE
    OBVIOUS
  <2>1. i + 1 \in 1 .. Len(events) /\ 1 \in 1 .. Len(events) /\ i + 1 # 1 BY <1>3, <1>4
  <2>2. events[i + 1].id = events[1].id /\ events[i + 1].id \in Tx BY <1>3
  <2> QED BY <2>1, <2>2 DEF ChannelsInv, Once
<1>9. n \in Tx => coins[n] = {}
  <2>1. 1 \in 1 .. Len(events) BY <1>3
  <2> QED BY <2>1 DEF ChannelsInv, Once
<1>10. \A c \in Outbound : chan[c] \in {"none", "asked"} => n # c
  <2>1. 1 \in 1 .. Len(events) BY <1>3
  <2> QED BY <2>1 DEF ChannelsInv, Once
<1> DEFINE Unasked(c) == \A i \in 1 .. Len(events) : events[i].id # c
<1>told. \A c \in Outbound : c \in told =>
         n # c /\ \A i \in 1 .. Len(events') : events'[i].id # c
  <2>1. 1 \in 1 .. Len(events) BY <1>3
  <2>2. \A c \in Outbound : c \in told => Unasked(c) BY DEF ChannelsInv, Reported
  <2> QED BY <1>3, <1>4, <2>1, <2>2
<1> HIDE DEF k, n
<1>11. TypeInv'
  <2>1. h' \in [pc : {"idle", "create", "fund", "sign", "submit", "accept", "list", "psbt", "track"},
                id : Name \cup {Nobody}, coins : SUBSET Coin]
    BY <1>5, <1>6
  <2> QED BY <1>1, <1>3, <2>1 DEF ChannelsInv, TypeInv
<1>12. Places'
  <2>1. \A i \in 1 .. Len(events') : About(events'[i].kind, events'[i].id)
    BY <1>3, <1>4 DEF ChannelsInv, Places
  <2>2. n # Nobody BY <1>5, NamesAssumption DEF Name
  <2> QED BY <1>1, <1>6, <1>7, <2>1, <2>2 DEF ChannelsInv, Places
<1>13. Once'
  <2>1. \A i, j \in 1 .. Len(events') :
          events'[i].id = events'[j].id /\ events'[i].id \in Tx => i = j
    <3> SUFFICES ASSUME NEW i \in 1 .. Len(events'), NEW j \in 1 .. Len(events'),
                        events'[i].id = events'[j].id, events'[i].id \in Tx
                 PROVE  i = j
      OBVIOUS
    <3>1. i + 1 \in 1 .. Len(events) /\ j + 1 \in 1 .. Len(events) BY <1>4
    <3>2. i + 1 = j + 1 BY <1>3, <3>1 DEF ChannelsInv, Once
    <3> QED BY <3>2
  <2>2. \A i \in 1 .. Len(events') : events'[i].id \in Tx => coins[events'[i].id] = {}
    BY <1>3, <1>4 DEF ChannelsInv, Once
  <2>3. \A c \in Outbound : chan[c] \in {"none", "asked"} =>
          coins[c] = {} /\ \A i \in 1 .. Len(events') : events'[i].id # c
    BY <1>3, <1>4 DEF ChannelsInv, Once
  <2> QED BY <1>1, <1>7, <1>8, <1>9, <1>10, <2>1, <2>2, <2>3 DEF Once
<1>14. Spending' BY <1>1 DEF ChannelsInv, Spending
<1>15. Reported' BY <1>1, <1>7, <1>told DEF ChannelsInv, Reported
<1> QED BY <1>1, <1>11, <1>12, <1>13, <1>14, <1>15
        DEF ChannelsInv, OutputsAccounted

\* The handler is done with its event, without coins for a transaction.
LEMMA DoneKeeps ==
  ASSUME ChannelsInv, h' = Idle, UNCHANGED <<cli, events, coins, signed, sending, mempool>>,
         chan' \in [Channel -> ChannelState], \A c \in Outbound : chan'[c] = chan[c],
         output' \in [Output -> {"unborn", "pending", "handled", "persisted"}],
         swept' \in [Output -> {"no", "memory", "disk"}],
         told' \subseteq told \cup {h.id}, h.id \in Bump => told' = told,
         OutputsAccounted'
  PROVE  ChannelsInv'
<1>1. h'.pc = "idle" /\ h'.id = Nobody /\ h'.coins = {} BY DEF Idle
<1>2. Nobody \notin Tx /\ Nobody \notin Outbound BY NamesAssumption DEF Tx, Channel
<1>3. TypeInv'
  <2>1. h' \in [pc : {"idle", "create", "fund", "sign", "submit", "accept", "list", "psbt", "track"},
                id : Name \cup {Nobody}, coins : SUBSET Coin]
    BY DEF Idle
  <2> QED BY <2>1 DEF ChannelsInv, TypeInv
<1>4. Places' BY <1>1 DEF ChannelsInv, Places
<1>5. Once' BY <1>1, <1>2 DEF ChannelsInv, Once
<1>6. Spending' BY DEF ChannelsInv, Spending
<1>7. Reported'
  <2>1. told' \cap Bump = {} BY DEF ChannelsInv, Reported
  <2>2. ASSUME NEW c \in Outbound, c = h.id
        PROVE  /\ coins[c] = {} /\ chan[c] \notin {"none", "asked"}
               /\ \A i \in 1 .. Len(events) : events[i].id # c
    BY <2>2 DEF ChannelsInv, Once, Tx
  <2>3. ASSUME NEW c \in Outbound, c \in told'
        PROVE  /\ coins[c] = {} /\ chan[c] \notin {"none", "asked"}
               /\ \A i \in 1 .. Len(events) : events[i].id # c
    BY <2>2, <2>3 DEF ChannelsInv, Reported
  <2> QED BY <1>1, <1>2, <2>1, <2>3 DEF Reported
<1> QED BY <1>3, <1>4, <1>5, <1>6, <1>7 DEF ChannelsInv

\* The arms that end so: an acceptance, a failure, outputs given to the sweeper.
LEMMA EndKeeps ==
  ASSUME ChannelsInv, AcceptInbound \/ FundingFails \/ Track
  PROVE  ChannelsInv'
<1>1. /\ chan \in [Channel -> ChannelState]
      /\ output \in [Output -> {"unborn", "pending", "handled", "persisted"}]
      /\ swept \in [Output -> {"no", "memory", "disk"}]
      /\ OutputsAccounted
  BY DEF ChannelsInv, TypeInv
<1>2. CASE AcceptInbound
  <2>1. /\ h' = Idle /\ UNCHANGED <<cli, events, coins, signed, sending, mempool, output, swept>>
        /\ told' \in {told, told \cup {h.id}} /\ h.pc = "accept"
        /\ chan' = chan \/ chan' = [chan EXCEPT ![h.id] = "accepted"]
    BY <1>2 DEF AcceptInbound, Handler
  <2>2. h.id \in Inbound /\ h.id \notin Outbound /\ h.id \notin Bump
    BY <2>1, NamesAssumption DEF ChannelsInv, Places, Channel
  <2>3. chan' \in [Channel -> ChannelState] /\ \A c \in Outbound : chan'[c] = chan[c]
    BY <1>1, <2>1, <2>2 DEF ChannelState, Channel
  <2>4. OutputsAccounted' BY <1>1, <2>1 DEF OutputsAccounted
  <2> QED BY <1>1, <2>1, <2>2, <2>3, <2>4, DoneKeeps
<1>3. CASE FundingFails
  <2>1. /\ h' = Idle /\ UNCHANGED <<cli, events, chan, coins, signed, sending, mempool, output, swept>>
        /\ told' = told \cup {h.id} /\ h.pc \in {"create", "fund", "sign"}
    BY <1>3 DEF FundingFails, Handler, Bitcoind, ldkVars
  <2>2. OutputsAccounted' BY <1>1, <2>1 DEF OutputsAccounted
  <2>3. h.id \notin Bump BY <2>1, NamesAssumption DEF ChannelsInv, Places, Channel
  <2> QED BY <1>1, <2>1, <2>2, <2>3, DoneKeeps
<1>4. CASE Track
  <2>1. /\ h' = Idle /\ UNCHANGED <<cli, events, chan, coins, signed, sending, mempool>>
        /\ h.pc = "track" /\ output' = [output EXCEPT ![h.id] = "handled"]
        /\ \/ swept' = [swept EXCEPT ![h.id] = "disk"] /\ told' = told
           \/ /\ swept' = [swept EXCEPT ![h.id] = IF @ = "disk" THEN @ ELSE "memory"]
              /\ told' = told \cup {h.id}
    BY <1>4 DEF Track, Handler, ldkVars
  <2>2. h.id \in Output /\ h.id \notin Bump
    BY <2>1, NamesAssumption DEF ChannelsInv, Places
  <2>3. /\ output' \in [Output -> {"unborn", "pending", "handled", "persisted"}]
        /\ swept' \in [Output -> {"no", "memory", "disk"}]
    BY <1>1, <2>1, <2>2
  <2>4. ASSUME NEW o \in Output, output'[o] \in {"handled", "persisted"}
        PROVE  swept'[o] = "disk" \/ o \in told'
    <3>1. CASE o = h.id BY <1>1, <2>1, <2>2, <3>1
    <3>2. CASE o # h.id
      <4>1. output'[o] = output[o] /\ swept'[o] = swept[o] /\ told \subseteq told'
        BY <1>1, <2>1, <3>2
      <4> QED BY <1>1, <2>4, <4>1 DEF OutputsAccounted
    <3> QED BY <3>1, <3>2
  <2>5. OutputsAccounted' BY <2>4 DEF OutputsAccounted
  <2> QED BY <1>1, <2>1, <2>2, <2>3, <2>5, DoneKeeps
<1> QED BY <1>2, <1>3, <1>4

\* bitcoind answers a call and the handler goes on; of a failed list it is done.
LEMMA BitcoindKeeps ==
  ASSUME ChannelsInv, CreateRaw \/ FundRaw \/ SignRaw \/ BumpList
  PROVE  ChannelsInv'
<1>1. /\ UNCHANGED <<cli, events, chan, coins, signed, sending, mempool, output, swept, told>>
  BY DEF CreateRaw, FundRaw, SignRaw, BumpList, Handler, Bitcoind, ldkVars
<1>2. /\ h \in [pc : {"idle", "create", "fund", "sign", "submit", "accept", "list", "psbt", "track"},
                id : Name \cup {Nobody}, coins : SUBSET Coin]
      /\ chan \in [Channel -> ChannelState]
      /\ output \in [Output -> {"unborn", "pending", "handled", "persisted"}]
      /\ swept \in [Output -> {"no", "memory", "disk"}]
      /\ mempool \subseteq Tx
  BY DEF ChannelsInv, TypeInv
<1>3. CASE h' = Idle
  <2>1. OutputsAccounted' BY <1>1 DEF ChannelsInv, OutputsAccounted
  <2> QED BY <1>1, <1>2, <1>3, <2>1, DoneKeeps
<1>4. ASSUME NEW p, h' = [h EXCEPT !.pc = p],
             (h.pc = "create" /\ p = "fund") \/ (h.pc = "sign" /\ p = "submit")
      PROVE  ChannelsInv'
  <2>1. /\ h'.pc = p /\ h'.id = h.id /\ h'.coins = h.coins
        /\ h' \in [pc : {"idle", "create", "fund", "sign", "submit", "accept", "list", "psbt", "track"},
                   id : Name \cup {Nobody}, coins : SUBSET Coin]
    BY <1>2, <1>4
  <2>2. TypeInv' BY <1>1, <1>4, <2>1 DEF ChannelsInv, TypeInv
  <2>3. Places' BY <1>1, <1>4, <2>1 DEF ChannelsInv, Places
  <2>4. Once' BY <1>1, <2>1 DEF ChannelsInv, Once
  <2>5. Spending' BY <1>1, <1>4 DEF ChannelsInv, Spending
  <2>6. Reported' BY <1>1, <2>1 DEF ChannelsInv, Reported
  <2> QED BY <1>1, <1>4, <2>2, <2>3, <2>4, <2>5, <2>6
          DEF ChannelsInv, OutputsAccounted
<1>5. ASSUME NEW p, NEW coin \in Unspent, h' = [h EXCEPT !.pc = p, !.coins = {coin}],
             (h.pc = "fund" /\ p = "sign") \/ (h.pc = "list" /\ p = "psbt")
      PROVE  ChannelsInv'
  <2>1. coin \in Coin BY DEF Unspent
  <2>2. /\ h'.pc = p /\ h'.id = h.id /\ h'.coins = {coin}
        /\ h' \in [pc : {"idle", "create", "fund", "sign", "submit", "accept", "list", "psbt", "track"},
                   id : Name \cup {Nobody}, coins : SUBSET Coin]
    BY <1>2, <1>5, <2>1
  <2>3. TypeInv' BY <1>1, <2>2 DEF ChannelsInv, TypeInv
  <2>4. Places' BY <1>1, <1>5, <2>2 DEF ChannelsInv, Places
  <2>5. Once' BY <1>1, <2>2 DEF ChannelsInv, Once
  <2>6. Spending' BY <1>1 DEF ChannelsInv, Spending
  <2>7. Reported' BY <1>1, <2>2 DEF ChannelsInv, Reported
  <2> QED BY <1>1, <2>3, <2>4, <2>5, <2>6, <2>7 DEF ChannelsInv, OutputsAccounted
<1>6. CASE CreateRaw BY <1>6, <1>4 DEF CreateRaw, Handler
<1>7. CASE SignRaw BY <1>7, <1>4 DEF SignRaw, Handler
<1>8. CASE FundRaw BY <1>8, <1>5 DEF FundRaw, Handler
<1>9. CASE BumpList BY <1>9, <1>3, <1>5 DEF BumpList, Handler
<1> QED BY <1>6, <1>7, <1>8, <1>9

\* LDK gets the funding transaction, or makes the bump, with the coins chosen.
LEMMA GiveKeeps ==
  ASSUME ChannelsInv, Submit \/ BumpSign
  PROVE  ChannelsInv'
<1>1. /\ h' = Idle /\ UNCHANGED <<cli, events, signed, mempool, output, swept>>
      /\ h.pc \in {"submit", "psbt"}
      /\ \/ /\ UNCHANGED <<chan, coins, sending>>
            /\ told' = told \/ (h.pc = "submit" /\ told' = told \cup {h.id})
         \/ /\ told' = told
            /\ coins' = [coins EXCEPT ![h.id] = h.coins]
            /\ \/ chan[h.id] = "ready" /\ chan' = [chan EXCEPT ![h.id] = "handed"]
                  /\ sending' = sending /\ h.pc = "submit"
               \/ chan' = chan /\ sending' = sending \cup {h.id} /\ h.pc = "psbt"
  BY DEF Submit, BumpSign, Handler, ldkVars
<1>2. /\ chan \in [Channel -> ChannelState]
      /\ output \in [Output -> {"unborn", "pending", "handled", "persisted"}]
      /\ swept \in [Output -> {"no", "memory", "disk"}]
      /\ coins \in [Tx -> SUBSET Coin]
      /\ signed \subseteq Outbound /\ sending \subseteq Tx /\ mempool \subseteq Tx
      /\ h.coins \subseteq Coin
  BY DEF ChannelsInv, TypeInv
<1>3. OutputsAccounted' BY <1>1 DEF ChannelsInv, OutputsAccounted
<1>4. CASE UNCHANGED <<chan, coins, sending>> /\ told' \subseteq told \cup {h.id}
             /\ (told' = told \/ h.pc = "submit")
  <2>1. h.id \in Bump => told' = told
    BY <1>4, NamesAssumption DEF ChannelsInv, Places, Channel
  <2> QED BY <1>1, <1>2, <1>3, <1>4, <2>1, DoneKeeps
<1>5. CASE coins' = [coins EXCEPT ![h.id] = h.coins] /\ told' = told
  <2> DEFINE u == h.id
  <2>1. /\ u \in Tx /\ coins[u] = {} /\ h.coins # {}
        /\ h.pc = "submit" => u \in Outbound
        /\ h.pc = "psbt" => u \in Bump
    BY <1>1 DEF ChannelsInv, Places, Once, Tx
  <2>2. coins' \in [Tx -> SUBSET Coin] /\ coins'[u] = h.coins /\ \A t \in Tx : t # u => coins'[t] = coins[t]
    BY <1>2, <1>5, <2>1
  <2>3. u \notin signed \cup sending \cup mempool BY <2>1 DEF ChannelsInv, Spending
  <2>4. u \notin told
    BY <2>1 DEF ChannelsInv, Reported, Tx
  <2>6. h'.pc = "idle" /\ h'.id = Nobody /\ h'.coins = {} BY <1>1 DEF Idle
  <2>7. Nobody \notin Tx /\ Nobody \notin Outbound BY NamesAssumption DEF Tx, Channel
  <2>8. /\ chan' \in [Channel -> ChannelState]
        /\ sending' \subseteq sending \cup {u} /\ sending' \subseteq Tx
        /\ u \in sending' => u \in Bump
        /\ \A c \in Outbound : chan'[c] = chan[c] \/ (c = u /\ chan'[c] = "handed" /\ chan[c] = "ready")
    <3>1. CASE h.pc = "psbt" /\ chan' = chan /\ sending' = sending \cup {u}
      BY <1>2, <2>1, <3>1
    <3>2. CASE h.pc = "submit" /\ chan[u] = "ready" /\ chan' = [chan EXCEPT ![u] = "handed"]
                 /\ sending' = sending
      <4>1. u \in Channel BY <2>1, <3>2 DEF Channel
      <4> QED BY <1>2, <2>3, <3>2, <4>1 DEF ChannelState
    <3>3. CASE UNCHANGED <<chan, sending>> /\ coins' = coins
      BY <2>1, <2>2, <3>3
    <3> QED BY <1>1, <3>1, <3>2, <3>3
  <2> HIDE DEF u
  <2>9. TypeInv'
    <3>1. h' \in [pc : {"idle", "create", "fund", "sign", "submit", "accept", "list", "psbt", "track"},
                  id : Name \cup {Nobody}, coins : SUBSET Coin]
      BY <1>1 DEF Idle
    <3> QED BY <1>1, <2>2, <2>8, <3>1 DEF ChannelsInv, TypeInv
  <2>10. Places' BY <1>1, <2>6, <2>8 DEF ChannelsInv, Places
  <2>11. Once'
    <3>1. \A i \in 1 .. Len(events) : events[i].id \in Tx => events[i].id # u
      BY DEF ChannelsInv, Once, u
    <3>2. \A c \in Outbound : chan'[c] \in {"none", "asked"} => c # u /\ c \in Tx /\ chan'[c] = chan[c]
      <4>1. \A c \in Outbound : chan[c] \in {"none", "asked"} => c # u BY DEF ChannelsInv, Once, u
      <4> QED BY <2>8, <4>1 DEF Tx
    <3> QED BY <1>1, <2>2, <2>6, <2>7, <3>1, <3>2 DEF ChannelsInv, Once
  <2>12. Spending'
    <3>1. \A t \in signed \cup sending' \cup mempool : coins'[t] # {}
      BY <1>2, <2>1, <2>2, <2>3, <2>8 DEF ChannelsInv, Spending, Tx
    <3>2. \A c \in Outbound : chan'[c] = "handed" => coins'[c] # {}
      BY <2>1, <2>2, <2>8 DEF ChannelsInv, Spending, Tx
    <3>3. \A t \in sending' \cup mempool : t \in Outbound => t \in signed
      BY <2>8, NamesAssumption DEF ChannelsInv, Spending, Channel
    <3> QED BY <1>1, <3>1, <3>2, <3>3 DEF ChannelsInv, Spending
  <2>13. Reported'
    <3>1. \A c \in Outbound : c \in told => c # u /\ c \in Tx BY <2>4 DEF Tx
    <3> QED BY <1>1, <1>5, <2>2, <2>6, <2>7, <2>8, <3>1 DEF ChannelsInv, Reported
  <2> QED BY <1>3, <2>9, <2>10, <2>11, <2>12, <2>13 DEF ChannelsInv
<1> QED BY <1>1, <1>4, <1>5

\* The process ends: only the events of outputs come back, and what is on disk
\* stays.
LEMMA CrashKeeps ==
  ASSUME ChannelsInv, Crash
  PROVE  ChannelsInv'
<1>1. /\ cli' = NoCommand /\ h' = Idle /\ sending' = {}
      /\ chan' = [c \in Channel |-> IF Unfunded(c) THEN "gone" ELSE chan[c]]
      /\ output' = [o \in Output |-> IF output[o] = "handled" THEN "pending" ELSE output[o]]
      /\ swept' = [o \in Output |-> IF swept[o] = "memory" THEN "no" ELSE swept[o]]
      /\ UNCHANGED <<coins, signed, mempool, told>>
  BY DEF Crash
<1>2. PICK order \in SetToSeqs(Redelivered) :
        events' = [i \in DOMAIN order |-> [kind |-> "SpendableOutputs", id |-> order[i]]]
  BY DEF Crash
<1>3. PICK n \in Nat : order \in [1 .. n -> Output]
  <2>1. Redelivered \subseteq Output BY DEF Redelivered
  <2>2. Cardinality(Redelivered) \in Nat
    BY <2>1, OutputAssumption, FS_Subset, FS_CardinalityType
  <2>3. order \in [1 .. Cardinality(Redelivered) -> Redelivered] BY <1>2 DEF SetToSeqs
  <2>4. order \in [1 .. Cardinality(Redelivered) -> Output] BY <2>1, <2>3
  <2> QED BY <2>2, <2>4
<1>4. /\ events' \in [1 .. n -> Event]
      /\ \A i \in 1 .. n : events'[i].kind = "SpendableOutputs" /\ events'[i].id \in Output
  BY <1>2, <1>3 DEF Event, Name
<1>5. events' \in Seq(Event) /\ Len(events') = n BY <1>3, <1>4
<1>6. \A i \in 1 .. Len(events') : events'[i].id \notin Tx /\ events'[i].id \notin Outbound
  BY <1>4, <1>5, NamesAssumption DEF Tx, Channel
<1>7. h'.pc = "idle" /\ h'.id = Nobody /\ h'.coins = {} /\ cli'.pc = "idle"
  BY <1>1 DEF Idle, NoCommand
<1>8. Nobody \notin Tx /\ Nobody \notin Outbound BY NamesAssumption DEF Tx, Channel
<1>9. /\ chan \in [Channel -> ChannelState]
      /\ output \in [Output -> {"unborn", "pending", "handled", "persisted"}]
      /\ swept \in [Output -> {"no", "memory", "disk"}]
  BY DEF ChannelsInv, TypeInv
<1>10. /\ chan' \in [Channel -> ChannelState]
       /\ \A c \in Outbound : chan'[c] \in {chan[c], "gone"} /\ chan'[c] # "handed"
  BY <1>1, <1>9 DEF ChannelState, Unfunded, Channel
<1>11. TypeInv'
  <2>1. h' \in [pc : {"idle", "create", "fund", "sign", "submit", "accept", "list", "psbt", "track"},
                id : Name \cup {Nobody}, coins : SUBSET Coin]
    BY <1>1 DEF Idle
  <2>2. cli' \in [pc : {"idle", "connect", "open"}, ch : Outbound \cup {Nobody}]
    BY <1>1 DEF NoCommand
  <2>3. /\ output' \in [Output -> {"unborn", "pending", "handled", "persisted"}]
        /\ swept' \in [Output -> {"no", "memory", "disk"}]
    BY <1>1, <1>9
  <2> QED BY <1>1, <1>5, <1>10, <2>1, <2>2, <2>3 DEF ChannelsInv, TypeInv
<1>12. Places' BY <1>4, <1>5, <1>7 DEF Places, About
<1>13. Once' BY <1>1, <1>6, <1>7, <1>8, <1>10 DEF ChannelsInv, Once
<1>14. Spending' BY <1>1, <1>10 DEF ChannelsInv, Spending
<1>15. Reported' BY <1>1, <1>6, <1>7, <1>8, <1>10 DEF ChannelsInv, Reported
<1>16. OutputsAccounted' BY <1>1, <1>9 DEF ChannelsInv, OutputsAccounted
<1> QED BY <1>1, <1>11, <1>12, <1>13, <1>14, <1>15, <1>16 DEF ChannelsInv

\* A start has no channel, no event and no transaction.
LEMMA ChannelsInit == Init => ChannelsInv
<1> SUFFICES ASSUME Init PROVE ChannelsInv
  OBVIOUS
<1>1. /\ cli = NoCommand /\ chan = [c \in Channel |-> "none"] /\ events = <<>> /\ h = Idle
      /\ coins = [t \in Tx |-> {}] /\ signed = {} /\ sending = {} /\ mempool = {}
      /\ output = [o \in Output |-> "unborn"] /\ swept = [o \in Output |-> "no"]
      /\ told = {}
  BY DEF Init
<1>2. h.pc = "idle" /\ h.id = Nobody /\ h.coins = {} /\ cli.pc = "idle"
  BY <1>1 DEF Idle, NoCommand
<1>3. Nobody \notin Tx /\ Nobody \notin Outbound /\ Outbound \subseteq Channel /\ Outbound \subseteq Tx
  BY NamesAssumption DEF Tx, Channel
<1>4. events \in Seq(Event) /\ Len(events) = 0 BY <1>1
<1>5. TypeInv
  <2>1. h \in [pc : {"idle", "create", "fund", "sign", "submit", "accept", "list", "psbt", "track"},
               id : Name \cup {Nobody}, coins : SUBSET Coin]
    BY <1>1 DEF Idle
  <2>2. cli \in [pc : {"idle", "connect", "open"}, ch : Outbound \cup {Nobody}]
    BY <1>1 DEF NoCommand
  <2>3. chan \in [Channel -> ChannelState] BY <1>1 DEF ChannelState
  <2> QED BY <1>1, <1>4, <2>1, <2>2, <2>3 DEF TypeInv
<1>6. Places BY <1>2, <1>4 DEF Places
<1>7. Once BY <1>1, <1>2, <1>3, <1>4 DEF Once
<1>8. Spending BY <1>1, <1>3 DEF Spending
<1>9. Reported BY <1>1 DEF Reported
<1> QED BY <1>1, <1>5, <1>6, <1>7, <1>8, <1>9 DEF ChannelsInv, OutputsAccounted

\* Every step of the node, of LDK, of bitcoind and of the peer keeps the invariant.
LEMMA ChannelsNext == ChannelsInv /\ [Next]_vars => ChannelsInv'
<1> SUFFICES ASSUME ChannelsInv, [Next]_vars PROVE ChannelsInv'
  OBVIOUS
<1>1. CASE HandlerStep
  BY <1>1, TakeKeeps, EndKeeps, BitcoindKeeps, GiveKeeps DEF HandlerStep
<1>2. CASE Next /\ ~HandlerStep
  BY <1>2, MoveKeeps, EmitKeeps, SignKeeps, AroundKeeps, CrashKeeps DEF Next, ChannelsMove
<1>3. CASE UNCHANGED vars
  BY <1>3 DEF vars, ChannelsInv, TypeInv, Places, Once, Spending, Reported,
              OutputsAccounted
<1> QED BY <1>1, <1>2, <1>3

-----------------------------------------------------------------------------
(***************************************************************************)
(* A funding transaction bitcoind accepted is one the peer signed for,     *)
(* whatever happened while handle_funding_generation_ready waited.         *)
(***************************************************************************)
THEOREM FundsAreSignedFor == Spec => []SpentOnlyForSigned
<1>1. ChannelsInv => SpentOnlyForSigned BY DEF ChannelsInv, Spending, SpentOnlyForSigned
<1> QED BY <1>1, ChannelsInit, ChannelsNext, PTL DEF Spec

(***************************************************************************)
(* A channel whose funding handle_funding_generation_ready reported as     *)
(* failed is never funded, before the report or after it.                  *)
(***************************************************************************)
THEOREM FailureIsFinal == Spec => []ReportedIsUnfunded
<1>1. ChannelsInv => ReportedIsUnfunded
  BY DEF ChannelsInv, TypeInv, Spending, Reported, ReportedIsUnfunded, Tx
<1> QED BY <1>1, ChannelsInit, ChannelsNext, PTL DEF Spec

(***************************************************************************)
(* A SpendableOutputs event that counts as handled has its outputs in the  *)
(* sweeper's file, or the failed write was reported, through every crash.  *)
(***************************************************************************)
THEOREM OutputsNeverDropped == Spec => []OutputsAccounted
<1>1. ChannelsInv => OutputsAccounted BY DEF ChannelsInv
<1> QED BY <1>1, ChannelsInit, ChannelsNext, PTL DEF Spec
=============================================================================
