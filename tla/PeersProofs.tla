---------------------------- MODULE PeersProofs ----------------------------
(***************************************************************************)
(* How the node comes by its peers and parts with them: the shutdown of    *)
(* the connections, and the start of the DNS bootstrap with its rounds.    *)
(*                                                                         *)
(* The two modules share no state here (each has its own view of the stop  *)
(* flag), so the invariants are proved one after the other.                *)
(***************************************************************************)
EXTENDS Connections, DnsBootstrap, TLAPS

-----------------------------------------------------------------------------
(***************************************************************************)
(* Connections: for every set of peers, however the tasks meet them and    *)
(* however many addresses they have, what a channel peer did is persisted  *)
(* at the end of the process.                                              *)
(*                                                                         *)
(* EndsPersisted looks at the end only.  Before it, the order in which     *)
(* main shuts down has to tell: the background processor is told to exit   *)
(* after the peers were disconnected (Exits), and from then on there is no *)
(* peer, unless one came late (Quiet), whose message could change channel  *)
(* data after the last write (Saved).                                      *)
(***************************************************************************)
ConnectionTypes ==
  /\ main \in {"select", "stop", "disconnect", "finish", "join", "ended"}
  /\ bg \in {"running", "asked", "ended", "error", "panicked"}
  /\ late \in BOOLEAN /\ unsaved \in BOOLEAN

Exits == bg \in {"asked", "ended"} => main \in {"join", "ended"}

Quiet == main \in {"finish", "join"} /\ ~late => up = {}

Saved == bg = "ended" /\ ~late => ~unsaved

ShutdownInv == ConnectionTypes /\ Exits /\ Quiet /\ Saved

\* At the start nothing is shut down.
LEMMA ShutdownInit == Init => ShutdownInv
BY DEF Init, ShutdownInv, ConnectionTypes, Exits, Quiet, Saved

\* The tasks that dial, the listener and the commands only touch connections
\* that are not up, or take some down.
Tasks ==
  \/ Dial \/ Reconnect
  \/ BootstrapTick \/ BootstrapRoundOver
  \/ \E p \in Peer : \/ BootstrapPeer(p) \/ ConnectCommand(p) \/ ConnectionNeeded(p)
                     \/ DisconnectCommand(p) \/ Accept(p)
  \/ SetupInbound

\* Their steps keep the invariant.
LEMMA TasksKeep ==
  ASSUME ShutdownInv, Tasks
  PROVE  ShutdownInv'
<1>1. UNCHANGED <<main, bg, late, unsaved>> /\ up' \subseteq up
  <2>1. CASE Dial
    BY <2>1 DEF Dial, DialOk, DialFails, WaitOver, Become
  <2>2. CASE Reconnect
    BY <2>2 DEF Reconnect, ReconnectTick, ReconnectRoundOver, ReconnectPeer, Become
  <2>3. CASE BootstrapTick \/ BootstrapRoundOver \/ \E p \in Peer : BootstrapPeer(p)
    BY <2>3 DEF BootstrapTick, BootstrapRoundOver, BootstrapPeer, Become
  <2>4. CASE SetupInbound \/ \E p \in Peer : ConnectCommand(p) \/ ConnectionNeeded(p) \/ Accept(p)
    BY <2>4 DEF SetupInbound, ConnectCommand, ConnectionNeeded, Accept, Become
  <2>5. CASE \E p \in Peer : DisconnectCommand(p)
    BY <2>5 DEF DisconnectCommand
  <2> QED BY <2>1, <2>2, <2>3, <2>4, <2>5 DEF Tasks
<1> QED BY <1>1 DEF ShutdownInv, ConnectionTypes, Exits, Quiet, Saved

\* A peer gets up after the disconnection only as a late one, and its message
\* counts only while it is up.
LEMMA NetworkKeeps ==
  ASSUME ShutdownInv, PeerMessage \/ \E c \in live : Handshake(c) \/ Lose(c)
  PROVE  ShutdownInv'
<1> USE DEF ShutdownInv, ConnectionTypes, Exits, Quiet, Saved
<1>1. CASE PeerMessage
  <2>1. up # {} /\ main # "ended" BY <1>1 DEF PeerMessage, Connected, Running
  <2>2. bg = "ended" => late BY <2>1
  <2>3. unsaved' = TRUE /\ UNCHANGED <<main, bg, late, up>> BY <1>1 DEF PeerMessage
  <2> QED BY <2>2, <2>3
<1>2. ASSUME NEW c \in live, Handshake(c) PROVE ShutdownInv'
  <2>1. UNCHANGED <<main, bg, unsaved>> BY <1>2 DEF Handshake
  <2>2. CASE late' = late /\ up' = up BY <2>1, <2>2
  <2>3. CASE late' = (late \/ main \in {"finish", "join"}) BY <2>1, <2>3
  <2> QED BY <1>2, <2>2, <2>3 DEF Handshake
<1>3. ASSUME NEW c \in live, Lose(c) PROVE ShutdownInv'
  <2>1. UNCHANGED <<main, bg, late, unsaved>> /\ up' \subseteq up BY <1>3 DEF Lose
  <2> QED BY <2>1
<1> QED BY <1>1, <1>2, <1>3

\* The background processor persists last when it was told to exit, and main
\* tells it so after it has disconnected the peers.
LEMMA ShutdownKeeps ==
  ASSUME ShutdownInv,
         \/ BgPersist \/ BgFails \/ BgExits
         \/ Select \/ SetStop \/ DisconnectAllPeers \/ Finish \/ Join
  PROVE  ShutdownInv'
<1> USE DEF ShutdownInv, ConnectionTypes, Exits, Quiet, Saved
<1>1. CASE BgPersist BY <1>1 DEF BgPersist, BgStep
<1>2. CASE BgFails BY <1>2 DEF BgFails, BgStep
<1>3. CASE BgExits BY <1>3 DEF BgExits, BgStep
<1>4. CASE Select BY <1>4 DEF Select
<1>5. CASE SetStop BY <1>5 DEF SetStop, MainStep
<1>6. CASE DisconnectAllPeers BY <1>6 DEF DisconnectAllPeers
<1>7. CASE Finish
  <2>1. main = "finish" /\ UNCHANGED <<up, late>> BY <1>7 DEF Finish
  <2>2. CASE main' = "ended" /\ bg' = bg /\ unsaved' \in {unsaved, FALSE} BY <2>1, <2>2
  <2>3. CASE bg' = "asked" /\ main' = "join" /\ unsaved' = unsaved BY <2>1, <2>3
  <2> QED BY <1>7, <2>2, <2>3 DEF Finish
<1>8. CASE Join BY <1>8 DEF Join, MainStep
<1> QED BY <1>1, <1>2, <1>3, <1>4, <1>5, <1>6, <1>7, <1>8

(***************************************************************************)
(* What a channel peer did is on disk when the process ends, because main  *)
(* disconnects the peers before it ends the background processor.  The     *)
(* exceptions are a peer whose dial was under way at that moment, and a    *)
(* processor that ended in an error or a panic.                            *)
(***************************************************************************)
THEOREM PeersArePersisted == Spec => []EndsPersisted
<1>1. ShutdownInv /\ [Next]_vars => ShutdownInv'
  <2> SUFFICES ASSUME ShutdownInv, [Next]_vars PROVE ShutdownInv'
    OBVIOUS
  <2>1. CASE Next
    BY <2>1, TasksKeep, NetworkKeeps, ShutdownKeeps DEF Next, Tasks
  <2>2. CASE UNCHANGED vars
    BY <2>2 DEF vars, ShutdownInv, ConnectionTypes, Exits, Quiet, Saved
  <2> QED BY <2>1, <2>2
<1>2. ShutdownInv => EndsPersisted BY DEF ShutdownInv, Saved, EndsPersisted
<1> QED BY ShutdownInit, <1>1, <1>2, PTL DEF Spec

-----------------------------------------------------------------------------
(***************************************************************************)
(* The configuration in use: for every configuration file, a node that     *)
(* starts is on the chain its configuration names, and starts no task with *)
(* a period of 0.  main carries on only with what validate accepted        *)
(* (Accepted), and the chain was compared with it (Compared).              *)
(***************************************************************************)
Accepted ==
  /\ file \in File
  /\ pc \notin {"load", "failed"} => Load(file) = "ok"

Compared == Started => chain = ChainOf(GetNetwork(Config))

TasksAskedFor == tasks # {} => Started /\ tasks \subseteq Periods(Config)

StartInv == Accepted /\ Compared /\ TasksAskedFor

\* What load accepts, validate has accepted.
LEMMA LoadValidates ==
  ASSUME Load(file) = "ok"
  PROVE  file.toml # None /\ Validate(Config)
BY DEF Load, Config

\* get_network and the chain's name tell the four networks apart.
LEMMA NetworkNames ==
  ASSUME NEW c, c.network \in {"mainnet", "testnet", "regtest", "signet"}
  PROVE  <<c.network, ChainOf(GetNetwork(c))>> \in
           {<<"mainnet", "main">>, <<"testnet", "test">>,
            <<"regtest", "regtest">>, <<"signet", "signet">>}
<1>1. CASE c.network = "mainnet" BY <1>1 DEF GetNetwork, ChainOf
<1>2. CASE c.network = "testnet" BY <1>2 DEF GetNetwork, ChainOf
<1>3. CASE c.network = "regtest" BY <1>3 DEF GetNetwork, ChainOf
<1>4. CASE c.network = "signet" BY <1>4 DEF GetNetwork, ChainOf
<1> QED BY <1>1, <1>2, <1>3, <1>4

\* The only steps of main that end the start keep what was accepted.
LEMMA StartNext == StartInv /\ [BootNext]_bootVars => StartInv'
<1> SUFFICES ASSUME StartInv, [BootNext]_bootVars PROVE StartInv'
  OBVIOUS
<1> USE DEF StartInv, Accepted, Compared, TasksAskedFor, Started
<1>1. CASE LoadConfig BY <1>1 DEF LoadConfig
<1>2. CASE CheckChain BY <1>2 DEF CheckChain, mainVars, Config
<1>3. CASE StartTasks
  <2>1. pc = "start" /\ pc' \in {"idle", "none"} /\ UNCHANGED <<file, chain>>
    BY <1>3 DEF StartTasks
  <2>2. tasks' \subseteq Periods(Config) BY <1>3 DEF StartTasks
  <2>3. Config' = Config BY <2>1 DEF Config
  <2> QED BY <2>1, <2>2, <2>3
<1>4. CASE UNCHANGED <<mainVars, pc>> BY <1>4 DEF mainVars, Config
<1>5. CASE Bootstrap
  <2>1. UNCHANGED mainVars /\ Started /\ Started'
    BY <1>5 DEF Bootstrap, Tick, TickStopped, QueryAnswered, QueryFails, TakeRecord,
                AnswerDone, Sampled, DialPeer, RoundOver, Task
  <2>2. pc \notin {"load", "failed"} /\ pc' \notin {"load", "failed"} BY <2>1
  <2>3. file' = file /\ chain' = chain /\ tasks' = tasks /\ Config' = Config
    BY <2>1 DEF mainVars, Config
  <2> QED BY <2>1, <2>2, <2>3
<1> QED BY <1>1, <1>2, <1>3, <1>4, <1>5
        DEF BootNext, PeerComes, PeerGoes, RaiseStop, bootVars, mainVars

\* Before load nothing is started.
LEMMA StartInit == BootInit => StartInv
BY DEF BootInit, StartInv, Accepted, Compared, TasksAskedFor, Started

(***************************************************************************)
(* A node that starts is on the chain its configuration names, whichever   *)
(* of the networks that is and whether it was named or left to its         *)
(* default.                                                                *)
(***************************************************************************)
THEOREM RightChain == BootSpec => []ChainMatches
<1>1. StartInv => ChainMatches
  <2> SUFFICES ASSUME StartInv, Started PROVE <<Config.network, chain>> \in
           {<<"mainnet", "main">>, <<"testnet", "test">>,
            <<"regtest", "regtest">>, <<"signet", "signet">>}
    BY DEF ChainMatches
  <2>1. Validate(Config) /\ chain = ChainOf(GetNetwork(Config))
    BY LoadValidates DEF StartInv, Accepted, Compared, Started
  <2>2. Config.network \in {"mainnet", "testnet", "regtest", "signet"}
    BY <2>1 DEF Validate
  <2> QED BY <2>1, <2>2, NetworkNames
<1> QED BY <1>1, StartInit, StartNext, PTL DEF BootSpec

\* A value that is there has its type, and so has a default taken in its place.
LEMMA OptionValue ==
  ASSUME NEW S, NEW o \in Option(S)
  PROVE  /\ o # None => o[1] \in S
         /\ \A v \in S : UnwrapOr(o, v) \in S
<1>1. o \in Seq(S) /\ Len(o) <= 1 BY DEF Option
<1>2. o # None => o[1] \in S BY <1>1 DEF None
<1> QED BY <1>2 DEF UnwrapOr

\* The numbers of an accepted configuration are numbers.
LEMMA ConfigNumbers ==
  ASSUME file \in File, file.toml # None
  PROVE  /\ Config.rgs.hours \in Nat
         /\ Config.probing # None => Config.probing[1].interval \in Nat
         /\ Config.dns # None => Dns.interval \in Nat /\ Dns.num \in Nat
<1> DEFINE toml == file.toml[1]
<1>1. toml \in Toml
  <2>1. file.toml \in Option(Toml) BY FileAssumption
  <2> QED BY <2>1, OptionValue
<1>2. /\ toml.rgs \in Option(RgsToml) /\ toml.probing \in Option(ProbingToml)
      /\ toml.dns \in Option(DnsToml)
  BY <1>1 DEF Toml
<1>3. Config.rgs = RgsSection(toml.rgs) /\ Config.probing = ProbingSection(toml.probing)
      /\ Config.dns = DnsSection(toml.dns)
  BY DEF Config, Parsed
<1> HIDE DEF toml
<1>4. 6 \in Word /\ 10 \in Word /\ 300 \in Word /\ Word \subseteq Nat
  BY U64Assumption DEF Word
<1>5. Config.rgs.hours \in Nat
  <2>1. CASE toml.rgs = None BY <1>3, <2>1 DEF RgsSection, DefaultRgs
  <2>2. CASE toml.rgs # None
    <3>1. toml.rgs[1] \in RgsToml BY <1>2, <2>2, OptionValue
    <3>2. toml.rgs[1].hours \in Option(Word) BY <3>1 DEF RgsToml
    <3>3. UnwrapOr(toml.rgs[1].hours, 6) \in Word BY <1>4, <3>2, OptionValue
    <3>4. Config.rgs.hours = UnwrapOr(toml.rgs[1].hours, 6)
      BY <1>3, <2>2 DEF RgsSection, DefaultRgsInterval
    <3> QED BY <1>4, <3>3, <3>4
  <2> QED BY <2>1, <2>2
<1>6. Config.probing # None => Config.probing[1].interval \in Nat
  <2> SUFFICES ASSUME toml.probing # None PROVE toml.probing[1].interval \in Nat
    BY <1>3 DEF ProbingSection, Some
  <2>1. toml.probing[1] \in ProbingToml BY <1>2, OptionValue
  <2> QED BY <1>4, <2>1 DEF ProbingToml
<1>7. Config.dns # None => Dns.interval \in Nat /\ Dns.num \in Nat
  <2> SUFFICES ASSUME Config.dns # None PROVE Dns.interval \in Nat /\ Dns.num \in Nat
    OBVIOUS
  <2>1. toml.dns # None BY <1>3 DEF DnsSection
  <2>2. toml.dns[1] \in DnsToml BY <1>2, <2>1, OptionValue
  <2>3. toml.dns[1].interval \in Option(Word) /\ toml.dns[1].num \in Option(Word)
    BY <2>2 DEF DnsToml
  <2>4. UnwrapOr(toml.dns[1].interval, 300) \in Word /\ UnwrapOr(toml.dns[1].num, 10) \in Word
    BY <1>4, <2>3, OptionValue
  <2>5. Dns = [f \in DOMAIN DefaultDns |-> DnsField(toml.dns[1], f)]
    BY <1>3, <2>1 DEF Dns, DnsSection, Some
  <2>6. DOMAIN DefaultDns = {"enabled", "seeds", "timeout", "num", "interval"}
    BY DEF DefaultDns
  <2>7. Dns.interval = DnsField(toml.dns[1], "interval")
        /\ Dns.num = DnsField(toml.dns[1], "num")
    BY <2>5, <2>6
  <2>8. DnsField(toml.dns[1], "interval") = UnwrapOr(toml.dns[1].interval, 300)
        /\ DnsField(toml.dns[1], "num") = UnwrapOr(toml.dns[1].num, 10)
    BY DEF DnsField, DefaultDns
  <2>9. Dns.interval \in Word /\ Dns.num \in Word
    <3>1. Dns.interval \in Word BY <2>4, <2>7, <2>8, Zenon
    <3>2. Dns.num \in Word BY <2>4, <2>7, <2>8, Zenon
    <3> QED BY <3>1, <3>2
  <2> QED BY <1>4, <2>9
<1> QED BY <1>5, <1>6, <1>7

(***************************************************************************)
(* No task that is started has a period of 0, whatever was left out of the *)
(* configuration or set to 0: validate looks at all that are used.  The    *)
(* hours of rapid sync whose seconds wrap are the exception.               *)
(***************************************************************************)
THEOREM NoPeriodIsZero == BootSpec => []PeriodsPositive
<1>1. StartInv => PeriodsPositive
  <2> SUFFICES ASSUME StartInv, NEW t \in tasks
               PROVE  t.period > 0 \/ (t.task = "rgs" /\ Config.rgs.hours * 3600 >= U64)
    BY DEF PeriodsPositive
  <2>1. Load(file) = "ok" /\ file \in File /\ t \in Periods(Config)
    BY DEF StartInv, Accepted, TasksAskedFor, Started
  <2>2. Validate(Config) /\ file.toml # None BY <2>1, LoadValidates
  <2>3. /\ Config.rgs.hours \in Nat
        /\ Config.probing # None => Config.probing[1].interval \in Nat
        /\ Config.dns # None => Config.dns[1].interval \in Nat
    BY <2>1, <2>2, ConfigNumbers DEF Dns
  <2>4. CASE Config.rgs.enabled /\ t = [task |-> "rgs", period |-> RgsPeriod(Config)]
    <3>1. Config.rgs.hours # 0 BY <2>2, <2>4 DEF Validate
    <3>2. CASE Config.rgs.hours * 3600 < U64
      <4> DEFINE secs == Config.rgs.hours * 3600
      <4>1. secs \in 1 .. U64 - 1 BY <2>3, <3>1, <3>2, U64Assumption
      <4>2. secs % U64 = secs
        <5> HIDE DEF secs
        <5> QED BY <4>1, U64Assumption
      <4> QED BY <2>4, <4>1, <4>2, U64Assumption DEF RgsPeriod
    <3>3. CASE Config.rgs.hours * 3600 >= U64 BY <2>4, <3>3
    <3> QED BY <2>3, <3>2, <3>3, U64Assumption
  <2>5. CASE Config.probing # None
             /\ t = [task |-> "probing", period |-> Config.probing[1].interval]
    BY <2>2, <2>3, <2>5 DEF Validate
  <2>6. CASE Config.dns # None /\ Config.dns[1].enabled
             /\ t = [task |-> "dns", period |-> Config.dns[1].interval]
    BY <2>2, <2>3, <2>6 DEF Validate
  <2> QED BY <2>1, <2>4, <2>5, <2>6 DEF Periods
<1> QED BY <1>1, StartInit, StartNext, PTL DEF BootSpec

-----------------------------------------------------------------------------
(***************************************************************************)
(* DnsBootstrap: the sample of a round.  While it is taken, the peers      *)
(* found are the ones that the first n records of the round give, and what *)
(* is left of the current answer are the records after these n; n falls    *)
(* short of all records only once num_peers are found.                     *)
(***************************************************************************)
SampleTypes ==
  peers \in Seq(Node) /\ records \in Seq(Record) /\ answers \in Seq(Record)

DnsIsOn == InRound => Config.dns # None

\* at lists in order those of the places 1 .. n that are in g, which are k.
Lists(at, n, k, g) ==
  /\ at \in [1 .. k -> 1 .. n]
  /\ \A i, j \in 1 .. k : i < j => at[i] < at[j]
  /\ \A p \in 1 .. n : p \in g <=> \E i \in 1 .. k : at[i] = p

Giving == {p \in 1 .. Len(answers) : GivesPeer(answers[p])}

NodesAt(at, n, k) ==
  /\ k \in 0 .. n
  /\ k <= Dns.num
  /\ Lists(at, n, k, Giving)

Taken(n) ==
  \E k \in 0 .. n : \E at \in [1 .. k -> 1 .. n] :
    /\ NodesAt(at, n, k)
    /\ Len(peers) = k
    /\ \A i \in 1 .. k : peers[i] = answers[at[i]].node

Sampling ==
  /\ pc = "seed" => \E n \in 0 .. Len(answers) :
                      Taken(n) /\ (n = Len(answers) \/ Len(peers) = Dns.num)
  /\ pc = "record" => \E n \in 0 .. Len(answers) :
                        /\ Taken(n)
                        /\ Len(records) = Len(answers) - n
                        /\ \A i \in 1 .. Len(records) : records[i] = answers[n + i]

Dialling ==
  pc = "dial" =>
    \E n \in 0 .. Len(answers) : \E k \in 0 .. n : \E at \in [1 .. k -> 1 .. n] :
      /\ NodesAt(at, n, k)
      /\ n = Len(answers) \/ k = Dns.num
      /\ \E d \in 0 .. k : /\ Len(peers) = k - d
                           /\ \A i \in 1 .. k - d : peers[i] = answers[at[d + i]].node

SampleInv == StartInv /\ SampleTypes /\ DnsIsOn /\ Sampling /\ Dialling

\* Nothing is listed of no records.
LEMMA ListsNone ==
  ASSUME NEW g
  PROVE  Lists(<<>>, 0, 0, g)
BY DEF Lists

\* A record that gives no peer leaves the list as it is.
LEMMA ListsSkip ==
  ASSUME NEW g, NEW n \in Nat, NEW k \in Nat, NEW at, Lists(at, n, k, g),
         n + 1 \notin g
  PROVE  Lists(at, n + 1, k, g)
<1>1. \A i \in 1 .. k : at[i] \in 1 .. n BY DEF Lists
<1>2. at \in [1 .. k -> 1 .. n + 1] BY DEF Lists
<1>3. ASSUME NEW p \in 1 .. n + 1
      PROVE  p \in g <=> \E i \in 1 .. k : at[i] = p
  <2>1. CASE p = n + 1 BY <1>1, <2>1
  <2>2. CASE p \in 1 .. n BY <2>2 DEF Lists
  <2> QED BY <2>1, <2>2
<1> QED BY <1>2, <1>3 DEF Lists

\* One that gives a peer is put at the list's end.
LEMMA ListsTake ==
  ASSUME NEW g, NEW n \in Nat, NEW k \in Nat, NEW at, Lists(at, n, k, g),
         n + 1 \in g
  PROVE  Lists([i \in 1 .. k + 1 |-> IF i <= k THEN at[i] ELSE n + 1], n + 1, k + 1, g)
<1> DEFINE more == [i \in 1 .. k + 1 |-> IF i <= k THEN at[i] ELSE n + 1]
<1>1. \A i \in 1 .. k : at[i] \in 1 .. n BY DEF Lists
<1>2. more[k + 1] = n + 1 /\ \A i \in 1 .. k : more[i] = at[i] OBVIOUS
<1>3. more \in [1 .. k + 1 -> 1 .. n + 1] BY <1>1
<1> HIDE DEF more
<1>4. ASSUME NEW i \in 1 .. k + 1, NEW j \in 1 .. k + 1, i < j
      PROVE  more[i] < more[j]
  <2>1. i \in 1 .. k BY <1>4
  <2>2. CASE j \in 1 .. k BY <1>2, <1>4, <2>1, <2>2 DEF Lists
  <2>3. CASE j = k + 1 BY <1>1, <1>2, <2>1, <2>3
  <2> QED BY <2>2, <2>3
<1>5. ASSUME NEW p \in 1 .. n + 1
      PROVE  p \in g <=> \E i \in 1 .. k + 1 : more[i] = p
  <2>1. CASE p = n + 1 BY <1>2, <2>1
  <2>2. CASE p \in 1 .. n
    <3>1. p \in g <=> \E i \in 1 .. k : at[i] = p BY <2>2 DEF Lists
    <3>2. (\E i \in 1 .. k + 1 : more[i] = p) <=> \E i \in 1 .. k : at[i] = p
      BY <1>2, <2>2
    <3> QED BY <3>1, <3>2
  <2> QED BY <2>1, <2>2
<1>6. Lists(more, n + 1, k + 1, g) BY <1>3, <1>4, <1>5 DEF Lists
<1> QED BY <1>6 DEF more

\* What comes after the first n records does not matter to the list.
LEMMA ListsLonger ==
  ASSUME NEW g, NEW h, NEW n \in Nat, NEW k \in Nat, NEW at, Lists(at, n, k, g),
         \A p \in 1 .. n : p \in h <=> p \in g
  PROVE  Lists(at, n, k, h)
BY DEF Lists

\* A round in progress knows how many peers it wants.
LEMMA NumPeers ==
  ASSUME StartInv, DnsIsOn, InRound
  PROVE  Dns.num \in Nat
<1>1. file \in File /\ Load(file) = "ok" BY DEF StartInv, Accepted, InRound
<1>2. file.toml # None BY <1>1, LoadValidates
<1> QED BY <1>1, <1>2, ConfigNumbers DEF DnsIsOn

\* The bootstrap task runs only if its section is there.
LEMMA DnsStaysOn == SampleInv /\ [BootNext]_bootVars => DnsIsOn'
<1> SUFFICES ASSUME SampleInv, [BootNext]_bootVars PROVE DnsIsOn'
  OBVIOUS
<1> USE DEF SampleInv, DnsIsOn, InRound
<1>1. CASE LoadConfig BY <1>1 DEF LoadConfig
<1>2. CASE CheckChain BY <1>2 DEF CheckChain
<1>3. CASE StartTasks
  <2> SUFFICES ASSUME pc' = "idle" PROVE Config.dns # None
    BY <1>3 DEF StartTasks, Config
  <2>1. PICK t \in Periods(Config) : t.task = "dns" BY <1>3 DEF StartTasks
  <2> QED BY <2>1 DEF Periods
<1>4. CASE UNCHANGED <<mainVars, pc>> BY <1>4 DEF mainVars, Config
<1>5. CASE Bootstrap
  <2>1. UNCHANGED file /\ InRound
    BY <1>5 DEF Bootstrap, Tick, TickStopped, QueryAnswered, QueryFails, TakeRecord,
                AnswerDone, Sampled, DialPeer, RoundOver, Task, mainVars
  <2> QED BY <2>1 DEF Config
<1> QED BY <1>1, <1>2, <1>3, <1>4, <1>5
        DEF BootNext, PeerComes, PeerGoes, RaiseStop, bootVars, mainVars

\* What the seeds answer is records, and what is taken of them is nodes.
LEMMA SampleTypesKept == SampleTypes /\ [BootNext]_bootVars => SampleTypes'
<1> SUFFICES ASSUME SampleTypes, [BootNext]_bootVars PROVE SampleTypes'
  OBVIOUS
<1> USE DEF SampleTypes
<1>1. CASE UNCHANGED <<records, peers, answers>> BY <1>1
<1>2. CASE Tick BY <1>2 DEF Tick
<1>3. CASE QueryAnswered
  <2>1. PICK rs \in Answers : records' = rs /\ answers' = answers \o rs
    BY <1>3 DEF QueryAnswered
  <2>2. rs \in Seq(Record) BY MaxRecordsAssumption DEF Answers
  <2> QED BY <1>3, <2>1, <2>2 DEF QueryAnswered
<1>4. CASE TakeRecord
  <2>1. records # <<>> /\ UNCHANGED answers BY <1>4 DEF TakeRecord
  <2>2. Head(records) \in Record /\ Tail(records) \in Seq(Record) BY <2>1
  <2>3. Head(records).node # NoNode => Head(records).node \in Node BY <2>2 DEF Record
  <2>4. peers' \in Seq(Node) BY <1>4, <2>3 DEF TakeRecord
  <2> QED BY <1>4, <2>1, <2>2, <2>4 DEF TakeRecord
<1>5. CASE AnswerDone BY <1>5 DEF AnswerDone
<1>6. CASE DialPeer BY <1>6 DEF DialPeer
<1> QED BY <1>1, <1>2, <1>3, <1>4, <1>5, <1>6
        DEF BootNext, LoadConfig, CheckChain, StartTasks, Bootstrap, TickStopped, QueryFails,
            Sampled, RoundOver, PeerComes, PeerGoes, RaiseStop, bootVars, roundVars

\* A step that touches neither the round nor the configuration keeps the sample.
LEMMA SampleUntouched ==
  ASSUME SampleInv, UNCHANGED <<file, pc, roundVars>>
  PROVE  Sampling' /\ Dialling'
<1>1. UNCHANGED <<file, ignore, answers, pc, records, peers>> BY DEF roundVars
<1>2. Dns' = Dns BY <1>1 DEF Dns, Config
<1>3. Giving' = Giving BY <1>1 DEF Giving, GivesPeer
<1>4. Sampling' BY <1>1, <1>2, <1>3 DEF SampleInv, Sampling, Taken, NodesAt
<1>5. Dialling' BY <1>1, <1>2, <1>3 DEF SampleInv, Dialling, NodesAt
<1> QED BY <1>4, <1>5

\* A round begins with nothing found of nothing.
LEMMA SampleTick ==
  ASSUME SampleInv, Tick
  PROVE  Sampling' /\ Dialling'
<1>1. /\ pc = "idle" /\ pc' = "seed" /\ UNCHANGED file
      /\ peers' = <<>> /\ answers' = <<>>
  BY DEF Tick, Task, mainVars
<1>2. Dns' = Dns /\ Dns.num \in Nat
  BY <1>1, NumPeers DEF SampleInv, InRound, Dns, Config
<1>3. Lists(<<>>, 0, 0, Giving') BY ListsNone
<1>4. Len(peers') = 0 /\ Len(answers') = 0 BY <1>1
<1>5. NodesAt(<<>>, 0, 0)' BY <1>2, <1>3 DEF NodesAt
<1>6. Taken(0)'
  <2>1. 0 \in 0 .. 0 /\ <<>> \in [1 .. 0 -> 1 .. 0] OBVIOUS
  <2>2. \A i \in 1 .. 0 : peers'[i] = answers'[<<>>[i]].node OBVIOUS
  <2> QED BY <1>4, <1>5, <2>1, <2>2, Zenon DEF Taken
<1> QED BY <1>1, <1>4, <1>6 DEF Sampling, Dialling

\* A new answer is put after records that have all been gone through: num_peers
\* are not found yet.
LEMMA SampleAnswered ==
  ASSUME SampleInv, QueryAnswered
  PROVE  Sampling' /\ Dialling'
<1>1. /\ pc = "seed" /\ pc' = "record" /\ UNCHANGED <<file, ignore, peers>>
      /\ Len(peers) < Dns.num
  BY DEF QueryAnswered, Task, mainVars, AskMore
<1>2. PICK rs \in Answers : records' = rs /\ answers' = answers \o rs
  BY DEF QueryAnswered
<1>3. rs \in Seq(Record) BY MaxRecordsAssumption DEF Answers
<1>4. answers \in Seq(Record) /\ peers \in Seq(Node) BY DEF SampleInv, SampleTypes
<1>5. Dns' = Dns /\ Dns.num \in Nat
  BY <1>1, NumPeers DEF SampleInv, InRound, Dns, Config
<1>6. PICK n \in 0 .. Len(answers) : n = Len(answers) /\ Taken(n)
  <2>1. Len(peers) # Dns.num BY <1>1, <1>4, <1>5
  <2> QED BY <1>1, <2>1 DEF SampleInv, Sampling
<1>7. PICK k \in 0 .. n :
        \E at \in [1 .. k -> 1 .. n] :
          /\ NodesAt(at, n, k)
          /\ Len(peers) = k
          /\ \A i \in 1 .. k : peers[i] = answers[at[i]].node
  BY <1>6 DEF Taken
<1>8. PICK at \in [1 .. k -> 1 .. n] :
          /\ NodesAt(at, n, k)
          /\ Len(peers) = k
          /\ \A i \in 1 .. k : peers[i] = answers[at[i]].node
  BY <1>7
<1>9. /\ Len(answers') = n + Len(rs)
      /\ \A p \in 1 .. n : answers'[p] = answers[p]
      /\ \A i \in 1 .. Len(rs) : answers'[n + i] = rs[i]
  BY <1>6, <1>2, <1>3, <1>4
<1>10. \A p \in 1 .. n : p \in Giving' <=> p \in Giving
  <2>1. \A p \in 1 .. n : p \in 1 .. Len(answers) /\ p \in 1 .. Len(answers')
    BY <1>6, <1>3, <1>4, <1>9
  <2> QED BY <1>1, <1>9, <2>1 DEF Giving, GivesPeer
<1>11. n \in Nat /\ k \in Nat BY <1>6, <1>4
<1>12. Lists(at, n, k, Giving') BY <1>8, <1>10, <1>11, ListsLonger DEF NodesAt
<1>13. NodesAt(at, n, k)' BY <1>5, <1>8, <1>12 DEF NodesAt
<1>14. Taken(n)'
  <2>1. \A i \in 1 .. k : peers'[i] = answers'[at[i]].node
    BY <1>1, <1>8, <1>9
  <2> QED BY <1>1, <1>8, <1>13, <2>1 DEF Taken
<1>15. n \in 0 .. Len(answers') /\ Len(records') = Len(answers') - n
  BY <1>2, <1>3, <1>9, <1>11
<1>16. \A i \in 1 .. Len(records') : records'[i] = answers'[n + i] BY <1>6, <1>2, <1>9
<1> QED BY <1>1, <1>14, <1>15, <1>16 DEF Sampling, Dialling

\* A seed that fails, and the end of an answer, leave the sample as it is.
LEMMA SampleNextSeed ==
  ASSUME SampleInv, QueryFails \/ AnswerDone
  PROVE  Sampling' /\ Dialling'
<1>1. /\ pc \in {"seed", "record"} /\ pc' = "seed"
      /\ UNCHANGED <<file, ignore, peers, answers>>
      /\ pc = "record" => records = <<>> \/ Len(peers) >= Dns.num
  BY DEF QueryFails, AnswerDone, Task, mainVars
<1>2. Dns' = Dns /\ Dns.num \in Nat
  BY <1>1, NumPeers DEF SampleInv, InRound, Dns, Config
<1>3. Giving' = Giving BY <1>1 DEF Giving, GivesPeer
<1>4. answers \in Seq(Record) /\ peers \in Seq(Node) /\ records \in Seq(Record)
  BY DEF SampleInv, SampleTypes
<1>5. PICK n \in 0 .. Len(answers) :
        Taken(n) /\ (n = Len(answers) \/ Len(peers) = Dns.num)
  <2>1. CASE pc = "seed" BY <2>1 DEF SampleInv, Sampling
  <2>2. CASE pc = "record"
    <3>1. PICK n \in 0 .. Len(answers) : Taken(n) /\ Len(records) = Len(answers) - n
      BY <2>2 DEF SampleInv, Sampling
    <3>2. Len(peers) <= Dns.num BY <3>1 DEF Taken, NodesAt
    <3>3. n = Len(answers) \/ Len(peers) = Dns.num BY <1>1, <1>2, <1>4, <2>2, <3>1, <3>2
    <3> QED BY <3>1, <3>3
  <2> QED BY <1>1, <2>1, <2>2
<1>6. Taken(n)' BY <1>1, <1>2, <1>3, <1>5 DEF Taken, NodesAt
<1> QED BY <1>1, <1>2, <1>5, <1>6 DEF Sampling, Dialling

\* The next record is the one after those gone through.  It is put at the end
\* of the sample if it gives a peer, and costs no other if it does not.
LEMMA SampleTake ==
  ASSUME SampleInv, TakeRecord
  PROVE  Sampling' /\ Dialling'
<1>1. /\ pc = "record" /\ pc' = "record" /\ UNCHANGED <<file, ignore, answers>>
      /\ records # <<>> /\ Len(peers) < Dns.num /\ records' = Tail(records)
  BY DEF TakeRecord, Task, mainVars
<1>2. answers \in Seq(Record) /\ peers \in Seq(Node) /\ records \in Seq(Record)
  BY DEF SampleInv, SampleTypes
<1>3. Dns' = Dns /\ Dns.num \in Nat
  BY <1>1, NumPeers DEF SampleInv, InRound, Dns, Config
<1>4. Giving' = Giving BY <1>1 DEF Giving, GivesPeer
<1>5. PICK n \in 0 .. Len(answers) :
        /\ Taken(n)
        /\ Len(records) = Len(answers) - n
        /\ \A i \in 1 .. Len(records) : records[i] = answers[n + i]
  BY <1>1 DEF SampleInv, Sampling
<1>6. PICK k \in 0 .. n :
        \E at \in [1 .. k -> 1 .. n] :
          /\ NodesAt(at, n, k)
          /\ Len(peers) = k
          /\ \A i \in 1 .. k : peers[i] = answers[at[i]].node
  BY <1>5 DEF Taken
<1>7. PICK at \in [1 .. k -> 1 .. n] :
        /\ NodesAt(at, n, k)
        /\ Len(peers) = k
        /\ \A i \in 1 .. k : peers[i] = answers[at[i]].node
  BY <1>6
<1>8. /\ n \in Nat /\ k \in Nat /\ k + 1 <= Dns.num
      /\ n + 1 \in 1 .. Len(answers)
      /\ k + 1 \in 0 .. n + 1 /\ k \in 0 .. n + 1
  BY <1>1, <1>2, <1>3, <1>5, <1>7
<1>9. Head(records) = answers[n + 1] BY <1>1, <1>2, <1>5
<1>10. Taken(n + 1)'
  <2>1. CASE GivesPeer(answers[n + 1])
    <3> DEFINE more == [i \in 1 .. k + 1 |-> IF i <= k THEN at[i] ELSE n + 1]
    <3>1. n + 1 \in Giving BY <1>8, <2>1 DEF Giving
    <3>2. Lists(more, n + 1, k + 1, Giving) BY <1>7, <1>8, <3>1, ListsTake DEF NodesAt
    <3>3. peers' = Append(peers, answers[n + 1].node)
      BY <1>9, <2>1 DEF TakeRecord, GivesPeer
    <3>4. /\ Len(peers') = k + 1 /\ peers'[k + 1] = answers[n + 1].node
          /\ \A i \in 1 .. k : peers'[i] = peers[i]
      <4>1. answers[n + 1] \in Record BY <1>2, <1>8
      <4>2. answers[n + 1].node \in Node BY <2>1, <4>1 DEF Record, GivesPeer
      <4> QED BY <1>2, <1>7, <3>3, <4>2
    <3>5. more[k + 1] = n + 1 /\ \A i \in 1 .. k : more[i] = at[i] BY <1>8
    <3> HIDE DEF more
    <3>6. \A i \in 1 .. k + 1 : peers'[i] = answers[more[i]].node
      <4> TAKE i \in 1 .. k + 1
      <4>1. CASE i = k + 1 BY <3>4, <3>5, <4>1
      <4>2. CASE i \in 1 .. k BY <1>7, <3>4, <3>5, <4>2
      <4> QED BY <1>8, <4>1, <4>2
    <3>7. NodesAt(more, n + 1, k + 1)' BY <1>3, <1>4, <1>8, <3>2 DEF NodesAt
    <3>8. more \in [1 .. k + 1 -> 1 .. n + 1] BY <3>2 DEF Lists
    <3> QED BY <1>1, <1>8, <3>4, <3>6, <3>7, <3>8 DEF Taken
  <2>2. CASE ~GivesPeer(answers[n + 1])
    <3>1. n + 1 \notin Giving BY <2>2 DEF Giving
    <3>2. Lists(at, n + 1, k, Giving) BY <1>7, <1>8, <3>1, ListsSkip DEF NodesAt
    <3>3. peers' = peers BY <1>9, <2>2 DEF TakeRecord, GivesPeer
    <3>4. NodesAt(at, n + 1, k)' BY <1>3, <1>4, <1>7, <1>8, <3>2 DEF NodesAt
    <3>5. at \in [1 .. k -> 1 .. n + 1] BY <3>2 DEF Lists
    <3> QED BY <1>1, <1>7, <1>8, <3>3, <3>4, <3>5 DEF Taken
  <2> QED BY <2>1, <2>2
<1>11. n + 1 \in 0 .. Len(answers') /\ Len(records') = Len(answers') - (n + 1)
  BY <1>1, <1>2, <1>5, <1>8
<1>12. \A i \in 1 .. Len(records') : records'[i] = answers'[(n + 1) + i]
  <2> TAKE i \in 1 .. Len(records')
  <2>1. i \in Nat /\ i + 1 \in 1 .. Len(records) /\ records'[i] = records[i + 1]
    BY <1>1, <1>2
  <2>2. records[i + 1] = answers[n + (i + 1)] BY <1>5, <2>1
  <2>3. n + (i + 1) = (n + 1) + i BY <1>8, <2>1
  <2> QED BY <1>1, <2>1, <2>2, <2>3
<1> QED BY <1>1, <1>10, <1>11, <1>12 DEF Sampling, Dialling

\* The sample is done: all records were gone through, or num_peers are found.
LEMMA SampleDone ==
  ASSUME SampleInv, Sampled
  PROVE  Sampling' /\ Dialling'
<1>1. /\ pc = "seed" /\ pc' \in {"idle", "dial"}
      /\ UNCHANGED <<file, ignore, peers, answers>>
  BY DEF Sampled, Task, mainVars, roundVars
<1>2. Dns' = Dns BY <1>1 DEF Dns, Config
<1>3. Giving' = Giving BY <1>1 DEF Giving, GivesPeer
<1>4. PICK n \in 0 .. Len(answers) :
        Taken(n) /\ (n = Len(answers) \/ Len(peers) = Dns.num)
  BY <1>1 DEF SampleInv, Sampling
<1>5. PICK k \in 0 .. n :
        \E at \in [1 .. k -> 1 .. n] :
          /\ NodesAt(at, n, k)
          /\ Len(peers) = k
          /\ \A i \in 1 .. k : peers[i] = answers[at[i]].node
  BY <1>4 DEF Taken
<1>6. PICK at \in [1 .. k -> 1 .. n] :
        /\ NodesAt(at, n, k)
        /\ Len(peers) = k
        /\ \A i \in 1 .. k : peers[i] = answers[at[i]].node
  BY <1>5
<1>7. n = Len(answers) \/ k = Dns.num BY <1>4, <1>6
<1>8. NodesAt(at, n, k)' BY <1>2, <1>3, <1>6 DEF NodesAt
<1>9. 0 \in 0 .. k /\ Len(peers) = k - 0 BY <1>6
<1>10. \A i \in 1 .. k - 0 : peers[i] = answers[at[0 + i]].node BY <1>6
<1>11. Dialling' BY <1>1, <1>2, <1>4, <1>7, <1>8, <1>9, <1>10 DEF Dialling
<1> QED BY <1>1, <1>11 DEF Sampling

\* Each dial takes the first of the peers that are left.
LEMMA SampleDial ==
  ASSUME SampleInv, DialPeer
  PROVE  Sampling' /\ Dialling'
<1>1. /\ pc = "dial" /\ pc' = "dial" /\ UNCHANGED <<file, ignore, answers>>
      /\ peers # <<>> /\ peers' = Tail(peers)
  BY DEF DialPeer, Task, mainVars
<1>2. peers \in Seq(Node) BY DEF SampleInv, SampleTypes
<1>3. Dns' = Dns BY <1>1 DEF Dns, Config
<1>4. Giving' = Giving BY <1>1 DEF Giving, GivesPeer
<1>5. PICK n \in 0 .. Len(answers) : \E k \in 0 .. n : \E at \in [1 .. k -> 1 .. n] :
        /\ NodesAt(at, n, k)
        /\ n = Len(answers) \/ k = Dns.num
        /\ \E d \in 0 .. k : /\ Len(peers) = k - d
                             /\ \A i \in 1 .. k - d : peers[i] = answers[at[d + i]].node
  BY <1>1 DEF SampleInv, Dialling
<1>6. PICK k \in 0 .. n : \E at \in [1 .. k -> 1 .. n] :
        /\ NodesAt(at, n, k)
        /\ n = Len(answers) \/ k = Dns.num
        /\ \E d \in 0 .. k : /\ Len(peers) = k - d
                             /\ \A i \in 1 .. k - d : peers[i] = answers[at[d + i]].node
  BY <1>5
<1>7. PICK at \in [1 .. k -> 1 .. n], d \in 0 .. k :
        /\ NodesAt(at, n, k)
        /\ n = Len(answers) \/ k = Dns.num
        /\ Len(peers) = k - d
        /\ \A i \in 1 .. k - d : peers[i] = answers[at[d + i]].node
  BY <1>6
<1>8. NodesAt(at, n, k)' BY <1>3, <1>4, <1>7 DEF NodesAt
<1>9. d + 1 \in 0 .. k /\ Len(peers') = k - (d + 1) BY <1>1, <1>2, <1>7
<1>10. \A i \in 1 .. k - (d + 1) : peers'[i] = answers'[at[(d + 1) + i]].node
  <2> TAKE i \in 1 .. k - (d + 1)
  <2>1. i \in Nat /\ i + 1 \in 1 .. k - d /\ peers'[i] = peers[i + 1]
    BY <1>1, <1>2, <1>9
  <2>2. peers[i + 1] = answers[at[d + (i + 1)]].node BY <1>7, <2>1
  <2>3. d + (i + 1) = (d + 1) + i BY <2>1
  <2> QED BY <1>1, <2>1, <2>2, <2>3
<1>11. Dialling' BY <1>1, <1>3, <1>7, <1>8, <1>9, <1>10 DEF Dialling
<1> QED BY <1>1, <1>11 DEF Sampling

\* Every step keeps the sample.
LEMMA SampleNext == SampleInv /\ [BootNext]_bootVars => SampleInv'
<1> SUFFICES ASSUME SampleInv, [BootNext]_bootVars PROVE SampleInv'
  OBVIOUS
<1>1. StartInv' /\ SampleTypes' /\ DnsIsOn'
  BY StartNext, SampleTypesKept, DnsStaysOn DEF SampleInv
<1>2. Sampling' /\ Dialling'
  <2>1. CASE pc' \notin {"seed", "record", "dial"} BY <2>1 DEF Sampling, Dialling
  <2>2. CASE UNCHANGED <<file, pc, roundVars>> BY <2>2, SampleUntouched
  <2>3. CASE Bootstrap
    <3>1. CASE TickStopped \/ RoundOver BY <2>1, <3>1 DEF TickStopped, RoundOver, Task
    <3> QED BY <2>3, <3>1, SampleTick, SampleAnswered, SampleNextSeed, SampleTake, SampleDone,
               SampleDial DEF Bootstrap
  <2>4. CASE LoadConfig \/ CheckChain \/ StartTasks
    BY <2>1, <2>4 DEF LoadConfig, CheckChain, StartTasks
  <2> QED BY <2>2, <2>3, <2>4
          DEF BootNext, PeerComes, PeerGoes, RaiseStop, bootVars, mainVars, roundVars
<1> QED BY <1>1, <1>2 DEF SampleInv

(***************************************************************************)
(* The peers that the task dials are the first num_peers of those that the *)
(* seeds' records give, in their order, for any number of seeds and        *)
(* records and whoever connects, goes or fails meanwhile.                  *)
(***************************************************************************)
THEOREM SampleInOrder == BootSpec => []SampleIsFirst
<1>1. BootInit => SampleInv
  <2> SUFFICES ASSUME BootInit PROVE SampleInv
    OBVIOUS
  <2>1. pc = "load" /\ SampleTypes BY DEF BootInit, SampleTypes
  <2> QED BY <2>1, StartInit DEF SampleInv, DnsIsOn, InRound, Sampling, Dialling
<1>2. SampleInv => SampleIsFirst
  <2> SUFFICES ASSUME SampleInv, pc = "dial"
               PROVE  \E n \in 0 .. Len(answers) : \E k \in 0 .. n : \E at \in Picks(n, k) :
                        /\ k <= Dns.num
                        /\ n = Len(answers) \/ k = Dns.num
                        /\ \E d \in 0 .. k : peers = [i \in 1 .. k - d |-> answers[at[d + i]].node]
    BY DEF SampleIsFirst
  <2>1. PICK n \in 0 .. Len(answers) : \E k \in 0 .. n : \E at \in [1 .. k -> 1 .. n] :
          /\ NodesAt(at, n, k)
          /\ n = Len(answers) \/ k = Dns.num
          /\ \E d \in 0 .. k : /\ Len(peers) = k - d
                               /\ \A i \in 1 .. k - d : peers[i] = answers[at[d + i]].node
    BY DEF SampleInv, Dialling
  <2>2. PICK k \in 0 .. n : \E at \in [1 .. k -> 1 .. n] :
          /\ NodesAt(at, n, k)
          /\ n = Len(answers) \/ k = Dns.num
          /\ \E d \in 0 .. k : /\ Len(peers) = k - d
                               /\ \A i \in 1 .. k - d : peers[i] = answers[at[d + i]].node
    BY <2>1
  <2>3. PICK at \in [1 .. k -> 1 .. n], d \in 0 .. k :
          /\ NodesAt(at, n, k)
          /\ n = Len(answers) \/ k = Dns.num
          /\ Len(peers) = k - d
          /\ \A i \in 1 .. k - d : peers[i] = answers[at[d + i]].node
    BY <2>2
  <2>4. at \in Picks(n, k)
    <3>1. Lists(at, n, k, Giving) BY <2>3 DEF NodesAt
    <3>2. \A p \in 1 .. n : p \in Giving <=> GivesPeer(answers[p])
      <4>1. Len(answers) \in Nat BY DEF SampleInv, SampleTypes
      <4>2. \A p \in 1 .. n : p \in 1 .. Len(answers) BY <4>1
      <4> QED BY <4>2 DEF Giving
    <3> QED BY <3>1, <3>2 DEF Lists, Picks
  <2>5. peers = [i \in 1 .. k - d |-> answers[at[d + i]].node]
    <3>1. peers \in Seq(Node) BY DEF SampleInv, SampleTypes
    <3>2. peers = [i \in 1 .. Len(peers) |-> peers[i]] BY <3>1
    <3>3. 1 .. Len(peers) = 1 .. k - d BY <2>3
    <3> QED BY <2>3, <3>2, <3>3, Zenon
  <2>6. k <= Dns.num BY <2>3 DEF NodesAt
  <2> QED BY <2>3, <2>4, <2>5, <2>6
<1> QED BY <1>1, <1>2, SampleNext, PTL DEF BootSpec
=============================================================================
