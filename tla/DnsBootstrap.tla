---------------------------- MODULE DnsBootstrap ----------------------------
(***************************************************************************)
(* The node's configuration put to use, and the task that finds peers by   *)
(* DNS (src/src/dns_bootstrap/, src/src/main.rs).                          *)
(*                                                                         *)
(* main loads the configuration, compares the network with bitcoind's      *)
(* chain and starts the tasks the configuration asks for.  A round of the  *)
(* bootstrap task asks the seeds in turn and goes through their records    *)
(* until it has num_peers; then it dials these one after the other.        *)
(*                                                                         *)
(* A record is [node, resolves]: the node its host name stands for, or     *)
(* NoNode if that cannot be decoded, and whether the name has an address.  *)
(* DNS, the peers and bitcoind are external; module Connections has the    *)
(* dials in detail.                                                        *)
(***************************************************************************)
EXTENDS NodeConfig

CONSTANTS File,        \* the configuration files considered
          Node,        \* nodes of the network
          NoNode,
          Silent,      \* seeds that never answer
          MaxRecords   \* bound on the records of an answer

ASSUME FileAssumption == File \subseteq [toml : Option(Toml), garbled : BOOLEAN, json : BOOLEAN]
ASSUME NodeAssumption == NoNode \notin Node
ASSUME MaxRecordsAssumption == MaxRecords \in Nat

Chains == {"main", "test", "regtest", "signet"}
Record == [node : Node \cup {NoNode}, resolves : BOOLEAN]
Answers == UNION {[1 .. n -> Record] : n \in 0 .. MaxRecords}

VARIABLES
  file,        \* the configuration files
  chain,       \* bitcoind's chain
  pc,          \* "load", "check", "start", "failed"; then the bootstrap task
  error,       \* what load returned
  tasks,       \* [task, period] of the tasks started
  connected,   \* the peers of the PeerManager
  stopFlag,    \* stop_listen_connect
  ignore,      \* the peers connected when the round began
  seed,        \* the number of the seed that is asked next
  records,     \* what is left of the current answer
  peers,       \* the peers found, then those left to dial
  answers      \* history: all records of the round

bootVars == <<file, chain, pc, error, tasks, connected, stopFlag, ignore, seed, records, peers, answers>>
mainVars == <<file, chain, error, tasks>>
roundVars == <<ignore, seed, records, peers, answers>>

Config == Parsed(file.toml[1])
Dns == Config.dns[1]

BootInit ==
  /\ file \in File
  /\ chain \in Chains
  /\ pc = "load"
  /\ error = "ok"
  /\ tasks = {}
  /\ connected = {}
  /\ stopFlag = FALSE
  /\ ignore = {}
  /\ seed = 1
  /\ records = <<>> /\ peers = <<>> /\ answers = <<>>

-----------------------------------------------------------------------------
\* main

LoadConfig ==
  /\ pc = "load"
  /\ error' = Load(file)
  /\ pc' = IF error' = "ok" THEN "check" ELSE "failed"
  /\ UNCHANGED <<file, chain, tasks, connected, stopFlag, roundVars>>

CheckChain ==
  /\ pc = "check"
  /\ pc' = IF chain = ChainOf(GetNetwork(Config)) THEN "start" ELSE "failed"
  /\ UNCHANGED <<mainVars, connected, stopFlag, roundVars>>

(***************************************************************************)
(* The tasks are started.  tokio's interval panics on a period of 0, which *)
(* ends the task and nothing else; that of the bootstrap task is made      *)
(* after a delay.  The first rapid sync or DnsBootstrapper::new may fail,  *)
(* and there is no such task.                                              *)
(***************************************************************************)
StartTasks ==
  /\ pc = "start"
  /\ \E without \in SUBSET {"rgs", "dns"} :
       tasks' = {t \in Periods(Config) : t.task \notin without}
  /\ pc' = IF \E t \in tasks' : t.task = "dns" /\ t.period > 0 THEN "idle" ELSE "none"
  /\ UNCHANGED <<file, chain, error, connected, stopFlag, roundVars>>

-----------------------------------------------------------------------------
\* The bootstrap task.

Task(from, to) ==
  /\ pc = from
  /\ pc' = to
  /\ UNCHANGED <<mainVars, stopFlag>>

\* A tick: the flag, then the peers to ignore.
Tick ==
  /\ Task("idle", "seed")
  /\ ~stopFlag
  /\ ignore' = connected
  /\ seed' = 1
  /\ records' = <<>> /\ peers' = <<>> /\ answers' = <<>>
  /\ UNCHANGED connected

TickStopped ==
  /\ Task("idle", "returned")
  /\ stopFlag
  /\ UNCHANGED <<connected, roundVars>>

AskMore == seed <= Len(Dns.seeds) /\ Len(peers) < Dns.num

\* query_srv answers.
QueryAnswered ==
  /\ Task("seed", "record")
  /\ AskMore /\ Dns.seeds[seed] \notin Silent
  /\ \E rs \in Answers : records' = rs /\ answers' = answers \o rs
  /\ seed' = seed + 1
  /\ UNCHANGED <<connected, ignore, peers>>

\* Mutant: a query has no timeout.
QueryRefused ==
  /\ Task("seed", "seed")
  /\ AskMore /\ Dns.seeds[seed] \notin Silent
  /\ seed' = seed + 1
  /\ UNCHANGED <<connected, ignore, records, peers, answers>>

\* query_srv fails or times out: on to the next seed.
QueryFails ==
  /\ Task("seed", "seed")
  /\ AskMore
  /\ seed' = seed + 1
  /\ UNCHANGED <<connected, ignore, records, peers, answers>>

\* Mutant: a record that is skipped ends the answer.
TakeRecordBreaks ==
  /\ Task("record", "record")
  /\ records # <<>> /\ Len(peers) < Dns.num
  /\ LET r == Head(records)
         usable == r.node # NoNode /\ r.node \notin ignore /\ r.resolves IN
     /\ peers' = IF usable THEN Append(peers, r.node) ELSE peers
     /\ records' = IF usable THEN Tail(records) ELSE <<>>
  /\ UNCHANGED <<connected, ignore, seed, answers>>

\* decode_pubkey_from_hostname, the ignore set, resolve_host (which may also
\* time out): a record any of them is against is skipped.
TakeRecord ==
  /\ Task("record", "record")
  /\ records # <<>> /\ Len(peers) < Dns.num
  /\ LET r == Head(records) IN
       peers' = IF r.node # NoNode /\ r.node \notin ignore /\ r.resolves
                  THEN Append(peers, r.node) ELSE peers
  /\ records' = Tail(records)
  /\ UNCHANGED <<connected, ignore, seed, answers>>

AnswerDone ==
  /\ Task("record", "seed")
  /\ records = <<>> \/ Len(peers) >= Dns.num
  /\ records' = <<>>
  /\ UNCHANGED <<connected, ignore, seed, peers, answers>>

\* sample_node_addrs returns, an error if it found nobody.
Sampled ==
  /\ Task("seed", IF peers = <<>> THEN "idle" ELSE "dial")
  /\ ~AskMore
  /\ UNCHANGED <<connected, roundVars>>

\* do_connect_peer, whether or not the peer is connected by now.
DialPeer ==
  /\ Task("dial", "dial")
  /\ peers # <<>>
  /\ \E c \in {connected, connected \cup {Head(peers)}} : connected' = c
  /\ peers' = Tail(peers)
  /\ UNCHANGED <<ignore, seed, records, answers>>

RoundOver ==
  /\ Task("dial", "idle")
  /\ peers = <<>>
  /\ UNCHANGED <<connected, roundVars>>

-----------------------------------------------------------------------------
\* The rest of the node.

InRound == pc \in {"idle", "seed", "record", "dial"}

PeerComes(n) ==
  /\ InRound
  /\ connected' = connected \cup {n}
  /\ UNCHANGED <<mainVars, pc, stopFlag, roundVars>>

PeerGoes(n) ==
  /\ InRound
  /\ connected' = connected \ {n}
  /\ UNCHANGED <<mainVars, pc, stopFlag, roundVars>>

RaiseStop ==
  /\ InRound /\ ~stopFlag
  /\ stopFlag' = TRUE
  /\ UNCHANGED <<mainVars, pc, connected, roundVars>>

-----------------------------------------------------------------------------

Bootstrap ==
  \/ Tick \/ TickStopped
  \/ QueryAnswered \/ QueryFails \/ TakeRecord \/ AnswerDone \/ Sampled
  \/ DialPeer \/ RoundOver

BootNext ==
  \/ LoadConfig \/ CheckChain \/ StartTasks
  \/ Bootstrap
  \/ \E n \in Node : PeerComes(n) \/ PeerGoes(n)
  \/ RaiseStop

BootSpec == BootInit /\ [][BootNext]_bootVars

\* tokio polls the task, every query and dial has a timeout, the interval ticks.
BootFairSpec == BootSpec /\ WF_bootVars(Bootstrap)

-----------------------------------------------------------------------------

Started == pc \notin {"load", "check", "failed"}

(***************************************************************************)
(* A node that starts is on the chain that its configuration names, by     *)
(* way of the Network it is mapped to and that network's name in bitcoind. *)
(***************************************************************************)
ChainMatches ==
  Started => <<Config.network, chain>> \in {<<"mainnet", "main">>, <<"testnet", "test">>,
                                            <<"regtest", "regtest">>, <<"signet", "signet">>}

(***************************************************************************)
(* No task that is started dies at its first tick for a period of 0,       *)
(* whichever fields and sections were left out or set to 0: validate looks *)
(* at all that are used.  The exception is a number of hours whose seconds *)
(* do not fit in 64 bits and wrap to 0.                                    *)
(***************************************************************************)
PeriodsPositive ==
  \A t \in tasks : t.period > 0 \/ (t.task = "rgs" /\ Config.rgs.hours * 3600 >= U64)

\* A record that gives a peer, and the ways (there is at most one) to list in
\* order the k places of those that do among the first n of the round.
GivesPeer(r) == r.node \notin ignore \cup {NoNode} /\ r.resolves

Picks(n, k) ==
  {at \in [1 .. k -> 1 .. n] :
     /\ \A i, j \in 1 .. k : i < j => at[i] < at[j]
     /\ \A p \in 1 .. n : GivesPeer(answers[p]) <=> \E i \in 1 .. k : at[i] = p}

(***************************************************************************)
(* When it dials, the task has the first num_peers nodes of all that the   *)
(* seeds gave it, seed by seed, less those it cannot decode or resolve and *)
(* those that were connected when the round began: a record that is        *)
(* skipped, or a seed that fails, costs no other.  So the place in the     *)
(* answers decides, and not the equal weight that query.rs:8 speaks of.    *)
(***************************************************************************)
SampleIsFirst ==
  pc = "dial" =>
    \E n \in 0 .. Len(answers) : \E k \in 0 .. n : \E at \in Picks(n, k) :
      /\ k <= Dns.num
      /\ n = Len(answers) \/ k = Dns.num
      /\ \E d \in 0 .. k : peers = [i \in 1 .. k - d |-> answers[at[d + i]].node]

\* A round ends, whatever seeds are silent and however many peers it dials.
RoundEnds == pc = "seed" ~> pc \in {"idle", "returned"}

(***************************************************************************)
(* README.md:79 says of the section ldk, which is optional (README.md:27): *)
(* "peer_listening_port defaults to 9735".                                 *)
(***************************************************************************)
ListensOn9735 ==
  Started /\ (file.toml[1].ldk = None \/ file.toml[1].ldk[1].port = None) =>
    Config.ldk.port = 9735
=============================================================================
