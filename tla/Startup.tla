------------------------------ MODULE Startup ------------------------------
(***************************************************************************)
(* The start of the node and what it finds on disk (start_ldk in           *)
(* src/src/main.rs up to the tasks it spawns, src/src/disk.rs,             *)
(* src/src/persist.rs), and the task that follows the chain.               *)
(*                                                                         *)
(* A process reads the seed, the channel monitors, the scorer, the         *)
(* ChannelManager and the OutputSweeper one after the other, from files    *)
(* that earlier processes wrote at different times, and brings them to one *)
(* block.  pc is the step it is at; every step may fail, which returns     *)
(* from main, and the process may be killed at any: Stop stands for both.  *)
(*                                                                         *)
(* What is on disk and in memory of the ChannelManager, the sweeper and    *)
(* the monitor of the one channel is the height of its best block.  The    *)
(* chain grows, also while the node is down, and does not reorganise.      *)
(* LDK, bitcoind and the file system are external.                         *)
(***************************************************************************)
EXTENDS Integers

CONSTANTS Seed,       \* values of the 32 bytes of keys_seed
          MaxHeight,  \* bound on the chain
          MaxScore    \* bound on what the scorer learns

ASSUME SeedAssumption == Seed \cap {"none", "short"} = {}
ASSUME MaxHeightAssumption == MaxHeight \in Nat
ASSUME MaxScoreAssumption == MaxScore \in Nat

VARIABLES
  chain,  \* the height of bitcoind's best block
  disk,   \* the files
  pc,     \* the process: "down", a step of its start, or "running"
  mem,    \* the process's memory
  past    \* history: the seeds the node ran under, whether a seed file was
          \* unreadable or not synced when it was read, the score last persisted

vars == <<chain, disk, pc, mem, past>>

NoFile == -1        \* no such file; in memory, no such monitor
NoSeed == "none"
ScorerFile == "scorer"        \* SCORER_PERSISTENCE_FILE_NAME
ScorerKey == "scorer_key"     \* SCORER_PERSISTENCE_KEY, LDK's
SweeperKey == "sweeper_key"   \* OUTPUT_SWEEPER_PERSISTENCE_KEY

\* Mutant: the store passes every key through.
NoRemap(key) == key

\* remap_scorer_key: the file a key of the store is kept in.
RemapScorerKey(key) == IF key = ScorerKey THEN ScorerFile ELSE key

Blank ==
  [keys |-> NoSeed,         \* the seed in use
   monitor |-> NoFile,      \* the monitor read from disk
   polled |-> 0,            \* polled_chain_tip
   score |-> 0,             \* what the scorer knows
   scorerLost |-> FALSE,    \* its file was there and could not be read
   fresh |-> FALSE,         \* ~restarting_node
   orphaned |-> FALSE,      \* fresh, although there was a monitor or a sweeper on disk
   manager |-> 0,
   sweeper |-> 0,
   watched |-> NoFile,      \* the monitor the ChainMonitor has
   tip |-> 0,               \* the SpvClient's chain tip
   spv |-> "on",            \* its task
   delay |-> 1]             \* retry_delay

Init ==
  /\ chain = 0
  /\ disk = [seed |-> NoSeed, synced |-> TRUE, manager |-> NoFile, monitor |-> NoFile,
             store |-> [key \in {ScorerFile, ScorerKey, SweeperKey} |-> NoFile]]
  /\ pc = "down"
  /\ mem = Blank
  /\ past = [used |-> {}, seedLost |-> FALSE, saved |-> 0]

\* A step of the start: it ends with memory m, at the step named.
Go(from, to, m) ==
  /\ pc = from
  /\ pc' = to
  /\ mem' = m
  /\ UNCHANGED chain

-----------------------------------------------------------------------------
(***************************************************************************)
(* The environment.                                                        *)
(***************************************************************************)
NewBlock ==
  /\ chain < MaxHeight
  /\ chain' = chain + 1
  /\ UNCHANGED <<disk, pc, mem, past>>

\* The process returns from main, or is killed.
Stop ==
  /\ pc # "down"
  /\ pc' = "down"
  /\ mem' = Blank
  /\ UNCHANGED <<chain, disk, past>>

\* The machine loses power: what was not synced may be lost.
PowerLoss ==
  /\ pc # "down"
  /\ pc' = "down"
  /\ mem' = Blank
  /\ \E s \in IF disk.synced THEN {disk.seed} ELSE {NoSeed, "short", disk.seed} :
       disk' = [disk EXCEPT !.seed = s, !.synced = TRUE]
  /\ UNCHANGED <<chain, past>>

-----------------------------------------------------------------------------
(***************************************************************************)
(* The start.                                                              *)
(***************************************************************************)
\* Arguments, configuration, logger, bitcoind and its chain.
Connect ==
  /\ Go("down", "seed", Blank)
  /\ UNCHANGED <<disk, past>>

(***************************************************************************)
(* keys_seed: 32 bytes are the seed, another length ends the start, and if *)
(* it cannot be read, for whatever reason, a new one is made.              *)
(***************************************************************************)
ReadSeed ==
  /\ disk.seed \in Seed
  /\ Go("seed", "monitors", [mem EXCEPT !.keys = disk.seed])
  /\ past' = [past EXCEPT !.seedLost = @ \/ ~disk.synced]
  /\ UNCHANGED disk

RefuseSeed ==
  /\ disk.seed = "short"
  /\ Go("seed", "down", Blank)
  /\ UNCHANGED <<disk, past>>

GenerateSeed ==
  /\ \E key \in Seed : Go("seed", "create", [mem EXCEPT !.keys = key])
  /\ past' = [past EXCEPT !.seedLost = @ \/ disk.seed # NoSeed]
  /\ UNCHANGED disk

\* File::create empties the file.
CreateSeed ==
  /\ Go("create", "write", mem)
  /\ disk' = [disk EXCEPT !.seed = "short", !.synced = FALSE]
  /\ UNCHANGED past

\* write_all
WriteSeed ==
  /\ Go("write", "sync", mem)
  /\ disk' = [disk EXCEPT !.seed = mem.keys]
  /\ UNCHANGED past

\* Mutant: no sync_all.
DoNotSyncSeed ==
  /\ Go("sync", "monitors", mem)
  /\ UNCHANGED <<disk, past>>

\* sync_all
SyncSeed ==
  /\ Go("sync", "monitors", mem)
  /\ disk' = [disk EXCEPT !.synced = TRUE]
  /\ UNCHANGED past

ReadMonitors ==
  /\ Go("monitors", "tip", [mem EXCEPT !.monitor = disk.monitor])
  /\ UNCHANGED <<disk, past>>

PollTip ==
  /\ Go("tip", "scorer", [mem EXCEPT !.polled = chain])
  /\ UNCHANGED <<disk, past>>

\* read_scorer: a fresh one if the file is not there or cannot be read.
ReadScorer ==
  /\ \/ /\ disk.store[ScorerFile] # NoFile
        /\ Go("scorer", "manager", [mem EXCEPT !.score = disk.store[ScorerFile]])
     \/ Go("scorer", "manager", [mem EXCEPT !.scorerLost = disk.store[ScorerFile] # NoFile])
  /\ UNCHANGED <<disk, past>>

(***************************************************************************)
(* The ChannelManager: if its file cannot be opened, for whatever reason,  *)
(* the node is taken for a fresh one, at the block polled before.          *)
(***************************************************************************)
ReadManager ==
  /\ disk.manager # NoFile
  /\ Go("manager", "sweeper", [mem EXCEPT !.manager = disk.manager])
  /\ UNCHANGED <<disk, past>>

FreshManager ==
  /\ Go("manager", "sweeper",
        [mem EXCEPT !.fresh = TRUE, !.manager = mem.polled,
                    !.orphaned = disk.monitor # NoFile \/ disk.store[SweeperKey] # NoFile])
  /\ UNCHANGED <<disk, past>>

\* The sweeper: only if there is no file, a new one at the manager's block.
ReadSweeper ==
  /\ Go("sweeper", "listeners",
        [mem EXCEPT !.sweeper = IF disk.store[SweeperKey] = NoFile THEN mem.manager
                                ELSE disk.store[SweeperKey]])
  /\ UNCHANGED <<disk, past>>

\* Mutant: the sweeper is not among the listeners.
SyncWithoutSweeper ==
  /\ Go("listeners", "load",
        IF mem.fresh THEN [mem EXCEPT !.tip = mem.polled]
        ELSE [mem EXCEPT !.manager = chain, !.tip = chain,
                         !.monitor = IF @ = NoFile THEN NoFile ELSE chain])
  /\ UNCHANGED <<disk, past>>

(***************************************************************************)
(* synchronize_listeners brings all to the block that is best now, and     *)
(* the chain is followed from there; not on a fresh node, where it is      *)
(* followed from the polled block.                                         *)
(***************************************************************************)
SyncListeners ==
  /\ Go("listeners", "load",
        IF mem.fresh THEN [mem EXCEPT !.tip = mem.polled]
        ELSE [mem EXCEPT !.manager = chain, !.sweeper = chain, !.tip = chain,
                         !.monitor = IF @ = NoFile THEN NoFile ELSE chain])
  /\ UNCHANGED <<disk, past>>

\* The monitors that were synchronised go to the ChainMonitor.
LoadMonitors ==
  /\ Go("load", "launch",
        [mem EXCEPT !.watched = IF mem.fresh THEN NoFile ELSE mem.monitor, !.monitor = NoFile])
  /\ UNCHANGED <<disk, past>>

\* Gossip, onion messages and peers are set up, the tasks spawned: the node
\* is known by its key.
Launch ==
  /\ Go("launch", "running", mem)
  /\ past' = [past EXCEPT !.used = @ \cup {mem.keys}]
  /\ UNCHANGED disk

-----------------------------------------------------------------------------
(***************************************************************************)
(* The task that follows the chain.  A block goes to the ChainMonitor, the *)
(* ChannelManager and the sweeper, in this order; LDK asserts that it      *)
(* follows the listener's best block, and a panic ends the task.  The poll *)
(* ends well with this block, or has more to connect.                      *)
(***************************************************************************)
Run(m) ==
  /\ pc = "running"
  /\ mem' = m
  /\ UNCHANGED <<chain, pc>>

ConnectBlock ==
  LET next == mem.tip + 1
      seen == [mem EXCEPT !.watched = IF @ = NoFile THEN NoFile ELSE next, !.manager = next]
  IN /\ mem.spv = "on" /\ mem.tip < chain
     /\ \E d \in {1, mem.delay} :
          Run(IF mem.sweeper = mem.tip
                THEN [seen EXCEPT !.sweeper = next, !.tip = next, !.delay = d]
                ELSE [seen EXCEPT !.spv = "dead"])
     /\ UNCHANGED <<disk, past>>

\* poll_best_tip finds nothing new.
PollIdle ==
  /\ mem.spv = "on" /\ mem.tip = chain
  /\ Run([mem EXCEPT !.delay = 1])
  /\ UNCHANGED <<disk, past>>

\* Mutant: the task ends at the first error.
PollGivesUp ==
  /\ mem.spv = "on"
  /\ Run([mem EXCEPT !.spv = "dead"])
  /\ UNCHANGED <<disk, past>>

\* Mutant: the delay doubles without a limit.
PollDelayUnbounded ==
  /\ mem.spv = "on"
  /\ Run([mem EXCEPT !.delay = 2 * @])
  /\ UNCHANGED <<disk, past>>

\* An error, transient or persistent: again after a delay, which doubles.
PollFails ==
  /\ mem.spv = "on"
  /\ Run([mem EXCEPT !.delay = IF 2 * @ > 30 THEN 30 ELSE 2 * @])
  /\ UNCHANGED <<disk, past>>

-----------------------------------------------------------------------------
(***************************************************************************)
(* What LDK does of its own while the node runs.  It writes what it has    *)
(* through the remapping store, each file by itself.                       *)
(***************************************************************************)
PersistManager ==
  /\ Run(mem)
  /\ disk' = [disk EXCEPT !.manager = mem.manager]
  /\ UNCHANGED past

StoreWrite(key, value) ==
  disk' = [disk EXCEPT !.store[RemapScorerKey(key)] = value]

PersistSweeper ==
  /\ Run(mem)
  /\ StoreWrite(SweeperKey, mem.sweeper)
  /\ UNCHANGED past

PersistScorer ==
  /\ Run(mem)
  /\ StoreWrite(ScorerKey, mem.score)
  /\ past' = [past EXCEPT !.saved = mem.score]

PersistMonitor ==
  /\ mem.watched # NoFile
  /\ Run(mem)
  /\ disk' = [disk EXCEPT !.monitor = mem.watched]
  /\ UNCHANGED past

\* The channel's monitor is persisted when the channel is funded.
OpenChannel ==
  /\ mem.watched = NoFile /\ disk.monitor = NoFile
  /\ Run([mem EXCEPT !.watched = mem.tip])
  /\ disk' = [disk EXCEPT !.monitor = mem.tip]
  /\ UNCHANGED past

Learn ==
  /\ mem.score < MaxScore
  /\ Run([mem EXCEPT !.score = @ + 1])
  /\ UNCHANGED <<disk, past>>

-----------------------------------------------------------------------------

Start ==
  \/ Connect
  \/ ReadSeed \/ RefuseSeed \/ GenerateSeed \/ CreateSeed \/ WriteSeed \/ SyncSeed
  \/ ReadMonitors \/ PollTip \/ ReadScorer \/ ReadManager \/ FreshManager \/ ReadSweeper
  \/ SyncListeners \/ LoadMonitors \/ Launch

Next ==
  \/ NewBlock \/ Stop \/ PowerLoss
  \/ Start
  \/ ConnectBlock \/ PollIdle \/ PollFails
  \/ PersistManager \/ PersistSweeper \/ PersistScorer \/ PersistMonitor
  \/ OpenChannel \/ Learn

Spec == Init /\ [][Next]_vars

\* bitcoind answers a poll now and then, however many fail.
FairSpec == Spec /\ SF_vars(ConnectBlock)

-----------------------------------------------------------------------------

Height == 0 .. MaxHeight
Score == 0 .. MaxScore

\* Types, of the files, the process and the history.
TypeOK ==
  /\ chain \in Height
  /\ disk \in [seed : Seed \cup {NoSeed, "short"}, synced : BOOLEAN,
               manager : Height \cup {NoFile}, monitor : Height \cup {NoFile},
               store : [{ScorerFile, ScorerKey, SweeperKey} -> Height \cup Score \cup {NoFile}]]
  /\ pc \in {"down", "seed", "create", "write", "sync", "monitors", "tip", "scorer",
             "manager", "sweeper", "listeners", "load", "launch", "running"}
  /\ mem \in [keys : Seed \cup {NoSeed}, monitor : Height \cup {NoFile}, polled : Height,
              score : Score, scorerLost : BOOLEAN, fresh : BOOLEAN, orphaned : BOOLEAN,
              manager : Height, sweeper : Height, watched : Height \cup {NoFile},
              tip : Height, spv : {"on", "dead"}, delay : 1 .. 30]
  /\ past \in [used : SUBSET Seed, seedLost : BOOLEAN, saved : Score]

(***************************************************************************)
(* The node's identity: the seed it has run under is the one on disk,      *)
(* through crashes at any step and power losses, so it never runs under    *)
(* two, and a seed file too short to use (which ends every later start) is *)
(* only ever left by a node that has not run.  The exceptions are a start  *)
(* that could not read a file that was there, which it overwrites, and one *)
(* that uses what the start before it wrote and was killed before it could *)
(* sync.                                                                   *)
(***************************************************************************)
SeedKept == past.seedLost \/ past.used \subseteq {disk.seed}

(***************************************************************************)
(* On a running node the ChannelManager, the sweeper and every monitor on  *)
(* disk are at the block the chain is followed from, however old or new    *)
(* each file was and whichever blocks came during the start: none misses a *)
(* block or is given one twice.  The exception is a node that was taken    *)
(* for a fresh one with a monitor or a sweeper on disk.                    *)
(***************************************************************************)
ListenersTogether ==
  pc = "running" /\ ~mem.orphaned =>
    /\ mem.manager = mem.tip
    /\ mem.sweeper = mem.tip
    /\ disk.monitor # NoFile => mem.watched = mem.tip

(***************************************************************************)
(* The scorer is what the node is for: a start knows all that was last     *)
(* persisted, although it is written under LDK's key and read by a path of *)
(* this program's, unless its file could not be read.                      *)
(***************************************************************************)
ScorerSurvives ==
  pc \in {"manager", "sweeper", "listeners", "load", "launch", "running"} =>
    mem.scorerLost \/ mem.score >= past.saved

(***************************************************************************)
(* A node that stays up catches up with the chain, however often polling   *)
(* fails, unless it was taken for a fresh one: then the task that polls    *)
(* may have ended unnoticed.                                               *)
(***************************************************************************)
FollowsChain ==
  <>[](pc = "running" /\ ~mem.orphaned) =>
    <>[](mem.manager = chain /\ mem.sweeper = chain)
=============================================================================
