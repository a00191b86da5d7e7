--------------------------- MODULE StartupProofs ---------------------------
(***************************************************************************)
(* For every set of seeds, every length of the chain and everything the    *)
(* scorer may learn: the node's identity survives, what follows the chain  *)
(* starts from one block and stays there, and the scorer's file is found.  *)
(*                                                                         *)
(* Each of the three relates a file to what an earlier process left in it  *)
(* and to what this one has read so far, so the invariant follows the      *)
(* start step by step: SeedSteps, ListenerSteps and ScorerFileKept.        *)
(***************************************************************************)
EXTENDS Startup, TLAPS

\* The steps of the start at which the seed is settled.
SeedSettled == {"monitors", "tip", "scorer", "manager", "sweeper", "listeners", "load",
                "launch", "running"}

\* A start that is past its seed has one.
KeysKnown == pc \notin {"down", "seed"} => mem.keys \in Seed

\* The sweeper's key holds a height.
SweeperFile == disk.store[SweeperKey] \in Height \cup {NoFile}

\* The file read_scorer opens is the one that was persisted last.
ScorerFileKept ==
  \/ disk.store[ScorerFile] = past.saved
  \/ disk.store[ScorerFile] = NoFile /\ past.saved = 0

MemType ==
  [keys : Seed \cup {NoSeed}, monitor : Height \cup {NoFile}, polled : Height,
   score : Score, scorerLost : BOOLEAN, fresh : BOOLEAN, orphaned : BOOLEAN,
   manager : Height, sweeper : Height, watched : Height \cup {NoFile},
   tip : Height, spv : {"on", "dead"}, delay : 1 .. 30]

TypeInv == TypeOK /\ KeysKnown /\ SweeperFile /\ ScorerFileKept

(***************************************************************************)
(* keys_seed, from the moment it is found missing: until sync_all the node *)
(* has not run, and a node that has run found its seed synced.             *)
(***************************************************************************)
SeedSteps ==
  \/ past.seedLost
  \/ /\ past.used \subseteq {disk.seed}
     /\ pc \in {"create", "write", "sync"} \/ ~disk.synced => past.used = {}
     /\ pc = "sync" => disk.seed = mem.keys
     /\ pc \in SeedSettled => disk.seed = mem.keys /\ disk.synced

(***************************************************************************)
(* What follows the chain, step by step: the monitor read is the monitor   *)
(* on disk; a fresh node that is no orphan has no files; and all are at    *)
(* one block once synchronize_listeners has returned.                      *)
(***************************************************************************)
MonitorRead ==
  pc \in {"tip", "scorer", "manager", "sweeper", "listeners", "load"} =>
    (mem.monitor = NoFile <=> disk.monitor = NoFile)

FreshSteps ==
  /\ pc \in {"seed", "create", "write", "sync", "monitors", "tip", "scorer", "manager"} => ~mem.fresh
  /\ pc \in {"sweeper", "listeners", "load", "launch"} /\ mem.fresh /\ ~mem.orphaned =>
       /\ disk.monitor = NoFile
       /\ disk.store[SweeperKey] = NoFile
       /\ mem.manager = mem.polled
  /\ pc \in {"listeners", "load", "launch"} /\ mem.fresh /\ ~mem.orphaned =>
       mem.sweeper = mem.manager

Together ==
  pc \in {"load", "launch", "running"} /\ ~mem.orphaned =>
    /\ mem.manager = mem.tip
    /\ mem.sweeper = mem.tip
    /\ pc = "load" /\ ~mem.fresh => mem.monitor \in {NoFile, mem.tip}
    /\ pc # "load" => mem.watched \in {NoFile, mem.tip}
    /\ pc # "load" /\ disk.monitor # NoFile => mem.watched = mem.tip

ListenerSteps == MonitorRead /\ FreshSteps /\ Together

-----------------------------------------------------------------------------
(***************************************************************************)
(* Types, and what the types of the files rest on.                         *)
(***************************************************************************)

\* The remapping store keeps the scorer where read_scorer looks for it, and the
\* sweeper elsewhere.
LEMMA Remapped ==
  /\ RemapScorerKey(ScorerKey) = ScorerFile
  /\ RemapScorerKey(SweeperKey) = SweeperKey
  /\ SweeperKey # ScorerFile
BY DEF RemapScorerKey, ScorerFile, ScorerKey, SweeperKey

\* The memory of a new process.
LEMMA BlankType ==
  ASSUME mem' = Blank
  PROVE  mem' \in MemType
BY MaxHeightAssumption, MaxScoreAssumption DEF Blank, MemType, Height, Score

\* A node that was never started.
LEMMA TypeInit == Init => TypeInv
<1> SUFFICES ASSUME Init PROVE TypeInv
  OBVIOUS
<1> USE MaxHeightAssumption, MaxScoreAssumption
<1>1. pc = "down" BY DEF Init
<1>2. disk.store[SweeperKey] = NoFile /\ disk.store[ScorerFile] = NoFile /\ past.saved = 0
  BY DEF Init, SweeperKey, ScorerFile
<1>3. TypeOK BY DEF Init, TypeOK, Blank, Height, Score
<1> QED BY <1>1, <1>2, <1>3 DEF TypeInv, KeysKnown, SweeperFile, ScorerFileKept

\* The end of a process and the growth of the chain.
LEMMA EnvironmentType ==
  ASSUME TypeInv, NewBlock \/ Stop \/ PowerLoss
  PROVE  TypeInv'
<1> USE MaxHeightAssumption, BlankType
    DEF MemType, TypeInv, TypeOK, KeysKnown, SweeperFile, ScorerFileKept
<1>1. CASE NewBlock BY <1>1 DEF NewBlock, Height
<1>2. CASE Stop BY <1>2 DEF Stop
<1>3. CASE PowerLoss
  <2>1. PICK s \in Seed \cup {NoSeed, "short"} :
          disk' = [disk EXCEPT !.seed = s, !.synced = TRUE]
    BY <1>3 DEF PowerLoss
  <2> QED BY <1>3, <2>1 DEF PowerLoss
<1> QED BY <1>1, <1>2, <1>3

\* The seed.
LEMMA SeedType ==
  ASSUME TypeInv,
         Connect \/ ReadSeed \/ RefuseSeed \/ GenerateSeed \/ CreateSeed \/ WriteSeed \/ SyncSeed
  PROVE  TypeInv'
<1> USE SeedAssumption, BlankType DEF MemType, TypeInv, TypeOK, KeysKnown, SweeperFile, ScorerFileKept, Go
<1>1. CASE Connect BY <1>1 DEF Connect
<1>2. CASE ReadSeed BY <1>2 DEF ReadSeed
<1>3. CASE RefuseSeed BY <1>3 DEF RefuseSeed
<1>4. CASE GenerateSeed
  <2>1. PICK key \in Seed : Go("seed", "create", [mem EXCEPT !.keys = key])
    BY <1>4 DEF GenerateSeed
  <2> QED BY <1>4, <2>1 DEF GenerateSeed
<1>5. CASE CreateSeed BY <1>5 DEF CreateSeed
<1>6. CASE WriteSeed BY <1>6 DEF WriteSeed
<1>7. CASE SyncSeed BY <1>7 DEF SyncSeed
<1> QED BY <1>1, <1>2, <1>3, <1>4, <1>5, <1>6, <1>7

\* The files that are read after it.
LEMMA ReadType ==
  ASSUME TypeInv,
         \/ ReadMonitors \/ PollTip \/ ReadScorer \/ ReadManager \/ FreshManager \/ ReadSweeper
         \/ SyncListeners \/ LoadMonitors \/ Launch
  PROVE  TypeInv'
<1> USE MaxScoreAssumption DEF TypeInv, TypeOK, KeysKnown, SweeperFile, ScorerFileKept, Go
<1>1. CASE ReadMonitors BY <1>1 DEF ReadMonitors
<1>2. CASE PollTip BY <1>2 DEF PollTip
<1>3. CASE ReadScorer
  <2>1. CASE disk.store[ScorerFile] # NoFile
             /\ Go("scorer", "manager", [mem EXCEPT !.score = disk.store[ScorerFile]])
    <3>1. disk.store[ScorerFile] \in Score BY <2>1
    <3> QED BY <1>3, <2>1, <3>1 DEF ReadScorer
  <2>2. CASE Go("scorer", "manager", [mem EXCEPT !.scorerLost = disk.store[ScorerFile] # NoFile])
    <3>1. mem.keys' = mem.keys /\ pc' = "manager" BY <2>2
    <3>2. mem' \in MemType
      <4> DEFINE unread == disk.store[ScorerFile] # NoFile
      <4>1. unread \in BOOLEAN OBVIOUS
      <4>2. mem' = [mem EXCEPT !.scorerLost = unread] BY <2>2
      <4> HIDE DEF unread
      <4> QED BY <4>1, <4>2 DEF MemType
    <3> QED BY <1>3, <2>2, <3>1, <3>2 DEF ReadScorer, MemType
  <2> QED BY <1>3, <2>1, <2>2 DEF ReadScorer
<1>4. CASE ReadManager BY <1>4 DEF ReadManager
<1>5. CASE FreshManager
  <2>1. mem' \in MemType
    <3> DEFINE orphan == disk.monitor # NoFile \/ disk.store[SweeperKey] # NoFile
    <3>1. orphan \in BOOLEAN OBVIOUS
    <3>2. mem' = [mem EXCEPT !.fresh = TRUE, !.manager = mem.polled, !.orphaned = orphan]
      BY <1>5 DEF FreshManager
    <3> HIDE DEF orphan
    <3> QED BY <3>1, <3>2 DEF MemType
  <2>2. pc' = "sweeper" /\ mem'.keys = mem.keys /\ UNCHANGED <<chain, disk, past>>
    BY <1>5 DEF FreshManager
  <2> QED BY <1>5, <2>1, <2>2 DEF FreshManager, MemType
<1>6. CASE ReadSweeper BY <1>6 DEF ReadSweeper
<1>7. CASE SyncListeners
  <2>1. CASE mem.fresh BY <1>7, <2>1 DEF SyncListeners
  <2>2. CASE ~mem.fresh
    <3> DEFINE monitor == IF mem.monitor = NoFile THEN NoFile ELSE chain
    <3>1. monitor \in Height \cup {NoFile} /\ chain \in Height OBVIOUS
    <3>2. mem' = [mem EXCEPT !.manager = chain, !.sweeper = chain, !.tip = chain,
                             !.monitor = monitor]
      BY <1>7, <2>2 DEF SyncListeners
    <3> HIDE DEF monitor
    <3>3. mem' \in MemType /\ mem'.keys = mem.keys BY <3>1, <3>2 DEF MemType
    <3>4. pc = "listeners" /\ pc' = "load" /\ UNCHANGED <<chain, disk, past>>
      BY <1>7 DEF SyncListeners
    <3> QED BY <3>3, <3>4 DEF MemType
  <2> QED BY <2>1, <2>2
<1>8. CASE LoadMonitors
  <2> DEFINE watched == IF mem.fresh THEN NoFile ELSE mem.monitor
  <2>1. watched \in Height \cup {NoFile} OBVIOUS
  <2>2. mem' = [mem EXCEPT !.watched = watched, !.monitor = NoFile] BY <1>8 DEF LoadMonitors
  <2> HIDE DEF watched
  <2>3. mem' \in MemType /\ mem'.keys = mem.keys BY <2>1, <2>2 DEF MemType
  <2>4. pc = "load" /\ pc' = "launch" /\ UNCHANGED <<chain, disk, past>> BY <1>8 DEF LoadMonitors
  <2> QED BY <2>3, <2>4 DEF MemType
<1>9. CASE Launch BY <1>9 DEF Launch
<1> QED BY <1>1, <1>2, <1>3, <1>4, <1>5, <1>6, <1>7, <1>8, <1>9

\* A block connected, to all or up to the listener that panics.
LEMMA BlockType ==
  ASSUME TypeOK, ConnectBlock
  PROVE  /\ mem' \in MemType /\ mem'.keys = mem.keys
         /\ mem'.score = mem.score /\ mem'.scorerLost = mem.scorerLost
<1> DEFINE next == mem.tip + 1
           watched == IF mem.watched = NoFile THEN NoFile ELSE next
<1>1. mem \in MemType BY DEF TypeOK, MemType
<1>2. next \in Height /\ watched \in Height \cup {NoFile}
  BY <1>1, MaxHeightAssumption DEF ConnectBlock, TypeOK, MemType, Height
<1>3. PICK d \in {1, mem.delay} :
        mem' = IF mem.sweeper = mem.tip
                 THEN [mem EXCEPT !.watched = watched, !.manager = next,
                                  !.sweeper = next, !.tip = next, !.delay = d]
                 ELSE [mem EXCEPT !.watched = watched, !.manager = next, !.spv = "dead"]
  BY <1>1 DEF ConnectBlock, Run, MemType
<1> HIDE DEF next, watched
<1>4. CASE mem.sweeper = mem.tip
  <2>1. mem' = [mem EXCEPT !.watched = watched, !.manager = next,
                           !.sweeper = next, !.tip = next, !.delay = d]
    BY <1>3, <1>4
  <2>2. d \in 1 .. 30 BY <1>1 DEF MemType
  <2> QED BY <1>1, <1>2, <2>1, <2>2 DEF MemType
<1>5. CASE mem.sweeper # mem.tip BY <1>1, <1>2, <1>3, <1>5 DEF MemType
<1> QED BY <1>4, <1>5

\* The running node.
LEMMA RunType ==
  ASSUME TypeInv,
         \/ ConnectBlock \/ PollIdle \/ PollFails
         \/ PersistManager \/ PersistSweeper \/ PersistScorer \/ PersistMonitor
         \/ OpenChannel \/ Learn
  PROVE  TypeInv'
<1> USE MaxHeightAssumption, MaxScoreAssumption, Remapped
    DEF TypeInv, TypeOK, KeysKnown, SweeperFile, ScorerFileKept, Run, StoreWrite
<1>1. CASE ConnectBlock
  <2>1. mem' \in MemType /\ mem'.keys = mem.keys BY <1>1, BlockType
  <2>2. UNCHANGED <<chain, disk, pc, past>> BY <1>1 DEF ConnectBlock
  <2> QED BY <2>1, <2>2 DEF MemType
<1>2. CASE PollIdle BY <1>2 DEF PollIdle
<1>3. CASE PollFails BY <1>3 DEF PollFails
<1>4. CASE PersistManager BY <1>4 DEF PersistManager
<1>5. CASE PersistSweeper BY <1>5 DEF PersistSweeper
<1>6. CASE PersistScorer
  <2>1. disk' = [disk EXCEPT !.store[ScorerFile] = mem.score]
    BY <1>6 DEF PersistScorer
  <2>2. disk'.store[ScorerFile] = mem.score /\ disk'.store[SweeperKey] = disk.store[SweeperKey]
    BY <2>1 DEF ScorerFile, SweeperKey
  <2>3. past'.saved = mem.score /\ UNCHANGED <<chain, pc, mem>> BY <1>6 DEF PersistScorer
  <2>4. TypeOK' BY <1>6, <2>1 DEF PersistScorer
  <2>5. ScorerFileKept' BY <2>2, <2>3
  <2>6. SweeperFile' BY <2>2
  <2>7. KeysKnown' BY <2>3
  <2> QED BY <2>4, <2>5, <2>6, <2>7
<1>7. CASE PersistMonitor BY <1>7 DEF PersistMonitor
<1>8. CASE OpenChannel BY <1>8 DEF OpenChannel
<1>9. CASE Learn BY <1>9 DEF Learn, Score
<1> QED BY <1>1, <1>2, <1>3, <1>4, <1>5, <1>6, <1>7, <1>8, <1>9

\* Every step keeps the types.
LEMMA TypeNext == ASSUME TypeInv, [Next]_vars PROVE TypeInv'
<1>1. CASE Next
  BY <1>1, EnvironmentType, SeedType, ReadType, RunType DEF Next, Start
<1>2. CASE UNCHANGED vars
  BY <1>2 DEF vars, TypeInv, TypeOK, KeysKnown, SweeperFile, ScorerFileKept
<1> QED BY <1>1, <1>2

\* The state, the files and the history are of their types, whatever the
\* process read and wherever it was stopped.
THEOREM Types == Spec => []TypeOK
<1>1. TypeInv => TypeOK BY DEF TypeInv
<1> QED BY <1>1, TypeInit, TypeNext, PTL DEF Spec

-----------------------------------------------------------------------------
(***************************************************************************)
(* The seed.                                                               *)
(***************************************************************************)

\* The steps that bring a seed file into being, and the ends of a process.
LEMMA SeedMade ==
  ASSUME TypeInv, SeedSteps,
         \/ NewBlock \/ Stop \/ PowerLoss \/ Connect
         \/ ReadSeed \/ RefuseSeed \/ GenerateSeed \/ CreateSeed \/ WriteSeed \/ SyncSeed
  PROVE  SeedSteps'
<1> USE SeedAssumption DEF TypeInv, TypeOK, SeedSteps, SeedSettled, NoSeed, Go
<1>1. CASE NewBlock BY <1>1 DEF NewBlock
<1>2. CASE Stop BY <1>2 DEF Stop
<1>3. CASE PowerLoss
  <2>1. pc' = "down" /\ past' = past /\ disk'.synced
    BY <1>3 DEF PowerLoss
  <2>2. disk.synced => disk'.seed = disk.seed BY <1>3 DEF PowerLoss
  <2> QED BY <2>1, <2>2
<1>4. CASE Connect BY <1>4 DEF Connect
<1>5. CASE ReadSeed BY <1>5 DEF ReadSeed
<1>6. CASE RefuseSeed BY <1>6 DEF RefuseSeed
<1>7. CASE GenerateSeed BY <1>7 DEF GenerateSeed
<1>8. CASE CreateSeed BY <1>8 DEF CreateSeed
<1>9. CASE WriteSeed BY <1>9 DEF WriteSeed
<1>10. CASE SyncSeed BY <1>10 DEF SyncSeed
<1> QED BY <1>1, <1>2, <1>3, <1>4, <1>5, <1>6, <1>7, <1>8, <1>9, <1>10

\* No later step touches it, and Launch is known by it.
LEMMA SeedUsed ==
  ASSUME TypeInv, SeedSteps,
         \/ ReadMonitors \/ PollTip \/ ReadScorer \/ ReadManager \/ FreshManager \/ ReadSweeper
         \/ SyncListeners \/ LoadMonitors \/ Launch
         \/ ConnectBlock \/ PollIdle \/ PollFails
         \/ PersistManager \/ PersistSweeper \/ PersistScorer \/ PersistMonitor
         \/ OpenChannel \/ Learn
  PROVE  SeedSteps'
<1>1. pc \in SeedSettled /\ pc' \in SeedSettled
  BY DEF ReadMonitors, PollTip, ReadScorer, ReadManager, FreshManager, ReadSweeper,
         SyncListeners, LoadMonitors, Launch, ConnectBlock, PollIdle, PollFails,
         PersistManager, PersistSweeper, PersistScorer, PersistMonitor, OpenChannel, Learn,
         Go, Run, SeedSettled
<1>2. disk'.seed = disk.seed /\ disk'.synced = disk.synced
  BY DEF ReadMonitors, PollTip, ReadScorer, ReadManager, FreshManager, ReadSweeper,
         SyncListeners, LoadMonitors, Launch, ConnectBlock, PollIdle, PollFails,
         PersistManager, PersistSweeper, PersistScorer, PersistMonitor, OpenChannel, Learn,
         StoreWrite, TypeInv, TypeOK
<1>3. mem'.keys = mem.keys
  <2> USE DEF TypeInv, TypeOK
  <2>1. CASE ReadMonitors \/ PollTip \/ ReadManager \/ ReadSweeper
    BY <2>1 DEF ReadMonitors, PollTip, ReadManager, ReadSweeper, Go
  <2>2. CASE LoadMonitors \/ Launch BY <2>2 DEF LoadMonitors, Launch, Go
  <2>3. CASE SyncListeners BY <2>3 DEF SyncListeners, Go
  <2>4. CASE ReadScorer BY <2>4 DEF ReadScorer, Go
  <2>5. CASE FreshManager BY <2>5 DEF FreshManager, Go
  <2>6. CASE ConnectBlock BY <2>6, BlockType
  <2>7. CASE \/ PollIdle \/ PollFails \/ PersistManager \/ PersistSweeper \/ PersistScorer
             \/ PersistMonitor \/ OpenChannel \/ Learn
    BY <2>7 DEF PollIdle, PollFails, PersistManager, PersistSweeper, PersistScorer,
                PersistMonitor, OpenChannel, Learn, Run
  <2> QED BY <2>1, <2>2, <2>3, <2>4, <2>5, <2>6, <2>7
<1>4. /\ past'.seedLost = past.seedLost
      /\ past'.used \in {past.used, past.used \cup {mem.keys}}
  BY DEF ReadMonitors, PollTip, ReadScorer, ReadManager, FreshManager, ReadSweeper,
         SyncListeners, LoadMonitors, Launch, ConnectBlock, PollIdle, PollFails,
         PersistManager, PersistSweeper, PersistScorer, PersistMonitor, OpenChannel, Learn,
         TypeInv, TypeOK
<1> QED BY <1>1, <1>2, <1>3, <1>4 DEF SeedSteps, SeedSettled

\* Every step keeps the seed.
LEMMA SeedNext == ASSUME TypeInv, SeedSteps, [Next]_vars PROVE SeedSteps'
<1>1. CASE Next BY <1>1, SeedMade, SeedUsed DEF Next, Start
<1>2. CASE UNCHANGED vars BY <1>2 DEF vars, SeedSteps
<1> QED BY <1>1, <1>2

(***************************************************************************)
(* The node never runs under two seeds, nor under one that is not on disk, *)
(* through crashes and power losses at any step, except after a start that *)
(* overwrote a seed it could not read or used one that was never synced.   *)
(***************************************************************************)
THEOREM IdentityKept == Spec => []SeedKept
<1>1. Init => SeedSteps BY DEF Init, SeedSteps, SeedSettled
<1>2. SeedSteps => SeedKept BY DEF SeedSteps, SeedKept
<1> QED BY <1>1, <1>2, TypeInit, TypeNext, SeedNext, PTL DEF Spec

-----------------------------------------------------------------------------
(***************************************************************************)
(* What follows the chain.                                                 *)
(***************************************************************************)

\* Up to the sweeper's file nothing follows the chain yet.
LEMMA ListenersRead ==
  ASSUME TypeInv, ListenerSteps,
         \/ NewBlock \/ Stop \/ PowerLoss \/ Connect
         \/ ReadSeed \/ RefuseSeed \/ GenerateSeed \/ CreateSeed \/ WriteSeed \/ SyncSeed
         \/ ReadMonitors \/ PollTip \/ ReadScorer \/ ReadManager \/ FreshManager \/ ReadSweeper
  PROVE  ListenerSteps'
<1> USE DEF TypeInv, TypeOK, ListenerSteps, MonitorRead, FreshSteps, Together, Go
<1>1. CASE NewBlock BY <1>1 DEF NewBlock
<1>2. CASE Stop BY <1>2 DEF Stop
<1>3. CASE PowerLoss BY <1>3 DEF PowerLoss
<1>4. CASE Connect BY <1>4 DEF Connect, Blank
<1>5. CASE ReadSeed BY <1>5 DEF ReadSeed
<1>6. CASE RefuseSeed BY <1>6 DEF RefuseSeed
<1>7. CASE GenerateSeed BY <1>7 DEF GenerateSeed
<1>8. CASE CreateSeed BY <1>8 DEF CreateSeed
<1>9. CASE WriteSeed BY <1>9 DEF WriteSeed
<1>10. CASE SyncSeed BY <1>10 DEF SyncSeed
<1>11. CASE ReadMonitors BY <1>11 DEF ReadMonitors
<1>12. CASE PollTip BY <1>12 DEF PollTip
<1>13. CASE ReadScorer BY <1>13 DEF ReadScorer
<1>14. CASE ReadManager BY <1>14 DEF ReadManager
<1>15. CASE FreshManager BY <1>15 DEF FreshManager
<1>16. CASE ReadSweeper BY <1>16 DEF ReadSweeper
<1> QED BY <1>1, <1>2, <1>3, <1>4, <1>5, <1>6, <1>7, <1>8, <1>9, <1>10, <1>11, <1>12, <1>13,
           <1>14, <1>15, <1>16

\* synchronize_listeners, and the monitors handed over.
LEMMA ListenersSynced ==
  ASSUME TypeInv, ListenerSteps, SyncListeners \/ LoadMonitors \/ Launch
  PROVE  ListenerSteps'
<1> USE DEF TypeInv, TypeOK, ListenerSteps, MonitorRead, FreshSteps, Together, Go, Height, NoFile
<1>1. CASE SyncListeners
  <2>1. CASE mem.fresh BY <1>1, <2>1 DEF SyncListeners
  <2>2. CASE ~mem.fresh BY <1>1, <2>2 DEF SyncListeners
  <2> QED BY <2>1, <2>2
<1>2. CASE LoadMonitors BY <1>2 DEF LoadMonitors
<1>3. CASE Launch BY <1>3 DEF Launch
<1> QED BY <1>1, <1>2, <1>3

\* A block goes to all of them; what is persisted is where they are.
LEMMA ListenersRun ==
  ASSUME TypeInv, ListenerSteps,
         \/ ConnectBlock \/ PollIdle \/ PollFails
         \/ PersistManager \/ PersistSweeper \/ PersistScorer \/ PersistMonitor
         \/ OpenChannel \/ Learn
  PROVE  ListenerSteps'
<1> USE DEF TypeInv, TypeOK, ListenerSteps, MonitorRead, FreshSteps, Together, Run, Height, NoFile
<1>1. CASE ConnectBlock BY <1>1 DEF ConnectBlock
<1>2. CASE PollIdle BY <1>2 DEF PollIdle
<1>3. CASE PollFails BY <1>3 DEF PollFails
<1>4. CASE PersistManager BY <1>4 DEF PersistManager
<1>5. CASE PersistSweeper BY <1>5 DEF PersistSweeper, StoreWrite
<1>6. CASE PersistScorer BY <1>6 DEF PersistScorer, StoreWrite
<1>7. CASE PersistMonitor BY <1>7 DEF PersistMonitor
<1>8. CASE OpenChannel BY <1>8 DEF OpenChannel
<1>9. CASE Learn BY <1>9 DEF Learn
<1> QED BY <1>1, <1>2, <1>3, <1>4, <1>5, <1>6, <1>7, <1>8, <1>9

\* Every step keeps them together.
LEMMA ListenersNext == ASSUME TypeInv, ListenerSteps, [Next]_vars PROVE ListenerSteps'
<1>1. CASE Next BY <1>1, ListenersRead, ListenersSynced, ListenersRun DEF Next, Start
<1>2. CASE UNCHANGED vars BY <1>2 DEF vars, ListenerSteps, MonitorRead, FreshSteps, Together
<1> QED BY <1>1, <1>2

(***************************************************************************)
(* However old each file is and whichever blocks come during the start,    *)
(* the ChannelManager, the sweeper and every monitor on disk of a running  *)
(* node are at the block the chain is followed from, unless the node was   *)
(* taken for a fresh one with files on disk.                               *)
(***************************************************************************)
THEOREM ListenersAtOneBlock == Spec => []ListenersTogether
<1>1. Init => ListenerSteps BY DEF Init, ListenerSteps, MonitorRead, FreshSteps, Together
<1>2. ListenerSteps => ListenersTogether BY DEF ListenerSteps, Together, ListenersTogether
<1> QED BY <1>1, <1>2, TypeInit, TypeNext, ListenersNext, PTL DEF Spec

\* The task that polls the chain has not panicked, except on an orphan.
TaskAlive == (pc # "running" \/ ~mem.orphaned) => mem.spv = "on"

\* A block is refused by a listener only where they are not at one block.
LEMMA TaskNext ==
  ASSUME TypeInv, ListenerSteps, TaskAlive, [Next]_vars
  PROVE  TaskAlive'
<1> USE DEF TypeInv, TypeOK, TaskAlive
<1>1. CASE \/ Stop \/ PowerLoss \/ Connect \/ RefuseSeed
  <2>1. mem' = Blank BY <1>1 DEF Stop, PowerLoss, Connect, RefuseSeed, Go
  <2>2. Blank.spv = "on" BY DEF Blank
  <2> QED BY <2>1, <2>2
<1>2. CASE NewBlock BY <1>2 DEF NewBlock
<1>3. CASE \/ ReadSeed \/ GenerateSeed \/ CreateSeed \/ WriteSeed \/ SyncSeed
  BY <1>3 DEF ReadSeed, GenerateSeed, CreateSeed, WriteSeed, SyncSeed, Go
<1>4. CASE \/ ReadMonitors \/ PollTip \/ ReadScorer \/ ReadManager \/ FreshManager
           \/ ReadSweeper \/ SyncListeners \/ LoadMonitors \/ Launch
  <2>1. pc # "running" /\ mem'.spv = mem.spv
    BY <1>4 DEF ReadMonitors, PollTip, ReadScorer, ReadManager, FreshManager, ReadSweeper,
                SyncListeners, LoadMonitors, Launch, Go
  <2> QED BY <2>1
<1>5. CASE ConnectBlock
  <2>1. pc = "running" /\ pc' = pc /\ mem'.orphaned = mem.orphaned /\ mem.spv = "on"
    BY <1>5 DEF ConnectBlock, Run
  <2>2. CASE mem.sweeper = mem.tip
    <3>1. mem'.spv = mem.spv BY <1>5, <2>2 DEF ConnectBlock, Run
    <3> QED BY <2>1, <3>1
  <2>3. CASE mem.sweeper # mem.tip
    BY <2>1, <2>3 DEF ListenerSteps, Together
  <2> QED BY <2>2, <2>3
<1>6. CASE \/ PollIdle \/ PollFails \/ PersistManager \/ PersistSweeper \/ PersistScorer
           \/ PersistMonitor \/ OpenChannel \/ Learn
  <2>1. pc' = pc /\ mem'.spv = mem.spv /\ mem'.orphaned = mem.orphaned
    BY <1>6 DEF PollIdle, PollFails, PersistManager, PersistSweeper, PersistScorer,
                PersistMonitor, OpenChannel, Learn, Run
  <2> QED BY <2>1
<1>7. CASE UNCHANGED vars BY <1>7 DEF vars
<1> QED BY <1>1, <1>2, <1>3, <1>4, <1>5, <1>6, <1>7 DEF Next, Start

(***************************************************************************)
(* LDK's assertion that a block follows the listener's best block is never *)
(* met: the task that polls the chain, which nobody watches, does not end  *)
(* by a panic, unless the node was taken for a fresh one with files on     *)
(* disk.  (That it then catches up is FollowsChain, a liveness property.)  *)
(***************************************************************************)
THEOREM ChainTaskNeverPanics == Spec => []TaskAlive
<1>1. Init => ListenerSteps BY DEF Init, ListenerSteps, MonitorRead, FreshSteps, Together
<1>2. Init => TaskAlive BY DEF Init, TaskAlive, Blank
<1> QED BY <1>1, <1>2, TypeInit, TypeNext, ListenersNext, TaskNext, PTL DEF Spec

-----------------------------------------------------------------------------
(***************************************************************************)
(* The scorer.                                                             *)
(***************************************************************************)

\* A start knows what was persisted last from the step that reads it on, and a
\* running node only learns more, or persists what it knows.
LEMMA ScorerNext ==
  ASSUME TypeInv, ScorerSurvives, [Next]_vars
  PROVE  ScorerSurvives'
<1> USE MaxScoreAssumption DEF TypeInv, TypeOK, ScorerSurvives, Score, NoFile
<1>1. CASE NewBlock \/ Stop \/ PowerLoss \/ Connect \/ ReadSeed \/ RefuseSeed
  BY <1>1 DEF NewBlock, Stop, PowerLoss, Connect, ReadSeed, RefuseSeed, Go
<1>2. CASE \/ GenerateSeed \/ CreateSeed \/ WriteSeed \/ SyncSeed \/ ReadMonitors \/ PollTip
  BY <1>2 DEF GenerateSeed, CreateSeed, WriteSeed, SyncSeed, ReadMonitors, PollTip, Go
<1>3. CASE ReadScorer
  <2>1. past' = past BY <1>3 DEF ReadScorer
  <2>2. CASE disk.store[ScorerFile] # NoFile /\ mem'.score = disk.store[ScorerFile]
    BY <2>1, <2>2 DEF ScorerFileKept
  <2>3. CASE disk.store[ScorerFile] # NoFile /\ mem'.scorerLost
    BY <2>1, <2>3
  <2>4. CASE disk.store[ScorerFile] = NoFile /\ mem'.score = mem.score
    BY <2>1, <2>4 DEF ScorerFileKept
  <2> QED BY <1>3, <2>2, <2>3, <2>4 DEF ReadScorer, Go
<1>4. CASE ReadManager \/ FreshManager \/ ReadSweeper \/ SyncListeners \/ LoadMonitors \/ Launch
  <2>1. mem'.score = mem.score /\ mem'.scorerLost = mem.scorerLost /\ past'.saved = past.saved
    BY <1>4 DEF ReadManager, FreshManager, ReadSweeper, SyncListeners, LoadMonitors, Launch, Go
  <2>2. pc \in {"manager", "sweeper", "listeners", "load", "launch"}
    BY <1>4 DEF ReadManager, FreshManager, ReadSweeper, SyncListeners, LoadMonitors, Launch, Go
  <2> QED BY <2>1, <2>2
<1>5. CASE \/ ConnectBlock \/ PollIdle \/ PollFails \/ PersistManager \/ PersistSweeper
           \/ PersistMonitor \/ OpenChannel
  <2>1. mem'.score = mem.score /\ mem'.scorerLost = mem.scorerLost /\ past' = past /\ pc' = pc
    <3>1. CASE ConnectBlock BY <3>1, BlockType DEF ConnectBlock, Run
    <3>2. CASE ~ConnectBlock
      BY <1>5, <3>2 DEF PollIdle, PollFails, PersistManager, PersistSweeper, PersistMonitor,
                        OpenChannel, Run
    <3> QED BY <3>1, <3>2
  <2> QED BY <2>1
<1>6. CASE PersistScorer \/ Learn
  BY <1>6 DEF PersistScorer, Learn, Run
<1>7. CASE UNCHANGED vars BY <1>7 DEF vars
<1> QED BY <1>1, <1>2, <1>3, <1>4, <1>5, <1>6, <1>7 DEF Next, Start

(***************************************************************************)
(* A start knows all the scorer had when it was last persisted, although   *)
(* it is written under LDK's key and read by a path of this program's,     *)
(* unless its file could not be read.                                      *)
(***************************************************************************)
THEOREM ScorerFound == Spec => []ScorerSurvives
<1>1. Init => ScorerSurvives BY DEF Init, ScorerSurvives
<1> QED BY <1>1, TypeInit, TypeNext, ScorerNext, PTL DEF Spec
=============================================================================
