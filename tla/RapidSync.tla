----------------------------- MODULE RapidSync -----------------------------
(***************************************************************************)
(* Rapid gossip sync: RapidGossipSyncManager (src/src/rapid_sync.rs), the  *)
(* initial and the periodic sync that use it (src/src/main.rs), and the    *)
(* network graph, which LDK's background processor (external) persists at  *)
(* times of its own, apart from the timestamp of the last sync.            *)
(*                                                                         *)
(* An update of the graph is known by its time, 1 .. MaxTime.  The server  *)
(* (external) answers a request for what is newer than `last` with a       *)
(* snapshot of the updates after `last`, which carries its own time.       *)
(***************************************************************************)
EXTENDS Integers

CONSTANTS MaxTime,     \* bound on the server's time
          MaxRetries   \* MAX_RETRIES

ASSUME MaxTimeAssumption == MaxTime \in Nat
ASSUME MaxRetriesAssumption == MaxRetries \in Nat \ {0}

VARIABLES
  now,        \* the time of the server's latest snapshot
  graph,      \* the updates in the network graph
  diskGraph,  \* the updates in the persisted network graph
  stamp,      \* the file rapid_sync_state: Missing, Empty or a time
  run,        \* "down", "starting" (in RapidGossipSyncManager::new) or "up"
  manager,    \* the initial sync succeeded: there will be periodic ones
  pc,         \* where sync_network_graph is
  last,       \* its last_sync
  upTo,       \* the time of the snapshot it downloaded
  retries,    \* retry_count of download_with_retry
  lost        \* history: updates the process had and its successor had not

fileVars == <<diskGraph, stamp>>
syncVars == <<pc, last, upTo, retries>>
vars == <<now, graph, fileVars, run, manager, syncVars, lost>>

Time == 1 .. MaxTime
Missing == -2
Empty == -1

Init ==
  /\ now \in 0 .. MaxTime
  /\ graph = {} /\ diskGraph = {}
  /\ stamp = Missing
  /\ run = "starting"
  /\ manager = FALSE
  /\ pc = "load"
  /\ last = 0 /\ upTo = 0 /\ retries = 0
  /\ lost = {}

\* load_last_sync_timestamp().unwrap_or(0): what is no number counts as 0.
LastSync == IF stamp \in {Missing, Empty} THEN 0 ELSE stamp

\* The updates of the snapshot.
Snapshot == (last + 1) .. upTo

\* sync_network_graph returns ok or an error: the start goes on either way,
\* but only a manager whose initial sync worked syncs again.
Finish(ok) ==
  /\ pc' = "idle"
  /\ run' = "up"
  /\ manager' = IF run = "starting" THEN ok ELSE manager
  /\ UNCHANGED now

-----------------------------------------------------------------------------

\* A tick of the periodic task.
PeriodicTick ==
  /\ run = "up" /\ manager /\ pc = "idle"
  /\ pc' = "load"
  /\ UNCHANGED <<now, graph, fileVars, run, manager, last, upTo, retries, lost>>

\* The second disjunct of last': the file could not be read.
Load ==
  /\ pc = "load"
  /\ last' = LastSync \/ last' = 0
  /\ retries' = 0
  /\ pc' = "download"
  /\ UNCHANGED <<now, graph, fileVars, run, manager, upTo, lost>>

Download ==
  /\ pc = "download"
  /\ upTo' = now
  /\ pc' = "apply"
  /\ UNCHANGED <<now, graph, fileVars, run, manager, last, retries, lost>>

\* Mutant: a failed attempt is not counted.
DownloadFailsUncounted ==
  /\ pc = "download"
  /\ UNCHANGED retries
  /\ IF retries + 1 >= MaxRetries THEN Finish(FALSE) ELSE pc' = "backoff" /\ UNCHANGED <<now, run, manager>>
  /\ UNCHANGED <<graph, fileVars, last, upTo, lost>>

\* An attempt fails or times out: a pause, or no retries left.
DownloadFails ==
  /\ pc = "download"
  /\ retries' = retries + 1
  /\ IF retries + 1 >= MaxRetries THEN Finish(FALSE) ELSE pc' = "backoff" /\ UNCHANGED <<now, run, manager>>
  /\ UNCHANGED <<graph, fileVars, last, upTo, lost>>

BackoffOver ==
  /\ pc = "backoff"
  /\ pc' = "download"
  /\ UNCHANGED <<now, graph, fileVars, run, manager, last, upTo, retries, lost>>

\* update_network_graph applies the snapshot to the graph.
Apply ==
  /\ pc = "apply"
  /\ graph' = graph \cup Snapshot
  /\ lost' = lost \ graph'
  /\ pc' = "create"
  /\ UNCHANGED <<now, fileVars, run, manager, last, upTo, retries>>

\* Mutant: the timestamp of a snapshot that was not applied is saved.
ApplyFailsIgnored ==
  /\ pc = "apply"
  /\ \E part \in SUBSET Snapshot : graph' = graph \cup part
  /\ lost' = lost \ graph'
  /\ pc' = "create"
  /\ UNCHANGED <<now, fileVars, run, manager, last, upTo, retries>>

\* The snapshot does not parse, perhaps after some of it was applied.
ApplyFails ==
  /\ pc = "apply"
  /\ \E part \in SUBSET Snapshot : graph' = graph \cup part
  /\ lost' = lost \ graph'
  /\ Finish(FALSE)
  /\ UNCHANGED <<fileVars, last, upTo, retries>>

\* save_last_sync_timestamp: File::create empties the file, or fails.
Create ==
  /\ pc = "create"
  /\ \/ /\ stamp' = Empty /\ pc' = "write"
        /\ UNCHANGED <<now, run, manager>>
     \/ Finish(FALSE) /\ UNCHANGED stamp
  /\ UNCHANGED <<graph, diskGraph, last, upTo, retries, lost>>

\* write_all and sync_all; an error may come before or after the bytes.
WriteStamp ==
  /\ pc = "write"
  /\ \/ stamp' = upTo /\ Finish(TRUE)
     \/ stamp' \in {Empty, upTo} /\ Finish(FALSE)
  /\ UNCHANGED <<graph, diskGraph, last, upTo, retries, lost>>

-----------------------------------------------------------------------------
\* The environment.

ServerAdvances ==
  /\ now < MaxTime
  /\ now' = now + 1
  /\ UNCHANGED <<graph, fileVars, run, manager, syncVars, lost>>

\* P2P gossip brings an update.
Gossip(t) ==
  /\ run = "up" /\ t <= now /\ t \notin graph
  /\ graph' = graph \cup {t}
  /\ lost' = lost \ {t}
  /\ UNCHANGED <<now, fileVars, run, manager, syncVars>>

\* The background processor, which runs once the node is up.
PersistGraph ==
  /\ run = "up" /\ diskGraph # graph
  /\ diskGraph' = graph
  /\ UNCHANGED <<now, graph, stamp, run, manager, syncVars, lost>>

Crash ==
  /\ run # "down"
  /\ run' = "down"
  /\ pc' = "idle"
  /\ manager' = FALSE
  /\ lost' = lost \cup (graph \ diskGraph)
  /\ graph' = {}
  /\ UNCHANGED <<now, fileVars, last, upTo, retries>>

\* read_network, whose graph is empty where the file cannot be read.
Start ==
  /\ run = "down"
  /\ run' = "starting"
  /\ pc' = "load"
  /\ \/ graph' = diskGraph /\ UNCHANGED lost
     \/ graph' = {} /\ lost' = lost \cup diskGraph
  /\ UNCHANGED <<now, fileVars, manager, last, upTo, retries>>

-----------------------------------------------------------------------------

Sync ==
  \/ Load \/ Download \/ DownloadFails \/ BackoffOver
  \/ Apply \/ ApplyFails \/ Create \/ WriteStamp

Next ==
  \/ PeriodicTick \/ Sync
  \/ ServerAdvances \/ PersistGraph \/ Crash \/ Start
  \/ \E t \in Time : Gossip(t)

Spec == Init /\ [][Next]_vars

(***************************************************************************)
(* The sync's future is polled: the HTTP client gives every request up     *)
(* after DOWNLOAD_TIMEOUT_SECS, the sleeps end and the file system         *)
(* answers.  That a download succeeds is not assumed.                      *)
(***************************************************************************)
FairSpec == Spec /\ WF_vars(Sync)

-----------------------------------------------------------------------------

(***************************************************************************)
(* The timestamp never claims an update the node has not had: what is not  *)
(* newer than rapid_sync_state, and will not be asked for again, is in the *)
(* graph, or was in one that did not survive (a crash before the graph was *)
(* persisted, an unreadable graph file).  A failed or partial download, a  *)
(* snapshot that does not parse, a failed save and a server that moves on  *)
(* during the sync open no gap.                                            *)
(***************************************************************************)
GapIsExplained == run # "down" => \A t \in 1 .. LastSync : t \in graph \cup lost

(***************************************************************************)
(* Every sync ends, whatever the server does: the start-up waits for the   *)
(* initial one, so a server that never answers must not keep the node from *)
(* starting (it then relies on P2P gossip).                                *)
(***************************************************************************)
SyncEnds == pc # "idle" ~> pc = "idle"
=============================================================================
