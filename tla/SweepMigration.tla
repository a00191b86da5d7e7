--------------------------- MODULE SweepMigration ---------------------------
(***************************************************************************)
(* The migration of deprecated spendable-output files into LDK's           *)
(* OutputSweeper: src/src/sweep.rs.  It runs as a task at start-up, over   *)
(* three directories and a sentinel file:                                  *)
(*    pending     one file per descriptor, as older versions left them;    *)
(*    processing  where they are moved to by rename;                       *)
(*    blobs       spendable_outputs/<random>: each the concatenation of    *)
(*                the files read from processing, in the order they were   *)
(*                read.                                                    *)
(* tracked is what the sweeper (external) has persisted; it keeps one copy *)
(* of a descriptor however often it is given it.                           *)
(*                                                                         *)
(* Every step is on the file system: the process may stop between any two, *)
(* and each kind of operation may fail if Faults has it.                   *)
(***************************************************************************)
EXTENDS Integers, Sequences, FiniteSets, SequencesExt

CONSTANTS File,     \* the files, each with one descriptor
          Temp,     \* those whose name is not 64 characters long
          Corrupt,  \* those whose contents do not decode
          Faults    \* the operations that may fail

FaultKinds == {"readdir", "entry", "mkdir", "rename", "read", "persist",
               "opendir", "open", "metadata", "track", "remove", "sentinel", "stat"}

ASSUME FilesAssumption == IsFiniteSet(File) /\ Temp \subseteq File /\ Corrupt \subseteq File
ASSUME FaultsAssumption == Faults \subseteq FaultKinds

VARIABLES
  pending, processing, blobs, dirs, sentinel, tracked,
  pc,        \* the step of try_migrate_deprecated_spendable_outputs
  todo,      \* entries of the directory being read not seen yet
  bytes,     \* the files concatenated so far
  outputs,   \* the descriptors decoded from the blobs
  warned,    \* history: files a logged warning said were skipped
  unsized,   \* history: files in blobs skipped without a word
  unfound    \* history: files there when all directories were taken for absent

diskVars == <<pending, processing, blobs, dirs, sentinel, tracked>>
silentVars == <<unsized, unfound>>
vars == <<diskVars, pc, todo, bytes, outputs, warned, silentVars>>

InBlobs == UNION {ToSet(b) : b \in blobs}
OnDisk == pending \cup processing \cup InBlobs

Init ==
  /\ pending = File
  /\ processing = {}
  /\ blobs = {}
  /\ dirs = {"pending"}
  /\ sentinel = FALSE
  /\ tracked = {}
  /\ pc = "start"
  /\ todo = {}
  /\ bytes = <<>>
  /\ outputs = {}
  /\ warned = {} /\ unsized = {} /\ unfound = {}

Goto(p) == pc' = p

\* The function returns an error; the wrapper logs it and the node goes on.
Fail(kind) ==
  /\ kind \in Faults
  /\ Goto("failed")

-----------------------------------------------------------------------------

\* Path::exists() is false of what is absent and of what cannot be looked at.
SeenAbsent(absent) == absent \/ "stat" \in Faults

Skip ==
  /\ pc = "start" /\ sentinel
  /\ Goto("done")
  /\ UNCHANGED <<diskVars, todo, bytes, outputs, warned, silentVars>>

\* None of the three directories is seen.
NothingToMigrate ==
  /\ pc = "start" /\ SeenAbsent(~sentinel) /\ SeenAbsent(dirs = {})
  /\ Goto("sentinel")
  /\ unfound' = unfound \cup OnDisk
  /\ UNCHANGED <<diskVars, todo, bytes, outputs, warned, unsized>>

\* move_pending_to_processing: read_dir, then one entry after the other.
ReadPending ==
  /\ pc = "start" /\ SeenAbsent(~sentinel) /\ dirs # {}
  /\ \/ Goto("move") /\ todo' = pending
     \/ "pending" \in dirs /\ Fail("readdir") /\ UNCHANGED todo
  /\ UNCHANGED <<diskVars, bytes, outputs, warned, silentVars>>

MoveEntry(f) ==
  /\ pc = "move" /\ f \in todo
  /\ todo' = todo \ {f}
  /\ \/ /\ f \notin Temp                         \* renamed
        /\ pending' = pending \ {f}
        /\ processing' = processing \cup {f}
        /\ dirs' = dirs \cup {"processing"}
        /\ UNCHANGED <<warned, pc>>
     \/ /\ f \in Temp                            \* not a descriptor's name
        /\ UNCHANGED <<pending, processing, dirs, warned, pc>>
     \/ /\ f \notin Temp /\ Fail("mkdir")
        /\ UNCHANGED <<pending, processing, dirs, warned>>
     \/ /\ f \notin Temp /\ {"entry", "rename"} \cap Faults # {}   \* logged and skipped
        /\ dirs' \in {dirs, dirs \cup {"processing"}}
        /\ warned' = warned \cup {f}
        /\ UNCHANGED <<pending, processing, pc>>
  /\ UNCHANGED <<blobs, sentinel, tracked, bytes, outputs, silentVars>>

\* concatenate_processing_outputs: read_dir, then one file after the other.
ReadProcessing ==
  /\ pc = "move" /\ todo = {}
  /\ \/ Goto("concatenate") /\ todo' = processing
     \/ "processing" \in dirs /\ Fail("readdir") /\ UNCHANGED todo
  /\ UNCHANGED <<diskVars, bytes, outputs, warned, silentVars>>

ConcatenateEntry(f) ==
  /\ pc = "concatenate" /\ f \in todo
  /\ todo' = todo \ {f}
  /\ \/ /\ bytes' = Append(bytes, f)
        /\ UNCHANGED warned
     \/ /\ {"entry", "read"} \cap Faults # {}    \* logged and skipped
        /\ warned' = warned \cup {f}
        /\ UNCHANGED bytes
  /\ UNCHANGED <<diskVars, pc, outputs, silentVars>>

NothingConcatenated ==
  /\ pc = "concatenate" /\ todo = {} /\ bytes = <<>>
  /\ Goto("read")
  /\ UNCHANGED <<diskVars, todo, bytes, outputs, warned, silentVars>>

\* Mutant: the processing directory is dropped before the blob is written.
PersistBlobAfterDrop ==
  /\ pc = "concatenate" /\ todo = {} /\ bytes # <<>>
  /\ processing' = {}
  /\ \/ /\ blobs' = blobs \cup {bytes}
        /\ dirs' = dirs \cup {"spendable"}
        /\ Goto("drop_processing")
     \/ Fail("persist") /\ UNCHANGED <<blobs, dirs>>
  /\ bytes' = <<>>
  /\ UNCHANGED <<pending, sentinel, tracked, todo, outputs, warned, silentVars>>

PersistBlob ==
  /\ pc = "concatenate" /\ todo = {} /\ bytes # <<>>
  /\ \/ /\ blobs' = blobs \cup {bytes}
        /\ dirs' = dirs \cup {"spendable"}
        /\ Goto("drop_processing")
     \/ Fail("persist") /\ UNCHANGED <<blobs, dirs>>
  /\ bytes' = <<>>
  /\ UNCHANGED <<pending, processing, sentinel, tracked, todo, outputs, warned, silentVars>>

\* Mutant: a removal is taken for complete.
RemoveDirDone(d, contents, left) ==
  /\ dirs' = dirs \ {d}
  /\ left = {} \/ ("remove" \in Faults /\ left \subseteq contents)

(***************************************************************************)
(* best_effort_remove_dir: all of it, or, where it fails, some of it.      *)
(***************************************************************************)
RemoveDir(d, contents, left) ==
  \/ left = {} /\ dirs' = dirs \ {d}
  \/ "remove" \in Faults /\ left \subseteq contents /\ UNCHANGED dirs

DropProcessing ==
  /\ pc = "drop_processing"
  /\ \E left \in SUBSET processing :
       RemoveDir("processing", processing, left) /\ processing' = left
  /\ Goto("read")
  /\ UNCHANGED <<pending, blobs, sentinel, tracked, todo, bytes, outputs, warned, silentVars>>

-----------------------------------------------------------------------------
(***************************************************************************)
(* read_all_spendable_outputs: a blob is decoded up to the first           *)
(* descriptor that does not decode or cannot be read; the rest of it is    *)
(* not looked at.                                                          *)
(***************************************************************************)
Decoded(b, bad) == {b[i] : i \in {k \in DOMAIN b : \A j \in 1 .. k : b[j] \notin bad}}

ReadOutputs ==
  /\ pc = "read"
  /\ \E opened \in SUBSET blobs, blank \in SUBSET blobs, unreadable \in SUBSET (File \ Corrupt) :
       /\ opened # blobs => {"opendir", "entry", "open"} \cap Faults # {}
       /\ blank # {} => "metadata" \in Faults       \* a length that cannot be had is 0
       /\ unreadable # {} => "read" \in Faults
       /\ LET bad == Corrupt \cup unreadable
              got == UNION {Decoded(b, bad) : b \in opened \ blank} IN
            /\ outputs' = got
            /\ warned' = warned
                 \cup (UNION {ToSet(b) : b \in blobs \ opened})
                 \cup (UNION {ToSet(b) \ Decoded(b, bad) : b \in opened \ blank})
            /\ unsized' = unsized \cup UNION {ToSet(b) : b \in opened \cap blank}
            /\ Goto(IF got = {} THEN "drop_blobs" ELSE "track")
  /\ UNCHANGED <<diskVars, todo, bytes, unfound>>

\* Mutant: the blobs are dropped although the sweeper did not take them.
TrackIgnoresError ==
  /\ pc = "track"
  /\ tracked' = tracked \cup outputs \/ ("track" \in Faults /\ UNCHANGED tracked)
  /\ Goto("drop_blobs")
  /\ outputs' = {}
  /\ UNCHANGED <<pending, processing, blobs, dirs, sentinel, todo, bytes, warned, silentVars>>

Track ==
  /\ pc = "track"
  /\ \/ tracked' = tracked \cup outputs /\ Goto("drop_blobs")
     \/ Fail("track") /\ UNCHANGED tracked
  /\ outputs' = {}
  /\ UNCHANGED <<pending, processing, blobs, dirs, sentinel, todo, bytes, warned, silentVars>>

DropBlobs ==
  /\ pc = "drop_blobs"
  /\ \E left \in SUBSET blobs : RemoveDir("spendable", blobs, left) /\ blobs' = left
  /\ Goto("drop_pending")
  /\ UNCHANGED <<pending, processing, sentinel, tracked, todo, bytes, outputs, warned, silentVars>>

DropPending ==
  /\ pc = "drop_pending"
  /\ \E left \in SUBSET pending : RemoveDir("pending", pending, left) /\ pending' = left
  /\ Goto("sentinel")
  /\ UNCHANGED <<processing, blobs, sentinel, tracked, todo, bytes, outputs, warned, silentVars>>

WriteSentinel ==
  /\ pc = "sentinel"
  /\ \/ sentinel' = TRUE
     \/ "sentinel" \in Faults /\ UNCHANGED sentinel
  /\ Goto("done")
  /\ UNCHANGED <<pending, processing, blobs, dirs, tracked, todo, bytes, outputs, warned, silentVars>>

(***************************************************************************)
(* The node stops, at any step, and the migration begins again at the next *)
(* start.  A blob being written then leaves the beginning of it behind in  *)
(* the store's temporary file, which lies in the same directory.           *)
(***************************************************************************)
Begin ==
  /\ Goto("start")
  /\ todo' = {}
  /\ bytes' = <<>>
  /\ outputs' = {}
  /\ unfound' = IF sentinel THEN unfound ELSE {}
  /\ UNCHANGED <<warned, unsized>>

Restart ==
  /\ pc # "start"
  /\ Begin
  /\ UNCHANGED diskVars

RestartWhilePersisting ==
  /\ pc = "concatenate" /\ todo = {} /\ bytes # <<>>
  /\ \E n \in 1 .. Len(bytes) : blobs' = blobs \cup {SubSeq(bytes, 1, n)}
  /\ dirs' = dirs \cup {"spendable"}
  /\ UNCHANGED <<pending, processing, sentinel, tracked>>
  /\ Begin

-----------------------------------------------------------------------------

Step ==
  \/ Skip \/ NothingToMigrate \/ ReadPending
  \/ \E f \in File : MoveEntry(f) \/ ConcatenateEntry(f)
  \/ ReadProcessing \/ NothingConcatenated \/ PersistBlob \/ DropProcessing
  \/ ReadOutputs \/ Track \/ DropBlobs \/ DropPending \/ WriteSentinel

Next == Step \/ Restart \/ RestartWhilePersisting

Spec == Init /\ [][Next]_vars

-----------------------------------------------------------------------------

\* The files, the sweeper and the place in the migration are of their types, and
\* a file lies only in a directory that exists (best_effort_remove_dir).
TypeOK ==
  /\ pending \subseteq File /\ processing \subseteq File
  /\ \A b \in blobs : ToSet(b) \subseteq File /\ b # <<>>
  /\ dirs \subseteq {"pending", "processing", "spendable"}
  /\ sentinel \in BOOLEAN
  /\ tracked \subseteq File
  /\ pc \in {"start", "move", "concatenate", "drop_processing", "read", "track",
             "drop_blobs", "drop_pending", "sentinel", "done", "failed"}
  /\ todo \subseteq File /\ ToSet(bytes) \subseteq File /\ outputs \subseteq File
  /\ warned \subseteq File /\ unsized \subseteq File /\ unfound \subseteq File
  /\ (pending # {} => "pending" \in dirs)
  /\ (processing # {} => "processing" \in dirs)
  /\ (blobs # {} => "spendable" \in dirs)

(***************************************************************************)
(* Whatever fails and whatever step the node stops at, however often: a    *)
(* descriptor's file is on disk, its descriptor is with the sweeper, a     *)
(* warning in the log has said that it was skipped, or it was in a blob    *)
(* whose length could not be had, which is the one loss without a word.    *)
(* Where only writes and removals fail nothing is lost.                    *)
(***************************************************************************)
LossIsExplained == File \ Temp \subseteq OnDisk \cup tracked \cup warned \cup unsized

(***************************************************************************)
(* The sentinel, which ends all attempts, is there only when the sweeper   *)
(* has every descriptor but those that a warning has named, those of blobs *)
(* passed over without one, and those that were there when no directory    *)
(* could be looked at: not after a run in which the sweeper did not take   *)
(* them.                                                                   *)
(***************************************************************************)
SentinelMeansMigrated == sentinel => File \ Temp \subseteq tracked \cup warned \cup unsized \cup unfound
=============================================================================
