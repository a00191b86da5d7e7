------------------------ MODULE SweepMigrationProofs ------------------------
(***************************************************************************)
(* For every set of files, whichever of them are temporary or corrupt and  *)
(* whichever operations fail: no descriptor is lost without one of the     *)
(* known causes, and the sentinel is written only when the migration is    *)
(* complete but for them.                                                  *)
(*                                                                         *)
(* Every deletion of the migration is of a directory whose contents were   *)
(* handed on before, so the invariant says, step by step, where the        *)
(* contents of each of the three directories have gone: SafePending,       *)
(* SafeProcessing and SafeBlobs.                                           *)
(***************************************************************************)
EXTENDS SweepMigration, TLAPS

\* What read_all_spendable_outputs passed over, with a warning or without.
PassedOver == warned \cup unsized

\* The files read are sequences of descriptors, each at least one long.
BlobSeqs == bytes \in Seq(File) /\ blobs \subseteq Seq(File) \ {<<>>}

TypeInv == TypeOK /\ BlobSeqs

\* A file left in pending is none of the old descriptors', is still to be
\* looked at, or was skipped with a warning.
SafePending ==
  /\ pc = "move" => pending \ Temp \subseteq todo \cup warned
  /\ pc \in {"concatenate", "drop_processing", "read", "track", "drop_blobs", "drop_pending"} =>
       pending \ Temp \subseteq warned

\* A file in processing goes into the concatenation, with it into a blob, from
\* there to the outputs and so to the sweeper, or is passed over.
SafeProcessing ==
  /\ pc = "concatenate" => processing \subseteq todo \cup ToSet(bytes) \cup PassedOver
  /\ pc \in {"drop_processing", "read"} => processing \subseteq InBlobs \cup PassedOver
  /\ pc = "track" => processing \subseteq outputs \cup PassedOver
  /\ pc \in {"drop_blobs", "drop_pending"} => processing \subseteq tracked \cup PassedOver

\* A descriptor in a blob is among the outputs, then with the sweeper, or is
\* passed over.
SafeBlobs ==
  /\ pc = "track" => InBlobs \subseteq outputs \cup PassedOver
  /\ pc \in {"drop_blobs", "drop_pending"} => InBlobs \subseteq tracked \cup PassedOver

\* What the sentinel will say is already so when it is about to be written.
Complete ==
  pc = "sentinel" \/ sentinel => File \ Temp \subseteq tracked \cup PassedOver \cup unfound

MigrationInv ==
  TypeInv /\ LossIsExplained /\ SafePending /\ SafeProcessing /\ SafeBlobs /\ Complete

-----------------------------------------------------------------------------
(***************************************************************************)
(* The sets of descriptors of sequences and blobs.                         *)
(***************************************************************************)

\* Reading one more file adds its descriptor.
LEMMA AppendSet ==
  ASSUME NEW s \in Seq(File), NEW f \in File
  PROVE  Append(s, f) \in Seq(File) /\ ToSet(Append(s, f)) = ToSet(s) \cup {f}
<1> DEFINE a == Append(s, f)
<1>1. a \in Seq(File) /\ Len(a) = Len(s) + 1 OBVIOUS
<1>2. \A i \in 1 .. Len(s) : a[i] = s[i] OBVIOUS
<1>3. a[Len(s) + 1] = f OBVIOUS
<1>4. DOMAIN a = 1 .. Len(s) + 1 /\ DOMAIN s = 1 .. Len(s) /\ Len(s) \in Nat
  BY <1>1
<1> HIDE DEF a
<1>5. ToSet(a) \subseteq ToSet(s) \cup {f} BY <1>1, <1>2, <1>3, <1>4 DEF ToSet
<1>6. ToSet(s) \cup {f} \subseteq ToSet(a)
  <2>1. ASSUME NEW i \in DOMAIN s PROVE s[i] \in ToSet(a)
    BY <1>2, <1>4 DEF ToSet
  <2>2. f \in ToSet(a) BY <1>3, <1>4 DEF ToSet
  <2> QED BY <2>1, <2>2 DEF ToSet
<1> QED BY <1>1, <1>5, <1>6 DEF a

\* The beginning of a blob is a blob, of some of its descriptors.
LEMMA PrefixSet ==
  ASSUME NEW s \in Seq(File), NEW n \in 1 .. Len(s)
  PROVE  /\ SubSeq(s, 1, n) \in Seq(File) \ {<<>>}
         /\ ToSet(SubSeq(s, 1, n)) \subseteq ToSet(s)
<1>1. SubSeq(s, 1, n) \in Seq(File) /\ Len(SubSeq(s, 1, n)) = n OBVIOUS
<1>2. \A i \in 1 .. n : SubSeq(s, 1, n)[i] = s[i] OBVIOUS
<1>3. DOMAIN SubSeq(s, 1, n) = 1 .. n /\ DOMAIN s = 1 .. Len(s) BY <1>1
<1>4. SubSeq(s, 1, n) # <<>> BY <1>1
<1> QED BY <1>1, <1>2, <1>3, <1>4 DEF ToSet

\* A sequence of files has files.
LEMMA SetOfSeq == ASSUME NEW s \in Seq(File) PROVE ToSet(s) \subseteq File
BY DEF ToSet

\* Nothing read yet.
LEMMA EmptySet == <<>> \in Seq(File) /\ ToSet(<<>>) = {}
BY DEF ToSet

\* What is decoded from a blob is of the blob.
LEMMA DecodedSet == ASSUME NEW b, NEW bad PROVE Decoded(b, bad) \subseteq ToSet(b)
BY DEF Decoded, ToSet

\* A blob more, or blobs fewer.
LEMMA BlobsSet ==
  /\ \A b : blobs' = blobs \cup {b} => InBlobs' = InBlobs \cup ToSet(b)
  /\ blobs' \subseteq blobs => InBlobs' \subseteq InBlobs
  /\ blobs' = blobs => InBlobs' = InBlobs
  /\ blobs = {} => InBlobs = {}
BY DEF InBlobs

-----------------------------------------------------------------------------
(***************************************************************************)
(* The steps of the migration.                                             *)
(***************************************************************************)

\* A node that has only the files of an older version.
LEMMA MigrationInit == Init => MigrationInv
<1> SUFFICES ASSUME Init PROVE MigrationInv
  OBVIOUS
<1>1. InBlobs = {} BY BlobsSet DEF Init
<1>2. TypeInv
  <2>1. sentinel \in BOOLEAN BY DEF Init
  <2> QED BY <2>1, FilesAssumption, EmptySet DEF Init, TypeInv, TypeOK, BlobSeqs
<1> QED BY <1>1, <1>2 DEF Init, MigrationInv, LossIsExplained, OnDisk, SafePending,
                          SafeProcessing, SafeBlobs, Complete, PassedOver, silentVars

\* The sentinel, the directories, and the way to the first of them.
LEMMA BeginKeeps ==
  ASSUME MigrationInv, Skip \/ NothingToMigrate \/ ReadPending
  PROVE  MigrationInv'
<1> USE BlobsSet DEF MigrationInv, TypeInv, TypeOK, BlobSeqs, LossIsExplained, OnDisk, SafePending,
                     SafeProcessing, SafeBlobs, Complete, PassedOver, silentVars, Goto, Fail, diskVars
<1>1. CASE Skip BY <1>1 DEF Skip
<1>2. CASE NothingToMigrate
  <2>1. InBlobs \subseteq File BY DEF InBlobs
  <2> QED BY <1>2, <2>1 DEF NothingToMigrate
<1>3. CASE ReadPending BY <1>3 DEF ReadPending
<1> QED BY <1>1, <1>2, <1>3

\* move_pending_to_processing: a file is in one of the two, or still to come.
LEMMA MoveKeeps ==
  ASSUME MigrationInv, NEW f \in File, MoveEntry(f)
  PROVE  MigrationInv'
<1> USE FilesAssumption, BlobsSet
    DEF MigrationInv, TypeInv, TypeOK, BlobSeqs, LossIsExplained, OnDisk, SafePending,
        SafeProcessing, SafeBlobs, Complete, PassedOver, silentVars, Goto, Fail
<1> QED BY DEF MoveEntry

\* concatenate_processing_outputs reads what is in processing.
LEMMA ConcatenateKeeps ==
  ASSUME MigrationInv, \E f \in File : ConcatenateEntry(f)
  PROVE  MigrationInv'
<1> USE BlobsSet
    DEF MigrationInv, TypeInv, TypeOK, BlobSeqs, LossIsExplained, OnDisk, SafePending,
        SafeProcessing, SafeBlobs, Complete, PassedOver, silentVars, Goto, Fail, diskVars
<1> PICK f \in File : ConcatenateEntry(f) OBVIOUS
<1>1. CASE bytes' = Append(bytes, f) /\ UNCHANGED warned
  <2>1. bytes' \in Seq(File) /\ ToSet(bytes') = ToSet(bytes) \cup {f} BY <1>1, AppendSet
  <2> HIDE <1>1
  <2>2. TypeInv' BY <2>1 DEF ConcatenateEntry
  <2> QED BY <1>1, <2>1, <2>2 DEF ConcatenateEntry
<1>2. CASE warned' = warned \cup {f} /\ UNCHANGED bytes
  BY <1>2 DEF ConcatenateEntry
<1> QED BY <1>1, <1>2 DEF ConcatenateEntry

\* The blob, and only then the end of processing.
LEMMA BlobKeeps ==
  ASSUME MigrationInv,
         ReadProcessing \/ NothingConcatenated \/ PersistBlob \/ DropProcessing
  PROVE  MigrationInv'
<1> USE BlobsSet
    DEF MigrationInv, TypeInv, TypeOK, BlobSeqs, LossIsExplained, OnDisk, SafePending,
        SafeProcessing, SafeBlobs, Complete, PassedOver, silentVars, Goto, Fail, diskVars
<1>1. CASE ReadProcessing BY <1>1 DEF ReadProcessing
<1>2. CASE NothingConcatenated BY <1>2 DEF NothingConcatenated, ToSet
<1>3. CASE PersistBlob
  <2>1. bytes' \in Seq(File) /\ ToSet(bytes') = {} BY <1>3, EmptySet DEF PersistBlob
  <2>2. CASE blobs' = blobs \cup {bytes} /\ dirs' = dirs \cup {"spendable"} /\ pc' = "drop_processing"
    <3>1. InBlobs' = InBlobs \cup ToSet(bytes) BY <2>2
    <3>2. TypeInv' BY <1>3, <2>1, <2>2 DEF PersistBlob
    <3> QED BY <1>3, <2>2, <3>1, <3>2 DEF PersistBlob
  <2>3. CASE pc' = "failed" /\ UNCHANGED <<blobs, dirs>>
    BY <1>3, <2>1, <2>3 DEF PersistBlob
  <2> QED BY <1>3, <2>2, <2>3 DEF PersistBlob
<1>4. CASE DropProcessing BY <1>4 DEF DropProcessing, RemoveDir
<1> QED BY <1>1, <1>2, <1>3, <1>4

\* read_all_spendable_outputs warns of what it cannot decode, and passes over a
\* blob of which it cannot have the length.
LEMMA OutputsKeep ==
  ASSUME MigrationInv, ReadOutputs
  PROVE  MigrationInv'
<1> DEFINE Got(bs, bad) == UNION {Decoded(b, bad) : b \in bs}
           All(bs) == UNION {ToSet(b) : b \in bs}
           Undecoded(bs, bad) == UNION {ToSet(b) \ Decoded(b, bad) : b \in bs}
<1> PICK opened \in SUBSET blobs, blank \in SUBSET blobs, unreadable \in SUBSET (File \ Corrupt) :
      /\ opened # blobs => {"opendir", "entry", "open"} \cap Faults # {}
      /\ blank # {} => "metadata" \in Faults
      /\ unreadable # {} => "read" \in Faults
      /\ LET bad == Corrupt \cup unreadable
             got == UNION {Decoded(b, bad) : b \in opened \ blank} IN
           /\ outputs' = got
           /\ warned' = warned
                \cup (UNION {ToSet(b) : b \in blobs \ opened})
                \cup (UNION {ToSet(b) \ Decoded(b, bad) : b \in opened \ blank})
           /\ unsized' = unsized \cup UNION {ToSet(b) : b \in opened \cap blank}
           /\ Goto(IF got = {} THEN "drop_blobs" ELSE "track")
  BY Zenon DEF ReadOutputs
<1> PICK bad : bad = Corrupt \cup unreadable OBVIOUS
<1>0. /\ outputs' = Got(opened \ blank, bad)
      /\ warned' = warned \cup All(blobs \ opened) \cup Undecoded(opened \ blank, bad)
      /\ unsized' = unsized \cup All(opened \cap blank)
      /\ pc' = IF Got(opened \ blank, bad) = {} THEN "drop_blobs" ELSE "track"
  BY DEF Goto
<1> HIDE DEF Got, All, Undecoded
<1>1. pc = "read" /\ UNCHANGED <<diskVars, todo, bytes, unfound>> BY DEF ReadOutputs
<1>2. /\ outputs' \subseteq InBlobs
      /\ warned \subseteq warned' /\ warned' \subseteq warned \cup InBlobs
      /\ unsized \subseteq unsized' /\ unsized' \subseteq unsized \cup InBlobs
  <2>1. Got(opened \ blank, bad) \subseteq InBlobs BY DecodedSet DEF InBlobs, Got
  <2>2. All(blobs \ opened) \subseteq InBlobs /\ All(opened \cap blank) \subseteq InBlobs
    BY DEF InBlobs, All
  <2>3. Undecoded(opened \ blank, bad) \subseteq InBlobs BY DEF InBlobs, Undecoded
  <2> QED BY <1>0, <2>1, <2>2, <2>3
<1>3. InBlobs \subseteq outputs' \cup warned' \cup unsized'
  <2> SUFFICES ASSUME NEW f \in InBlobs, f \notin outputs' PROVE f \in warned' \cup unsized'
    OBVIOUS
  <2>1. PICK b \in blobs : f \in ToSet(b) BY DEF InBlobs
  <2>2. CASE b \notin opened
    <3>1. f \in All(blobs \ opened) BY <2>1, <2>2 DEF All
    <3> QED BY <1>0, <3>1
  <2>3. CASE b \in opened \ blank
    <3>1. f \notin Decoded(b, bad) BY <1>0, <2>3 DEF Got
    <3>2. f \in Undecoded(opened \ blank, bad) BY <2>1, <2>3, <3>1 DEF Undecoded
    <3> QED BY <1>0, <3>2
  <2>4. CASE b \in opened \cap blank
    <3>1. f \in All(opened \cap blank) BY <2>1, <2>4 DEF All
    <3> QED BY <1>0, <3>1
  <2> QED BY <2>2, <2>3, <2>4
<1>4. InBlobs \subseteq File BY DEF MigrationInv, TypeInv, TypeOK, InBlobs
<1>5. \/ pc' = "drop_blobs" /\ outputs' = {}
      \/ pc' = "track"
  BY <1>0
<1>6. InBlobs' = InBlobs BY <1>1, BlobsSet DEF diskVars
<1> QED BY <1>1, <1>2, <1>3, <1>4, <1>5, <1>6
    DEF MigrationInv, TypeInv, TypeOK, BlobSeqs, LossIsExplained, OnDisk, SafePending,
        SafeProcessing, SafeBlobs, Complete, PassedOver, silentVars, diskVars

\* The sweeper has taken the descriptors before the blobs go, and the pending
\* directory goes last.
LEMMA TrackKeeps ==
  ASSUME MigrationInv, Track \/ DropBlobs \/ DropPending \/ WriteSentinel
  PROVE  MigrationInv'
<1> USE BlobsSet
    DEF MigrationInv, TypeInv, TypeOK, BlobSeqs, LossIsExplained, OnDisk, SafePending,
        SafeProcessing, SafeBlobs, Complete, PassedOver, silentVars, Goto, Fail
<1>1. CASE Track BY <1>1 DEF Track
<1>2. CASE DropBlobs BY <1>2 DEF DropBlobs, RemoveDir
<1>3. CASE DropPending BY <1>3 DEF DropPending, RemoveDir
<1>4. CASE WriteSentinel BY <1>4 DEF WriteSentinel
<1> QED BY <1>1, <1>2, <1>3, <1>4

\* A stop at any step, also in the middle of a blob.
LEMMA RestartKeeps ==
  ASSUME MigrationInv, Restart \/ RestartWhilePersisting
  PROVE  MigrationInv'
<1> USE BlobsSet
    DEF MigrationInv, TypeInv, TypeOK, BlobSeqs, LossIsExplained, OnDisk, SafePending,
        SafeProcessing, SafeBlobs, Complete, PassedOver, silentVars, Goto, Begin, diskVars
<1>1. CASE Restart BY <1>1 DEF Restart, ToSet
<1>2. CASE RestartWhilePersisting
  <2> PICK n \in 1 .. Len(bytes) : blobs' = blobs \cup {SubSeq(bytes, 1, n)}
    BY <1>2 DEF RestartWhilePersisting
  <2>1. /\ SubSeq(bytes, 1, n) \in Seq(File) \ {<<>>}
        /\ ToSet(SubSeq(bytes, 1, n)) \subseteq File
    BY PrefixSet
  <2> QED BY <1>2, <2>1 DEF RestartWhilePersisting, ToSet
<1> QED BY <1>1, <1>2

\* Every step.
LEMMA MigrationNext == MigrationInv /\ [Next]_vars => MigrationInv'
<1> SUFFICES ASSUME MigrationInv, [Next]_vars PROVE MigrationInv'
  OBVIOUS
<1>1. CASE Next
  BY <1>1, BeginKeeps, MoveKeeps, ConcatenateKeeps, BlobKeeps, OutputsKeep, TrackKeeps,
     RestartKeeps DEF Next, Step
<1>2. CASE UNCHANGED vars
  BY <1>2, BlobsSet DEF vars, diskVars, MigrationInv, TypeInv, TypeOK, BlobSeqs, LossIsExplained,
     OnDisk, SafePending, SafeProcessing, SafeBlobs, Complete, PassedOver, silentVars
<1> QED BY <1>1, <1>2

-----------------------------------------------------------------------------

\* The files, the sweeper and the place in the migration are of their types, and
\* a file lies only in a directory that exists, whatever is left of a removal.
THEOREM Types == Spec => []TypeOK
<1>1. MigrationInv => TypeOK BY DEF MigrationInv, TypeInv
<1> QED BY <1>1, MigrationInit, MigrationNext, PTL DEF Spec

(***************************************************************************)
(* A descriptor's file is on disk, its descriptor is with the sweeper, a   *)
(* warning has named it or its blob's length could not be had, whichever   *)
(* operations fail and however often the node stops at whichever step.     *)
(***************************************************************************)
THEOREM LossHasACause == Spec => []LossIsExplained
<1>1. MigrationInv => LossIsExplained BY DEF MigrationInv
<1> QED BY <1>1, MigrationInit, MigrationNext, PTL DEF Spec

(***************************************************************************)
(* The sentinel, which ends all attempts, is written only when the sweeper *)
(* has every descriptor that was not passed over, unless no directory      *)
(* could be looked at.                                                     *)
(***************************************************************************)
THEOREM SentinelIsTrue == Spec => []SentinelMeansMigrated
<1>1. MigrationInv => SentinelMeansMigrated
  BY DEF MigrationInv, Complete, PassedOver, SentinelMeansMigrated
<1> QED BY <1>1, MigrationInit, MigrationNext, PTL DEF Spec
=============================================================================
