--------------------------- MODULE VersionedFile ---------------------------
(***************************************************************************)
(* One file of LDK's FilesystemStore (external), as the payment code uses  *)
(* it: `fs_store.write(..)` is called with the store's lock held, and the  *)
(* future it returns is awaited after the lock was dropped.                *)
(*                                                                         *)
(* The call gives the write its place in the order; the writes then run    *)
(* concurrently on blocking threads.  A write that comes to the file after *)
(* a later one was written is skipped and reported as done.  A write       *)
(* replaces the file by a rename, so the file is never half written.       *)
(*                                                                         *)
(* A task awaits its write before it goes on, so it has at most one.       *)
(***************************************************************************)
CONSTANT Owner   \* the tasks that write the file

VARIABLES disk,    \* the contents of the file
          writes,  \* the writes under way
          result   \* what each task's last write returned: "ok", "err", "none"

fileVars == <<disk, writes, result>>

\* Mutant: the call does not order the writes.
UnorderedWrite(o, contents) ==
  /\ writes' = writes \cup
       {[owner |-> o, data |-> contents, older |-> {}, skipped |-> FALSE]}
  /\ result' = [result EXCEPT ![o] = "none"]
  /\ UNCHANGED disk

\* fs_store.write: older are the tasks whose writes were called before.
Write(o, contents) ==
  /\ writes' = writes \cup
       {[owner |-> o, data |-> contents, older |-> {w.owner : w \in writes}, skipped |-> FALSE]}
  /\ result' = [result EXCEPT ![o] = "none"]
  /\ UNCHANGED disk

\* The write w returns r; the writes whose owners are in S are overtaken.
Return(w, r, S) ==
  /\ result' = [result EXCEPT ![w.owner] = r]
  /\ writes' = {[v EXCEPT !.older = @ \ {w.owner}, !.skipped = @ \/ v.owner \in S] :
                  v \in writes \ {w}}

WriteLands(w) ==
  /\ ~w.skipped
  /\ disk' = w.data
  /\ Return(w, "ok", w.older)

WriteSkipped(w) ==
  /\ w.skipped
  /\ Return(w, "ok", {})
  /\ UNCHANGED disk

WriteFails(w) ==
  /\ ~w.skipped
  /\ Return(w, "err", {})
  /\ UNCHANGED disk

\* The process ends: the writes under way never reach the file.
AbandonWrites ==
  /\ writes' = {}
  /\ result' = [o \in Owner |-> "none"]
  /\ UNCHANGED disk
=============================================================================
