--------------------------- MODULE ProbeAttempt ---------------------------
(***************************************************************************)
(* What run_probe_attempt (src/src/probing/runner.rs) promises of the      *)
(* attempts it runs one after the other, with no table, no channel and no  *)
(* mutex: an attempt that was sent ends with LDK's own answer, or as timed *)
(* out, and as timed out only when the answer had not come before the      *)
(* deadline.  A lost lock (the poisoned tracker mutex) excuses a dropped   *)
(* result and a timeout after the answer; nothing excuses a wrong answer.  *)
(***************************************************************************)
VARIABLES phase,       \* "idle", "open" or "expired"
          answer,      \* LDK's answer to the current probe, or "none"
          completion,  \* how the last attempt ended
          lockLost

vars == <<phase, answer, completion, lockLost>>

Init ==
  /\ phase = "idle"
  /\ answer = "none"
  /\ completion = "success"
  /\ lockLost = FALSE

Refuse ==
  /\ phase = "idle"
  /\ completion' = "send_error"
  /\ UNCHANGED <<phase, answer, lockLost>>

Open ==
  /\ phase = "idle"
  /\ phase' = "open"
  /\ UNCHANGED <<answer, completion, lockLost>>

Answer ==
  /\ phase \in {"open", "expired"}
  /\ answer = "none"
  /\ answer' \in {"success", "failed"}
  /\ UNCHANGED <<phase, completion, lockLost>>

Expire ==
  /\ phase = "open"
  /\ answer = "none" \/ lockLost
  /\ phase' = "expired"
  /\ UNCHANGED <<answer, completion, lockLost>>

End(c) ==
  /\ completion' = c
  /\ phase' = "idle"
  /\ answer' = "none"
  /\ UNCHANGED lockLost

Close ==
  \/ phase = "open" /\ answer # "none" /\ End(answer)
  \/ phase = "open" /\ lockLost /\ End("dropped")
  \/ phase = "expired" /\ End("timeout")

LoseLock ==
  /\ lockLost' = TRUE
  /\ UNCHANGED <<phase, answer, completion>>

Restart ==
  /\ phase' = "idle"
  /\ answer' = "none"
  /\ completion' = "success"
  /\ lockLost' = FALSE

Next == Refuse \/ Open \/ Answer \/ Expire \/ Close \/ LoseLock \/ Restart

Spec == Init /\ [][Next]_vars
=============================================================================
