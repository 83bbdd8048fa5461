--------------------------- MODULE AgentLifecycle ---------------------------
(***************************************************************************)
(* The status algebra of an agent execution: the status sets of            *)
(* loop/lifecycle.py and loop/models.py, the table of permitted changes    *)
(* and the effect of `transition(process, proposed)`.                      *)
(*                                                                         *)
(* `transition` runs under the process' _coordination_lock, so one call is *)
(* one atomic evaluation of `After`.  A call that raises InvalidTransition *)
(* leaves the status alone; its value here is `Rejected`.                  *)
(***************************************************************************)

Terminal == {"completed", "failed", "cancelled", "timed_out", "killed"}
Recovery == {"orphaned", "resume_available", "recovery_review_required"}
Active   == {"running", "waiting", "awaiting_user"}

Status == Terminal \union Recovery \union Active \union {"cancelling", "recovering"}

Rejected == "rejected"

-----------------------------------------------------------------------------

(***************************************************************************)
(* An operator that a comment calls a mutant is not part of the model: it  *)
(* replaces the definition it names, to show that the properties of the    *)
(* checked runs notice the change a plausible bug would make.              *)
(***************************************************************************)

\* Mutant of Effective: the success wins.
EffectiveSuccessWins(proposed, cancelled) == proposed

-----------------------------------------------------------------------------

\* validate_transition: the pairs that do not raise.
Permitted(previous, proposed) ==
  \/ previous = proposed
  \/ /\ previous \in Active
     /\ proposed \in Active \union Terminal \union {"cancelling"}
  \/ /\ previous = "cancelling"
     /\ proposed \in {"cancelled", "timed_out", "killed", "failed"}
  \/ /\ previous \in Recovery
     /\ proposed \in {"recovering", "cancelled", "failed", "killed"}
  \/ /\ previous = "recovering"
     /\ proposed \in Active \union Recovery \union Terminal \union {"cancelling"}

\* "Cancellation wins a concurrent success."
Effective(proposed, cancelled) ==
  IF cancelled /\ proposed = "completed" THEN "cancelled" ELSE proposed

\* Outcomes an unwinding worker cannot rewrite.
Sticky == {"cancelled", "timed_out", "killed"}

\* The status after transition(process, proposed), or Rejected.
After(previous, proposed, cancelled, finalized) ==
  LET p == Effective(proposed, cancelled)
  IN  CASE previous \in Sticky /\ p \in Terminal -> previous
        [] previous = "completed" /\ p = "failed" /\ ~finalized -> p
        [] OTHER -> IF Permitted(previous, p) THEN p ELSE Rejected

\* A worker's call whose InvalidTransition its exception handler turns into
\* transition(process, FAILED).
AfterOrFailed(previous, proposed, cancelled, finalized) ==
  LET a == After(previous, proposed, cancelled, finalized)
      f == After(previous, "failed", cancelled, finalized)
  IN  IF a # Rejected THEN a ELSE IF f # Rejected THEN f ELSE previous

\* Mutant of the next operator: terminal statuses are not spared.
AfterUncertainCommitAlways(previous) == "recovery_review_required"

\* block_uncertain_checkpoint: a commit of unknown outcome stops local work
\* but never changes a terminal status.
AfterUncertainCommit(previous) ==
  IF previous \in Terminal THEN previous ELSE "recovery_review_required"
=============================================================================
