------------------------------ MODULE TaskGraph ------------------------------
(***************************************************************************)
(* What the process manager promises about a graph of delegated tasks,     *)
(* whatever threads, cancellations and checkpoints do underneath: every    *)
(* execution gets one outcome, once, and it is decided as completed only   *)
(* after everything it depends on was.                                     *)
(***************************************************************************)
CONSTANTS Task, Upstream   \* task -> the tasks it depends on

Outcome == {"completed", "failed", "cancelled", "timed_out", "killed"}

VARIABLE outcome

Init == outcome = [t \in Task |-> "open"]

Decide(t, o) ==
  /\ outcome[t] = "open"
  /\ o = "completed" => \A u \in Upstream[t] : outcome[u] = "completed"
  /\ outcome' = [outcome EXCEPT ![t] = o]

Next == \E t \in Task, o \in Outcome : Decide(t, o)

Spec == Init /\ [][Next]_outcome
=============================================================================
