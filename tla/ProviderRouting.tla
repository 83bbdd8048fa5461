-------------------------- MODULE ProviderRouting --------------------------
(***************************************************************************)
(* Callers of model providers sharing the circuit breakers of a daemon     *)
(* (loop/provider_router.py, loop/llm.py, loop/provider_turn_runtime.py).  *)
(* A turn walks the caller's routes in order: it takes a permit of the     *)
(* route's breaker, pays for the request, and returns the permit with the  *)
(* outcome.  A stream that breaks off is repeated once and then asked for  *)
(* in one piece; a failure before any event moves on to the next route.    *)
(*                                                                         *)
(* One step is the code between two points at which another caller can be  *)
(* seen: acquire() or finish() of a breaker, the payment, the network.     *)
(* Which requests a budget admits is in TaskTree; here a caller has an     *)
(* allowance of requests, and a root may have to wait for what its         *)
(* children hold, with the permit in its hands.                            *)
(***************************************************************************)
EXTENDS CircuitBreaker

CONSTANTS
  Caller,      \* processes of all task trees, and side conversations
  Roots,       \* callers that wait while children hold capacity back
  Provider,
  Order,       \* Order[p]: the active provider and its backups, for a caller
  Unusable,    \* routes without credentials, tool support or context room
  Allowance    \* Allowance[p]: requests the budget of the caller admits

ASSUME CallerAssumption ==
  /\ Roots \subseteq Caller
  /\ Order \in [Caller -> Seq(Provider)]
  /\ \A p \in Caller : Order[p] # <<>>
  /\ Unusable \subseteq Provider
  /\ Allowance \in [Caller -> Nat]

VARIABLES
  breaker,     \* breaker[q]: the registry's breaker of a route
  proc,        \* proc[p]: what the thread of a caller does next
  turn,        \* turn[p]: its current model call
  left,        \* left[p]: requests its budget still admits
  cancelled    \* callers whose cancellation event is set

vars == <<breaker, proc, turn, left, cancelled>>

InCall == {"charge", "waiting", "sent", "streaming"}   \* a permit is held
Steps == {"idle", "route", "ended"} \cup InCall

\* MAX_STREAM_RECOVERIES = 1, so whether one was used is a flag; so is a
\* request's repetition without a capability that the route refused.
NoPermit == [generation |-> 0, probe |-> FALSE]
NewTurn == [mode |-> "stream", at |-> 1, permit |-> NoPermit,
            recovered |-> FALSE, reduced |-> FALSE]
Turn == [mode : {"stream", "chat"}, at : Nat \ {0}, permit : Permit,
         recovered : BOOLEAN, reduced : BOOLEAN]

Route(p) == Order[p][turn[p].at]
Holds(p, q) == proc[p] \in InCall /\ Route(p) = q

Init ==
  /\ breaker = [q \in Provider |-> Closed]
  /\ proc = [p \in Caller |-> "idle"]
  /\ turn = [p \in Caller |-> NewTurn]
  /\ left = Allowance
  /\ cancelled = {}

Goto(p, step) == proc' = [proc EXCEPT ![p] = step]
EndTurn(p, step) == Goto(p, step) /\ turn' = [turn EXCEPT ![p] = NewTurn]

\* The same turn from its first route on.
Restart(p, mode, recovered) ==
  /\ Goto(p, "route")
  /\ turn' = [turn EXCEPT ![p] = [NewTurn EXCEPT !.mode = mode, !.recovered = recovered]]

\* The permit is returned with the outcome of the attempt.
Finish(p, outcome) ==
  breaker' = [breaker EXCEPT ![Route(p)] = Finished(@, turn[p].permit, outcome)]

-----------------------------------------------------------------------------
(* Taking a route.                                                         *)

StartTurn(p) ==
  /\ proc[p] = "idle"
  /\ p \notin cancelled
  /\ Goto(p, "route")
  /\ UNCHANGED <<breaker, turn, left, cancelled>>

\* A cancelled caller gives up at the head of the loop over the routes.
Abandon(p) ==
  /\ proc[p] \in {"idle", "route"}
  /\ p \in cancelled
  /\ EndTurn(p, "ended")
  /\ UNCHANGED <<breaker, left, cancelled>>

\* Slip: the loop over the routes does not end.
NextRouteUnbounded(p) ==
  /\ Goto(p, "route")
  /\ turn' = [turn EXCEPT ![p].at = @ + 1, ![p].permit = NoPermit, ![p].reduced = FALSE]

\* The next route, or ProviderRoutesUnavailable, which fails the process.
NextRoute(p) ==
  IF turn[p].at < Len(Order[p])
    THEN /\ Goto(p, "route")
         /\ turn' = [turn EXCEPT ![p].at = @ + 1, ![p].permit = NoPermit,
                                 ![p].reduced = FALSE]
    ELSE EndTurn(p, "ended")

Skip(p) ==
  /\ proc[p] = "route"
  /\ p \notin cancelled
  /\ Route(p) \in Unusable \/ Refuses(breaker[Route(p)])
  /\ NextRoute(p)
  /\ UNCHANGED <<breaker, left, cancelled>>

Acquire(p) ==
  /\ proc[p] = "route"
  /\ p \notin cancelled
  /\ Route(p) \notin Unusable
  /\ ~Refuses(breaker[Route(p)])
  /\ breaker' = [breaker EXCEPT ![Route(p)] = Acquired(@)]
  /\ turn' = [turn EXCEPT ![p].permit = PermitOf(breaker[Route(p)])]
  /\ Goto(p, "charge")
  /\ UNCHANGED <<left, cancelled>>

-----------------------------------------------------------------------------
(* The request.                                                            *)

Charge(p) ==
  /\ proc[p] = "charge"
  /\ p \notin cancelled
  /\ left[p] > 0
  /\ left' = [left EXCEPT ![p] = @ - 1]
  /\ Goto(p, "sent")
  /\ UNCHANGED <<breaker, turn, cancelled>>

\* The children of a root hold what it asks for: it polls.
AwaitEscrow(p) ==
  /\ proc[p] = "charge"
  /\ p \in Roots \ cancelled
  /\ left[p] > 0
  /\ Goto(p, "waiting")
  /\ UNCHANGED <<breaker, turn, left, cancelled>>

\* Slip: the refusal is not an attempt, and nobody returns the permit.
RefusedKeepsPermit(p) ==
  /\ \/ proc[p] = "charge" /\ left[p] = 0
     \/ proc[p] \in {"charge", "waiting"} /\ p \in cancelled
  /\ EndTurn(p, "ended")
  /\ UNCHANGED <<breaker, left, cancelled>>

\* The budget refuses, or the caller is cancelled while it waits for it.
Refused(p) ==
  /\ \/ proc[p] = "charge" /\ left[p] = 0
     \/ proc[p] \in {"charge", "waiting"} /\ p \in cancelled
  /\ Finish(p, "none")
  /\ EndTurn(p, "ended")
  /\ UNCHANGED <<left, cancelled>>

\* A route that refuses a capability (hosted search, a generation option) is
\* asked once more without it, under the same permit, for another payment.
Reduced(p) ==
  /\ proc[p] = "sent"
  /\ ~turn[p].reduced
  /\ turn' = [turn EXCEPT ![p].reduced = TRUE]
  /\ Goto(p, "charge")
  /\ UNCHANGED <<breaker, left, cancelled>>

\* The provider failed before any event: the next route is tried.
Failover(p) ==
  /\ proc[p] = "sent"
  /\ Finish(p, "failure")
  /\ NextRoute(p)
  /\ UNCHANGED <<left, cancelled>>

\* The first event of a stream: from now on the route is not changed.
Observe(p) ==
  /\ proc[p] = "sent"
  /\ turn[p].mode = "stream"
  /\ Goto(p, "streaming")
  /\ UNCHANGED <<breaker, turn, left, cancelled>>

\* A turn whose stream broke off is repeated once, then asked for in one
\* piece.
Recover(p) ==
  IF turn[p].recovered THEN Restart(p, "chat", FALSE) ELSE Restart(p, "stream", TRUE)

\* The request was at fault, not the provider.  In a stream that is an
\* interruption (other errors fail the process), and an overflow of the
\* context is answered by compaction and the same turn again, or failure.
Rejected(p) ==
  /\ \/ proc[p] = "sent"
     \/ proc[p] = "streaming"
  /\ Finish(p, "none")
  /\ \/ EndTurn(p, "ended")
     \/ turn[p].mode = "stream" /\ Recover(p)
     \/ turn[p].mode = "stream" /\ Restart(p, "stream", turn[p].recovered)
  /\ UNCHANGED <<left, cancelled>>

\* A stream that breaks off through the provider's fault.
Interrupted(p) ==
  /\ proc[p] = "streaming"
  /\ Finish(p, "failure")
  /\ Recover(p) \/ EndTurn(p, "ended")
  /\ UNCHANGED <<left, cancelled>>

\* The caller is cancelled while the transport waits, or an output that the
\* budget refuses closes the generator: no outcome.
CutOff(p) ==
  /\ \/ proc[p] = "sent" /\ p \in cancelled
     \/ proc[p] = "streaming"
  /\ Finish(p, "none")
  /\ EndTurn(p, "ended")
  /\ UNCHANGED <<left, cancelled>>

Complete(p) ==
  /\ IF turn[p].mode = "stream" THEN proc[p] = "streaming" ELSE proc[p] = "sent"
  /\ Finish(p, "success")
  /\ EndTurn(p, "idle")
  /\ UNCHANGED <<left, cancelled>>

-----------------------------------------------------------------------------
(* The environment.                                                        *)

Cancel(p) ==
  /\ proc[p] # "ended"
  /\ p \notin cancelled
  /\ cancelled' = cancelled \cup {p}
  /\ UNCHANGED <<breaker, proc, turn, left>>

\* A child gives capacity back, or there is none left to wait for: it was
\* spent, the deadline has passed, no child that holds some is running.
EscrowMoves(p) ==
  /\ proc[p] = "waiting"
  /\ left' \in {left, [left EXCEPT ![p] = 0]}
  /\ Goto(p, "charge")
  /\ UNCHANGED <<breaker, turn, cancelled>>

\* cooldown_seconds pass.
Cool(q) ==
  /\ breaker[q].state = "open"
  /\ ~breaker[q].cooled
  /\ breaker' = [breaker EXCEPT ![q].cooled = TRUE]
  /\ UNCHANGED <<proc, turn, left, cancelled>>

CallStep(p) ==
  \/ Abandon(p) \/ Skip(p) \/ Acquire(p)
  \/ Charge(p) \/ AwaitEscrow(p) \/ Refused(p) \/ Reduced(p)
  \/ Failover(p) \/ Observe(p) \/ Rejected(p) \/ Interrupted(p) \/ CutOff(p) \/ Complete(p)

Next ==
  \/ \E p \in Caller : StartTurn(p) \/ CallStep(p) \/ Cancel(p) \/ EscrowMoves(p)
  \/ \E q \in Provider : Cool(q)

Spec == Init /\ [][Next]_vars

\* A turn that has begun goes on: every transport has an idle timeout.  Nobody
\* promises another turn, or that children give capacity back.
Fairness == \A p \in Caller : WF_vars(CallStep(p))
FairSpec == Spec /\ Fairness

-----------------------------------------------------------------------------
(* Properties.                                                             *)

\* Every variable stays in its domain.
TypeOK ==
  /\ breaker \in [Provider -> Breaker]
  /\ proc \in [Caller -> Steps]
  /\ turn \in [Caller -> Turn]
  /\ \A p \in Caller : turn[p].at \in DOMAIN Order[p]
  /\ left \in [Caller -> Nat]
  /\ cancelled \subseteq Caller

\* p holds a probe permit that its breaker still knows.
Probes(p, q) ==
  Holds(p, q) /\ turn[p].permit.probe /\ turn[p].permit.generation = breaker[q].generation

\* A half open breaker sends one caller ahead: at most one holds a live probe
\* permit, and the breaker refuses the others exactly as long as one does
\* (acquire, finish, and every way out of the attempt's try block).
OneProbe ==
  \A q \in Provider :
    /\ \A p1, p2 \in Caller : Probes(p1, q) /\ Probes(p2, q) => p1 = p2
    /\ breaker[q].probe_inflight <=> \E p \in Caller : Probes(p, q)

\* "A stale completion cannot heal a newer breaker" (finish): a breaker that
\* closes, or counts a success towards it, does so by its own live probe.
HealedByProbe ==
  [][\A q \in Provider :
       (\/ breaker[q].state # "closed" /\ breaker'[q].state = "closed"
        \/ breaker'[q].successes > breaker[q].successes)
       => \E p \in Caller : Probes(p, q) /\ ~Holds(p, q)']_vars

\* A probe does not keep the others away for ever: no timeout guards it, so
\* each way an attempt can end has to return the permit.  The exception is a
\* probe that waits for capacity: that may last, but not beyond cancellation.
ProbeReturns ==
  \A q \in Provider :
    [](breaker[q].probe_inflight =>
         <>(\/ ~breaker[q].probe_inflight
            \/ \E p \in Caller \ cancelled : Probes(p, q) /\ proc[p] = "waiting"))
=============================================================================
