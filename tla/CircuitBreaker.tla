--------------------------- MODULE CircuitBreaker ---------------------------
(***************************************************************************)
(* The circuit breaker of one provider route (loop/provider_router.py).    *)
(* acquire() and finish() run under the breaker's lock, so each is an      *)
(* operator from the breaker to the next one.  The clock is one flag:      *)
(* cooled, raised when cooldown_seconds have passed since the breaker      *)
(* opened.                                                                 *)
(***************************************************************************)
EXTENDS Integers, Sequences, FiniteSets

CONSTANTS
  FailureThreshold,   \* consecutive failures that open the breaker
  SuccessThreshold,   \* probes that must succeed to close it
  MinRequests,        \* samples before the failure rate counts
  RatePercent,        \* failure rate that opens it, in percent
  WindowSize          \* samples kept

ASSUME BreakerAssumption ==
  /\ {FailureThreshold, SuccessThreshold, MinRequests, WindowSize} \subseteq Nat \ {0}
  /\ RatePercent \in 1 .. 100
  /\ MinRequests <= WindowSize

Breaker == [state : {"closed", "open", "half_open"},
            generation : Nat, failures : Nat, successes : Nat,
            samples : Seq(BOOLEAN), probe_inflight : BOOLEAN, cooled : BOOLEAN]
Permit == [generation : Nat, probe : BOOLEAN]

Closed == [state |-> "closed", generation |-> 0, failures |-> 0, successes |-> 0,
           samples |-> <<>>, probe_inflight |-> FALSE, cooled |-> FALSE]

\* acquire() first turns an open breaker that has cooled down half open.
Probing(b) ==
  IF b.state = "open" /\ b.cooled
    THEN [b EXCEPT !.state = "half_open", !.generation = @ + 1, !.successes = 0]
    ELSE b

\* Slip: callers are not kept away while a probe runs.
RefusesOpen(b) == Probing(b).state = "open"

Refuses(b) ==
  \/ Probing(b).state = "open"
  \/ Probing(b).state = "half_open" /\ b.probe_inflight

Acquired(b) ==
  IF Probing(b).state = "half_open"
    THEN [Probing(b) EXCEPT !.probe_inflight = TRUE]
    ELSE b

PermitOf(b) ==
  [generation |-> Probing(b).generation, probe |-> Probing(b).state = "half_open"]

\* deque(maxlen = window_size).append
Sampled(s, success) ==
  Append(IF Len(s) < WindowSize THEN s ELSE Tail(s), success)
TooManyFailed(s) ==
  /\ Len(s) >= MinRequests
  /\ 100 * Cardinality({i \in DOMAIN s : ~s[i]}) >= RatePercent * Len(s)

\* A success of a probe closes the breaker once enough probes succeeded.
AfterSuccess(b) ==
  LET c == [b EXCEPT !.samples = Sampled(@, TRUE), !.failures = 0]
  IN  IF b.state # "half_open" THEN c
      ELSE IF b.successes + 1 >= SuccessThreshold
        THEN [c EXCEPT !.state = "closed", !.generation = @ + 1,
                       !.successes = @ + 1, !.samples = <<>>]
        ELSE [c EXCEPT !.successes = @ + 1]

AfterFailure(b) ==
  LET c == [b EXCEPT !.samples = Sampled(@, FALSE), !.failures = @ + 1]
  IN  IF \/ b.state = "half_open"
         \/ c.failures >= FailureThreshold
         \/ TooManyFailed(c.samples)
        THEN [c EXCEPT !.state = "open", !.generation = @ + 1, !.cooled = FALSE,
                       !.probe_inflight = FALSE, !.successes = 0]
        ELSE c

\* Slip: the outcome counts for whatever generation the breaker has.
FinishedAnyGeneration(b, permit, outcome) ==
  LET c == IF permit.probe THEN [b EXCEPT !.probe_inflight = FALSE] ELSE b
  IN  CASE outcome = "none"    -> c
        [] outcome = "success" -> AfterSuccess(c)
        [] outcome = "failure" -> AfterFailure(c)

\* finish(): the outcome is "success", "failure" or "none".  A completion of
\* an older generation says nothing about this one.
Finished(b, permit, outcome) ==
  LET c == IF permit.probe THEN [b EXCEPT !.probe_inflight = FALSE] ELSE b
  IN  IF permit.generation # b.generation THEN b
      ELSE CASE outcome = "none"    -> c
             [] outcome = "success" -> AfterSuccess(c)
             [] outcome = "failure" -> AfterFailure(c)
=============================================================================
