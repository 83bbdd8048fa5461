----------------------- MODULE ProviderRouting_proofs -----------------------
(***************************************************************************)
(* What holds of ProviderRouting for every set of callers and routes and   *)
(* every setting of the breakers: its types, that a half open breaker lets *)
(* one probe through, and that only this probe heals it.                   *)
(*                                                                         *)
(* The argument is about generations.  A breaker takes a new generation    *)
(* whenever its state changes, so a permit of the current generation was   *)
(* given out in the current state: it is a probe permit exactly when the   *)
(* breaker is half open, and an open breaker has given out none.  Permits  *)
(* of older generations change nothing.                                    *)
(***************************************************************************)
EXTENDS ProviderRouting, SequenceTheorems, TLAPS

Outcomes == {"success", "failure", "none"}

\* A permit and the breaker it was taken from.
Fits(permit, b) ==
  /\ permit.generation <= b.generation
  /\ permit.generation = b.generation =>
       b.state # "open" /\ (permit.probe <=> b.state = "half_open")

PermitsFit ==
  \A p \in Caller, q \in Provider : Holds(p, q) => Fits(turn[p].permit, breaker[q])

InflightIsHalfOpen ==
  \A q \in Provider : breaker[q].probe_inflight => breaker[q].state = "half_open"

IInv == TypeOK /\ PermitsFit /\ InflightIsHalfOpen /\ OneProbe

-----------------------------------------------------------------------------
(* The operators of the breaker.                                           *)

\* A sample is appended, the oldest makes room (deque(maxlen = window_size)).
LEMMA SampledType ==
  ASSUME NEW s \in Seq(BOOLEAN), NEW x \in BOOLEAN
  PROVE  Sampled(s, x) \in Seq(BOOLEAN)
<1>1. CASE Len(s) < WindowSize
  BY <1>1 DEF Sampled
<1>2. CASE ~(Len(s) < WindowSize)
  <2>1. s # <<>>
    BY <1>2, BreakerAssumption
  <2>2. Tail(s) \in Seq(BOOLEAN)
    BY <2>1
  <2> QED
    BY <1>2, <2>2 DEF Sampled
<1> QED
  BY <1>1, <1>2

\* What a permit is when acquire() returns one, and what became of the
\* breaker: it stays, or it was open and takes a new generation.
LEMMA AcquireFacts ==
  ASSUME NEW b \in Breaker, ~Refuses(b), b.probe_inflight => b.state = "half_open"
  PROVE  /\ Acquired(b) \in Breaker
         /\ PermitOf(b) \in Permit
         /\ Fits(PermitOf(b), Acquired(b))
         /\ PermitOf(b).generation = Acquired(b).generation
         /\ ~b.probe_inflight
         /\ Acquired(b).probe_inflight <=> PermitOf(b).probe
         /\ Acquired(b).probe_inflight => Acquired(b).state = "half_open"
         /\ Acquired(b).successes <= b.successes
         /\ b.state # "closed" => Acquired(b).state # "closed"
         /\ \/ Acquired(b).generation = b.generation /\ Acquired(b).state = b.state
            \/ Acquired(b).generation = b.generation + 1
<1>1. CASE b.state = "open" /\ b.cooled
  <2> DEFINE g == b.generation + 1
             o == [b EXCEPT !.state = "half_open", !.generation = g, !.successes = 0]
  <2>1. Probing(b) = o
    BY <1>1 DEF Probing
  <2>2. g \in Nat /\ g = b.generation + 1
    BY DEF Breaker
  <2> HIDE DEF g
  <2>3. o \in Breaker /\ o.state = "half_open" /\ o.generation = g /\ o.successes = 0
    BY <2>2 DEF Breaker
  <2>4. Acquired(b) = [o EXCEPT !.probe_inflight = TRUE]
    BY <2>1, <2>3 DEF Acquired
  <2>5. PermitOf(b) = [generation |-> g, probe |-> TRUE]
    BY <2>1, <2>3 DEF PermitOf
  <2>6. ~b.probe_inflight
    BY <1>1
  <2> HIDE DEF o
  <2>7. /\ Acquired(b) \in Breaker /\ Acquired(b).state = "half_open"
        /\ Acquired(b).generation = g /\ Acquired(b).successes = 0
        /\ Acquired(b).probe_inflight = TRUE
    BY <2>3, <2>4 DEF Breaker
  <2>8. PermitOf(b) \in Permit /\ PermitOf(b).generation = g /\ PermitOf(b).probe = TRUE
    BY <2>2, <2>5 DEF Permit
  <2>9. b.successes \in Nat
    BY DEF Breaker
  <2> QED
    BY <1>1, <2>2, <2>6, <2>7, <2>8, <2>9 DEF Fits
<1>2. CASE ~(b.state = "open" /\ b.cooled)
  <2>1. Probing(b) = b
    BY <1>2 DEF Probing
  <2>2. b.state # "open" /\ ~b.probe_inflight
    BY <2>1 DEF Refuses, Breaker
  <2>3. b.generation \in Nat /\ b.successes \in Nat /\ b.state \in {"closed", "open", "half_open"}
    BY DEF Breaker
  <2>4. CASE b.state = "half_open"
    <3>1. Acquired(b) = [b EXCEPT !.probe_inflight = TRUE]
      BY <2>1, <2>4 DEF Acquired
    <3>2. PermitOf(b) = [generation |-> b.generation, probe |-> TRUE]
      BY <2>1, <2>4 DEF PermitOf
    <3>3. /\ Acquired(b) \in Breaker /\ Acquired(b).state = "half_open"
          /\ Acquired(b).generation = b.generation /\ Acquired(b).successes = b.successes
          /\ Acquired(b).probe_inflight = TRUE
      BY <2>4, <3>1 DEF Breaker
    <3>4. PermitOf(b) \in Permit /\ PermitOf(b).generation = b.generation /\ PermitOf(b).probe = TRUE
      BY <2>3, <3>2 DEF Permit
    <3> QED
      BY <2>2, <2>3, <2>4, <3>3, <3>4 DEF Fits
  <2>5. CASE b.state = "closed"
    <3>1. Acquired(b) = b
      BY <2>1, <2>5 DEF Acquired
    <3>2. PermitOf(b) = [generation |-> b.generation, probe |-> FALSE]
      BY <2>1, <2>5 DEF PermitOf
    <3>3. PermitOf(b) \in Permit /\ PermitOf(b).generation = b.generation /\ PermitOf(b).probe = FALSE
      BY <2>3, <3>2 DEF Permit
    <3> QED
      BY <2>2, <2>3, <2>5, <3>1, <3>3 DEF Fits
  <2> QED
    BY <2>2, <2>3, <2>4, <2>5
<1> QED
  BY <1>1, <1>2

\* What finish() makes of a breaker that the permit was taken from: nothing
\* if the permit is older, else it stays in its state and ends the probe, or
\* takes a new generation without a probe.
LEMMA FinishFacts ==
  ASSUME NEW b \in Breaker, NEW permit \in Permit, NEW outcome \in Outcomes,
         Fits(permit, b), b.probe_inflight => b.state = "half_open"
  PROVE  LET n == Finished(b, permit, outcome) IN
         /\ n \in Breaker
         /\ n.probe_inflight => n.state = "half_open"
         /\ permit.generation # b.generation => n = b
         /\ permit.generation = b.generation =>
              \/ /\ n.generation = b.generation /\ n.state = b.state
                 /\ n.probe_inflight <=> b.probe_inflight /\ ~permit.probe
              \/ n.generation = b.generation + 1 /\ ~n.probe_inflight
         /\ (b.state # "closed" /\ n.state = "closed") \/ n.successes > b.successes
              => permit.generation = b.generation /\ permit.probe
<1> DEFINE n == Finished(b, permit, outcome)
           c == IF permit.probe THEN [b EXCEPT !.probe_inflight = FALSE] ELSE b
<1>1. CASE permit.generation # b.generation
  BY <1>1 DEF Finished, Breaker
<1>2. CASE permit.generation = b.generation
  <2>1. /\ c \in Breaker /\ c.generation = b.generation /\ c.state = b.state
        /\ c.successes = b.successes /\ c.samples = b.samples
        /\ c.probe_inflight <=> b.probe_inflight /\ ~permit.probe
    BY DEF Breaker
  <2>2. b.state # "open" /\ (permit.probe <=> b.state = "half_open")
    BY <1>2 DEF Fits
  <2>3. ~c.probe_inflight
    BY <2>1, <2>2
  <2> HIDE DEF c
  <2>4. CASE outcome = "none"
    <3>1. n = c
      BY <1>2, <2>4 DEF Finished, c
    <3> QED
      BY <1>2, <2>1, <2>2, <2>3, <3>1 DEF Breaker
  <2>5. CASE outcome = "success"
    <3>1. n = AfterSuccess(c)
      BY <1>2, <2>5 DEF Finished, c
    <3>2. Sampled(c.samples, TRUE) \in Seq(BOOLEAN)
      BY <2>1, SampledType DEF Breaker
    <3> DEFINE d == [c EXCEPT !.samples = Sampled(@, TRUE), !.failures = 0]
               g == d.generation + 1
               k == d.successes + 1
    <3>3. /\ d \in Breaker /\ d.generation = c.generation /\ d.state = c.state
          /\ d.successes = c.successes /\ d.probe_inflight = c.probe_inflight
      BY <2>1, <3>2 DEF Breaker
    <3>4. n = IF c.state # "half_open" THEN d
              ELSE IF c.successes + 1 >= SuccessThreshold
                THEN [d EXCEPT !.state = "closed", !.generation = g,
                               !.successes = k, !.samples = <<>>]
                ELSE [d EXCEPT !.successes = k]
      BY <3>1 DEF AfterSuccess
    <3> HIDE DEF d, n
    <3>5. /\ <<>> \in Seq(BOOLEAN) /\ g \in Nat /\ k \in Nat
          /\ g = c.generation + 1 /\ k = c.successes + 1
      BY <3>3 DEF Breaker
    <3>6. b.generation \in Nat /\ b.successes \in Nat
      BY DEF Breaker
    <3> HIDE DEF g, k
    <3>7. CASE c.state # "half_open"
      <4>1. n = d
        BY <3>4, <3>7
      <4> QED
        BY <1>2, <2>1, <2>2, <2>3, <3>3, <3>6, <4>1 DEF n
    <3>8. CASE c.state = "half_open" /\ c.successes + 1 >= SuccessThreshold
      <4>1. n = [d EXCEPT !.state = "closed", !.generation = g,
                          !.successes = k, !.samples = <<>>]
        BY <3>4, <3>8
      <4>2. /\ n \in Breaker /\ n.generation = g /\ n.state = "closed"
            /\ ~n.probe_inflight
        BY <4>1, <2>3, <3>3, <3>5 DEF Breaker
      <4> QED
        BY <1>2, <2>1, <2>2, <3>5, <3>8, <3>6, <4>2 DEF n
    <3>9. CASE c.state = "half_open" /\ ~(c.successes + 1 >= SuccessThreshold)
      <4>1. n = [d EXCEPT !.successes = k]
        BY <3>4, <3>9
      <4>2. /\ n \in Breaker /\ n.generation = b.generation /\ n.state = b.state
            /\ ~n.probe_inflight
        BY <4>1, <2>1, <2>3, <3>3, <3>5 DEF Breaker
      <4> QED
        BY <1>2, <2>1, <2>2, <2>3, <3>9, <3>6, <4>2 DEF n
    <3> QED
      BY <3>7, <3>8, <3>9
  <2>6. CASE outcome = "failure"
    <3>1. n = AfterFailure(c)
      BY <1>2, <2>6 DEF Finished, c
    <3>2. Sampled(c.samples, FALSE) \in Seq(BOOLEAN)
      BY <2>1, SampledType DEF Breaker
    <3> DEFINE f == c.failures + 1
               d == [c EXCEPT !.samples = Sampled(@, FALSE), !.failures = f]
               g == d.generation + 1
               o == [d EXCEPT !.state = "open", !.generation = g, !.cooled = FALSE,
                              !.probe_inflight = FALSE, !.successes = 0]
    <3>3. b.generation \in Nat /\ b.successes \in Nat /\ f \in Nat
      BY <2>1 DEF Breaker
    <3>4. /\ d \in Breaker /\ d.generation = c.generation /\ d.state = c.state
          /\ d.successes = c.successes /\ d.probe_inflight = c.probe_inflight
      <4> HIDE DEF f
      <4> QED
        BY <2>1, <3>2, <3>3 DEF Breaker
    <3>5. n = o \/ n = d
      BY <3>1 DEF AfterFailure
    <3>6. c.state = "half_open" => n = o
      BY <3>1 DEF AfterFailure
    <3> HIDE DEF d
    <3>7. g \in Nat /\ g = b.generation + 1
      BY <2>1, <3>4 DEF Breaker
    <3> HIDE DEF g
    <3>8. /\ o \in Breaker /\ o.generation = g /\ o.state = "open"
          /\ ~o.probe_inflight /\ o.successes = 0
      BY <3>4, <3>7 DEF Breaker
    <3> HIDE DEF o, n
    <3>9. CASE n = o
      BY <1>2, <3>8, <3>9, <3>3, <3>7 DEF n
    <3>10. CASE n = d
      BY <1>2, <2>1, <2>2, <2>3, <3>4, <3>6, <3>10, <3>3 DEF n
    <3> QED
      BY <3>5, <3>9, <3>10
  <2> QED
    BY <2>4, <2>5, <2>6 DEF Outcomes
<1> QED
  BY <1>1, <1>2

-----------------------------------------------------------------------------
(* What the actions do, as the invariant sees them.                        *)

LEMMA RouteType ==
  ASSUME TypeOK, NEW p \in Caller
  PROVE  Route(p) \in Provider
BY CallerAssumption DEF TypeOK, Route

LEMMA NewTurnType ==
  ASSUME NEW p \in Caller, NEW m \in {"stream", "chat"}, NEW r \in BOOLEAN
  PROVE  /\ NewTurn \in Turn
         /\ [NewTurn EXCEPT !.mode = m, !.recovered = r] \in Turn
         /\ [NewTurn EXCEPT !.mode = m, !.recovered = r].at = 1
         /\ NewTurn.at = 1
         /\ 1 \in DOMAIN Order[p]
<1>1. NoPermit \in Permit
  BY DEF NoPermit, Permit
<1>2. 1 \in DOMAIN Order[p]
  BY CallerAssumption
<1>3. NewTurn \in Turn /\ NewTurn.at = 1
  BY <1>1 DEF NewTurn, Turn
<1>4. /\ [NewTurn EXCEPT !.mode = m, !.recovered = r] \in Turn
      /\ [NewTurn EXCEPT !.mode = m, !.recovered = r].at = 1
  BY <1>3 DEF Turn
<1> QED
  BY <1>2, <1>3, <1>4

\* After the step the thread of p holds no permit; no other caller moved.
Leaves(p) ==
  /\ proc' \in [Caller -> Steps]
  /\ turn' \in [Caller -> Turn]
  /\ \A r \in Caller : turn'[r].at \in DOMAIN Order[r]
  /\ proc'[p] \notin InCall
  /\ \A r \in Caller \ {p} : proc'[r] = proc[r] /\ turn'[r] = turn[r]

\* The same, while p returns its permit.
Finishes(p) ==
  /\ proc[p] \in InCall
  /\ \E outcome \in Outcomes : Finish(p, outcome)
  /\ Leaves(p)
  /\ UNCHANGED <<left, cancelled>>

\* Breakers, permits and who holds them stay.
Keeps ==
  /\ breaker' = breaker
  /\ \A r \in Caller :
       /\ proc'[r] \in InCall <=> proc[r] \in InCall
       /\ proc[r] \in InCall => turn'[r].permit = turn[r].permit /\ turn'[r].at = turn[r].at

LEMMA EndTurnLeaves ==
  ASSUME TypeOK, NEW p \in Caller, NEW step \in {"idle", "route", "ended"}, EndTurn(p, step)
  PROVE  Leaves(p)
BY NewTurnType DEF TypeOK, EndTurn, Goto, Leaves, Steps, InCall

LEMMA RestartLeaves ==
  ASSUME TypeOK, NEW p \in Caller, NEW m \in {"stream", "chat"}, NEW r \in BOOLEAN, Restart(p, m, r)
  PROVE  Leaves(p)
<1>1. turn' = [turn EXCEPT ![p] = [NewTurn EXCEPT !.mode = m, !.recovered = r]]
  BY DEF Restart
<1>2. proc' = [proc EXCEPT ![p] = "route"]
  BY DEF Restart, Goto
<1> QED
  BY <1>1, <1>2, NewTurnType DEF TypeOK, Leaves, Steps, InCall

LEMMA NextRouteLeaves ==
  ASSUME TypeOK, NEW p \in Caller, NextRoute(p)
  PROVE  Leaves(p)
<1>1. CASE turn[p].at < Len(Order[p])
  <2> DEFINE n == turn[p].at + 1
             t == [turn[p] EXCEPT !.at = n, !.permit = NoPermit, !.reduced = FALSE]
  <2>1. turn' = [turn EXCEPT ![p] = t]
    BY <1>1 DEF NextRoute, TypeOK
  <2>2. n \in DOMAIN Order[p] /\ n \in Nat \ {0}
    BY <1>1, CallerAssumption DEF TypeOK, Turn
  <2>3. NoPermit \in Permit
    BY DEF NoPermit, Permit
  <2> HIDE DEF n
  <2>4. t \in Turn /\ t.at = n
    BY <2>2, <2>3 DEF TypeOK, Turn
  <2>5. proc' = [proc EXCEPT ![p] = "route"]
    BY <1>1 DEF NextRoute, Goto
  <2> HIDE DEF t
  <2> QED
    BY <2>1, <2>2, <2>4, <2>5 DEF TypeOK, Leaves, Steps, InCall
<1>2. CASE ~(turn[p].at < Len(Order[p]))
  BY <1>2, EndTurnLeaves DEF NextRoute
<1> QED
  BY <1>1, <1>2

\* Every way out of an attempt's try block returns the permit.
LEMMA WaysOut ==
  ASSUME TypeOK, NEW p \in Caller,
         \/ Refused(p) \/ Failover(p) \/ Rejected(p)
         \/ Interrupted(p) \/ CutOff(p) \/ Complete(p)
  PROVE  Finishes(p)
<1>1. turn[p].recovered \in BOOLEAN
  BY DEF TypeOK, Turn
<1>2. Recover(p) => Leaves(p)
  BY RestartLeaves DEF Recover
<1>3. CASE Refused(p)
  BY <1>3, EndTurnLeaves DEF Refused, Finishes, Outcomes, InCall
<1>4. CASE Failover(p)
  BY <1>4, NextRouteLeaves DEF Failover, Finishes, Outcomes, InCall
<1>5. CASE Rejected(p)
  <2>1. Leaves(p)
    BY <1>1, <1>2, <1>5, EndTurnLeaves, RestartLeaves DEF Rejected
  <2> QED
    BY <1>5, <2>1 DEF Rejected, Finishes, Outcomes, InCall
<1>6. CASE Interrupted(p)
  BY <1>2, <1>6, EndTurnLeaves DEF Interrupted, Finishes, Outcomes, InCall
<1>7. CASE CutOff(p)
  BY <1>7, EndTurnLeaves DEF CutOff, Finishes, Outcomes, InCall
<1>8. CASE Complete(p)
  BY <1>8, EndTurnLeaves DEF Complete, Finishes, Outcomes, InCall
<1> QED
  BY <1>3, <1>4, <1>5, <1>6, <1>7, <1>8

\* A caller that takes no permit and returns none.
LEMMA OthersKeep ==
  ASSUME TypeOK, NEW p \in Caller,
         \/ StartTurn(p) \/ Abandon(p) \/ Skip(p)
         \/ Charge(p) \/ AwaitEscrow(p) \/ EscrowMoves(p)
         \/ Reduced(p) \/ Observe(p) \/ Cancel(p)
  PROVE  TypeOK' /\ Keeps
<1>1. CASE StartTurn(p)
  BY <1>1 DEF StartTurn, Goto, TypeOK, Keeps, Steps, InCall
<1>2. CASE Abandon(p)
  <2>1. Leaves(p)
    BY <1>2, EndTurnLeaves DEF Abandon
  <2> QED
    BY <1>2, <2>1 DEF Abandon, Leaves, TypeOK, Keeps, InCall
<1>3. CASE Skip(p)
  <2>1. Leaves(p)
    BY <1>3, NextRouteLeaves DEF Skip
  <2> QED
    BY <1>3, <2>1 DEF Skip, Leaves, TypeOK, Keeps, InCall
<1>4. CASE Charge(p)
  BY <1>4 DEF Charge, Goto, TypeOK, Keeps, Steps, InCall
<1>5. CASE Reduced(p)
  <2> DEFINE t == [turn[p] EXCEPT !.reduced = TRUE]
  <2>1. turn' = [turn EXCEPT ![p] = t]
    BY <1>5 DEF Reduced, TypeOK
  <2>2. t \in Turn /\ t.at = turn[p].at /\ t.permit = turn[p].permit
    BY DEF TypeOK, Turn
  <2> HIDE DEF t
  <2> QED
    BY <1>5, <2>1, <2>2 DEF Reduced, Goto, TypeOK, Keeps, Steps, InCall
<1>6. CASE Observe(p)
  BY <1>6 DEF Observe, Goto, TypeOK, Keeps, Steps, InCall
<1>7. CASE Cancel(p)
  BY <1>7 DEF Cancel, TypeOK, Keeps
<1>8. CASE AwaitEscrow(p)
  BY <1>8 DEF AwaitEscrow, Goto, TypeOK, Keeps, Steps, InCall
<1>9. CASE EscrowMoves(p)
  <2>1. left' \in [Caller -> Nat]
    BY <1>9 DEF EscrowMoves, TypeOK
  <2> QED
    BY <1>9, <2>1 DEF EscrowMoves, Goto, TypeOK, Keeps, Steps, InCall
<1> QED
  BY <1>1, <1>2, <1>3, <1>4, <1>5, <1>6, <1>7, <1>8, <1>9

-----------------------------------------------------------------------------
(* The invariant.                                                          *)

LEMMA IInvInit == Init => IInv
<1> SUFFICES ASSUME Init PROVE IInv
  OBVIOUS
<1>1. Closed \in Breaker /\ ~Closed.probe_inflight
  BY DEF Closed, Breaker
<1>2. \A p \in Caller : NewTurn \in Turn /\ NewTurn.at \in DOMAIN Order[p]
  BY NewTurnType
<1>3. TypeOK
  BY <1>1, <1>2, CallerAssumption DEF Init, TypeOK, Steps
<1>4. \A p \in Caller, q \in Provider : ~Holds(p, q)
  BY DEF Init, Holds, InCall
<1> QED
  BY <1>1, <1>3, <1>4 DEF IInv, PermitsFit, InflightIsHalfOpen, OneProbe, Probes, Init

LEMMA KeepsInv ==
  ASSUME IInv, TypeOK', Keeps
  PROVE  IInv'
<1>1. \A p \in Caller, q \in Provider :
        /\ Holds(p, q)' <=> Holds(p, q)
        /\ Holds(p, q) => turn'[p].permit = turn[p].permit
  BY DEF Keeps, Holds, Route
<1>2. \A p \in Caller, q \in Provider : Probes(p, q)' <=> Probes(p, q)
  BY <1>1 DEF Keeps, Probes
<1>3. PermitsFit'
  BY <1>1 DEF Keeps, IInv, PermitsFit
<1>4. InflightIsHalfOpen' /\ OneProbe'
  BY <1>2 DEF Keeps, IInv, InflightIsHalfOpen, OneProbe
<1> QED
  BY <1>3, <1>4 DEF IInv

\* A new permit: nobody probed the route before, and every other permit of it
\* is older unless the breaker is closed.
LEMMA AcquireInv ==
  ASSUME IInv, NEW p \in Caller, Acquire(p)
  PROVE  IInv'
<1>0. PICK o \in Provider : o = Route(p)
  BY RouteType DEF IInv
<1> DEFINE b == breaker[o]
           n == Acquired(b)
           g == PermitOf(b)
<1>1. o \in Provider /\ b \in Breaker /\ (b.probe_inflight => b.state = "half_open")
  BY DEF IInv, TypeOK, InflightIsHalfOpen
<1>2. /\ breaker' = [breaker EXCEPT ![o] = n]
      /\ turn' = [turn EXCEPT ![p].permit = g]
      /\ proc' = [proc EXCEPT ![p] = "charge"]
      /\ proc[p] = "route" /\ UNCHANGED <<left, cancelled>>
      /\ ~Refuses(b)
  BY <1>0 DEF Acquire, Goto
<1> HIDE DEF b
<1>3. /\ n \in Breaker /\ g \in Permit /\ Fits(g, n) /\ g.generation = n.generation
      /\ ~b.probe_inflight
      /\ n.probe_inflight <=> g.probe
      /\ n.probe_inflight => n.state = "half_open"
      /\ \/ n.generation = b.generation /\ n.state = b.state
         \/ n.generation = b.generation + 1
  BY <1>1, <1>2, AcquireFacts
<1> HIDE DEF n, g
<1>4. /\ turn' \in [Caller -> Turn]
      /\ turn'[p].permit = g /\ turn'[p].at = turn[p].at
      /\ \A r \in Caller \ {p} : turn'[r] = turn[r]
  <2> DEFINE t == [turn[p] EXCEPT !.permit = g]
  <2>1. turn' = [turn EXCEPT ![p] = t]
    BY <1>2 DEF IInv, TypeOK
  <2>2. t \in Turn /\ t.permit = g /\ t.at = turn[p].at
    BY <1>3 DEF IInv, TypeOK, Turn
  <2> HIDE DEF t
  <2> QED
    BY <2>1, <2>2 DEF IInv, TypeOK
<1>5. TypeOK'
  BY <1>1, <1>2, <1>3, <1>4 DEF IInv, TypeOK, Steps, InCall
<1>6. \A r \in Caller, q \in Provider :
        Holds(r, q)' <=> IF r = p THEN q = o ELSE Holds(r, q)
  BY <1>0, <1>2, <1>4 DEF Holds, Route, IInv, TypeOK, InCall
<1>7. breaker'[o] = n /\ \A q \in Provider \ {o} : breaker'[q] = breaker[q]
  BY <1>1, <1>2 DEF IInv, TypeOK
<1>8. ~Holds(p, o)
  BY <1>2 DEF Holds, InCall
<1>9. \A r \in Caller : Holds(r, o) => Fits(turn[r].permit, b) /\ ~Probes(r, o)
  BY <1>1, <1>3 DEF IInv, PermitsFit, OneProbe, b
<1>10. b.generation \in Nat /\ n.generation \in Nat
  BY <1>1, <1>3 DEF Breaker
<1>11. \A r \in Caller : turn[r].permit.generation \in Nat
  BY DEF IInv, TypeOK, Turn, Permit
<1>12. \A r \in Caller \ {p} : Holds(r, o) => Fits(turn[r].permit, n)
  BY <1>3, <1>9, <1>10, <1>11 DEF Fits
<1>13. PermitsFit'
  BY <1>3, <1>4, <1>6, <1>7, <1>12 DEF IInv, PermitsFit
<1>14. \A q \in Provider \ {o}, r \in Caller : Probes(r, q)' <=> Probes(r, q)
  BY <1>0, <1>4, <1>6, <1>7, <1>8 DEF Probes, Holds
<1>15. Probes(p, o)' <=> g.probe
  BY <1>1, <1>3, <1>4, <1>6, <1>7 DEF Probes
<1>16. \A r \in Caller \ {p} : ~Probes(r, o)'
  <2> SUFFICES ASSUME NEW r \in Caller \ {p}, Probes(r, o)' PROVE FALSE
    OBVIOUS
  <2>1. Holds(r, o) /\ turn[r].permit.probe /\ turn[r].permit.generation = n.generation
    BY <1>1, <1>4, <1>6, <1>7 DEF Probes
  <2>2. Fits(turn[r].permit, b) /\ ~Probes(r, o)
    BY <1>9, <2>1
  <2>3. n.generation = b.generation
    BY <1>3, <1>10, <1>11, <2>1, <2>2 DEF Fits
  <2> QED
    BY <2>1, <2>2, <2>3 DEF Probes, b
<1>17. InflightIsHalfOpen' /\ OneProbe'
  <2>1. InflightIsHalfOpen'
    BY <1>3, <1>7 DEF IInv, InflightIsHalfOpen
  <2>2. ASSUME NEW q \in Provider, q # o
        PROVE  /\ \A p1, p2 \in Caller : Probes(p1, q)' /\ Probes(p2, q)' => p1 = p2
               /\ breaker'[q].probe_inflight <=> \E r \in Caller : Probes(r, q)'
    BY <1>7, <1>14, <2>2 DEF IInv, OneProbe
  <2>3. /\ \A p1, p2 \in Caller : Probes(p1, o)' /\ Probes(p2, o)' => p1 = p2
        /\ breaker'[o].probe_inflight <=> \E r \in Caller : Probes(r, o)'
    BY <1>3, <1>7, <1>15, <1>16
  <2>4. ASSUME NEW q \in Provider
        PROVE  /\ \A p1, p2 \in Caller : Probes(p1, q)' /\ Probes(p2, q)' => p1 = p2
               /\ breaker'[q].probe_inflight <=> \E r \in Caller : Probes(r, q)'
    BY <2>2, <2>3
  <2> QED
    BY <2>1, <2>4 DEF OneProbe
<1> QED
  BY <1>5, <1>13, <1>17 DEF IInv

\* A returned permit: if it is older than the breaker nothing happens; else
\* the probe it was is over, or the breaker takes a new generation.
LEMMA FinishInv ==
  ASSUME IInv, NEW p \in Caller, Finishes(p)
  PROVE  /\ IInv'
         /\ \A q \in Provider :
              (\/ breaker[q].state # "closed" /\ breaker'[q].state = "closed"
               \/ breaker'[q].successes > breaker[q].successes)
              => Probes(p, q) /\ ~Holds(p, q)'
<1>1. PICK o \in Provider : o = Route(p)
  BY RouteType DEF IInv
<1>2. PICK outcome \in Outcomes : Finish(p, outcome)
  BY DEF Finishes
<1> DEFINE b == breaker[o]
           g == turn[p].permit
           n == Finished(b, g, outcome)
<1>3. Holds(p, o)
  BY <1>1 DEF Finishes, Holds
<1>4. /\ b \in Breaker /\ g \in Permit /\ Fits(g, b)
      /\ b.probe_inflight => b.state = "half_open"
  BY <1>3 DEF IInv, TypeOK, Turn, PermitsFit, InflightIsHalfOpen
<1>5. breaker' = [breaker EXCEPT ![o] = n]
  BY <1>1, <1>2 DEF Finish
<1> HIDE DEF b, g
<1>6. /\ n \in Breaker
      /\ n.probe_inflight => n.state = "half_open"
      /\ g.generation # b.generation => n = b
      /\ g.generation = b.generation =>
           \/ /\ n.generation = b.generation /\ n.state = b.state
              /\ n.probe_inflight <=> b.probe_inflight /\ ~g.probe
           \/ n.generation = b.generation + 1 /\ ~n.probe_inflight
      /\ (b.state # "closed" /\ n.state = "closed") \/ n.successes > b.successes
           => g.generation = b.generation /\ g.probe
  BY <1>4, FinishFacts
<1> HIDE DEF n
<1>7. breaker'[o] = n /\ \A q \in Provider \ {o} : breaker'[q] = breaker[q]
  BY <1>5 DEF IInv, TypeOK
<1>8. TypeOK'
  BY <1>5, <1>6 DEF Finishes, Leaves, IInv, TypeOK
<1>9. \A r \in Caller, q \in Provider : Holds(r, q)' <=> r # p /\ Holds(r, q)
  BY DEF Finishes, Leaves, Holds, Route
<1>10. \A r \in Caller \ {p} : turn'[r] = turn[r]
  BY DEF Finishes, Leaves
<1>11. /\ b.generation \in Nat /\ n.generation \in Nat
       /\ \A r \in Caller : turn[r].permit.generation \in Nat
  BY <1>4, <1>6 DEF Breaker, IInv, TypeOK, Turn, Permit
<1>12. \A r \in Caller : Holds(r, o) => Fits(turn[r].permit, b)
  BY DEF IInv, PermitsFit, b
<1>13. \A r \in Caller : Holds(r, o) => Fits(turn[r].permit, n)
  BY <1>6, <1>11, <1>12 DEF Fits
<1>14. PermitsFit'
  BY <1>7, <1>9, <1>10, <1>13 DEF IInv, PermitsFit
<1>15. InflightIsHalfOpen'
  BY <1>6, <1>7 DEF IInv, InflightIsHalfOpen
<1>16. \A q \in Provider \ {o}, r \in Caller : Probes(r, q)' <=> Probes(r, q)
  BY <1>1, <1>7, <1>9, <1>10 DEF Probes, Holds
<1>17. \A r \in Caller :
         Probes(r, o)' <=> /\ r # p
                           /\ Holds(r, o) /\ turn[r].permit.probe
                           /\ turn[r].permit.generation = n.generation
  BY <1>7, <1>9, <1>10 DEF Probes
<1>18. \A r \in Caller :
         Probes(r, o) <=> /\ Holds(r, o) /\ turn[r].permit.probe
                          /\ turn[r].permit.generation = b.generation
  BY DEF Probes, b
<1>19. /\ \A r1, r2 \in Caller : Probes(r1, o) /\ Probes(r2, o) => r1 = r2
       /\ b.probe_inflight <=> \E r \in Caller : Probes(r, o)
  BY DEF IInv, OneProbe, b
<1>20. g = turn[p].permit
  BY DEF g
<1>21. /\ \A r1, r2 \in Caller : Probes(r1, o)' /\ Probes(r2, o)' => r1 = r2
       /\ n.probe_inflight <=> \E r \in Caller : Probes(r, o)'
  <2>1. CASE g.generation # b.generation
    <3>1. n = b /\ ~Probes(p, o)
      BY <1>6, <1>18, <1>20, <2>1
    <3>2. \A r \in Caller : Probes(r, o)' <=> Probes(r, o)
      BY <1>17, <1>18, <3>1
    <3> QED
      BY <1>19, <3>1, <3>2
  <2>2. CASE g.generation = b.generation /\ n.generation = b.generation + 1
    <3>1. ~n.probe_inflight
      BY <1>6, <1>11, <2>2
    <3>2. \A r \in Caller : ~Probes(r, o)'
      BY <1>11, <1>12, <1>17, <2>2 DEF Fits
    <3> QED
      BY <3>1, <3>2
  <2>3. CASE g.generation = b.generation /\ n.generation # b.generation + 1
    <3>1. n.generation = b.generation /\ (n.probe_inflight <=> b.probe_inflight /\ ~g.probe)
      BY <1>6, <2>3
    <3>2. \A r \in Caller : Probes(r, o)' <=> Probes(r, o) /\ r # p
      BY <1>17, <1>18, <3>1
    <3>3. Probes(p, o) <=> g.probe
      BY <1>3, <1>18, <1>20, <2>3
    <3> QED
      BY <1>19, <3>1, <3>2, <3>3
  <2> QED
    BY <2>1, <2>2, <2>3
<1>22. OneProbe'
  <2>1. ASSUME NEW q \in Provider, q # o
        PROVE  /\ \A p1, p2 \in Caller : Probes(p1, q)' /\ Probes(p2, q)' => p1 = p2
               /\ breaker'[q].probe_inflight <=> \E r \in Caller : Probes(r, q)'
    BY <1>7, <1>16, <2>1 DEF IInv, OneProbe
  <2>2. ASSUME NEW q \in Provider
        PROVE  /\ \A p1, p2 \in Caller : Probes(p1, q)' /\ Probes(p2, q)' => p1 = p2
               /\ breaker'[q].probe_inflight <=> \E r \in Caller : Probes(r, q)'
    BY <1>7, <1>21, <2>1
  <2> QED
    BY <2>2 DEF OneProbe
<1>23. ASSUME NEW q \in Provider,
              \/ breaker[q].state # "closed" /\ breaker'[q].state = "closed"
              \/ breaker'[q].successes > breaker[q].successes
       PROVE  Probes(p, q) /\ ~Holds(p, q)'
  <2>1. q = o
    <3>1. ASSUME q # o PROVE FALSE
      <4>1. breaker'[q] = breaker[q] /\ breaker[q].successes \in Nat
        BY <1>7, <3>1 DEF IInv, TypeOK, Breaker
      <4> QED
        BY <1>23, <4>1
    <3> QED
      BY <3>1
  <2>2. g.generation = b.generation /\ g.probe
    BY <1>6, <1>7, <1>23, <2>1 DEF b
  <2> QED
    BY <1>3, <1>9, <1>18, <1>20, <2>1, <2>2
<1> QED
  BY <1>8, <1>14, <1>15, <1>22, <1>23 DEF IInv

\* The clock touches neither state, generation nor probe.
LEMMA CoolInv ==
  ASSUME IInv, NEW o \in Provider, Cool(o)
  PROVE  /\ IInv'
         /\ \A q \in Provider : /\ breaker'[q].state = breaker[q].state
                               /\ breaker'[q].successes = breaker[q].successes
<1>1. \A q \in Provider :
        /\ breaker'[q] \in Breaker
        /\ breaker'[q].state = breaker[q].state
        /\ breaker'[q].generation = breaker[q].generation
        /\ breaker'[q].successes = breaker[q].successes
        /\ breaker'[q].probe_inflight = breaker[q].probe_inflight
  BY DEF Cool, IInv, TypeOK, Breaker
<1>2. TypeOK'
  BY <1>1 DEF Cool, IInv, TypeOK
<1>3. \A p \in Caller, q \in Provider :
        /\ Holds(p, q)' <=> Holds(p, q)
        /\ Probes(p, q)' <=> Probes(p, q)
  BY <1>1 DEF Cool, Holds, Route, Probes
<1>4. PermitsFit'
  BY <1>1, <1>3 DEF Cool, IInv, PermitsFit, Fits
<1>5. InflightIsHalfOpen' /\ OneProbe'
  BY <1>1, <1>3 DEF IInv, InflightIsHalfOpen, OneProbe
<1> QED
  BY <1>1, <1>2, <1>4, <1>5 DEF IInv

LEMMA IInvNext == IInv /\ [Next]_vars => IInv'
<1> SUFFICES ASSUME IInv, [Next]_vars PROVE IInv'
  OBVIOUS
<1>1. ASSUME NEW p \in Caller, Acquire(p) PROVE IInv'
  BY <1>1, AcquireInv
<1>2. ASSUME NEW p \in Caller,
             \/ Refused(p) \/ Failover(p) \/ Rejected(p)
             \/ Interrupted(p) \/ CutOff(p) \/ Complete(p)
      PROVE  IInv'
  BY <1>2, WaysOut, FinishInv DEF IInv
<1>3. ASSUME NEW p \in Caller,
             \/ StartTurn(p) \/ Abandon(p) \/ Skip(p)
             \/ Charge(p) \/ AwaitEscrow(p) \/ EscrowMoves(p)
             \/ Reduced(p) \/ Observe(p) \/ Cancel(p)
      PROVE  IInv'
  BY <1>3, OthersKeep, KeepsInv DEF IInv
<1>4. ASSUME NEW q \in Provider, Cool(q) PROVE IInv'
  BY <1>4, CoolInv
<1>5. ASSUME UNCHANGED vars PROVE IInv'
  <2>1. TypeOK' /\ Keeps
    BY <1>5 DEF IInv, TypeOK, Keeps, vars
  <2> QED
    BY <2>1, KeepsInv
<1> QED
  BY <1>1, <1>2, <1>3, <1>4, <1>5 DEF Next, CallStep

-----------------------------------------------------------------------------
(* The theorems.                                                           *)

\* Every variable stays in its domain (CircuitBreaker, RoutedProvider).
THEOREM TypeCorrect == Spec => []TypeOK
<1>1. IInv => TypeOK
  BY DEF IInv
<1> QED
  BY IInvInit, IInvNext, <1>1, PTL DEF Spec

\* A half open breaker lets exactly one probe through and refuses the others
\* no longer than that probe is out, for any number of callers.
THEOREM OneProbeHolds == Spec => []OneProbe
<1>1. IInv => OneProbe
  BY DEF IInv
<1> QED
  BY IInvInit, IInvNext, <1>1, PTL DEF Spec

\* A stale completion cannot heal a newer breaker (CircuitBreaker.finish).
THEOREM HealedByProbeHolds == Spec => HealedByProbe
<1> DEFINE Heals(q) == \/ breaker[q].state # "closed" /\ breaker'[q].state = "closed"
                       \/ breaker'[q].successes > breaker[q].successes
           A == \A q \in Provider : Heals(q) => \E p \in Caller : Probes(p, q) /\ ~Holds(p, q)'
<1>1. ASSUME IInv, [Next]_vars PROVE [A]_vars
  <2>1. \A q \in Provider : breaker[q].successes \in Nat
    BY <1>1 DEF IInv, TypeOK, Breaker
  <2>2. ASSUME NEW p \in Caller, Acquire(p) PROVE A
    <3>1. PICK o \in Provider : o = Route(p)
      BY <1>1, RouteType DEF IInv
    <3>2. breaker' = [breaker EXCEPT ![o] = Acquired(breaker[o])] /\ ~Refuses(breaker[o])
      BY <2>2, <3>1 DEF Acquire
    <3>3. /\ breaker[o] \in Breaker
          /\ breaker[o].probe_inflight => breaker[o].state = "half_open"
      BY <1>1 DEF IInv, TypeOK, InflightIsHalfOpen
    <3>4. /\ Acquired(breaker[o]) \in Breaker
          /\ Acquired(breaker[o]).successes <= breaker[o].successes
          /\ breaker[o].state # "closed" => Acquired(breaker[o]).state # "closed"
      BY <3>2, <3>3, AcquireFacts
    <3>5. Acquired(breaker[o]).successes \in Nat
      BY <3>4 DEF Breaker
    <3>6. ASSUME NEW q \in Provider PROVE ~Heals(q)
      <4>1. CASE q = o
        <5>1. breaker'[q] = Acquired(breaker[o])
          BY <1>1, <3>2, <4>1 DEF IInv, TypeOK
        <5> QED
          BY <2>1, <3>4, <3>5, <4>1, <5>1
      <4>2. CASE q # o
        <5>1. breaker'[q] = breaker[q]
          BY <1>1, <3>2, <4>2 DEF IInv, TypeOK
        <5> QED
          BY <2>1, <5>1
      <4> QED
        BY <4>1, <4>2
    <3> QED
      BY <3>6
  <2>3. ASSUME NEW p \in Caller,
               \/ Refused(p) \/ Failover(p) \/ Rejected(p)
               \/ Interrupted(p) \/ CutOff(p) \/ Complete(p)
        PROVE  A
    <3>1. Finishes(p)
      BY <1>1, <2>3, WaysOut DEF IInv
    <3> QED
      BY <1>1, <3>1, FinishInv
  <2>4. ASSUME breaker' = breaker PROVE A
    BY <2>1, <2>4
  <2>5. ASSUME NEW p \in Caller,
               \/ StartTurn(p) \/ Abandon(p) \/ Skip(p)
               \/ Charge(p) \/ AwaitEscrow(p) \/ EscrowMoves(p)
               \/ Reduced(p) \/ Observe(p) \/ Cancel(p)
        PROVE  breaker' = breaker
    BY <1>1, <2>5, OthersKeep DEF IInv, Keeps
  <2>6. ASSUME NEW q \in Provider, Cool(q) PROVE A
    <3>1. \A r \in Provider : /\ breaker'[r].state = breaker[r].state
                              /\ breaker'[r].successes = breaker[r].successes
      BY <1>1, <2>6, CoolInv
    <3> QED
      BY <2>1, <3>1
  <2>7. Next => A
    BY <2>2, <2>3, <2>4, <2>5, <2>6 DEF Next, CallStep
  <2> QED
    BY <1>1, <2>7
<1>2. IInv /\ [Next]_vars => [A]_vars
  BY <1>1
<1> QED
  BY IInvInit, IInvNext, <1>2, PTL DEF Spec, HealedByProbe
=============================================================================
