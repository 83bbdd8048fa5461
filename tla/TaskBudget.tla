----------------------------- MODULE TaskBudget -----------------------------
(***************************************************************************)
(* The budget ledger of one task tree (loop/budget.py).  Every method of   *)
(* TaskTreeBudget runs under one lock, so an operation is an operator from *)
(* the ledger to the next ledger and its admission test a predicate.       *)
(*                                                                         *)
(* Abstracted: wall-clock time is one flag, overdue, raised when the task  *)
(* deadline has passed; the soft extension of that deadline and its pause  *)
(* while the user is asked are left out.  Reported usage is left out: it   *)
(* is never read by an admission test.                                     *)
(***************************************************************************)
EXTENDS Integers, FiniteSets, FiniteSetsExt

CONSTANTS
  Root,            \* the supervisor process
  Child,           \* the processes it may delegate to
  PurposeOf,       \* PurposeOf[c]: "work", or "verification" for a reviewer
  MaxAgents,       \* limits.max_agents
  Limit,           \* Limit[r]: limits.max_provider_calls, .max_output_tokens
  Reserve,         \* Reserve[r]: what the verification ratio keeps of it
  Share,           \* Share[purpose][r]: the preferred size of a child's lease
  RootFloor        \* limits.root_coordination_calls

Proc == {Root} \cup Child
Purpose == {"work", "verification"}
Resource == {"provider_calls", "output_tokens"}

ASSUME ProcAssumption == Root \notin Child /\ IsFiniteSet(Child)
ASSUME PurposeAssumption == PurposeOf \in [Child -> Purpose]
ASSUME LimitAssumption ==
  /\ MaxAgents \in Nat \ {0}
  /\ RootFloor \in Nat
  /\ Limit \in [Resource -> Nat \ {0}]
  /\ Reserve \in [Resource -> Nat \ {0}]
  /\ Share \in [Purpose -> [Resource -> Nat \ {0}]]

Lease == [state : {"active", "released"},
          reserved : [Resource -> Nat], used : [Resource -> Nat]]
NoLease == [state |-> "none"]

Ledger == [revision : Nat,
           agents : Nat,
           spent : [Purpose -> [Resource -> Nat]],
           lease : [Proc -> Lease \cup {NoLease}],
           overdue : BOOLEAN]

-----------------------------------------------------------------------------
(* The pools.                                                              *)

Nothing == [r \in Resource |-> 0]

PurposeFor(p) == IF p = Root THEN "work" ELSE PurposeOf[p]

Ceiling(r, purpose) ==
  IF purpose = "verification" THEN Reserve[r] ELSE Max({1, Limit[r] - Reserve[r]})

\* An unused rest of a lease that is still promised to its child.
Outstanding(l, r, c) ==
  IF l.lease[c].state = "active"
    THEN Max({0, l.lease[c].reserved[r] - l.lease[c].used[r]})
    ELSE 0

\* What the active children of a pool other than p may still spend.
Promised(l, r, purpose, p) ==
  MapThenSumSet(LAMBDA c : Outstanding(l, r, c),
                {c \in Child \ {p} : PurposeOf[c] = purpose})

Total(l, r) == l.spent["work"][r] + l.spent["verification"][r]

\* Calls of the work pool that no new lease may take.
Floor(l, r, purpose) ==
  IF r = "provider_calls" /\ purpose = "work" /\ l.lease[Root].state = "active"
    THEN Min({RootFloor, Ceiling(r, purpose) - 1})
    ELSE 0

\* Slip: leases of other children are not subtracted.
AvailableUnpromised(l, r, purpose) ==
  Max({0, Ceiling(r, purpose) - l.spent[purpose][r] - Floor(l, r, purpose)})

Available(l, r, purpose) ==
  Max({0, Ceiling(r, purpose) - l.spent[purpose][r]
                - Promised(l, r, purpose, Root) - Floor(l, r, purpose)})

-----------------------------------------------------------------------------
(* Admission of agents.                                                    *)

AgentAdmitted(l) == ~l.overdue /\ l.agents < MaxAgents
WithAgent(l) == [l EXCEPT !.agents = @ + 1, !.revision = @ + 1]
WithoutAgent(l) == [l EXCEPT !.agents = Max({0, @ - 1}), !.revision = @ + 1]

\* A request names a resource or leaves it (0) to the default share, which
\* shrinks to what is available.
Asked(l, c, request) ==
  [r \in Resource |->
     IF request[r] > 0 THEN request[r]
       ELSE Min({Share[PurposeOf[c]][r], Available(l, r, PurposeOf[c])})]

LeaseAdmitted(l, c, request) ==
  \A r \in Resource :
     LET n == Asked(l, c, request)[r]
     IN  n >= 1 /\ n <= Available(l, r, PurposeOf[c])

NewLease(n) == [state |-> "active", reserved |-> n, used |-> Nothing]
WithLease(l, c, request) ==
  [l EXCEPT !.lease[c] = NewLease(Asked(l, c, request)), !.revision = @ + 1]

\* Slip: every node is tried on the ledger as it is.
PreflightEach(l, wanted, request) ==
  \A n \in DOMAIN wanted :
    AgentAdmitted(l) /\ LeaseAdmitted(WithAgent(l), wanted[n], request[wanted[n]])

\* preflight_children: the same admissions, in order, on a copy.
Preflight(l, wanted, request) ==
  LET Try(ok, n) ==
        IF ok.ok /\ AgentAdmitted(ok.ledger)
             /\ LeaseAdmitted(WithAgent(ok.ledger), wanted[n], request[wanted[n]])
          THEN [ok |-> TRUE,
                ledger |-> WithLease(WithAgent(ok.ledger), wanted[n], request[wanted[n]])]
          ELSE [ok |-> FALSE, ledger |-> ok.ledger]
      Tried[n \in 0 .. Cardinality(DOMAIN wanted)] ==
        IF n = 0 THEN [ok |-> TRUE, ledger |-> l] ELSE Try(Tried[n - 1], n)
  IN  Tried[Cardinality(DOMAIN wanted)].ok

\* release_process with a terminal status; the refund is what Outstanding
\* no longer counts.
Released(l, p) ==
  IF l.lease[p].state = "active"
    THEN [l EXCEPT !.lease[p].state = "released", !.revision = @ + 1]
    ELSE l

-----------------------------------------------------------------------------
(* Spending.                                                               *)

\* The lease of p covers n more of r.  The root has no lease to exhaust.
LeaseCovers(l, r, p, n) ==
  p \in Child =>
    /\ l.lease[p].state = "active"
    /\ l.lease[p].used[r] + n <= l.lease[p].reserved[r]

WithinTotal(l, r, n) == Total(l, r) + n <= Limit[r]
\* Slip: the root may spend what is promised to children.
WithinPoolUnpromised(l, r, p, n) ==
  l.spent[PurposeFor(p)][r] + n <= Ceiling(r, PurposeFor(p))
WithinPool(l, r, p, n) ==
  l.spent[PurposeFor(p)][r] + n + Promised(l, r, PurposeFor(p), p)
    <= Ceiling(r, PurposeFor(p))

Covered(l, r, p, n) ==
  WithinTotal(l, r, n) /\ LeaseCovers(l, r, p, n) /\ WithinPool(l, r, p, n)

CallAdmitted(l, p) == ~l.overdue /\ Covered(l, "provider_calls", p, 1)
OutputAdmitted(l, p, n) == ~l.overdue /\ Covered(l, "output_tokens", p, n)

Charged(l, r, p, n) ==
  [l EXCEPT !.spent[PurposeFor(p)][r] = @ + n,
            !.lease[p].used[r] = @ + n,
            !.revision = @ + 1]

\* The root is refused only because of what children still hold: it may wait
\* for one of them.
HoldsBack(l, c) ==
  PurposeOf[c] = "work" /\ Outstanding(l, "provider_calls", c) > 0
RefusedForEscrow(l, p) ==
  /\ p = Root
  /\ ~l.overdue
  /\ WithinTotal(l, "provider_calls", 1)
  /\ l.spent["work"]["provider_calls"] + 1 <= Ceiling("provider_calls", "work")
  /\ ~WithinPool(l, "provider_calls", Root, 1)

-----------------------------------------------------------------------------
(* Restoring the ledger after a restart: of all the checkpoints' copies    *)
(* the one with the highest revision, then the most elapsed time.          *)

Newest(copies) ==
  CHOOSE l \in copies :
    \A k \in copies :
       \/ k.revision < l.revision
       \/ k.revision = l.revision /\ (k.overdue => l.overdue)

Opened ==
  [revision |-> 2,
   agents |-> 1,
   spent |-> [purpose \in Purpose |-> Nothing],
   lease |-> [p \in Proc |-> IF p = Root THEN NewLease(Nothing) ELSE NoLease],
   overdue |-> FALSE]
=============================================================================
