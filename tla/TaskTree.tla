------------------------------ MODULE TaskTree ------------------------------
(***************************************************************************)
(* The processes of one task tree sharing its budget: the root admits      *)
(* children, every process pays for its provider requests and for the      *)
(* output it receives, the root waits for capacity that children hold, and *)
(* ends give leases back.                                                  *)
(*                                                                         *)
(* The daemon may crash.  What it restores of the ledger is the newest of  *)
(* the copies that the processes' checkpoints carry.                       *)
(*                                                                         *)
(* One step is the code between two points at which another thread can be  *)
(* seen: one operation of the ledger or of the store.  Which provider is   *)
(* asked, and why a request is repeated, is in ProviderRouting.            *)
(***************************************************************************)
EXTENDS TaskBudget, Sequences

CONSTANTS
  Graphs,       \* delegation graphs, in topological order, the root may submit
  Request,      \* Request[c][r]: what is asked for a child, 0 for the default
  Killable,     \* processes that may be cancelled
  DependsOn,    \* DependsOn[c]: children that must complete before c starts
  Concurrent,   \* sets of children that slots and claims let work at a time
  Negotiators,  \* children an interface proposal may hold up
  Askers,       \* children that may stop to ask the user
  Deadlines,    \* may the task's deadline pass?
  MaxRevision,  \* bound on the ledger revision at which the root delegates
  MaxCrashes    \* bound on crashes

ASSUME RequestAssumption == Request \in [Child -> [Resource -> Nat]]
ASSUME GraphsAssumption ==
  \A d \in Graphs :
    d \in Seq(Child) /\ Len(d) = Cardinality({d[i] : i \in DOMAIN d})
ASSUME ScheduleAssumption ==
  /\ DependsOn \in [Child -> SUBSET Child]
  /\ \A c \in Child : {c} \in Concurrent
  /\ Negotiators \subseteq Child
ASSUME BoundsAssumption ==
  /\ Killable \subseteq Proc
  /\ Askers \subseteq Child
  /\ Deadlines \in BOOLEAN
  /\ {MaxRevision, MaxCrashes} \subseteq Nat

VARIABLES
  ledger,      \* the shared TaskTreeBudget
  proc,        \* proc[p]: what the thread of a process does next
  dag,         \* the admission the root is busy with
  cancelled,   \* processes whose cancellation event is set
  copies,      \* copies[p]: the last checkpoint of p and the ledger inside it
  crashes

vars == <<ledger, proc, dag, cancelled, copies, crashes>>

NoGraph == [rest |-> <<>>, created |-> {}, checked |-> FALSE]
NoCopy == [at |-> "none", children |-> {}]

Steps == {"absent", "starting", "blocked", "idle", "deciding", "charge", "sent",
          "done", "ending", "saving", "ended", "parking", "parked", "cancelling",
          "available", "review", "gone", "admitting", "registering", "down"}
Over == {"absent", "ended", "gone", "down"}

Init ==
  /\ ledger = Opened
  /\ proc = [p \in Proc |-> IF p = Root THEN "idle" ELSE "absent"]
  /\ dag = NoGraph
  /\ cancelled = {}
  /\ copies = [p \in Proc |-> NoCopy]
  /\ crashes = 0

Goto(p, step) == proc' = [proc EXCEPT ![p] = step]

-----------------------------------------------------------------------------
(* One model call.                                                         *)

StartTurn(p) ==
  /\ proc[p] = "idle"
  /\ p \notin cancelled
  /\ Goto(p, "charge")
  /\ UNCHANGED <<ledger, dag, cancelled, copies, crashes>>

\* Slip: a parked child counts as running.
LiveIfParked(c) == proc[c] \notin Over

\* Processes the root may wait for: known and not finalized.  A parked one is
\* finalized, one that a restart recovered is not.
Live(c) == proc[c] \notin Over \cup {"parked", "cancelling"}
Waits(p) ==
  /\ ~CallAdmitted(ledger, p)
  /\ RefusedForEscrow(ledger, p)
  /\ \E c \in Child : HoldsBack(ledger, c) /\ Live(c)

Charge(p) ==
  /\ proc[p] = "charge"
  /\ p \notin cancelled
  /\ CallAdmitted(ledger, p)
  /\ ledger' = Charged(ledger, "provider_calls", p, 1)
  /\ Goto(p, "sent")
  /\ UNCHANGED <<dag, cancelled, copies, crashes>>

\* Refused for good, or cancelled while it waited.
Refused(p) ==
  /\ proc[p] = "charge"
  /\ \/ p \in cancelled
     \/ ~CallAdmitted(ledger, p) /\ ~Waits(p)
  /\ Goto(p, "ending")
  /\ UNCHANGED <<ledger, dag, cancelled, copies, crashes>>

\* A piece of the answer, charged as it arrives.
Output(p) ==
  /\ proc[p] = "sent"
  /\ IF OutputAdmitted(ledger, p, 1)
       THEN ledger' = Charged(ledger, "output_tokens", p, 1) /\ UNCHANGED proc
       ELSE Goto(p, "ending") /\ UNCHANGED ledger
  /\ UNCHANGED <<dag, cancelled, copies, crashes>>

\* The answer is complete, the request is repeated, or the turn fails.
Answered(p) ==
  /\ proc[p] = "sent"
  /\ \/ Goto(p, "done")
     \/ Goto(p, "charge")
     \/ Goto(p, "ending")
  /\ UNCHANGED <<ledger, dag, cancelled, copies, crashes>>

\* A checkpoint row: the status it will be restored from, the ledger, and the
\* children that the process has registered.
Row(p, at) ==
  [at |-> at,
   ledger |-> ledger,
   children |-> IF p = Root THEN {c \in Child : proc[c] # "absent"} ELSE {}]

\* Rows are kept only while a crash may still come: nothing else reads them.
SaveAll(rows) ==
  copies' = IF crashes < MaxCrashes THEN rows ELSE [p \in Proc |-> NoCopy]
Save(p, at) == SaveAll([copies EXCEPT ![p] = Row(p, at)])

\* What a barrier raised by another thread finds: a terminal status that is
\* not final yet is restored for review, a question or a kill as parked.
Kept(p) ==
  CASE proc[p] = "ended" -> "ended"
    [] proc[p] \in {"ending", "saving"} -> "review"
    [] proc[p] \in {"parked", "cancelling"} -> "parked"
    [] OTHER -> "live"

\* provider_response_completed is a checkpoint barrier.
Checkpoint(p) ==
  /\ proc[p] = "done"
  /\ Save(p, "live")
  /\ Goto(p, "idle")
  /\ UNCHANGED <<ledger, dag, cancelled, crashes>>

-----------------------------------------------------------------------------
(* Admission of children by the root.                                      *)

Submit(d, checked) ==
  /\ proc[Root] = "idle"
  /\ Root \notin cancelled
  /\ ledger.revision <= MaxRevision
  /\ \A i \in DOMAIN d :
       /\ proc[d[i]] = "absent"
       /\ \A u \in DependsOn[d[i]] :
            proc[u] \notin {"absent", "gone"} \/ \E j \in 1 .. (i - 1) : d[j] = u
  /\ dag' = [rest |-> d, created |-> {}, checked |-> checked]
  /\ Goto(Root, "admitting")
  /\ UNCHANGED <<ledger, cancelled, copies, crashes>>

Delegate(c) == Submit(<<c>>, FALSE)

DelegateGraph(d) ==
  /\ Len(d) <= MaxAgents - ledger.agents
  /\ Preflight(ledger, d, Request)
  /\ Submit(d, TRUE)

\* fork() takes a slot and then a lease: two operations of the ledger.
ReserveAgent ==
  /\ proc[Root] = "admitting"
  /\ dag.rest # <<>>
  /\ AgentAdmitted(ledger)
  /\ ledger' = WithAgent(ledger)
  /\ Goto(Root, "registering")
  /\ UNCHANGED <<dag, cancelled, copies, crashes>>

Register ==
  LET c == Head(dag.rest) IN
  /\ proc[Root] = "registering"
  /\ LeaseAdmitted(ledger, c, Request[c])
  /\ ledger' = WithLease(ledger, c, Request[c])
  /\ proc' = [proc EXCEPT ![Root] = "admitting", ![c] = "starting"]
  /\ dag' = [dag EXCEPT !.rest = Tail(@), !.created = @ \cup {c}]
  /\ UNCHANGED <<cancelled, copies, crashes>>

\* A parked process that is killed gives its lease back at once; a running
\* one does so when its thread ends.
KillFrom(l, targets, next) ==
  LET parked == {p \in targets : proc[p] \in {"parked", "available", "review"}}
  IN  /\ cancelled' = cancelled \cup {p \in targets : proc[p] \notin Over}
      /\ ledger' = [l EXCEPT
           !.lease = [p \in Proc |-> IF p \in parked THEN Released(l, p).lease[p] ELSE @[p]],
           !.revision = @ + Cardinality({p \in parked : l.lease[p].state = "active"})]
      /\ proc' = [p \in Proc |-> IF p \in parked THEN "ended" ELSE next[p]]

\* Slip: reserve_agent() moved into the block that undoes it.
RefuseNodeUndone ==
  /\ \/ proc[Root] = "admitting" /\ dag.rest # <<>> /\ ~AgentAdmitted(ledger)
     \/ /\ proc[Root] = "registering"
        /\ ~LeaseAdmitted(ledger, Head(dag.rest), Request[Head(dag.rest)])
  /\ KillFrom(WithoutAgent(ledger), dag.created, [proc EXCEPT ![Root] = "done"])
  /\ dag' = NoGraph
  /\ UNCHANGED <<copies, crashes>>

\* The graph's node is refused: the nodes created before it are killed.
RefuseNode ==
  /\ \/ /\ proc[Root] = "admitting"
        /\ dag.rest # <<>>
        /\ ~AgentAdmitted(ledger)
        /\ KillFrom(ledger, dag.created, [proc EXCEPT ![Root] = "done"])
     \/ /\ proc[Root] = "registering"
        /\ ~LeaseAdmitted(ledger, Head(dag.rest), Request[Head(dag.rest)])
        /\ KillFrom(WithoutAgent(ledger), dag.created, [proc EXCEPT ![Root] = "done"])
  /\ dag' = NoGraph
  /\ UNCHANGED <<copies, crashes>>

\* agent_dag_admitted saves the root and the nodes.  The tool's result, the
\* next barrier, saves the root either way.
Admitted ==
  /\ proc[Root] = "admitting"
  /\ dag.rest = <<>>
  /\ SaveAll([p \in Proc |-> IF dag.checked /\ p \in {Root} \cup dag.created
                               THEN Row(p, Kept(p)) ELSE copies[p]])
  /\ Goto(Root, "done")
  /\ dag' = NoGraph
  /\ UNCHANGED <<ledger, cancelled, crashes>>

-----------------------------------------------------------------------------
(* Threads and their ends.                                                 *)

Upstreams(c, places) == \A u \in DependsOn[c] : proc[u] \in places
AtWork == {c \in Child : proc[c] \in {"idle", "deciding", "charge", "sent", "done"}}

\* A child's thread waits until every upstream has completed, then until a
\* slot and its claims are free.  agent_started saves it and then its owner.
StartChild(c) ==
  /\ proc[c] = "starting"
  /\ Upstreams(c, {"ended"})
  /\ AtWork \cup {c} \in Concurrent
  /\ SaveAll([copies EXCEPT ![c] = Row(c, "live"), ![Root] = Row(Root, Kept(Root))])
  /\ Goto(c, "idle")
  /\ UNCHANGED <<ledger, dag, cancelled, crashes>>

\* It is cancelled while it waits, or an upstream failed or is gone.
NotStarted(c) ==
  /\ \/ proc[c] \in {"starting", "blocked"} /\ c \in cancelled
     \/ proc[c] = "starting" /\ DependsOn[c] # {} /\ Upstreams(c, Over)
  /\ Goto(c, "ending")
  /\ UNCHANGED <<ledger, dag, cancelled, copies, crashes>>

\* An open interface proposal: a child with dependencies is not started over
\* one that affects it, and no child begins a turn over one of its own.
Block(c) ==
  /\ c \in Negotiators
  /\ \/ /\ proc[c] = "starting" /\ DependsOn[c] # {} /\ Upstreams(c, {"ended"})
        /\ Goto(c, "blocked")
     \/ proc[c] = "idle" /\ c \notin cancelled /\ Goto(c, "deciding")
  /\ UNCHANGED <<ledger, dag, cancelled, copies, crashes>>

\* The owner decides by a tool call, or another child takes its proposal back.
Decided(c) ==
  /\ \/ proc[c] \in {"blocked", "deciding"} /\ proc[Root] = "idle"
     \/ proc[c] = "blocked" /\ \E o \in Negotiators : proc[o] = "idle"
  /\ Goto(c, IF proc[c] = "blocked" THEN "starting" ELSE "idle")
  /\ UNCHANGED <<ledger, dag, cancelled, copies, crashes>>

\* Only cancellation or the deadline ends the wait without a decision.
Undecided(c) ==
  /\ proc[c] = "deciding"
  /\ c \in cancelled \/ ledger.overdue
  /\ Goto(c, "ending")
  /\ UNCHANGED <<ledger, dag, cancelled, copies, crashes>>

\* The root may not complete over a child that is still at work.
Stop(p) ==
  /\ proc[p] = "idle"
  /\ p \in cancelled \/ p \in Child \/ \A c \in Child : proc[c] \in Over
  /\ Goto(p, "ending")
  /\ UNCHANGED <<ledger, dag, cancelled, copies, crashes>>

\* run()'s finally: the lease goes back before the terminal checkpoint.  The
\* root's thread is not run by start() and keeps its own.
ReleaseLease(p) ==
  /\ proc[p] = "ending"
  /\ ledger' = IF p = Root THEN ledger ELSE Released(ledger, p)
  /\ Goto(p, "saving")
  /\ UNCHANGED <<dag, cancelled, copies, crashes>>

SaveTerminal(p) ==
  /\ proc[p] = "saving"
  /\ Save(p, "ended")
  /\ Goto(p, "ended")
  /\ UNCHANGED <<ledger, dag, cancelled, crashes>>

\* An answer asks the user: the child's thread ends too, but the status it
\* passes to release_process is not terminal and the lease stays.  A kill that
\* comes before the thread has ended leaves the child cancelling.
Ask(c) ==
  /\ c \in Askers
  /\ proc[c] = "done"
  /\ c \notin cancelled
  /\ Goto(c, "parking")
  /\ Save(c, "live")
  /\ UNCHANGED <<ledger, dag, cancelled, crashes>>

Parked(c) ==
  /\ proc[c] = "parking"
  /\ Goto(c, IF c \in cancelled THEN "cancelling" ELSE "parked")
  /\ Save(c, "parked")
  /\ UNCHANGED <<ledger, dag, cancelled, crashes>>

\* The user answers a question: a new runner queues for its slot.  What a
\* restart recovered is resumed in a task thread of its own, and refused while
\* an upstream has not completed.
Continue(p) ==
  /\ \/ proc[p] = "parked" /\ Goto(p, "starting")
     \/ /\ \/ proc[p] = "available"
           \/ proc[p] = "parked" /\ crashes > 0
        /\ p \in Child => Upstreams(p, {"ended"})
        /\ Goto(p, "idle")
  /\ UNCHANGED <<ledger, dag, cancelled, copies, crashes>>

-----------------------------------------------------------------------------
(* The environment.                                                        *)

Subtree(p) == IF p = Root THEN Proc ELSE {p}

Cancel(p) ==
  /\ p \in Killable
  /\ proc[p] \notin Over
  /\ p \notin cancelled
  /\ KillFrom(ledger, Subtree(p), proc)
  /\ UNCHANGED <<dag, copies, crashes>>

Deadline ==
  /\ Deadlines
  /\ ~ledger.overdue
  /\ ledger' = [ledger EXCEPT !.overdue = TRUE]
  /\ UNCHANGED <<proc, dag, cancelled, copies, crashes>>

\* reap() cancels the children of a root that is no longer active.
Reap(c) ==
  /\ proc[Root] \in {"ending", "saving", "ended"}
  /\ proc[c] \notin Over
  /\ c \notin cancelled
  /\ KillFrom(ledger, {c}, proc)
  /\ UNCHANGED <<dag, copies, crashes>>

\* The stored rows.
Rows == {p \in Proc : copies[p].at # "none"}

\* Slip: the persisted status is used as it is.
RecoveredAsSaved(p) == copies[p].at

\* Where a restart finds a process: where its row left it.
Recovered(p) ==
  CASE p \notin Rows -> IF proc[p] = "absent" THEN "absent" ELSE "gone"
    [] copies[p].at = "live" -> "available"
    [] OTHER -> copies[p].at

\* Slip: the root's row is trusted.
RestoredOfRoot == copies[Root].ledger
Restored == Newest({copies[p].ledger : p \in Rows})

\* The daemon dies.  Its next start restores the tree, or finds a child that
\* the root's row lists and that has no row: CONTINUATION_STATE_UNAVAILABLE
\* ends that start and every later one.
Crash ==
  /\ crashes < MaxCrashes
  /\ Root \in Rows
  /\ crashes' = crashes + 1
  /\ IF copies[Root].children \subseteq Rows
       THEN ledger' = Restored /\ proc' = [p \in Proc |-> Recovered(p)]
       ELSE UNCHANGED ledger /\ proc' = [p \in Proc |-> "down"]
  /\ dag' = NoGraph
  /\ cancelled' = {}
  /\ UNCHANGED copies

ProcStep(p) ==
  \/ StartTurn(p) \/ Charge(p) \/ Refused(p) \/ Output(p) \/ Answered(p)
  \/ Checkpoint(p) \/ Stop(p) \/ ReleaseLease(p) \/ SaveTerminal(p)

ChildStep(c) ==
  \/ StartChild(c) \/ NotStarted(c) \/ Block(c) \/ Decided(c) \/ Undecided(c)
  \/ Ask(c) \/ Parked(c)

RootStep ==
  \/ \E c \in Child : Delegate(c)
  \/ \E d \in Graphs : DelegateGraph(d)
  \/ ReserveAgent \/ Register \/ RefuseNode \/ Admitted

Environment ==
  \/ \E p \in Proc : Cancel(p) \/ Continue(p)
  \/ \E c \in Child : Reap(c)
  \/ Deadline
  \/ Crash

Next ==
  \/ \E p \in Proc : ProcStep(p)
  \/ \E c \in Child : ChildStep(c)
  \/ RootStep
  \/ Environment

Spec == Init /\ [][Next]_vars

\* Threads run on, a waiting one when what it polls for stays true.  What users,
\* the clock and reap() do is not promised, nor that the root delegates or
\* decides over a proposal.
Fairness ==
  /\ \A p \in Proc : WF_vars(ProcStep(p))
  /\ \A c \in Child :
       /\ WF_vars(StartChild(c) \/ NotStarted(c))
       /\ WF_vars(Undecided(c))
       /\ WF_vars(Parked(c))
  /\ WF_vars(ReserveAgent) /\ WF_vars(Register) /\ WF_vars(RefuseNode) /\ WF_vars(Admitted)

FairSpec == Spec /\ Fairness

-----------------------------------------------------------------------------
(* Properties.                                                             *)

\* Every variable stays in its domain.
TypeOK ==
  /\ ledger \in Ledger
  /\ proc \in [Proc -> Steps]
  /\ dag.rest \in Seq(Child) /\ dag.created \subseteq Child /\ dag.checked \in BOOLEAN
  /\ cancelled \subseteq Proc
  /\ \A p \in Rows : copies[p].ledger \in Ledger /\ copies[p].children \subseteq Child
  /\ crashes \in 0 .. MaxCrashes

\* What was spent and what is promised to children never exceed a pool, so
\* that neither the work can eat the verification reserve nor the root the
\* escrow of a child (register_process, begin_provider_call,
\* consume_output_estimate, release_process, also after a restart).
EscrowHonoured ==
  \A r \in Resource, purpose \in Purpose :
    ledger.spent[purpose][r] + Promised(ledger, r, purpose, Root) <= Ceiling(r, purpose)

\* A child may spend what its lease promises: whatever the others spent, no
\* other limit of the tree refuses it while the deadline has not passed.
EscrowSpendable ==
  \A c \in Child, r \in Resource :
    Outstanding(ledger, r, c) > 0 => Covered(ledger, r, c, 1)

\* A graph that preflight_children accepted is admitted node by node: what
\* children do meanwhile cannot make a later node fail, only the deadline.
PreflightHolds ==
  dag.checked /\ dag.rest # <<>> /\ ~ledger.overdue =>
    /\ proc[Root] = "admitting" => AgentAdmitted(ledger)
    /\ proc[Root] = "registering" => LeaseAdmitted(ledger, Head(dag.rest), Request[Head(dag.rest)])

\* Whichever checkpoints a restart finds, the ledger it restores forgets
\* nothing that any of them recorded: spent capacity stays spent and a lease
\* that was given back stays so (restore_incomplete_processes).
NoResurrection ==
  \A p \in Rows :
    LET old == copies[p].ledger IN
    /\ \A r \in Resource, purpose \in Purpose :
         ledger.spent[purpose][r] >= old.spent[purpose][r]
    /\ \A c \in Child :
         old.lease[c].state = "released" => ledger.lease[c].state = "released"

\* max_agents bounds the children there are: the count of slots covers every
\* process that was admitted and is still known, across refused admissions
\* and restarts (reserve_agent, cancel_agent_reservation, from_snapshot).
AgentsCounted ==
  ledger.agents >= 1 + Cardinality({c \in Child : proc[c] \notin {"absent", "gone", "down"}})

\* Children that nothing but the user, a decision of the owner or a kill can
\* move: they wait for one themselves, or in their start for such a child.
Standstill == {"available", "review", "blocked", "deciding"}
HeldUp ==
  UNION {W \in SUBSET Child : \A c \in W :
    \/ proc[c] \in Standstill
    \/ /\ proc[c] = "starting"
       /\ \/ \E u \in DependsOn[c] : u \in W \/ proc[u] \in {"parked", "cancelling"}
          \/ \E o \in Child : proc[o] = "deciding"}

\* The root's wait for capacity that children hold ends by itself, unless some
\* of it is held by a child that waits for the user or for the root's decision
\* (reserve_provider_call, _wait_for_dependencies, wait_for_interface_decision).
BudgetWaitEnds ==
  (proc[Root] = "charge" /\ Waits(Root)) ~>
    (proc[Root] # "charge" \/ \E c \in HeldUp : HoldsBack(ledger, c))

\* A crash leaves a store from which the daemon starts again, with every
\* child it had started (the barrier agent_started of TaskObservations).
Restartable == \A p \in Proc : proc[p] # "down"
=============================================================================
