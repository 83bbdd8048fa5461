------------------------------ MODULE Publish ------------------------------
(***************************************************************************)
(* Publishing a candidate to a branch (publish/service.py,                 *)
(* publish/integration.py, loop/publish_queue.py).                         *)
(*                                                                         *)
(* An item of the ledger is a candidate with a plan: the branch, the       *)
(* commit the branch has now, and a binding that names this version of     *)
(* both.  `verify' runs the project's tests on the final tree, `execute'   *)
(* moves the branch; both first save an operation as an intent, then act,  *)
(* then save what came of it.  A run is a list of such steps that the      *)
(* queue worker of a host carries out.  Clients, threads of any host, may  *)
(* meanwhile pause, resume, revise, decide or reconcile the item.          *)
(*                                                                         *)
(* The ledger is saved by compare-and-set against the reference that was   *)
(* loaded, and every save makes a new revision: whoever saves after        *)
(* somebody else has saved fails.  Every command but `pause' holds the     *)
(* item's lease; a worker and `reconcile' hold the run lease too.  Both    *)
(* are released when their process dies, and a tester it has started may   *)
(* survive it.                                                             *)
(*                                                                         *)
(* One item, a plan without plugins whose static checks have passed.  A    *)
(* command whose effect is one save is one action: it takes place at the   *)
(* save, which finds the item as it was loaded.  A command that fails      *)
(* before its first save, and a request sent again, change nothing.        *)
(***************************************************************************)
EXTENDS Integers, Sequences

CONSTANTS
  Client,        \* threads that issue commands
  Host,          \* processes; the queue worker of a host goes by its name
  HostOf,        \* client -> the host it runs in
  None,          \* nobody, of a lease
  MaxCommands,   \* bound: commands issued by the clients
  MaxFaults      \* bound: crashes, shutdowns and moves of the branch by others

Thread == Client \cup Host

ASSUME PublishAssumption ==
  /\ Client \cap Host = {} /\ None \notin Thread
  /\ HostOf \in [Client -> Host]
  /\ {MaxCommands, MaxFaults} \subseteq Nat

Active == {"queued", "running", "stopping"}
StepLists == {<<"verify">>, <<"execute">>, <<"verify", "execute">>}
Initial == 0   \* the commit the branch has before anything is published
Theirs == -1   \* a commit of somebody else

VARIABLES
  item,       \* the item as the ledger has it
  target,     \* the commit the branch is at
  check,      \* the runtime record of the last check, and its tester
  pc,         \* thread -> where it is
  loaded,     \* thread -> the revision it has loaded (a submit: its run)
  reply,      \* worker -> what the command of its step has returned
  drv,        \* worker -> the run it drives
  queue,      \* host -> the runs submitted to it
  closed,     \* host -> whether it is shutting down
  itemLease,  \* who holds the lease of the item
  runLease,   \* who holds the run lease
  asked,      \* how many commands the clients have issued
  faults,     \* how many faults there were
  writes,     \* history: the moves of the branch by Publish
  lent,       \* history: the moves by others to the result of an operation
  passed,     \* history: checks whose tester found all tests passing
  paused      \* history: checks that were paused before they were recorded

threadVars == <<pc, loaded, reply, drv>>
leaseVars == <<itemLease, runLease>>
hostVars == <<queue, closed>>
boundVars == <<asked, faults>>
historyVars == <<writes, lent, passed, paused>>
vars == <<item, target, check, threadVars, leaseVars, hostVars, boundVars, historyVars>>

NoRun == [id |-> 0, state |-> "none", steps |-> <<"verify">>, next |-> 0,
          binding |-> 0, current |-> FALSE]
NoOp == [id |-> 0, kind |-> "none", state |-> "observed", binding |-> 0]
NoCheck == [op |-> 0, state |-> "none", result |-> "failed", live |-> FALSE]
NoEvidence == [outcome |-> "none", op |-> 0]

\* A candidate that has been prepared.
Init ==
  /\ item = [rev |-> 1, status |-> "prepared", binding |-> 1, base |-> Initial,
             evidence |-> NoEvidence, review |-> "none", run |-> NoRun, op |-> NoOp]
  /\ target = Initial
  /\ check = NoCheck
  /\ pc = [t \in Thread |-> "idle"]
  /\ loaded = [t \in Thread |-> 0]
  /\ reply = [h \in Host |-> "committed"]
  /\ drv = [h \in Host |-> 0]
  /\ queue = [h \in Host |-> <<>>]
  /\ closed = [h \in Host |-> FALSE]
  /\ itemLease = None /\ runLease = None
  /\ asked = 0 /\ faults = 0
  /\ writes = {} /\ lent = {} /\ passed = {} /\ paused = {}

----------------------------------------------------------------------------
(* What the commands have in common.                                       *)

Busy == item.run.state \in Active \/ item.run.current

Ready ==
  /\ item.status = "prepared"
  /\ item.review \in {"none", "accept"}
  /\ item.evidence.outcome = "passed"

Save(changed) == item' = [changed EXCEPT !.rev = item.rev + 1]

Unchanged(t) == item.rev = loaded[t]

Goto(t, label) == pc' = [pc EXCEPT ![t] = label]

\* A command is over: its leases are released, a worker gets its result.
Leave(t, result) ==
  /\ itemLease' = None
  /\ IF t \in Host
     THEN /\ Goto(t, "stepped")
          /\ reply' = [reply EXCEPT ![t] = result]
          /\ UNCHANGED runLease
     ELSE /\ Goto(t, "idle")
          /\ runLease' = IF runLease = t THEN None ELSE runLease
          /\ UNCHANGED reply

\* A client's thread takes up a new command.
Issue(c) == pc[c] = "idle" /\ asked < MaxCommands /\ asked' = asked + 1

\* Commands of one save.
Command(c) ==
  /\ Issue(c)
  /\ UNCHANGED <<target, check, reply, drv, leaseVars, hostVars, faults, writes, lent, passed>>

----------------------------------------------------------------------------
(* Commands of one save.                                                   *)

\* The only command that does not wait for the item's lease.
Pause(c) ==
  /\ Command(c)
  /\ item.status \in {"prepared", "checking"} \/ item.run.state \in Active
  /\ Save([item EXCEPT !.status = CASE @ = "prepared" -> "paused"
                                    [] @ = "checking" -> "pausing"
                                    [] OTHER -> @,
                       !.run.state = IF @ \in Active THEN "stopping" ELSE @])
  /\ paused' = paused \cup (IF item.status = "checking" THEN {item.op.id} ELSE {})
  /\ UNCHANGED <<pc, loaded>>

Resume(c) ==
  /\ Command(c)
  /\ itemLease = None /\ ~Busy
  /\ item.status = "paused"
  /\ Save([item EXCEPT !.status = "prepared"])
  /\ UNCHANGED <<pc, loaded, paused>>

\* prepare() of an existing item: a new plan, for the branch as it is now.
Revise(c) ==
  /\ Command(c)
  /\ itemLease = None /\ ~Busy
  /\ item.status \notin {"executing", "checking", "pausing", "paused"}
  /\ Save([item EXCEPT !.status = "prepared", !.binding = item.rev + 1, !.base = target,
                       !.evidence = NoEvidence, !.review = "none"])
  /\ UNCHANGED <<pc, loaded, paused>>

Decide(c) ==
  /\ Command(c)
  /\ itemLease = None /\ ~Busy
  /\ item.status \in {"prepared", "integrated"}
  /\ \E decision \in {"accept", "defer"} : Save([item EXCEPT !.review = decision])
  /\ UNCHANGED <<pc, loaded, paused>>

\* run: submit() holds the queue's lock from the admission to the launch.
Admit(c) ==
  /\ Command(c)
  /\ itemLease = None /\ ~Busy
  /\ ~closed[HostOf[c]]
  /\ \A d \in Client : HostOf[d] = HostOf[c] => pc[d] # "submit"
  /\ item.status = "prepared"
  /\ \E steps \in StepLists :
       /\ steps = <<"execute">> => Ready
       /\ Save([item EXCEPT !.run = [id |-> item.rev + 1, state |-> "queued", steps |-> steps,
                                     next |-> 0, binding |-> item.binding, current |-> FALSE]])
  /\ Goto(c, "submit")
  /\ loaded' = [loaded EXCEPT ![c] = item.rev + 1]
  /\ UNCHANGED paused

\* It looks at the item again, and launches the run only as it was admitted.
Submit(c) ==
  /\ pc[c] = "submit"
  /\ queue' = IF item.run.id = loaded[c] /\ item.run.state = "queued"
              THEN [queue EXCEPT ![HostOf[c]] = Append(@, loaded[c])]
              ELSE queue
  /\ Goto(c, "idle")
  /\ UNCHANGED <<item, target, check, loaded, reply, drv, leaseVars, closed, boundVars, historyVars>>

----------------------------------------------------------------------------
(* verify and execute, issued by a client or by a step of a worker.        *)

\* The revision the caller expects, the lease, and the plan still current.
\* While a run is busy only its own worker may go on with the item.
Enter(t, kind) ==
  /\ IF t \in Host
     THEN /\ pc[t] = "step" /\ Unchanged(t)
          /\ item.run.steps[item.run.next + 1] = kind
          /\ UNCHANGED asked
     ELSE Issue(t) /\ ~Busy
  /\ itemLease = None /\ itemLease' = t
  /\ item.status = "prepared" /\ target = item.base

\* The runtime record is saved first, then the intent.
Verify(t) ==
  /\ Enter(t, "verify")
  /\ Save([item EXCEPT !.status = "checking",
                       !.op = [id |-> item.rev + 1, kind |-> "verify", state |-> "intent",
                               binding |-> item.binding]])
  /\ check' = [op |-> item.rev + 1, state |-> "prepared", result |-> "failed", live |-> FALSE]
  /\ Goto(t, "testing")
  /\ UNCHANGED <<target, loaded, reply, drv, runLease, hostVars, faults, historyVars>>

StartTest(t) ==
  /\ pc[t] = "testing" /\ check.state = "prepared"
  /\ check' = [check EXCEPT !.state = "running", !.live = TRUE]
  /\ UNCHANGED <<item, target, threadVars, leaseVars, hostVars, boundVars, historyVars>>

\* The tests end, are cancelled or cannot be started; the tester is gone
\* unless its cleanup is pending.
FinishTest(t) ==
  /\ pc[t] = "testing"
  /\ \E result \in IF check.state = "running" THEN {"passed", "failed", "cleanup"} ELSE {"failed"} :
       /\ check' = [check EXCEPT !.state = "finished", !.result = result, !.live = result = "cleanup"]
       /\ passed' = IF result = "passed" THEN passed \cup {[op |-> check.op, binding |-> item.op.binding]}
                                         ELSE passed
  /\ Goto(t, "recording")
  /\ UNCHANGED <<item, target, loaded, reply, drv, leaseVars, hostVars, boundVars, writes, lent, paused>>

\* A mutant of Record, like every operator this module says is one: it
\* replaces the next definition in a check that the properties notice.
RecordThoughPaused(outcome) ==
  Save([item EXCEPT !.status = IF @ = "pausing" THEN "paused" ELSE "prepared",
                    !.evidence = [outcome |-> outcome, op |-> item.op.id],
                    !.op.state = "observed"])

\* _record_check(), loaded again whenever somebody else has saved: only a
\* pause can have, and a check that was paused has not passed.
Record(outcome) ==
  Save([item EXCEPT !.status = IF @ = "pausing" THEN "paused" ELSE "prepared",
                    !.evidence = [outcome |-> IF item.status = "pausing" THEN "failed" ELSE outcome,
                                  op |-> item.op.id],
                    !.op.state = "observed"])

\* Mutant: a tester that could not be cleaned up makes no difference.
RecordCheckAnyway(t) ==
  /\ pc[t] = "recording"
  /\ Record(check.result)
  /\ Leave(t, "committed")
  /\ UNCHANGED <<target, check, loaded, drv, hostVars, boundVars, historyVars>>

RecordCheck(t) ==
  /\ pc[t] = "recording"
  /\ IF check.result = "cleanup"
     THEN /\ Save([item EXCEPT !.op.state = "cleanup_pending"])
          /\ Leave(t, "ambiguous")
     ELSE /\ Record(check.result)
          /\ Leave(t, "committed")
  /\ UNCHANGED <<target, check, loaded, drv, hostVars, boundVars, historyVars>>

Execute(t) ==
  /\ Enter(t, "execute")
  /\ Ready
  /\ Save([item EXCEPT !.status = "executing",
                       !.op = [id |-> item.rev + 1, kind |-> "formal", state |-> "intent",
                               binding |-> item.binding]])
  /\ Goto(t, "writing")
  /\ UNCHANGED <<target, check, loaded, reply, drv, runLease, hostVars, faults, historyVars>>

\* integrate() finds the branch as planned and enters the ref transaction ...
EnterTransaction(t) ==
  /\ pc[t] = "writing"
  /\ target = item.base
  /\ Goto(t, "updating")
  /\ UNCHANGED <<item, target, check, loaded, reply, drv, leaseVars, hostVars, boundVars, historyVars>>

\* ... or refuses before, for that or for any other reason.
RefuseWrite(t) ==
  /\ pc[t] = "writing"
  /\ Goto(t, "refusing")
  /\ loaded' = [loaded EXCEPT ![t] = item.rev]
  /\ UNCHANGED <<item, target, check, reply, drv, leaseVars, hostVars, boundVars, historyVars>>

\* update-ref names the commit it expects; it may fail, and its result may be
\* lost, whereupon nothing more is done.
UpdateRef(t) ==
  /\ pc[t] = "updating"
  /\ \/ /\ target = item.base
        /\ target' = item.op.id
        /\ writes' = writes \cup {[op |-> item.op.id, binding |-> item.op.binding,
                                   from |-> target, planned |-> item.base]}
     \/ UNCHANGED <<target, writes>>
  /\ \/ Goto(t, "observing") /\ UNCHANGED <<leaseVars, reply>>
     \/ Leave(t, "ambiguous")
  /\ UNCHANGED <<item, check, loaded, drv, hostVars, boundVars, lent, passed, paused>>

\* Mutant: an update-ref that has returned is taken for a success.
ObserveAcknowledged(t) ==
  /\ pc[t] = "observing"
  /\ Goto(t, "observed")
  /\ loaded' = [loaded EXCEPT ![t] = item.rev]
  /\ UNCHANGED <<item, target, check, reply, drv, leaseVars, hostVars, boundVars, historyVars>>

\* _observe(): only the branch at this very commit is a success.
Observe(t) ==
  /\ pc[t] = "observing"
  /\ IF target = item.op.id
     THEN /\ Goto(t, "observed")
          /\ loaded' = [loaded EXCEPT ![t] = item.rev]
          /\ UNCHANGED <<leaseVars, reply>>
     ELSE Leave(t, "ambiguous") /\ UNCHANGED loaded
  /\ UNCHANGED <<item, target, check, drv, hostVars, boundVars, historyVars>>

\* A pause of the run may have come in between: the save fails then.
RecordEffect(t) ==
  /\ pc[t] = "observed"
  /\ IF Unchanged(t)
     THEN /\ Save([item EXCEPT !.status = "integrated", !.op.state = "observed"])
          /\ IF runLease = t /\ t \in Client /\ Busy
             THEN Goto(t, "interrupt") /\ UNCHANGED <<leaseVars, reply>>
             ELSE Leave(t, "committed")
     ELSE UNCHANGED item /\ Leave(t, "ambiguous")
  /\ UNCHANGED <<target, check, loaded, drv, hostVars, boundVars, historyVars>>

RecordRefusal(t) ==
  /\ pc[t] = "refusing"
  /\ IF Unchanged(t)
     THEN /\ Save([item EXCEPT !.status = "failed", !.op.state = "observed", !.binding = item.rev + 1,
                               !.evidence = NoEvidence, !.review = "none"])
          /\ Leave(t, "refused")
     ELSE UNCHANGED item /\ Leave(t, "ambiguous")
  /\ UNCHANGED <<target, check, loaded, drv, hostVars, boundVars, historyVars>>

----------------------------------------------------------------------------
(* reconcile: what was begun is looked at, never done again.               *)

Reconcile(c) ==
  /\ Issue(c)
  /\ runLease = None /\ runLease' = c
  /\ itemLease = None /\ itemLease' = c
  /\ loaded' = [loaded EXCEPT ![c] = item.rev]
  /\ Goto(c, "reconciling")
  /\ UNCHANGED <<item, target, check, reply, drv, hostVars, faults, historyVars>>

\* A stale revision, nothing pending, a tester that cannot be retired.
GiveUp(c) ==
  /\ pc[c] = "reconciling"
  /\ Leave(c, "not_committed")
  /\ UNCHANGED <<item, target, check, loaded, drv, hostVars, boundVars, historyVars>>

\* Mutant: what the check has left running is forgotten.
RetireTesterNot(c) ==
  /\ pc[c] = "reconciling"
  /\ item.status \in {"checking", "pausing"}
  /\ Goto(c, "recovering")
  /\ UNCHANGED <<item, target, check, loaded, reply, drv, leaseVars, hostVars, boundVars, historyVars>>

\* recover_check() retires what the check has left running.
RetireTester(c) ==
  /\ pc[c] = "reconciling"
  /\ item.status \in {"checking", "pausing"}
  /\ check' = [check EXCEPT !.live = FALSE]
  /\ Goto(c, "recovering")
  /\ UNCHANGED <<item, target, loaded, reply, drv, leaseVars, hostVars, boundVars, historyVars>>

\* Only a result that was saved counts: an interrupted check has not passed.
RecoverCheck(c) ==
  /\ pc[c] = "recovering"
  /\ Record(IF check.state = "finished" /\ check.result # "cleanup" THEN check.result ELSE "failed")
  /\ IF Busy THEN Goto(c, "interrupt") /\ UNCHANGED <<leaseVars, reply>> ELSE Leave(c, "committed")
  /\ UNCHANGED <<target, check, loaded, drv, hostVars, boundVars, historyVars>>

ObserveAgain(c) ==
  /\ pc[c] = "reconciling"
  /\ item.status = "executing"
  /\ Goto(c, "observing")
  /\ UNCHANGED <<item, target, check, loaded, reply, drv, leaseVars, hostVars, boundVars, historyVars>>

LoadAgain(c) ==
  /\ pc[c] = "interrupt"
  /\ Goto(c, "interrupting")
  /\ loaded' = [loaded EXCEPT ![c] = item.rev]
  /\ UNCHANGED <<item, target, check, reply, drv, leaseVars, hostVars, boundVars, historyVars>>

\* The run itself is closed, as interrupted.
Interrupt(c) ==
  /\ \/ pc[c] = "interrupting"
     \/ pc[c] = "reconciling" /\ Busy /\ item.status \notin {"checking", "pausing", "executing"}
  /\ IF Unchanged(c)
     THEN Save([item EXCEPT !.run.state = "interrupted", !.run.current = FALSE])
     ELSE UNCHANGED item
  /\ Leave(c, "committed")
  /\ UNCHANGED <<target, check, loaded, drv, hostVars, boundVars, historyVars>>

----------------------------------------------------------------------------
(* drive(): the worker of a host carries out a run.                        *)

\* A run whose lease a reconcile holds is dropped.
Drive(h) ==
  /\ pc[h] = "idle" /\ queue[h] # <<>>
  /\ queue' = [queue EXCEPT ![h] = Tail(@)]
  /\ drv' = [drv EXCEPT ![h] = Head(queue[h])]
  /\ IF runLease = None
     THEN runLease' = h /\ Goto(h, "drive")
     ELSE UNCHANGED <<runLease, pc>>
  /\ UNCHANGED <<item, target, check, loaded, reply, itemLease, closed, boundVars, historyVars>>

Driven(h) == item.run.id = drv[h] /\ item.run.state \in Active

Blocked(h) ==
  \/ closed[h]
  \/ item.run.state = "stopping"
  \/ item.status = "paused"
  \/ item.binding # item.run.binding
  \/ item.run.current

Look(h) ==
  /\ pc[h] = "drive"
  /\ Goto(h, CASE ~Driven(h) -> "idle"
               [] Driven(h) /\ Blocked(h) -> "block"
               [] Driven(h) /\ ~Blocked(h) /\ item.run.next = Len(item.run.steps) -> "complete"
               [] OTHER -> IF item.status = "prepared" THEN "begin" ELSE "block")
  /\ runLease' = IF Driven(h) THEN runLease ELSE None
  /\ loaded' = [loaded EXCEPT ![h] = item.rev]
  /\ UNCHANGED <<item, target, check, reply, drv, itemLease, hostVars, boundVars, historyVars>>

\* Mutant: whatever has happened to the item since the worker looked.
BeginAnyway(h) ==
  /\ pc[h] = "begin"
  /\ Save([item EXCEPT !.run.state = "running", !.run.current = TRUE])
  /\ loaded' = [loaded EXCEPT ![h] = item.rev + 1]
  /\ Goto(h, "step")
  /\ UNCHANGED <<target, check, reply, drv, leaseVars, hostVars, boundVars, historyVars>>

\* The step is recorded before it is taken, on the item the worker has seen.
Begin(h) ==
  /\ pc[h] = "begin"
  /\ IF Unchanged(h) /\ item.run.state \in {"queued", "running"}
     THEN /\ Save([item EXCEPT !.run.state = "running", !.run.current = TRUE])
          /\ loaded' = [loaded EXCEPT ![h] = item.rev + 1]
          /\ Goto(h, "step")
     ELSE Goto(h, "block") /\ UNCHANGED <<item, loaded>>
  /\ UNCHANGED <<target, check, reply, drv, leaseVars, hostVars, boundVars, historyVars>>

\* The command of the step fails before its intent is saved: when it had
\* prepared something by then, it cannot tell.
RefuseStep(h) ==
  /\ pc[h] = "step"
  /\ Goto(h, "stepped")
  /\ \E result \in {"not_committed", "ambiguous"} : reply' = [reply EXCEPT ![h] = result]
  /\ UNCHANGED <<item, target, check, loaded, drv, leaseVars, hostVars, boundVars, historyVars>>

\* Mutant: the exception ends the worker's job.
LoseReplyUncaught(h) ==
  /\ pc[h] = "stepped"
  /\ Goto(h, "idle")
  /\ runLease' = None
  /\ UNCHANGED <<item, target, check, loaded, reply, drv, itemLease, hostVars, boundVars, historyVars>>

\* Its result is lost on the way back: the step stays as begun.
LoseReply(h) ==
  /\ pc[h] = "stepped"
  /\ Goto(h, "block")
  /\ UNCHANGED <<item, target, check, loaded, reply, drv, leaseVars, hostVars, boundVars, historyVars>>

\* An ambiguous result leaves the step as begun.
EndStep(h) ==
  /\ pc[h] = "stepped"
  /\ Save(IF reply[h] = "ambiguous" THEN item
          ELSE [item EXCEPT !.run.current = FALSE, !.run.next = @ + 1])
  /\ Goto(h, IF reply[h] = "committed"
                /\ (item.run.steps[item.run.next + 1] = "verify" => Ready)
             THEN "drive" ELSE "block")
  /\ UNCHANGED <<target, check, loaded, reply, drv, leaseVars, hostVars, boundVars, historyVars>>

\* finish(): update() tries again when somebody else has saved.
Finish(h) ==
  /\ pc[h] \in {"block", "complete"}
  /\ Save([item EXCEPT !.run.state = IF pc[h] = "block" THEN "blocked" ELSE "completed"])
  /\ runLease' = None
  /\ Goto(h, "idle")
  /\ UNCHANGED <<target, check, loaded, reply, drv, itemLease, hostVars, boundVars, historyVars>>

----------------------------------------------------------------------------
(* The world around.                                                       *)

Fault == faults < MaxFaults /\ faults' = faults + 1 /\ UNCHANGED asked

\* Somebody else moves the branch, perhaps to the very commit the operation
\* is about: with method `ff' that is the candidate's own.
Move ==
  /\ Fault
  /\ \/ target' \in {Initial, Theirs} \ {target} /\ UNCHANGED lent
     \/ /\ item.op.kind = "formal" /\ target # item.op.id
        /\ target' = item.op.id
        /\ lent' = lent \cup {[op |-> item.op.id, binding |-> item.op.binding]}
  /\ UNCHANGED <<item, check, threadVars, leaseVars, hostVars, writes, passed, paused>>

\* The host shuts down, and has stopped when its worker has drained the queue.
Close(h) ==
  /\ Fault
  /\ ~closed[h]
  /\ \A c \in Client : HostOf[c] = h => pc[c] # "submit"
  /\ closed' = [closed EXCEPT ![h] = TRUE]
  /\ UNCHANGED <<item, target, check, threadVars, leaseVars, queue, historyVars>>

Restart(h) ==
  /\ closed[h] /\ queue[h] = <<>> /\ pc[h] = "idle"
  /\ closed' = [closed EXCEPT ![h] = FALSE]
  /\ UNCHANGED <<item, target, check, threadVars, leaseVars, queue, boundVars, historyVars>>

\* The host dies, and a new one takes its place; nothing is driven again.
Crash(h) ==
  LET dead == {h} \cup {c \in Client : HostOf[c] = h} IN
  /\ Fault
  /\ pc' = [t \in Thread |-> IF t \in dead THEN "idle" ELSE pc[t]]
  /\ itemLease' = IF itemLease \in dead THEN None ELSE itemLease
  /\ runLease' = IF runLease \in dead THEN None ELSE runLease
  /\ queue' = [queue EXCEPT ![h] = <<>>]
  /\ closed' = [closed EXCEPT ![h] = FALSE]
  /\ \/ UNCHANGED check
     \/ itemLease \in dead /\ check' = [check EXCEPT !.live = FALSE]
  /\ UNCHANGED <<item, target, loaded, reply, drv, historyVars>>

----------------------------------------------------------------------------
CommandStep(t) ==
  \/ StartTest(t) \/ FinishTest(t) \/ RecordCheck(t)
  \/ EnterTransaction(t) \/ RefuseWrite(t) \/ UpdateRef(t)
  \/ Observe(t) \/ RecordEffect(t) \/ RecordRefusal(t)

ReconcileStep(c) ==
  \/ GiveUp(c) \/ RetireTester(c) \/ RecoverCheck(c)
  \/ ObserveAgain(c) \/ LoadAgain(c) \/ Interrupt(c)

ClientCommand(c) ==
  \/ Pause(c) \/ Resume(c) \/ Revise(c) \/ Decide(c) \/ Admit(c)
  \/ Verify(c) \/ Execute(c) \/ Reconcile(c)

ClientStep(c) == Submit(c) \/ CommandStep(c) \/ ReconcileStep(c)

WorkerStep(h) ==
  \/ Drive(h) \/ Look(h) \/ Begin(h) \/ Verify(h) \/ Execute(h) \/ RefuseStep(h)
  \/ CommandStep(h) \/ LoseReply(h) \/ EndStep(h) \/ Finish(h)

Next ==
  \/ \E c \in Client : ClientCommand(c) \/ ClientStep(c)
  \/ \E h \in Host : WorkerStep(h) \/ Close(h) \/ Restart(h) \/ Crash(h)
  \/ Move

Spec == Init /\ [][Next]_vars

\* Threads go on with what they have begun; a client need not begin anything,
\* nor does anybody have to restart a host.
Fairness ==
  /\ \A c \in Client : WF_vars(ClientStep(c))
  /\ \A h \in Host : WF_vars(WorkerStep(h))

FairSpec == Spec /\ Fairness

----------------------------------------------------------------------------
TypeOK ==
  /\ item \in [rev : Nat, status : {"prepared", "checking", "pausing", "paused", "executing",
                                    "integrated", "failed"},
               binding : Nat, base : Int, review : {"none", "accept", "defer"},
               evidence : [outcome : {"none", "passed", "failed"}, op : Nat],
               run : [id : Nat, state : Active \cup {"none", "blocked", "completed", "interrupted"},
                      steps : StepLists, next : 0 .. 2, binding : Nat, current : BOOLEAN],
               op : [id : Nat, kind : {"none", "verify", "formal"},
                     state : {"intent", "cleanup_pending", "observed"}, binding : Nat]]
  /\ target \in Int
  /\ check \in [op : Nat, state : {"none", "prepared", "running", "finished"},
                result : {"passed", "failed", "cleanup"}, live : BOOLEAN]
  /\ pc \in [Thread -> {"idle", "submit", "testing", "recording", "writing", "updating", "refusing",
                        "observing", "observed", "reconciling", "recovering", "interrupt",
                        "interrupting", "drive", "begin", "step", "stepped", "block", "complete"}]
  /\ loaded \in [Thread -> Nat]
  /\ reply \in [Host -> {"committed", "refused", "not_committed", "ambiguous"}]
  /\ drv \in [Host -> Nat]
  /\ queue \in [Host -> Seq(Nat)]
  /\ closed \in [Host -> BOOLEAN]
  /\ itemLease \in Thread \cup {None} /\ runLease \in Thread \cup {None}
  /\ asked \in 0 .. MaxCommands /\ faults \in 0 .. MaxFaults
  /\ writes \subseteq [op : Nat, binding : Nat, from : Int, planned : Int]
  /\ lent \subseteq [op : Nat, binding : Nat] /\ passed \subseteq [op : Nat, binding : Nat]
  /\ paused \subseteq Nat

\* Publish moves the branch at most once for a version of the plan, from the
\* commit the plan names, and only if the tests of this version have passed.
\* What an item shows as passed is such a result too: not one of an earlier
\* version, of an interrupted check or of one paused before it was recorded,
\* whoever crashed or interfered (_execute, _record_check, integrate).
IntegrationEarned ==
  LET Earned(b) == \E p \in passed : p.binding = b /\ p.op \notin paused IN
  /\ item.evidence.outcome = "passed" => Earned(item.binding)
  /\ \A w \in writes :
       /\ w.from = w.planned /\ Earned(w.binding)
       /\ \A v \in writes : v.binding = w.binding => v = w

\* What the ledger reports has happened: the branch was at the result of an
\* integrated item's operation and of the operation of a completed run that
\* ends in `execute', moved there by Publish or, as nobody can tell for
\* certain, by somebody else; Publish did not move it for a refused one
\* (_observe, _refused, drive).
OutcomesTrue ==
  LET Written(o) == \E w \in writes : w.op = o
      Reached(o) == Written(o) \/ \E l \in lent : l.op = o
  IN  /\ item.status = "integrated" => item.op.kind = "formal" /\ Reached(item.op.id)
      /\ item.status = "failed" => ~Written(item.op.id)
      /\ item.run.state = "completed" /\ item.run.steps # <<"verify">>
           => \E m \in writes \cup lent : m.binding = item.run.binding

\* A tester runs only under the check it was started for, and nobody gets the
\* item back before it is gone, also after a crash (recover_check).
TesterContained ==
  check.live => item.status \in {"checking", "pausing"} /\ item.op.id = check.op

Halted == item.status \in {"pausing", "paused"} \/ item.run.state = "stopping"

\* From a pause that was accepted to the resumption, nothing is begun: no
\* operation and no step of a run, although the worker may have decided
\* before to take the next one (drive, _pause).
PauseHolds ==
  [][Halted => /\ item'.op.id = item.op.id
               /\ item'.run.current => item.run.current]_vars

\* A run that a worker drives comes to an end that the ledger shows, unless
\* its host crashes, whatever its commands return and whoever interferes
\* (drive, finish).  The bound of the faults tells a crash from none.
RunSettles ==
  \A h \in Host : \A n \in 0 .. MaxFaults :
    (pc[h] # "idle" /\ item.run.id = drv[h] /\ faults = n)
      ~> (item.run.state \notin Active \/ faults # n)
=============================================================================
