--------------------------- MODULE ProcessManager ---------------------------
(***************************************************************************)
(* AgentProcessManager (loop/manager.py): one root task and the child      *)
(* executions it forks.  Every started child has a runner thread that      *)
(* waits for the child's upstream dependencies, for a concurrency slot and *)
(* for its resource claims, runs the child's target (the agent loop),      *)
(* releases everything, writes the terminal checkpoint and ends.           *)
(*                                                                         *)
(* The threads that share the manager's state are modelled as separate     *)
(* actors and interleave at the points where the code holds no common      *)
(* lock: the runner threads, the resume threads, the daemon's command loop *)
(* (user kill, reap, the answer to a question), the supervisor's           *)
(* cancel_agent tool and the task deadline thread.                         *)
(***************************************************************************)
EXTENDS AgentLifecycle, Integers, FiniteSets

CONSTANTS
  Root,            \* the supervisor's own process; it has no runner of ours
  Child,           \* the processes the supervisor may fork
  DependsOn,       \* child -> the siblings it declares as upstream
  SessionOf,       \* child -> its session identity
  Resource,        \* resource claim names
  Claims,          \* child -> the set of resources it claims
  Mode,            \* child -> "shared" or "exclusive"
  Overlap,         \* the pairs of claim names _resources_conflict relates
  MaxConcurrency,  \* permits of the _slots semaphore
  Killers,         \* the threads that may run kill()
  UserActs,        \* bound: the commands the user sends
  SaveOutcomes,    \* how a decision checkpoint may end
  MaxQuestions     \* bound: child -> questions it may ask the user

Proc == {Root} \union Child

ASSUME RootAssumption == Root \notin Child
ASSUME ChildAssumption == IsFiniteSet(Child)
ASSUME DependencyAssumption == DependsOn \in [Child -> SUBSET Child]
ASSUME ClaimAssumption ==
  /\ Claims \in [Child -> SUBSET Resource]
  /\ Mode \in [Child -> {"shared", "exclusive"}]
  /\ Overlap \subseteq Resource \X Resource
  /\ \A r, s \in Resource : <<r, s>> \in Overlap => <<s, r>> \in Overlap
ASSUME SlotAssumption == MaxConcurrency \in Nat \ {0}
ASSUME KillerAssumption == Killers \subseteq {"daemon", "supervisor", "deadline"}
ASSUME UserAssumption == UserActs \subseteq {"kill", "answer"}
ASSUME SaveAssumption == SaveOutcomes \subseteq {"ok", "error", "unknown"}
ASSUME QuestionAssumption == MaxQuestions \in [Child -> Nat]

VARIABLES
  status,        \* process -> ProcessStatus, "none" before fork
  cancelled,     \* process -> cancel_requested / cancellation_event
  finalized,     \* process -> lifecycle_finalized
  pending,       \* process -> an unanswered pending_decision is recorded
  asks,          \* child -> questions asked so far (bound only)
  thread,        \* process -> program point of its thread in _threads
  held,          \* children whose claims are in _resource_claims
  freeSlots,     \* permits left in the _slots semaphore
  continuation,  \* child -> has an entry in _continuations
  resume,        \* child -> program point of its queued resume thread
  kill,          \* killer -> the kill() call it is executing
  answer,        \* the decision command the daemon is executing
  daemonUp       \* the daemon's command loop has not been unwound

procVars   == <<status, cancelled, finalized, pending>>
runVars    == <<thread, held, freeSlots>>
resumeVars == <<continuation, resume>>
deskVars   == <<kill, answer, daemonUp>>
vars       == <<procVars, asks, runVars, resumeVars, deskVars>>

-----------------------------------------------------------------------------
(* Helpers.                                                                *)

Forked == {p \in Proc : status[p] # "none"}
Alive(p) == thread[p] \notin {"unstarted", "dead"}

\* Statuses of an execution that is not over.
Killable == {"running", "waiting", "awaiting_user", "resume_available",
             "recovery_review_required", "recovering"}
Unfinished == Killable \union {"cancelling"}

\* A mutant of Conflict, like every operator this module says is one: it
\* replaces the next definition in a check that the properties notice.
ConflictExclusivePairsOnly(p, q) ==
  /\ \E r \in Claims[p], s \in Claims[q] : <<r, s>> \in Overlap
  /\ Mode[p] = "exclusive" /\ Mode[q] = "exclusive"

\* Two claims conflict unless both are shared.
Conflict(p, q) ==
  /\ \E r \in Claims[p], s \in Claims[q] : <<r, s>> \in Overlap
  /\ Mode[p] = "exclusive" \/ Mode[q] = "exclusive"

\* Status of p after a worker's transition, the exception handler included.
Worker(p, proposed) ==
  status' = [status EXCEPT ![p] =
               AfterOrFailed(@, proposed, cancelled[p], finalized[p])]

\* The supervisor's own thread is inside cancel_agent.
SupervisorFree ==
  "supervisor" \in Killers => kill["supervisor"].phase = "idle"

\* Ownership descendants plus every DAG consumer of a cancelled node: the
\* least set of forked processes closed under both relations.
Closed(S) ==
  /\ Root \in S => Forked \subseteq S
  /\ \A q \in Forked \intersect Child : DependsOn[q] \intersect S # {} => q \in S

Closure(p) ==
  {q \in Forked : \A S \in SUBSET Forked : p \in S /\ Closed(S) => q \in S}

IdleKill   == [phase |-> "idle", job |-> "none", target |-> Root,
               scope |-> {}, todo |-> {}, at |-> Root, saw |-> "none"]
IdleAnswer == [phase |-> "idle", proc |-> Root]

-----------------------------------------------------------------------------
Init ==
  /\ status       = [p \in Proc |-> IF p = Root THEN "running" ELSE "none"]
  /\ cancelled    = [p \in Proc |-> FALSE]
  /\ finalized    = [p \in Proc |-> FALSE]
  /\ pending      = [p \in Proc |-> FALSE]
  /\ asks         = [p \in Child |-> 0]
  /\ thread       = [p \in Proc |-> IF p = Root THEN "loop" ELSE "unstarted"]
  /\ held         = {}
  /\ freeSlots    = MaxConcurrency
  /\ continuation = [p \in Child |-> FALSE]
  /\ resume       = [p \in Child |-> "none"]
  /\ kill         = [k \in Killers |-> IdleKill]
  /\ answer       = IdleAnswer
  /\ daemonUp     = TRUE

-----------------------------------------------------------------------------
(* Admission: fork() and start(), called by the supervisor's delegate tool *)
(* on the root's own thread.  The tool call was admitted before a kill     *)
(* could be seen, so neither step looks at the root's cancellation flag.   *)

\* Mutant: a session is free as soon as its last execution has an outcome.
SessionFreeByStatus(p) ==
  \A q \in Forked \intersect Child :
    SessionOf[q] = SessionOf[p] => status[q] \in Terminal \union {"orphaned"}

\* No other execution of the session is unfinished or still has a thread.
SessionFree(p) ==
  \A q \in Forked \intersect Child :
    SessionOf[q] = SessionOf[p] =>
      /\ status[q] \in Terminal \union {"orphaned"}
      /\ ~Alive(q)

Fork(p) ==
  /\ thread[Root] = "loop" /\ SupervisorFree
  /\ \A q \in Forked : thread[q] # "unstarted"   \* delegate forks, then starts
  /\ status[p] = "none"
  /\ DependsOn[p] \subseteq Forked
  /\ SessionFree(p)
  /\ status' = [status EXCEPT ![p] = "waiting"]
  /\ UNCHANGED <<cancelled, finalized, pending, asks, runVars, resumeVars, deskVars>>

\* start(): register the thread and the continuation; run() begins by
\* clearing lifecycle_finalized.
Launch(p) ==
  /\ thread'       = [thread EXCEPT ![p] = "deps"]
  /\ finalized'    = [finalized EXCEPT ![p] = FALSE]
  /\ continuation' = [continuation EXCEPT ![p] = TRUE]

Start(p) ==
  /\ thread[Root] = "loop" /\ SupervisorFree
  /\ p \in Forked /\ thread[p] = "unstarted"
  /\ Launch(p)
  /\ UNCHANGED <<status, cancelled, pending, asks, held, freeSlots, resume, deskVars>>

-----------------------------------------------------------------------------
(* The runner thread: run() of start().                                    *)

\* Mutant: the wait looks at the status alone.
HoldsByStatusOnly(u) == status[u] \in Unfinished

\* An upstream still holds its consumers back while it is unfinished, or
\* while its thread has not passed the terminal barrier.
Holds(u) == status[u] \in Unfinished \/ (thread[u] # "unstarted" /\ ~finalized[u])

\* Mutant: a child still waiting for upstreams does not see its cancellation.
DepsCancelledLate(p) ==
  /\ thread[p] = "deps" /\ DependsOn[p] # {} /\ cancelled[p]
  /\ \A u \in DependsOn[p] : ~Holds(u)
  /\ Worker(p, "cancelled")
  /\ thread' = [thread EXCEPT ![p] = "release"]
  /\ UNCHANGED <<cancelled, finalized, pending, asks, held, freeSlots, resumeVars, deskVars>>

DepsCancelled(p) ==
  /\ thread[p] = "deps" /\ DependsOn[p] # {} /\ cancelled[p]
  /\ Worker(p, "cancelled")
  /\ thread' = [thread EXCEPT ![p] = "release"]
  /\ UNCHANGED <<cancelled, finalized, pending, asks, held, freeSlots, resumeVars, deskVars>>

DepsFailed(p) ==
  /\ thread[p] = "deps" /\ ~cancelled[p]
  /\ \A u \in DependsOn[p] : ~Holds(u)
  /\ \E u \in DependsOn[p] : status[u] # "completed"
  /\ Worker(p, "failed")
  /\ thread' = [thread EXCEPT ![p] = "release"]
  /\ UNCHANGED <<cancelled, finalized, pending, asks, held, freeSlots, resumeVars, deskVars>>

DepsReady(p) ==
  /\ thread[p] = "deps" /\ (DependsOn[p] = {} \/ ~cancelled[p])
  /\ \A u \in DependsOn[p] : ~Holds(u) /\ status[u] = "completed"
  /\ thread' = [thread EXCEPT ![p] = "slot"]
  /\ UNCHANGED <<procVars, asks, held, freeSlots, resumeVars, deskVars>>

\* Mutant: the semaphore does not block.
TakeSlotAnyway(p) ==
  /\ thread[p] = "slot"
  /\ freeSlots' = freeSlots - 1
  /\ thread' = [thread EXCEPT ![p] = "claim"]
  /\ UNCHANGED <<procVars, asks, held, resumeVars, deskVars>>

\* with self._slots: not interruptible by a cancellation.
TakeSlot(p) ==
  /\ thread[p] = "slot" /\ freeSlots > 0
  /\ freeSlots' = freeSlots - 1
  /\ thread' = [thread EXCEPT ![p] = "claim"]
  /\ UNCHANGED <<procVars, asks, held, resumeVars, deskVars>>

\* _acquire_resources under _resource_condition.
ClaimRefused(p) ==
  /\ thread[p] = "claim" /\ cancelled[p]
  /\ Worker(p, "cancelled")
  /\ freeSlots' = freeSlots + 1
  /\ thread' = [thread EXCEPT ![p] = "release"]
  /\ UNCHANGED <<cancelled, finalized, pending, asks, held, resumeVars, deskVars>>

Claim(p) ==
  /\ thread[p] = "claim" /\ ~cancelled[p]
  /\ \A q \in held : ~Conflict(p, q)
  /\ held' = held \union {p}
  /\ thread' = [thread EXCEPT ![p] = "admit"]
  /\ UNCHANGED <<procVars, asks, freeSlots, resumeVars, deskVars>>

\* run_child prepares the worktree, then agent_step runs _start_process.
Admit(p) ==
  /\ thread[p] = "admit"
  /\ \/ /\ ~cancelled[p] /\ status[p] \in {"waiting", "running"}
        /\ Worker(p, "running")
        /\ thread' = [thread EXCEPT ![p] = "loop"]
     \/ /\ cancelled[p]
        /\ Worker(p, "cancelled")
        /\ thread' = [thread EXCEPT ![p] = "retire"]
     \/ \* any other status is returned as it is
        /\ ~cancelled[p] /\ status[p] \notin {"waiting", "running"}
        /\ thread' = [thread EXCEPT ![p] = "retire"]
        /\ UNCHANGED status
  /\ UNCHANGED <<cancelled, finalized, pending, asks, held, freeSlots, resumeVars, deskVars>>

\* Worktree, sandbox access or an input interface could not be prepared.
AdmitFailed(p) ==
  /\ thread[p] = "admit"
  /\ Worker(p, "failed")
  /\ thread' = [thread EXCEPT ![p] = "retire"]
  /\ UNCHANGED <<cancelled, finalized, pending, asks, held, freeSlots, resumeVars, deskVars>>

LoopFree(p) == thread[p] = "loop" /\ (p = Root => SupervisorFree)

\* The agent loop ends: delivered, failed, out of budget or time, or it saw
\* the cancellation at a step boundary.
LoopEnd(p) ==
  /\ LoopFree(p)
  /\ p = Root => \A q \in Forked : thread[q] # "unstarted"
  /\ \E outcome \in {"completed", "failed", "timed_out", "cancelled"} :
       /\ outcome = "cancelled" => cancelled[p]
       /\ Worker(p, outcome)
  /\ thread' = [thread EXCEPT ![p] = "retire"]
  /\ UNCHANGED <<cancelled, finalized, pending, asks, held, freeSlots, resumeVars, deskVars>>

\* A child suspends on a question to the user and unwinds its thread.
LoopAsk(p) ==
  /\ LoopFree(p) /\ p \in Child /\ asks[p] < MaxQuestions[p]
  /\ asks' = [asks EXCEPT ![p] = @ + 1]
  /\ pending' = [pending EXCEPT ![p] = TRUE]
  /\ Worker(p, "awaiting_user")
  /\ thread' = [thread EXCEPT ![p] = "retire"]
  /\ UNCHANGED <<cancelled, finalized, held, freeSlots, resumeVars, deskVars>>

\* After the loop: interface verification, sealing and sandbox cleanup, any
\* of which may fail; leaving the target gives the slot back.
Retire(p) ==
  /\ thread[p] = "retire"
  /\ UNCHANGED status \/ Worker(p, "failed")
  /\ freeSlots' = IF p = Root THEN freeSlots ELSE freeSlots + 1
  /\ thread' = [thread EXCEPT ![p] = "release"]
  /\ UNCHANGED <<cancelled, finalized, pending, asks, held, resumeVars, deskVars>>

\* Mutant: the claims of a cancelled child are forgotten.
ReleaseUnlessCancelled(p) ==
  /\ thread[p] = "release"
  /\ held' = IF cancelled[p] THEN held ELSE held \ {p}
  /\ thread' = [thread EXCEPT ![p] = "checkpoint"]
  /\ UNCHANGED <<procVars, asks, freeSlots, resumeVars, deskVars>>

\* _release_resources and the budget release in run()'s finally block.
Release(p) ==
  /\ thread[p] = "release"
  /\ held' = held \ {p}
  /\ thread' = [thread EXCEPT ![p] = "checkpoint"]
  /\ UNCHANGED <<procVars, asks, freeSlots, resumeVars, deskVars>>

\* Mutant: final before the checkpoint is written.
CheckpointEarlyFinality(p) ==
  /\ thread[p] = "checkpoint"
  /\ finalized' = [finalized EXCEPT ![p] = TRUE]
  /\ UNCHANGED status \/ status' = [status EXCEPT ![p] = "failed"]
  /\ thread' = [thread EXCEPT ![p] = "settle"]
  /\ UNCHANGED <<cancelled, pending, asks, held, freeSlots, resumeVars, deskVars>>

\* on_terminal(): the durable terminal checkpoint commits or raises.
Checkpoint(p) ==
  /\ thread[p] = "checkpoint"
  /\ \/ /\ finalized' = [finalized EXCEPT ![p] = TRUE]
        /\ UNCHANGED status
     \/ /\ finalized' = [finalized EXCEPT ![p] = FALSE]
        /\ status' = [status EXCEPT ![p] = AfterOrFailed(@, "failed", cancelled[p], FALSE)]
  /\ thread' = [thread EXCEPT ![p] = "settle"]
  /\ UNCHANGED <<cancelled, pending, asks, held, freeSlots, resumeVars, deskVars>>

\* The runner drops the continuation of a terminal process and ends; the
\* root's task thread raises lifecycle_finalized whatever its checkpoint did.
Settle(p) ==
  /\ thread[p] = "settle"
  /\ finalized' = IF p = Root THEN [finalized EXCEPT ![p] = TRUE] ELSE finalized
  /\ continuation' = IF p \in Child /\ status[p] \in Terminal
                     THEN [continuation EXCEPT ![p] = FALSE] ELSE continuation
  /\ thread' = [thread EXCEPT ![p] = "dead"]
  /\ UNCHANGED <<status, cancelled, pending, asks, held, freeSlots, resume, deskVars>>

-----------------------------------------------------------------------------
(* The answer to a question (the "decision" command) and resume_child().   *)

DaemonFree ==
  /\ daemonUp /\ answer.phase = "idle"
  /\ "daemon" \in Killers => kill["daemon"].phase = "idle"

AnswerCheck(p) ==
  /\ "answer" \in UserActs /\ DaemonFree
  /\ status[p] = "awaiting_user" /\ pending[p] /\ continuation[p]
  /\ answer' = [phase |-> "checked", proc |-> p]
  /\ UNCHANGED <<procVars, asks, runVars, resumeVars, kill, daemonUp>>

\* The question is cleared, then transition(RUNNING); when that raises, the
\* command handler reports the error and the question stays cleared.
AnswerApply ==
  LET p == answer.proc
      a == After(status[p], "running", cancelled[p], finalized[p])
  IN  /\ answer.phase = "checked"
      /\ pending' = [pending EXCEPT ![p] = FALSE]
      /\ IF a = Rejected
         THEN answer' = IdleAnswer /\ UNCHANGED status
         ELSE /\ answer' = [answer EXCEPT !.phase = "saving"]
              /\ status' = [status EXCEPT ![p] = a]
      /\ UNCHANGED <<cancelled, finalized, asks, runVars, resumeVars, kill, daemonUp>>

\* The answer must be durable before the child resumes.  A failed save puts
\* the prepared state back by plain assignment; an unknown commit blocks.
AnswerSave ==
  LET p == answer.proc
  IN  /\ answer.phase = "saving"
      /\ \E o \in SaveOutcomes :
           \/ /\ o = "ok"
              /\ answer' = [answer EXCEPT !.phase = "saved"]
              /\ UNCHANGED <<status, pending>>
           \/ /\ o = "error"
              /\ answer' = IdleAnswer
              /\ status' = [status EXCEPT ![p] = "awaiting_user"]
              /\ pending' = [pending EXCEPT ![p] = TRUE]
           \/ /\ o = "unknown"
              /\ answer' = IdleAnswer
              /\ status' = [status EXCEPT ![p] = AfterUncertainCommit(@)]
              /\ pending' = [pending EXCEPT ![p] = FALSE]
      /\ UNCHANGED <<cancelled, finalized, asks, runVars, resumeVars, kill, daemonUp>>

\* Mutant: an answer that finds the old runner still unwinding starts nothing.
AnswerResumeIfIdle ==
  LET p == answer.proc
  IN  /\ answer.phase = "saved"
      /\ answer' = IdleAnswer
      /\ resume' = IF continuation[p] /\ resume[p] = "none" /\ ~Alive(p)
                   THEN [resume EXCEPT ![p] = "joining"] ELSE resume
      /\ UNCHANGED <<procVars, asks, runVars, continuation, kill, daemonUp>>

\* resume_child(): without a continuation it raises; a queued resume absorbs
\* the call; otherwise a resume thread is started.
AnswerResume ==
  LET p == answer.proc
  IN  /\ answer.phase = "saved"
      /\ answer' = IdleAnswer
      /\ resume' = IF continuation[p] /\ resume[p] = "none"
                   THEN [resume EXCEPT ![p] = "joining"] ELSE resume
      /\ UNCHANGED <<procVars, asks, runVars, continuation, kill, daemonUp>>

\* The resume thread joins the previous runner before it looks at the state.
ResumeCheck(p) ==
  /\ resume[p] = "joining" /\ thread[p] = "dead"
  /\ resume' = [resume EXCEPT ![p] =
                  IF cancelled[p] \/ status[p] # "running" THEN "none" ELSE "checked"]
  /\ UNCHANGED <<procVars, asks, runVars, continuation, deskVars>>

\* start() from the resume thread; it raises when a runner is alive.
ResumeStart(p) ==
  /\ resume[p] = "checked"
  /\ resume' = [resume EXCEPT ![p] = "none"]
  /\ IF Alive(p) THEN UNCHANGED <<thread, finalized, continuation>> ELSE Launch(p)
  /\ UNCHANGED <<status, cancelled, pending, asks, held, freeSlots, deskVars>>

-----------------------------------------------------------------------------
(* kill(): three reads and writes per target that no lock joins.           *)

KillCall(k, p, job) ==
  /\ kill[k].phase = "idle"
  /\ p \in Forked
  /\ \E q \in Closure(p) : status[q] \in Killable
  /\ kill' = [kill EXCEPT ![k] =
                [phase |-> "pick", job |-> job, target |-> p,
                 scope |-> Closure(p), todo |-> Closure(p),
                 at |-> p, saw |-> "none"]]
  /\ UNCHANGED <<procVars, asks, runVars, resumeVars, answer, daemonUp>>

\* The "kill" command on the daemon's command loop.
UserKill(p) ==
  "kill" \in UserActs /\ "daemon" \in Killers /\ DaemonFree /\ KillCall("daemon", p, "user")

\* Mutant: parked children are nobody's orphans.
OrphanRunningOnly(p) == status[Root] \notin Unfinished /\ status[p] = "running"

\* An unfinished child whose parent is no longer active.
Orphan(p) == status[Root] \notin Unfinished /\ status[p] \in Unfinished

Reap(p) ==
  /\ "daemon" \in Killers /\ DaemonFree
  /\ Orphan(p)
  /\ KillCall("daemon", p, "reap")

\* cancel_agent, on the supervisor's thread, for a child it owns.
SupervisorKill(p) ==
  /\ "supervisor" \in Killers /\ thread[Root] = "loop" /\ p \in Child
  /\ KillCall("supervisor", p, "user")

\* The deadline thread of the root's task; it kills once and ends.
DeadlineKill ==
  /\ "deadline" \in Killers /\ Alive(Root)
  /\ KillCall("deadline", Root, "user")

\* Children and consumers come before the process the call names.
KillPick(k, t) ==
  /\ kill[k].phase = "pick" /\ t \in kill[k].todo
  /\ t = kill[k].target => kill[k].todo = {t}
  /\ \/ /\ status[t] \in Killable
        /\ kill' = [kill EXCEPT ![k].phase = "flag", ![k].at = t, ![k].saw = status[t]]
     \/ /\ status[t] \notin Killable
        /\ kill' = [kill EXCEPT ![k].todo = @ \ {t}]
  /\ UNCHANGED <<procVars, asks, runVars, resumeVars, answer, daemonUp>>

\* cancel_requested, cancellation_event.set(), and the open question closed.
KillFlag(k) ==
  LET t == kill[k].at
  IN  /\ kill[k].phase = "flag"
      /\ cancelled' = [cancelled EXCEPT ![t] = TRUE]
      /\ pending' = [pending EXCEPT ![t] = FALSE]
      /\ kill' = [kill EXCEPT ![k].phase = "move"]
      /\ UNCHANGED <<status, finalized, asks, runVars, resumeVars, answer, daemonUp>>

\* A parked execution without a live thread ends here; any other is only
\* moved to cancelling.  A transition that raises ends the whole call.
KillMove(k) ==
  LET t == kill[k].at
      parked == /\ kill[k].saw \in {"awaiting_user", "resume_available",
                                    "recovery_review_required"}
                /\ ~Alive(t)
      a == After(status[t], IF parked THEN "cancelled" ELSE "cancelling",
                 cancelled[t], finalized[t])
  IN  /\ kill[k].phase = "move"
      /\ IF a = Rejected
         THEN /\ kill' = [kill EXCEPT ![k].phase = "aborted"]
              /\ UNCHANGED <<status, finalized>>
         ELSE /\ status' = [status EXCEPT ![t] = a]
              /\ finalized' = [finalized EXCEPT ![t] = @ \/ parked]
              /\ kill' = [kill EXCEPT ![k].phase = "pick", ![k].todo = @ \ {t}]
      /\ UNCHANGED <<cancelled, pending, asks, runVars, resumeVars, answer, daemonUp>>

\* The call returns, or its exception reaches the caller: a command handler
\* and a tool report it, the daemon's reap loop has no handler and unwinds.
KillReturn(k) ==
  /\ \/ kill[k].phase = "pick" /\ kill[k].todo = {}
     \/ kill[k].phase = "aborted"
  /\ daemonUp' = (daemonUp /\ ~(kill[k].phase = "aborted" /\ kill[k].job = "reap"))
  /\ kill' = [kill EXCEPT ![k] =
                 [IdleKill EXCEPT !.phase = IF k = "deadline" THEN "done" ELSE "idle"]]
  /\ UNCHANGED <<procVars, asks, runVars, resumeVars, answer>>

-----------------------------------------------------------------------------
Runner(p) ==
  \/ Admit(p) \/ AdmitFailed(p) \/ LoopEnd(p) \/ Retire(p) \/ Release(p)
  \/ Checkpoint(p) \/ Settle(p)

ChildRunner(p) ==
  \/ DepsCancelled(p) \/ DepsFailed(p) \/ DepsReady(p)
  \/ TakeSlot(p) \/ ClaimRefused(p) \/ Claim(p)

Resumer(p) == ResumeCheck(p) \/ ResumeStart(p)

Answerer == AnswerApply \/ AnswerSave \/ AnswerResume

KillStep(k) ==
  (\E t \in Proc : KillPick(k, t)) \/ KillFlag(k) \/ KillMove(k) \/ KillReturn(k)

Next ==
  \/ \E p \in Child : Fork(p) \/ Start(p)
  \/ \E p \in Child : ChildRunner(p) \/ LoopAsk(p) \/ Resumer(p)
  \/ \E p \in Proc : Runner(p)
  \/ \E p \in Child : AnswerCheck(p)
  \/ Answerer
  \/ \E p \in Proc : UserKill(p)
  \/ \E p \in Child : Reap(p) \/ SupervisorKill(p)
  \/ DeadlineKill
  \/ \E k \in Killers : KillStep(k)

Spec == Init /\ [][Next]_vars

\* Threads that were started keep running; the agent loop is bounded by its
\* step and time budgets; the daemon's loop reaps in every cycle.  Nothing
\* forces the user to answer or to cancel, nor the supervisor to delegate.
Fairness ==
  /\ \A p \in Child : WF_vars(ChildRunner(p)) /\ WF_vars(Resumer(p)) /\ WF_vars(Start(p))
  /\ \A p \in Proc : WF_vars(Runner(p))
  /\ WF_vars(Answerer)
  /\ \A k \in Killers : WF_vars(KillStep(k))
  /\ WF_vars(\E p \in Child : Reap(p))

FairSpec == Spec /\ Fairness

-----------------------------------------------------------------------------
(* Properties.                                                             *)

Point == {"unstarted", "deps", "slot", "claim", "admit", "loop", "retire",
          "release", "checkpoint", "settle", "dead"}

KillRecord ==
  [phase : {"idle", "pick", "flag", "move", "aborted", "done"}, job : {"none", "user", "reap"},
   target : Proc, scope : SUBSET Proc, todo : SUBSET Proc, at : Proc,
   saw : Status \union {"none"}]

\* Type correctness of the manager's state.
TypeOK ==
  /\ status \in [Proc -> Status \union {"none"}]
  /\ cancelled \in [Proc -> BOOLEAN]
  /\ finalized \in [Proc -> BOOLEAN]
  /\ pending \in [Proc -> BOOLEAN]
  /\ asks \in [Child -> Nat]
  /\ thread \in [Proc -> Point]
  /\ held \subseteq Child
  /\ freeSlots \in Nat
  /\ continuation \in [Child -> BOOLEAN]
  /\ resume \in [Child -> {"none", "joining", "checked"}]
  /\ kill \in [Killers -> KillRecord]
  /\ answer \in [phase : {"idle", "checked", "saving", "saved"}, proc : Proc]
  /\ daemonUp \in BOOLEAN

\* Inside the target: the agent loop, the preparation before it, the sealing
\* after it.
InTarget(p) == thread[p] \in {"admit", "loop", "retire"}
Done(p) == status[p] = "completed" /\ finalized[p]

\* A child that got past its dependency wait (manager._wait_for_dependencies),
\* now or in a resumed run, has only upstreams that are completed behind their
\* terminal barrier: none of them fails, reopens or is cancelled meanwhile.
DependenciesDone ==
  \A p \in Child :
    thread[p] \in {"slot", "claim", "admit", "loop", "retire"} =>
      \A u \in DependsOn[p] : Done(u)

\* While an exclusive target runs, no other target holds a claim overlapping
\* one of its own, and no more targets run than the semaphore has permits
\* (_acquire_resources, _slots).
TargetsExclusive ==
  /\ \A p, q \in Child :
       p # q /\ InTarget(p) /\ InTarget(q) /\ Mode[p] = "exclusive" =>
         Overlap \intersect (Claims[p] \X Claims[q]) = {}
  /\ Cardinality({p \in Child : InTarget(p)}) <= MaxConcurrency

\* When no runner is between its slot and its claims, every permit and every
\* claim is back: no exit path of run() leaks either of them.
NothingLeaked ==
  (\A p \in Child : thread[p] \in {"unstarted", "deps", "slot", "dead"}) =>
     freeSlots = MaxConcurrency /\ held = {}

\* Two executions of one session are never inside their targets together
\* (fork's SESSION_EXECUTION_ACTIVE), resumed executions included.
OneTargetPerSession ==
  \A p, q \in Child :
    p # q /\ SessionOf[p] = SessionOf[q] => ~(InTarget(p) /\ InTarget(q))

\* A child that is running or waiting is in somebody's hands: its runner, its
\* resume thread or the command that is resuming it (manager.resume_child).
NobodyStranded ==
  \A p \in Child :
    status[p] \in {"running", "waiting"} =>
      \/ thread[p] \notin {"dead"}
      \/ resume[p] # "none"
      \/ answer.proc = p /\ answer.phase \in {"saving", "saved"}
      \/ cancelled[p]

\* Once kill() has flagged an execution it is never reported completed: the
\* lifecycle guard turns a racing success into a cancellation.
CancelledNeverCompletes ==
  [][\A p \in Proc : cancelled[p] /\ status'[p] = "completed"
                        => status[p] = "completed"]_vars

\* A terminal status behind its barrier is never replaced ("never a finalized
\* execution", lifecycle.transition), by whatever thread comes late.
FinalOutcomeStable ==
  [][\A p \in Proc : finalized[p] /\ status[p] \in Terminal
                        => status'[p] = status[p]]_vars

\* The outcome the rest of the system may rely on: a success counts once it is
\* behind the terminal barrier, any other terminal status at once.
outcomeOf(p) ==
  IF status[p] \in Terminal /\ (status[p] = "completed" => finalized[p])
  THEN status[p] ELSE "open"

Graph == INSTANCE TaskGraph WITH
  Task     <- Proc,
  Upstream <- [p \in Proc |-> IF p = Root THEN {} ELSE DependsOn[p]],
  outcome  <- [p \in Proc |-> outcomeOf(p)]

\* The manager implements the task graph: one outcome per execution, decided
\* once, and completed only after every upstream completed.
ImplementsGraph == Graph!Spec

\* Cancellation reaches a runner wherever it waits: for upstreams, for a slot,
\* for claims or in the loop, its thread stops and is not started again.  As
\* nothing takes a cancellation back, this says so of each of them.
CancelledRunnersStop ==
  <>[](\A p \in Proc : cancelled[p] => ~Alive(p))

\* Children do not outlive their supervisor: after the root ends, reap() gets
\* every one of them, parked on a question or waiting for a parked sibling:
\* its thread ends for good and nothing of it is left to cancel.  An exception
\* out of reap() ends the daemon's loop and with it this promise.
OrphansStop ==
  <>[](thread[Root] = "dead" /\ daemonUp =>
         \A p \in Child : ~Alive(p) /\ status[p] \notin Killable)

=============================================================================
