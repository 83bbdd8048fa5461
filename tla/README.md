# A verification development for Gitgo

Gitgo (`src/`) is an agent host: a daemon executes one user task as a tree of
agent executions, keeps what they do in a durable store, and updates its own
installation. This directory holds TLA+ models of the parts of that program in
which several actors share state, the TLC configurations that check them, and
proofs about them for TLAPS. Paths below are relative to
`src/backend/core/` unless they start with `docs/`, `tests/` or `src/`.

All commands run in this directory:

    tlc -workers 2 -config pm_chain.cfg MCProcessManager.tla
    tlc -workers 2 -config up_safe.cfg MCUpdateTransaction.tla
    tlc -workers 2 -config tree.cfg MCTaskTree.tla
    tlc -workers 2 -config routing.cfg MCProviderRouting.tla
    tlc -workers 2 -config co_safe.cfg MCCoordination.tla
    tlc -workers 2 -config publish.cfg MCPublish.tla
    tlapm ProcessManager_proofs.tla
    tlapm ProviderRouting_proofs.tla
    tlapm Coordination_proofs.tla
    tlapm UpdateTransaction_proofs.tla
    tlapm AtomicUpdate_proofs.tla
    tlapm Publish_proofs.tla
    tlapm TaskBudget_proofs.tla
    tlapm TaskTree_proofs.tla

## 1. Inventory

| Component | State | Operations | Interacts with | What is hard | What makes it correct |
|---|---|---|---|---|---|
| Execution lifecycle `loop/lifecycle.py`, `loop/models.py` | status, cancel flag, `lifecycle_finalized` of an execution | `transition`, `block_uncertain_checkpoint` | everything that touches an execution | calls race; success against cancellation | cancellation wins; a finalized outcome is final |
| Agent process manager `loop/manager.py` | processes, threads, `_slots`, `_resource_claims`, continuations | `fork`, `start`, `resume_child`, `kill`, `reap` | daemon, agent loop, delegation tools, storage | one thread per child, dependency waits, slots, claims, a checkpoint after the end | dependencies done, exclusive targets, nothing leaked, nobody stranded, everything stops |
| Agent loop `loop/executor.py`, `loop/run_admission.py`, `loop/turn_preparation.py`, `loop/runtime_outcomes.py` | turn, messages, tool batch | `agent_step`, suspension on a question | manager, providers, tools | cancellation is seen at step boundaries only | one outcome for each admitted run |
| Delegation tools `loop/protocol_tools/child_execution.py`, `child_review.py` | child descriptors, review state | delegate, cancel, review, repair | manager | run in the supervisor's thread against the daemon's | the child's target reports one status |
| Daemon command loop `daemon/dispatch.py`, `daemon/__init__.py` | the active task, its thread and deadline | submit, kill, decide, reap in each cycle | manager | concurrent with all runners; a raised exception ends the loop | commands are whole or have no effect |
| Mechanism control `daemon/mechanism_control.py` | manual units, `_run_lock` | `resume_waiters` | manager | competes with `start` for the run lock | a paused unit is resumed once |
| Tool batches `loop/tool_execution.py` | read and write claims of calls | ordering of a batch | manager (`_resources_conflict`) | wildcards, shared readers | no two conflicting calls overlap |
| Coordination `loop/coordination.py` | the owner's event ledger; blocks, projected events and contract baselines of each execution | observe a changed interface, propose, project, decide, take back | manager, mailbox, contracts | no common lock over ledger and contexts; decisions about proposals that were replaced meanwhile | dependents start on closed proposals; what is delivered was agreed; decisions arrive |
| Mailbox, scheduler, signals `loop/scheduler.py`, `loop/signal_bus.py` | queued user input and signals | enqueue, drain at a step boundary | daemon, loop | input that arrives while a task ends | no input lost, none delivered twice |
| Task budget `loop/budget.py`, `loop/budget_runtime.py` | one ledger for a task tree: agents, two pools, a lease for each execution, a copy in each checkpoint | reserve, lease, charge, release, preflight of a graph, wait for escrow | loop, manager, recovery | concurrent leases against one total; a graph tried on a copy; older copies after a restart | a promise to a child is kept and can be spent; nothing spent comes back |
| Provider routing `loop/provider_router.py`, `loop/llm.py`, `loop/provider_turn_runtime.py` | one circuit breaker for each route, permits of the attempts | acquire, finish, repeat, recover in one piece, fail over | loop, budget | half-open probes race; late answers; permits held while waiting | one probe at a time; only a probe closes an open circuit; the permit comes back |
| Permission broker `loop/permission_broker.py`, `loop/read_approval.py` | grants | ask, grant, consume, revoke | loop, daemon | grant consumed twice; stale revision | one use for each one-time grant |
| Worktrees `loop/worktree.py` | sealed child work, promotion records | create, seal, promote, discard | manager, storage | crash between commit and record | promoted once, in order |
| Recovery `loop/recovery.py`, `daemon/task_observations.py` | restored executions and ledger | barriers that save, classify, resume, review | storage, manager, budget | restart between two rows; copies of different age | nothing uncertain is run again unasked; the daemon starts again |
| Publish `publish/service.py`, `publish/integration.py`, `loop/publish_queue.py`, `loop/publish_recovery.py`, `loop/publish_runtime.py` | the ledger of candidates with plan, evidence, operations and run; leases of item and run; runtime records of checks | prepare, verify, execute, run, pause, resume, decide, reconcile | git, sandboxed tests, storage | pause against worker and check; a Git result that is lost; a tester that survives its host | the branch moves once, by tested plans only; reports are true; a pause holds; runs end |
| Storage `storage/` | SQLite, content store, leases | checkpoint, collect, migrate | all | crash between blob and row | referenced content is never collected |
| Update transaction `update/transaction.py`, `update/data_upgrade.py`, `update/installation.py` | ledger, program directories, data journal, two kernel locks | `apply`, `rollback`, `recover`, `runtime_lease` | launcher, running hosts, user data | kill and failing write at every durable step | always recoverable; program and data change together |
| Update discovery, preparation, handoff `update/checker.py`, `update/staging.py`, `update/handoff.py`, `update/coordinator.py`, `update/repair.py` | prepared package, handoff request, engine generation | check, stage, confirm, hand off | update transaction | requests consumed twice | no older release accepted |
| Tool pipeline, loop guard | counters of a turn | stage order, gates | loop | data-dependent policy | — |
| Prompts, context, provider adapters; sandbox; governance, facts; dashboard | text, operating system objects, files, screen | — | — | no protocol between actors of ours | — |

`PROJECT.json` lists the same components with what is modelled of each, and
the hazards of this code at their lines with the property that watches each.

## 2. Modules

| Module | Role |
|---|---|
| `AgentLifecycle` | the status algebra of one execution, as operators |
| `ProcessManager` | the manager with all threads that act on it; EXTENDS `AgentLifecycle` |
| `TaskGraph` | abstract: what the manager promises of a graph of tasks |
| `ProcessManager_proofs` | theorems about `ProcessManager` |
| `MCProcessManager` | small task trees for TLC |
| `UpdateTransaction` | the update transaction with its launches |
| `AtomicUpdate` | abstract: what an installation promises of its updates |
| `UpdateTransaction_proofs` | theorems about `UpdateTransaction` |
| `AtomicUpdate_proofs` | the refinement of `AtomicUpdate`; EXTENDS `UpdateTransaction_proofs` |
| `MCUpdateTransaction` | a small installation for TLC |
| `TaskBudget` | the budget ledger of a task tree, as operators |
| `TaskTree` | the processes of a task tree that share the ledger, its checkpoints and restart; EXTENDS `TaskBudget` |
| `TaskBudget_proofs` | lemmas about the ledger's operations and the sums in them |
| `TaskTree_proofs` | theorems about `TaskTree`; EXTENDS `TaskBudget_proofs` |
| `MCTaskTree` | a supervisor with workers and a reviewer for TLC |
| `CircuitBreaker` | the breaker of one provider route, as operators |
| `ProviderRouting` | callers that share breakers; EXTENDS `CircuitBreaker` |
| `ProviderRouting_proofs` | theorems about `ProviderRouting` |
| `MCProviderRouting` | two callers for TLC |
| `Coordination` | proposals about a changed interface and the decisions on them |
| `Coordination_proofs` | theorems about `Coordination` |
| `MCCoordination` | one source and one dependent for TLC |
| `Publish` | publishing a candidate to a branch: commands, queue worker, crash and reconciliation |
| `Publish_proofs` | theorems about `Publish` |
| `MCPublish` | two hosts with a client each for TLC |

### 2.1 AgentLifecycle and ProcessManager

`After(previous, proposed, cancelled, finalized)` is `transition(process,
proposed)`. That function runs under the process' `_coordination_lock`, so a
call is one evaluation; a call that raises yields `Rejected`. A worker whose
target raises goes through `AfterOrFailed` (`loop/manager.py:277`).

Every actor is a set of actions, cut where the code holds no common lock:

* **Runner thread of a child** (`start.run`, program counter `thread[p]`):
  `deps` – `_wait_for_dependencies`, split by its outcome (`DepsReady`,
  `DepsCancelled`, `DepsFailed`); `slot` – `TakeSlot`, the semaphore; `claim` –
  `Claim` or `ClaimRefused`; `admit`, `loop`, `retire` – the target: admission
  by the agent loop, its end or its question (`LoopEnd`, `LoopAsk`), and the
  writing of the result by the delegation tool; `release` – claims and slot
  given back; `checkpoint` – `on_terminal`, which may raise, and the terminal
  barrier `lifecycle_finalized`; `settle` – the rest of `finally`.
* **Runner of the root**: the same from `admit` on; its slot and claims do not
  exist, it is the daemon's task thread.
* **Resume thread** (`resume_child.resume`): `ResumeCheck` joins the old
  runner and looks at status and flag, `ResumeStart` starts a new runner.
  The gap between the two is in the code.
* **Decision command** (`daemon/dispatch.py:1680-1893`): `AnswerCheck`,
  `AnswerApply`, `AnswerSave` (the checkpoint may succeed, be refused, or end
  unknown), `AnswerResume`.
* **`kill()`** by three kinds of caller – the daemon (user command or `reap`),
  the supervisor's `cancel_agent`, the deadline thread: `KillPick` (status
  test), `KillFlag` (both flags), `KillMove` (transition), per target, then
  `KillReturn`. A transition that raises aborts the call (`aborted`); out of
  `reap()` this ends the daemon's loop (`daemonUp`).

Two modelling decisions. `cancel_requested` and `cancellation_event` are one
flag: they are written one after the other and no reader tells them apart in
between except through the order `KillFlag`/`KillMove`. Notifications and
polling waits are abstracted to their conditions: a waiter goes on when its
condition holds, because every wait has a timeout and looks again.

`TaskGraph` has one variable, the outcome of each task. The mapping
`outcomeOf` counts a success once it is behind the terminal barrier and any
other terminal status at once: sealing or the terminal checkpoint may turn a
provisional success into a failure, and that must not be visible as two
outcomes.

### 2.2 UpdateTransaction

An installation has one ledger, the directory `active`, and for each
transaction the directories `old`, `new`, `failed`. A release that declares
another data format brings a data journal and, for each data resource, slots
`old`, `new`, `failed`. In the model a payload is its release number, a data
resource is its format and an amount of user work, and digests compare values.

Every durable write is one action built from `Attempt`: it succeeds; or raises
without effect; or raises although it took effect (the rename is done, the
`fsync` of the directory fails – `update/persistence.py:160-186`). `Crash` is
a kill between any two steps and frees the kernel locks. `MaxFaults` bounds
both together.

* **`_operation()`**: `Start` takes `operation.lock`, `LockRuntime` the
  exclusive `runtime.lock`, or `Busy` gives up; neither waits.
* **`_apply()`**: `Select` (high water, version, retained directories),
  `Stage`, `Shadow` and `Migrate` when the format changes, then `Prepare` –
  `Commit` with the intent of each directory switch written before the switch.
  A failure before `Prepare` leaves an orphaned directory (`Abandon`), a
  failure after it goes to recovery with the ledger read again (`Reload`).
* **`_rollback()`**: `Preflight`, `Intent`, then recovery.
* **`_recover_locked()`**: `RecoverData`/`RestoreResource`/`DataRestored` for
  the data, `RecoverProgram`, `Inspect`, `Unpublish`, `Restore`, `Close` for
  the program. `Deliver` is what the operation that needed it reports.
* **`runtime_lease()`** and the launcher: `Launch` reads the ledger without a
  lock, `LeaseLock` takes the shared lock, `LeaseAdmit` or `LeaseRefused` does
  the check under `operation.lock`; `HostExit`, and `HostWrite` for the work
  of the installed release on the user's data (not code of this component,
  marked external).

`AtomicUpdate` is what the rest may rely on: hosts are admitted and exit, only
running hosts write data, a release is accepted only when it is newer than
anything accepted before, and commit and rollback change program and data in
one step with no host running; after a change of format there is no way back.
The refinement mapping gives the data of a pending transaction the value it
had before, whatever half of it has moved.

### 2.3 TaskBudget and TaskTree

Every method of `TaskTreeBudget` runs under one lock, so `TaskBudget` has an
operator from ledger to ledger for each of them (`WithAgent`, `WithLease`,
`Charged`, `Released`) and a predicate for its admission (`AgentAdmitted`,
`LeaseAdmitted`, `CallAdmitted`, `OutputAdmitted`). Two resources, provider
calls and output tokens, are each divided into the pool for work and the
reserve for verification; a lease of a child is `reserved` and `used`. What the
root may still take is the pool less what is promised to children
(`Promised`). `Preflight` folds the admissions of a graph over a copy of the
ledger, as `preflight_children()` does.

`TaskTree` is the composition with the threads that call these operations. The
program counter `proc[p]` is cut at the operations on the ledger and the store:

* **a turn of any process**: `StartTurn`, `Charge` (`begin_provider_call`; the
  root may have to wait for escrow, `Waits`), `Refused`, `Output`
  (`consume_output_estimate`), `Answered`, `Checkpoint`;
* **delegation by the root**: `Delegate` of one child, or `DelegateGraph` with
  the preflight and then `ReserveAgent` and `Register` for each node; a failed
  node gives back its slot and kills the nodes before it (`RefuseNode`);
* **the start of a child**, which holds its lease while it waits: for the
  upstreams in `DependsOn` to complete, then for its slot and claims.
  `Concurrent`, the sets of children that may be at work together, stands for
  these two; `ProcessManager` has them in detail. `StartChild` ends the wait,
  `NotStarted` is a child that is cancelled in it or whose upstream failed;
* **interface proposals**, as far as they make a child with a lease wait:
  `Block` before the start of a child with dependencies, or before a turn of
  the child that has changed the interface. `Decided` is the tool call of the
  root, so the root must be between two turns; for a child before its start it
  may also be another child that takes the proposal back. `Undecided` is the
  end of the wait by cancellation or deadline. What is proposed and decided is
  in `Coordination`;
* **the end of a child**: `Stop`, `ReleaseLease`, `SaveTerminal`, in this
  order – the lease is given back before the terminal checkpoint is written;
* **environment**: `Cancel`, `Deadline`, `Reap`, and `Ask`/`Parked`/`Continue`
  of a child that stops for the user: its new runner queues for a slot again;
* **restart**: `copies[p]` is the row the last checkpoint of `p` wrote, with
  the copy of the ledger and the children inside it. `Crash` replaces the
  memory by what recovery restores: the newest of the copies, and for each
  process a status from its row (`Recovered`); `down` when the root's row names
  a child that has no row.

### 2.4 CircuitBreaker and ProviderRouting

`Acquired`/`PermitOf` are `acquire()` (`loop/provider_router.py:55`) and
`Finished(b, permit, outcome)` is `finish()`, each one step under the breaker's
lock. The clock is the action `Cool`, which may let an open breaker's pause
pass at any time.

A turn of a caller walks `Order[p]`: `NextRoute` or `Skip` (no credentials, no
tool support, no room), `Acquire`, `Charge`, `Refused`, and then the outcomes of
the request. A root may have to wait for what its children hold, with the
permit in its hands (`AwaitEscrow`); it looks again whenever something may have
changed (`EscrowMoves`), and whether that happens is in `TaskTree`. The outcomes: `Complete`, `Failover`, `Rejected` by the provider, `Observe` and
`Interrupted` for a stream that breaks off after its first event, `CutOff`,
`Recover` for the request in one piece, `Reduced` for a repetition without a
refused capability, and `Cancel`. Every one of them says what it passes to
`finish()`.

### 2.5 Coordination

The subject is what stands between a worker that changes an interface it has
promised (`Source`) and the workers that build on it. Ledger and contexts have
a lock each and nobody holds two. Hence `todo[t]`: after the append to the
ledger a thread has a sequence of visits ahead, one context each (`Visit`),
and the threads of source and owner interleave between visits.

* **Source**: `Write` is a tool that changes the interface and is observed,
  `WriteUnobserved` one whose effects are not looked at. The observation reads
  the contract, then the ledger (`ReadContract`, `ReadLedger`), and acts on
  what it read: `NothingNew`, `TakeBack` (the interface is as agreed again),
  `Publish`, or `PublishFails` (the candidate cannot be stored; a proposal it
  was to replace stays dismissed). `EndTurn`, `NextTurn`, `Abandon`: the wait
  for decisions between turns. `Respond`, `VerifyOutput`: the end of the work.
* **Owner**: `List` what is pending, and later `Decide` any proposal it has
  ever listed.
* **Dependent**: `Start` is the wait of `_wait_for_dependencies` for the
  upstream and for its own blocks, `VerifyInput` the check of the contract
  before it runs.

### 2.6 Publish

One item of the publish ledger with a formal plan. `item` is what the ledger
has of it; every save makes a new revision (`Save`) and, as the ledger is
saved by compare-and-set, a thread that compares `loaded` with it
(`Unchanged`) stands for a save that may find another reference. A command
that only loads and saves is one action: it takes place at its save.

* **Clients** (threads of any host): `Pause` (which takes no lease), `Resume`,
  `Revise`, `Decide`, `Admit` and `Submit` (the two halves of a run),
  `Verify`, `Execute`, `Reconcile`.
* **Checks and the ref transaction**, by a client or a worker: the intent, then
  `StartTest`, `FinishTest`, `RecordCheck`; or `EnterTransaction` or
  `RefuseWrite`, `UpdateRef` (whose result may be lost), `Observe`,
  `RecordEffect` or `RecordRefusal`.
* **Worker** (`drive`): `Drive` takes a queued run and its lease, `Look` loads
  the item and decides, `Begin` records the step, its command runs as above,
  `EndStep` or `LoseReply`, `Finish`.
* **Reconciliation**: `RetireTester` and `RecoverCheck` for a check,
  `ObserveAgain` for a write, `LoadAgain` and `Interrupt` for the run.
* **World**: another writer of the branch (`Move`), shutdown (`Close`,
  `Restart`) and `Crash`, which releases leases, loses the queue and may leave
  the tester alive.

A commit is named by the operation it is the result of, so a branch at
`item.op.id` is a branch at this very commit. With method `ff` the result is the
candidate's own commit (`publish/integration.py:289`), which was there before
and which anybody can put on the branch: this is the second half of `Move`. Two
`ff` operations on one candidate have the same commit; the model gives each its
own. `writes` (moves by Publish), `lent` (moves by others to the result of an
operation), `passed` and `paused` are history.

### 2.7 Slips

Some operators are marked, in the comment before them, as a mutant or a slip.
They are not part of a specification: each replaces the definition it
precedes, to see that the property named with it in `PROJECT.json` fails on a
plausible mistake.

## 3. Runs

| Run | Question | Instance | Checks |
|---|---|---|---|
| `pm_chain` | Does a consumer start only on finished work, do permits and claims come back, is there one outcome each? | root, producer, consumer; one permit; both claim one file; the user kills, `reap` runs; checkpoints may fail | `DependenciesDone`, `NothingLeaked`, `ImplementsGraph` |
| `pm_claims` | Are targets exclusive through wildcards and shared readers? | three independent children, two permits, two writers of one file each, a shared reader of the wildcard | `TypeOK`, `TargetsExclusive` |
| `pm_race` | Do answers, unwinding runners, cancellations and unknown saves lose or resurrect anybody? Do children end after the root? | producer and consumer, each asks once; the supervisor and `reap` cancel | `NobodyStranded`, `CancelledNeverCompletes`, `FinalOutcomeStable`, `CancelledRunnersStop`, `OrphansStop` |
| `pm_session` | Do two executions of one session ever run together? | two independent children of one session, two permits, a deadline that kills, failing saves, one of them asks | `OneTargetPerSession` |
| `up_safe` | Is every disk state recoverable, is every report true, are updates atomic? | three releases, the third changes the format; two transactions, two resources (one not there at first), one updater, one host, two faults | `TypeOK`, `Recoverable`, `ReportsAreTrue`, `ImplementsAtomicUpdate` |
| `up_live` | Do locks protect running hosts, and does a pending transaction end? | two updaters, two hosts, one transaction, two faults | `RunsWhatIsInstalled`, `PendingEnds` |
| `tree` | Is a promise to a child kept and can it be spent? Does an accepted graph stay admissible? Does the root's wait for escrow end? | root, two workers delegated alone or as a graph, a reviewer; five calls and three tokens; one worker asks and may be killed, the other depends on it; the first does not work beside the reviewer; proposals may hold up the second and the reviewer; the deadline may pass | `EscrowHonoured`, `EscrowSpendable`, `PreflightHolds`, `BudgetWaitEnds` |
| `tree_crash` | Does a restart forget anything that was spent or given back, or a child that counts? | root and two workers, at most two agents; three calls and two tokens; one crash; kills, questions, deadline | `TypeOK`, `NoResurrection`, `AgentsCounted` |
| `tree_restart` | Does the daemon start again after every crash? See "Findings". | the same without kills, questions and deadline | `Restartable`, violated |
| `routing` | Is there one probe at a time, does only a probe heal a breaker, does its permit come back? | a root, which may wait for its children, over a main route, an unusable one and a backup, another caller with the main route only; thresholds of two, a window of three samples; allowances of two and four requests | `TypeOK`, `OneProbe`, `HealedByProbe`, `ProbeReturns` |
| `co_safe` | Does anything start or get delivered on an interface nobody agreed to? Do decisions arrive? | one source, one dependent; three versions, two proposals, two decisions, three changes | `TypeOK`, `StartsDecided`, `SealedAgreed`, `DecisionReaches` |
| `publish` | Is the branch moved once and by tested plans only, do reports tell the truth, does a pause hold, does every run end? | two hosts with a client and a worker each; three commands of any kind, one fault | `TypeOK`, `IntegrationEarned`, `OutcomesTrue`, `TesterContained`, `PauseHolds`, `RunSettles` |

### Bounds

*Process manager.* Two children give every pairwise interleaving of runners
and a dependency edge; three are needed only for the wildcard with two permits
(a third target must be kept out by a claim and not by the semaphore). One
question for a child gives one suspension, one answer racing the unwinding
and one resumed run; a second question repeats that cycle from the same
states. `UserActs` names the commands the user sends; `SaveOutcomes` how a
decision checkpoint ends. `Killers` names who may call `kill()`; one kind of
caller is enough for most runs as all of them execute the same steps.

*Update.* Two transactions are needed for "the previous transaction was
committed long ago" and for a rollback followed by another update; three
releases for one update within a format and one across; two resources for a
partially moved set, one of them absent at the beginning as the code treats
that case separately. Two faults give a failure followed by a failing or
killed recovery. `MaxWork` bounds the writes of hosts (one is enough to tell
"before the update" from "worked on since").

*Task tree.* Two workers let one spend or end while the other is admitted, and
are the smallest graph; the reviewer brings the second pool. The limits leave
less than the children could use, so that admissions are refused, the root
waits for escrow, and a pool is used up to its last unit. The second worker
depends on the first, which may ask the user, and the first and the reviewer
exclude each other: with two proposals every way to hold a lease and wait
occurs, for the user, for an upstream, for a place, and for a decision, in the
start and in the work, and also one behind the other. `MaxRevision` bounds
the ledger revision at which the root still delegates; behaviours go on past
it. One crash is followed by every interleaving before and after it; a second
one finds rows of the same kinds. In `tree_crash` two workers compete for the
one place that `MaxAgents` leaves, so a slot counted wrongly shows.

*Routing.* A half-open breaker needs two callers that may be let through; an
allowance of four lets one caller fail often enough to open the breaker, and
come back as a probe while the other still has its request out. A threshold of
two successes makes one probe follow another.

*Coordination.* Two proposals are needed for replacing one; two decisions for
a late one after the replacement; a third change for taking back, or for going
on unobserved. One dependent is enough for the order of visits, as source and
dependent are two contexts; the theorems hold for any number.

*Publish.* Three commands are the least for a run, something that interferes
with it and a reconciliation or a new plan afterwards; a run itself takes the
two further commands of its steps without counting. One fault gives a crash, a
shutdown or a foreign move at every point; the invariants also hold with two
faults and with four commands, which take longer. Two hosts: a client in the
worker's process, which dies with it, and one outside.

### Fairness

`ProcessManager!Fairness`: started threads keep running; the agent loop ends
because it is bounded by its budgets of steps and time, which are part of the
code; queued resume threads and running `kill()` calls go on; the daemon reaps
in every cycle of its loop; a child that was forked is started, since `delegate` does both in one call.
Nothing makes the user answer or kill, or the supervisor delegate. Weak
fairness is enough: semaphore and claims are polled by all waiters, and no
liveness property depends on who gets them.

`UpdateTransaction!Fairness`: a process that has its locks goes on. A launch
that finds a pending transaction recovers before anything else
(`update/installation.py:483-487`); it does not wait for locks, so a launch
may find them taken and the user tries again: strong fairness of
`Start(u, "recover")` while something is pending. Nobody has to apply, roll
back, launch or exit. Kills and failing writes are not fair and bounded by
`MaxFaults`: with unboundedly many of them no transaction would end.

`TaskTree!Fairness`: threads run on, and so does a delegation that was begun. A
child that waits for upstreams and places polls for them, so weak fairness of
`StartChild` and `NotStarted` promises a start only while the way stays free;
the same holds for `Undecided`. Users, the clock, kills, `reap`, the decision to
delegate and the decisions over proposals are not fair.

`ProviderRouting!Fairness`: each caller goes on with its call: the transport
has an idle timeout. Nobody has to start a turn, no breaker has to cool, and no
child has to give capacity back (`EscrowMoves`): a root that waits for its
budget leaves that wait for certain only when it is cancelled.

`Coordination!FairSpec`: a thread that has begun its visits makes them, as the
loop over the contexts has no wait in it. Nobody has to write, list or decide.

`Publish!Fairness`: a command that was begun, and a worker with a run, go on
(section 6 says how often they try);
tests have a deadline, Git commands a timeout. Nobody has to issue a command,
reconcile or restart a host. `RunSettles` asks nothing of a run whose host has
crashed: it waits for a `reconcile`, as the docstring of the module says. Nor
of a run that no worker drives: one that was paused between its admission and
its launch, or that was taken from the queue while a reconciliation held its
lease, stays active until somebody reconciles.

### Findings

`tree_restart` – the root's row lists every child it has registered, and the
next barrier that saves the root (the result of `delegate_task`, or the start
of another child) may come before the child's first row: it still waits for
its thread, its dependencies or a slot. A crash then leaves a store that
`loop/recovery.py:262` refuses with `CONTINUATION_STATE_UNAVAILABLE`, at the
next start and at each one after it. `daemon/task_observations.py:47-50`
promises the opposite for a child that was started; the counterexample has one
child.

Other disagreements met on the way, which have no run of their own:

* `kill()` tests the status, sets the flags and makes the transition without a
  common lock. A worker that ends in between makes the transition raise; the
  rest of the scope, the named process last, is never flagged, although the
  docstring says "Cancel a process and every live descendant in its task
  subtree". Out of `reap()` the exception also ends the daemon's event loop,
  which has no handler. `OrphansStop` is therefore stated for a daemon whose
  loop is up (`daemonUp`).
* A child that has suspended on a question while its runner still unwinds is
  moved to `cancelling` by `kill()`; its runner has looked at the flag for the
  last time, and `reap()` and later kills skip that status: it stays
  `cancelling` for ever. `OrphansStop` asks only that the thread ends.
* When the checkpoint of a decision is refused, the command restores
  `awaiting_user` by assignment; a cancellation that finalized the execution
  meanwhile is overwritten. Two theorems and `pm_race`, `pm_chain` assume that
  saves are not refused (`"error"` is not in `SaveOutcomes`).
* While the root polls for capacity (`loop/budget_runtime.py:11-35`), a child
  may hold it that waits itself: in its start behind an upstream that asks the
  user (`loop/manager.py:481-506`), or for a decision on an interface
  (517-520, 536-542), which is the root's to make and which it cannot make
  while it polls. The first ends when the user answers, the second only by
  cancellation or the deadline, and the deadline is not looked at while the
  task is paused for a question (`loop/budget.py:656`). `BudgetWaitEnds` names
  such children (`HeldUp`) as its exception. A child that has itself stopped
  for the user is not waited for.
* The permit of a provider attempt is taken before the budget is asked
  (`loop/provider_turn_runtime.py:61-63`). When it is a probe, the breaker of
  that route refuses every other caller as long as this one waits for its
  children, with no limit but cancellation and the deadline: the exception in
  `ProbeReturns`.
* `docs/update-transactions.md:7` says an update across data formats is
  refused and nothing is migrated; the code migrates since updater 0.2.0, as
  `docs/update-preparation.md:51` describes, and so does the model.
* `resolve_coordination_event()` (`loop/coordination.py:530-609`) looks a
  proposal up and does not ask for its status, so a late decision reopens a
  proposal that was dismissed, against the comment at 433-434, and a late
  acceptance of a replaced version replaces everybody's baseline.
  `StartsDecided` and `SealedAgreed` hold all the same, as `Decide` does this.
* A proposal is in the ledger before it is projected (321-333). A decision
  that outruns the projection leaves the block on a dependent for ever;
  `DecisionReaches` names this exception.
* `loop/protocol_tools/child_execution.py:410-425` reads, changes and writes
  back the context of a child; a projection in between is lost. `Coordination`
  leaves this write out: the dependents there have passed their barrier.
* A refusal before the write is saved once (`publish/service.py:289-301`),
  without the retry a check's result has. When the run is paused between load
  and save, the save fails, the command ends as ambiguous and the item stays
  `executing`: reconciliation only observes the branch, so the definite
  refusal never becomes the final state that `docs/PUBLISH_IMPLEMENTATION.md:125`
  promises. `Publish` has these steps (`RefuseWrite`, `Pause`,
  `RecordRefusal`); no property of it claims that promise.

## 4. Proofs

`ProcessManager_proofs` proves, for every task tree, dependency relation,
claims, overlap relation and number of permits – the constants under their
named assumptions, which say only what `fork` and `start` accept:

| Theorem | States | Along |
|---|---|---|
| `TypeCorrect` | `Spec => []TypeOK` | `TypeStep`, one case for each action |
| `TargetsAreExclusive` | `[]TargetsExclusive` | `AccessInv` |
| `NothingIsLeaked` | `[]NothingLeaked` | `AccessInv` |
| `CancellationWins` | `CancelledNeverCompletes` | `LocalInv`, lemma `CompletionIsProposed` |
| `FinalOutcomesAreStable` | `FinalOutcomeStable`, when saves are not refused | `LocalInv`, lemma `FinalStep` |
| `DependenciesAreDone` | `[]DependenciesDone` | `LifeInv` |
| `ManagerImplementsGraph` | `ImplementsGraph`, when saves are not refused | `LifeInv`, lemma `OneAtATime` |
| `NobodyIsStranded` | `[]NobodyStranded` | `HandInv` |
| `SessionsAreExclusive` | `[]OneTargetPerSession` | `HandInv`, `SessionsApart` |

None of the properties is inductive. `AccessInv` adds the accounting they hide:
`SlotsCounted` (free permits plus children between slot and release are
`MaxConcurrency`, which brings in the cardinality theorems), `ClaimsHeld` and
`HeldByRunner` (which program points hold claims, and that only they do), and
`HeldCompatible` (holders do not conflict pairwise – inductive because `Claim`
tests against all of `held`).

`LifeInv` is about statuses: a running execution is not finalized; one that
awaits the user has left its loop; a completed one has left its target, and is
finalized only by its checkpoint; a decision being saved has moved its
execution on; a resume that was checked has a dead runner; and
`DependenciesDone`, whose preservation needs all of these, because an upstream
that is completed and finalized must not be reopened by an answer, a resumed
run or an unknown commit. The refinement then needs that a step decides at
most one outcome (`OneAtATime`) and a success only past the dependency wait.

`HandInv` says who holds a child at each moment, with any outcome of decision
saves. A running child past its loop is held by a resume thread, by the answer
that has just moved it, or by a cancellation (`RunningIsHeld`), and a waiting
one has not left its loop (`WaitingBefore`). That this is kept at every hand
over needs more: a resume that was checked belongs to a running or cancelled
child (`CheckedRuns`), a child that has ended without cancellation has no
continuation to be resumed with (`EndedIsDropped`), an answer in progress is
for a child that still has its continuation or has ended (`AnswerIsKept`), a
`kill` about to move the status has set the flag (`MovesAreFlagged`).

`fork` admits a second execution of a session when it sees the first one
ended or paused, from its thread alone; `SessionsApart` is what makes that
enough. Of two executions of a session the first one is `Out`: flagged and
outside its target, or `Spent`, with a dead thread, no continuation, no
checked resume and no answer on its way. Neither is undone by any action
(a cancelled child is not admitted to its target again, a spent one has nothing
to be started with), so the two are never inside together.

`ProviderRouting_proofs` proves, for every set of callers and routes, every
order of routes and all breaker settings:

| Theorem | States | Along |
|---|---|---|
| `TypeCorrect` | `Spec => []TypeOK` | one case for each action |
| `OneProbeHolds` | `[]OneProbe` | `IInv` |
| `HealedByProbeHolds` | `HealedByProbe` | `IInv`, lemma `FinishInv` |

`IInv` adds to `OneProbe` that no permit is of a later generation than its
breaker, and one of the same generation fits its state (`PermitsFit`), and that a probe is in flight only while the breaker is
half open (`InflightIsHalfOpen`). Most actions leave the breakers and permits
alone (`Keeps`), so the work is in three lemmas: acquiring, finishing, cooling.

`Coordination_proofs` proves, for any number of dependents, versions,
proposals and decisions:

| Theorem | States | Along |
|---|---|---|
| `TypeCorrect` | `Spec => []TypeOK` | one case for each action |
| `SealedAgreedHolds` | `[]SealedAgreed` | `AgreedInv` |
| `StartsDecidedHolds` | `[]StartsDecided` | `StartsInv` |

`AgreedInv`: every baseline, and every baseline on its way in a visit, is the
frozen version or an accepted one (`BaselinesAgreed`, `VisitsAgreed`).
`StartsInv` follows a block: for each proposal nobody has closed, each
dependent either has the block or a visit of the source that brings it
(`Blocked`); a visit that ends a block belongs to a closing entry of the ledger
(`EndsClosed`); a sealed source has no visits ahead (`SealedIsQuiet`), so an
unblocked dependent has only closed proposals behind it (`StartedIsClosed`).

`UpdateTransaction_proofs` proves, for every number of releases, transactions,
resources, updaters, hosts, kills and failing writes, and every assignment of
data formats to releases that never goes back to an older one
(`SchemaAssumption`: `data_migrate.py:36` refuses a candidate whose
configuration format is older):

| Theorem | States | Along |
|---|---|---|
| `TypeCorrect` | `Spec => []TypeOK` | `SafeInv` |
| `RecoverableHolds` | `[]Recoverable` | `SafeInv` |
| `ReportsAreTrueHolds` | `[]ReportsAreTrue` | `SafeInv` |
| `HostsStandAside` | no host beside an exclusive operation; a running one runs the current release | `SafeInv` |
| `RunsWhatIsInstalledHolds` | `[]RunsWhatIsInstalled` | `SafeInv` and `DataKnown` |
| `TransactionIsAtomic` (`AtomicUpdate_proofs`) | `ImplementsAtomicUpdate` | `Aims`, over both |

`Recoverable` is a statement about the disk alone and not inductive: that a
rename leads to an accepted layout depends on which step the operation has
reached, and on nobody else renaming. `SafeInv` supplies both. `OneOwner` and
`NoReader` are the two kernel locks: one operation at a time, and no host beside
one that owns the installation, so at most one program point matters.
`PointInv` says for each program point what the operation has found or done:
the candidate in a directory nobody else has used (`PreparingInv`), the layout
between the switches (`ProgramInv`), the data resource by resource (`DataInv`:
those before the current one moved, those after it untouched), what a recovery
has still to do (`RecoverInv`), and whose transaction a failed apply may find
(`ForeignInv`, without which a report is not true). A failing write may or may
not have taken effect, so each step is proved for both disks. `FreshInv` says
that directories not used yet are empty, and `LedgerInv` how current, old and
new release and the state of the transaction fit.

`DataKnown` adds the formats: what a host will find is in a format of the
installed release, what the journal is going to publish in one of the release it
belongs to, and a transaction without a journal does not change the format.
Steps that decide nothing about the data are `Quiet` and need one lemma.

The refinement needs `Aims`: the last transaction is for the newest release
accepted (`high`), has a journal exactly when the format changes, and publishes
a migration of what it found, and so does a candidate on its way. Then of some
thirty actions only these are visible: `Prepare` accepts a release, or retries
one accepted before; `Select` may raise `high` to the release that is already
installed; `Commit` is the abstract commit of release and data; `Intent` of a
rollback is the abstract return, so that `Close` and all of recovery are
stutters; `HostWrite`, `LeaseAdmit` and `HostExit` are the hosts' own steps.

`Publish_proofs` proves, for any number of clients, hosts, commands and faults,
from `PublishAssumption` alone (each client belongs to a host, and nobody is
called `None`):

| Theorem | States | Along |
|---|---|---|
| `Typed` | `Spec => []TypeOK` | `Shape` |
| `TesterIsContained` | `[]TesterContained` | `Operations` |
| `IntegrationIsEarned` | `[]IntegrationEarned` | `History` |
| `OutcomesAreTrue` | `[]OutcomesTrue` | `History`, `Runs` |
| `PauseIsKept` | `PauseHolds` | `Runs`, lemmas `QuietOrTelling` and `Calm` |

The invariant comes in five stages, each kept by the steps that keep those
before it. The properties speak of the item and of the branch; whether a step
keeps them depends on what the threads on their way have loaded.

1. `Shape`: types, with what TLC's bounds hide; a queue holds numbers of runs.
2. `Leases`: who is at a point that saves the item holds its lease, a worker
   the run lease, a reconciling client both. So at most one thread is between
   the intent of an operation and its end, whatever has crashed.
3. `Operations`: operations are numbered upwards (`Numbered`), the operation
   the item shows is the one of the thread that is inside it (`OperationFits`,
   `PointsFit`), and who is about to record a check knows what is left of its
   tester (`TesterKnown`). `pause` needs no lease: it changes the status of the
   item under a check, never its operation.
4. `History`: what the ledger shows has happened. Evidence that says passed
   belongs to a check that passed, was not paused and is older than any write
   for it (`EvidenceEarned`, `WritesEarned`); a version whose move is still
   open has no write (`Unwritten`); the branch is where it started, where
   somebody else put it, or at the result of an operation, by a write of ours or
   by others (`TargetReached`). Whoever brings the branch to a result does so
   for the plan of that operation (`LentFits`), which a completed run rests on.
5. `Runs`: a run is launched once and taken by one worker, which begins at its
   first step (`LaunchedOnce`, `NotBegun`); and `WorkerFits`: what a worker has loaded
   is the item as it is, or an older revision with which its next save
   fails (`AsSeen`), and what it is going to report is true (`Reported`). A pause is a
   new revision, so the worker that decided before it to take the next step is
   refused: this is `PauseIsKept`.

Each save of the item has a lemma on what it makes of every field
(`...Saves`), so that the stages cite fields and not records; a step that saves
nothing is `Quiet`.

`TaskTree_proofs` proves, for any set of children and their purposes, any
limits, reserves and shares, any graphs without a repeated node, any requests
and any number of crashes (`MaxRevision` and `MaxCrashes` are arbitrary):

| Theorem | States | Along |
|---|---|---|
| `TreeIsTyped` | `Spec => []TypeOK` | `Typed` |
| `EscrowIsHonoured` | `[]EscrowHonoured` | `Balanced` |
| `EscrowIsSpendable` | `[]EscrowSpendable`, when each reserve is below its limit | `Balanced`, lemma `PromiseCovers` |
| `PreflightIsKept` | `[]PreflightHolds` | `Nodes`, `Room` |
| `NothingIsForgotten` | `[]NoResurrection` | `Ordered` |
| `SlotsCoverChildren` | `[]AgentsCounted` | `Balanced`, `Known` |

`TreeInv` is the conjunction of these parts. The properties speak of the ledger
as it is; a crash replaces it by a copy, so the invariant has to say the same
of the copies, and how they stand to each other.

* `Balanced`: the ledger and the copy in each row are `Sound`: no pool is
  committed to more than it holds, the root has a lease, and there is a slot
  for the root and for each child that ever got a lease.
* `Ordered`: of any two copies one is `Later` than the other, and the ledger is
  later than all. Later means that no spending and no lease is forgotten, none
  that was given back is active again, and that what differs in either has
  another revision. The last part makes the highest revision the right choice:
  copies of one revision may differ in time, not in what was spent.
* `Known`: who is known has a lease, also in its own row. So after a restart a
  child that was found again has a lease in whichever copy was chosen.
* `Nodes`: the nodes that a delegation has still to create differ, are absent
  and have no lease, and between the two halves of `fork` there is a slot more
  than leases.
* `Room`: what is left of an accepted graph `Fits`: there are numbers, for each
  pool before each node, that start within what is available and from which
  each node can take what it asks for. A default share shrinks with what is
  available, so a node may get more than on the preflight's copy; `AskGrows`
  says that who finds more leaves no less. So the graph goes on fitting
  (`FitsMore`, `FitsRest`) when children spend, end or are killed: each of
  these steps `Eases` the ledger.

`TaskBudget_proofs` has a lemma for each operation of the ledger, on what it
does to the sum over the children's leases. The induction over finite sets
that sums need is by least counterexample: `WFMin` of the library, with
`FS_StrictSubsetOrderingWellFounded` for the sets on which a statement fails
(`SubsetInduction`), and over numbers for the fold of `preflight_children`
(`TriesExist`).

The hypothesis of `EscrowIsSpendable` holds in the code with one exception. The
reserve is `ceil(limit * ratio)` with a ratio of at most 0.40
(`loop/budget.py:53-55`, `:362`), which is below every limit but 1, and
`max_provider_calls` may be 1. Then each pool holds the one call
(`max(1, maximum - verification)`), and a reviewer's lease is refused by the
total once the root has spent it. `EscrowHonoured` holds there too.

## 5. What is only model-checked

All liveness: `CancelledRunnersStop`, `OrphansStop`, `PendingEnds`,
`BudgetWaitEnds`, `ProbeReturns`, `DecisionReaches`, `RunSettles`: liveness under
fairness and ENABLED are beyond the prover. Every invariant, every action
property and both refinements that passing runs check are also proved, three of
them under the hypothesis the table names (`FinalOutcomeStable` and `ImplementsGraph`
for saves that are not refused, `EscrowSpendable` for a reserve below its limit).

## 6. What is not modelled, and why

* In `ProcessManager`: manual units (`resume_waiters`) and contention for
  `_run_lock`; questions of the root itself; worktrees, mailbox, and the
  restored statuses after a restart; the decision over a lesson's checker,
  which ends its process instead of resuming it
  (`daemon/dispatch.py:1845-1878`). The interface wait inside
  `_wait_for_dependencies` is in `Coordination`, the leases and the restart
  are in `TaskTree`.
* In `UpdateTransaction`: registration and repair; extraction, signatures and
  download (data checks; their failing is a failing `Stage`); foreign changes
  of the payload; one high water instead of one for each channel; the limit of
  eight rollback probes (a failing `Preflight`); the storage lease that
  recovery of data takes (its failing is a failing write).
* In `TaskTree`: time is one flag, set when the task's deadline has passed; the
  soft deadline, its extension by a provider phase and its pause while the user
  is asked are left out, and so is reported usage, which no admission reads.
  Slots and claims are those of one tree: what other trees hold is left out,
  and a recovered child that works without a slot counts as at work (`AtWork`).
  Of recovery: evidence of invocations and of worktrees, digests that do not
  fit, and successors of a finished root.
* In `ProviderRouting`: the registry, which drops its oldest breaker at 128
  entries; the preference for the route that worked last.
* In `Coordination`: the owner's own projection, which only its prompt shows;
  mailbox notices; the cap of 64 projected events; other kinds of events; a
  source that is continued after it has completed.
* In `Publish`: adoption to a new work branch, commit plugins and their
  completion, the limits of queue and ledger, sharing, collaboration,
  distribution, branch plans and the migration of old records. A request sent
  again is answered from its receipt and changes nothing. The worker's saves
  are tried eight times (`loop/publish_queue.py:100-114`), a check's result four
  times (`publish/integration.py:196-201`), and a `finish` that fails within the
  handler of `drive` (170-172) ends the worker's loop over this run; the model
  tries again without limit in `EndStep`, `Finish` and `RecordCheck`. With three
  commands and one fault nobody can change the item that often between two
  tries.
* Components of pure text, policy or operating system calls, as listed above.

## 7. Plan

Order: by how much of the system's correctness rests on the part.

1. Done: `AgentLifecycle`, `ProcessManager`, `TaskGraph` with proofs;
   `UpdateTransaction`, `AtomicUpdate` with proofs; `TaskBudget`, `TaskTree`,
   `CircuitBreaker`, `ProviderRouting`, `Coordination` and `Publish` with
   proofs.
2. `PermissionBroker`: grants used once. The mailbox: no input lost, none
   delivered twice.
3. `Worktree`: sealing, promotion, and their evidence in recovery; composed
   with the terminal barrier of `ProcessManager`.
4. The rest of publishing: adoption, plugins, distribution.
