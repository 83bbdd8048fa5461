-------------------------- MODULE UpdateTransaction --------------------------
(***************************************************************************)
(* The update transaction of a managed installation (update/transaction.py *)
(* with update/data_upgrade.py): one ledger, the program directories       *)
(* active, old, new and failed of every transaction, and the data journal  *)
(* of a transaction that migrates user data.                               *)
(*                                                                         *)
(* Every durable write is one step.  A write may be refused, may raise     *)
(* although it took effect, and the process may be killed before and after *)
(* it; the two kernel locks die with their holder.  `runtime.lock` is      *)
(* shared by the running hosts and exclusive to an operation;              *)
(* `operation.lock` is exclusive and a launch takes it for its checks.     *)
(***************************************************************************)
EXTENDS Naturals, FiniteSets

CONSTANTS
  MaxVersion,    \* bound: releases 1 .. MaxVersion; 1 is installed first
  Schema,        \* release -> the data format it declares
  MaxTxn,        \* transaction directories that may be retained
  MaxResource,   \* data resources 1 .. MaxResource, in journal order
  Seeded,        \* the resources that exist from the beginning
  MaxWork,       \* bound: writes of running hosts to a resource
  MaxFaults,     \* bound: crashes and failing writes
  Updater,       \* processes that run apply, recover or rollback
  Host           \* processes that run the installed program

Version  == 1 .. MaxVersion
Txn      == 1 .. MaxTxn
Resource == 1 .. MaxResource

ASSUME BoundAssumption ==
  /\ MaxVersion \in Nat \ {0}
  /\ {MaxTxn, MaxResource, MaxWork, MaxFaults} \subseteq Nat
\* A newer release never declares an older data format.
ASSUME SchemaAssumption ==
  /\ Schema \in [Version -> Nat \ {0}]
  /\ \A v, w \in Version : v <= w => Schema[v] <= Schema[w]
ASSUME SeedAssumption == Seeded \subseteq Resource
ASSUME ProcessAssumption ==
  /\ IsFiniteSet(Updater) /\ IsFiniteSet(Host) /\ Updater \cap Host = {}
  /\ "free" \notin Updater

VARIABLES
  ledger,   \* control/ledger.json
  active,   \* release in the active directory, 0 when there is none
  slot,     \* transaction -> its directories old, new and failed
  used,     \* transaction directories created so far
  journal,  \* transaction -> its data journal
  live,     \* resource -> its content under its own name
  kept,     \* transaction -> resource -> its slots old, new and failed
  op,       \* updater -> the operation it is executing
  opLock,   \* holder of operation.lock, or "free"
  host,     \* host -> where it is in runtime_lease()
  faults    \* crashes and failing writes so far (bound only)

disk == <<ledger, active, slot, used, journal, live, kept>>
program == <<active, slot, used>>
userData == <<journal, live, kept>>
vars == <<disk, op, opLock, host, faults>>

-----------------------------------------------------------------------------
(* Contents.  A payload is its release; data is its format (gen, 0 when    *)
(* there is none) and the user work in it.                                 *)

Absent == [gen |-> 0, work |-> 0]
NoTxn == [id |-> 0, state |-> "NONE", old |-> 0, new |-> 0, cause |-> "none"]
NoJournal == [state |-> "NONE", before |-> [r \in Resource |-> Absent],
              after |-> [r \in Resource |-> Absent]]
EmptySlots == [old |-> 0, new |-> 0, failed |-> 0]
EmptyKept == [r \in Resource |-> [old |-> Absent, new |-> Absent, failed |-> Absent]]

Terminal == {"NONE", "COMMITTED", "ROLLED_BACK"}

txn == ledger.txn
dirs == slot[txn.id]
Pending == txn.state \notin Terminal
Journaled == txn.id # 0 /\ journal[txn.id].state # "NONE"

NoResult == [status |-> "none", version |-> 0]
IdleOp == [at |-> "idle", kind |-> "none", id |-> 0, target |-> 0, next |-> 0,
           result |-> NoResult]

\* An operation between its two locks and its return owns the installation.
Exclusive(u) == op[u].at \notin {"idle", "lock"}
Reading == {h \in Host : host[h] \in {"shared", "in"}}

Init ==
  /\ ledger = [current |-> 1, high |-> 0, txn |-> NoTxn]
  /\ active = 1
  /\ live = [r \in Resource |-> IF r \in Seeded THEN [gen |-> Schema[1], work |-> 0]
                                ELSE Absent]
  /\ slot = [t \in Txn |-> EmptySlots]
  /\ used = 0
  /\ journal = [t \in Txn |-> NoJournal]
  /\ kept = [t \in Txn |-> EmptyKept]
  /\ op = [u \in Updater |-> IdleOp]
  /\ opLock = "free"
  /\ host = [h \in Host |-> "out"]
  /\ faults = 0

-----------------------------------------------------------------------------
(* Steps of an operation.                                                  *)

Goto(u, p) == op' = [op EXCEPT ![u].at = p]
Finish(u, s, v) ==
  op' = [op EXCEPT ![u].at = "return", ![u].result = [status |-> s, version |-> v]]

Fault == faults < MaxFaults /\ faults' = faults + 1

\* A durable write that succeeds, or raises with or without its effect.
Attempt(u, write, succeed, fail) ==
  /\ \/ write /\ succeed /\ UNCHANGED faults
     \/ Fault /\ fail /\ (write \/ UNCHANGED disk)
  /\ UNCHANGED <<opLock, host>>

\* A step that reads and decides.
Decide(u, outcome) == outcome /\ UNCHANGED <<disk, opLock, host, faults>>

\* A directory switch: it raises unless the source is what the ledger says
\* and the target does not exist.
Switch(u, possible, move, succeed, fail) ==
  IF possible THEN Attempt(u, move, succeed, fail) ELSE Decide(u, fail)

SaveLedger(l) == ledger' = l /\ UNCHANGED <<program, userData>>
SaveState(s) == SaveLedger([ledger EXCEPT !.txn.state = s])
SaveJournal(t, j) ==
  journal' = [journal EXCEPT ![t] = j] /\ UNCHANGED <<ledger, program, live, kept>>

\* Where a failing write leads: inside the transaction's try block recovery
\* reloads the ledger; in recovery itself the installation needs another one.
Reload(u) == Goto(u, "recover")
Stuck(u) == Finish(u, "recovery_required", 0)
Abandon(u) == Finish(u, "rejected", 0)

MoveActive(to) ==
  /\ active' = 0
  /\ slot' = [slot EXCEPT ![txn.id] = [@ EXCEPT ![to] = active]]
  /\ UNCHANGED <<ledger, used, userData>>
MoveToActive(from) ==
  /\ active' = dirs[from]
  /\ slot' = [slot EXCEPT ![txn.id] = [@ EXCEPT ![from] = 0]]
  /\ UNCHANGED <<ledger, used, userData>>

MoveLive(t, r, to) ==
  /\ live' = [live EXCEPT ![r] = Absent]
  /\ kept' = [kept EXCEPT ![t][r] = [@ EXCEPT ![to] = live[r]]]
  /\ UNCHANGED <<ledger, program, journal>>
MoveToLive(t, r, from) ==
  /\ live' = [live EXCEPT ![r] = kept[t][r][from]]
  /\ kept' = [kept EXCEPT ![t][r] = [@ EXCEPT ![from] = Absent]]
  /\ UNCHANGED <<ledger, program, journal>>

-----------------------------------------------------------------------------
(* Evidence: the layouts that recovery and admission accept.               *)

Layout == <<active, dirs.old, dirs.new, dirs.failed>>

KnownLayout ==
  LET o == txn.old n == txn.new
  IN  Layout \in {<<o, 0, n, 0>>, <<0, o, n, 0>>, <<n, o, 0, 0>>,
                  <<0, o, 0, n>>, <<o, 0, 0, n>>}

CommittedData ==
  Journaled =>
    /\ journal[txn.id].state = "PUBLISHED"
    /\ \A r \in Resource :
         journal[txn.id].before[r] # Absent =>
           kept[txn.id][r].old = journal[txn.id].before[r]

\* What _recover_locked demands of a ledger without a pending transaction.
TerminalEvidence ==
  CASE txn.state = "NONE"        -> active = ledger.current
    [] txn.state = "COMMITTED"   -> CommittedData /\ Layout = <<txn.new, txn.old, 0, 0>>
    [] txn.state = "ROLLED_BACK" -> KnownLayout /\ active = txn.old
    [] OTHER                     -> FALSE

KnownData(r) ==
  LET b == journal[txn.id].before[r] a == journal[txn.id].after[r]
      k == kept[txn.id][r]
  IN  <<live[r], k.old, k.new, k.failed>> \in
        {<<b, Absent, a, Absent>>, <<Absent, b, a, Absent>>, <<a, b, Absent, Absent>>,
         <<Absent, b, Absent, a>>, <<b, Absent, Absent, a>>}

-----------------------------------------------------------------------------
(* Entering and leaving an operation: operation.lock, then runtime.lock,   *)
(* neither of them waited for.                                             *)

Start(u, kind) ==
  /\ op[u].at = "idle" /\ opLock = "free"
  /\ opLock' = u
  /\ op' = [op EXCEPT ![u] = [IdleOp EXCEPT !.at = "lock", !.kind = kind]]
  /\ UNCHANGED <<disk, host, faults>>

\* Mutant: the operation does not wait for the running hosts to leave.
LockRuntimeAnyway(u) ==
  /\ op[u].at = "lock"
  /\ Decide(u, Goto(u, CASE op[u].kind = "recover" -> "recover"
                         [] op[u].kind = "apply" -> "select"
                         [] OTHER -> "preflight"))

LockRuntime(u) ==
  /\ op[u].at = "lock" /\ Reading = {}
  /\ Decide(u, Goto(u, CASE op[u].kind = "recover" -> "recover"
                         [] op[u].kind = "apply" -> "select"
                         [] OTHER -> "preflight"))

Busy(u) ==
  /\ op[u].at = "lock" /\ Reading # {}
  /\ op' = [op EXCEPT ![u] = IdleOp]
  /\ opLock' = "free"
  /\ UNCHANGED <<disk, host, faults>>

Return(u) ==
  /\ op[u].at = "return"
  /\ op' = [op EXCEPT ![u] = IdleOp]
  /\ opLock' = "free"
  /\ UNCHANGED <<disk, host, faults>>

\* The process is killed: the kernel frees its locks.
Crash(u) ==
  /\ op[u].at # "idle" /\ Fault
  /\ op' = [op EXCEPT ![u] = IdleOp]
  /\ opLock' = "free"
  /\ UNCHANGED <<disk, host>>

-----------------------------------------------------------------------------
(* _apply(): select, stage, migrate a copy of the data, then switch.       *)

\* Mutant: no limit to the transactions retained.
SelectUnlimited(u, v) ==
  /\ op[u].at = "select"
  /\ ~Pending /\ TerminalEvidence /\ v > ledger.current /\ v >= ledger.high
  /\ Decide(u, op' = [op EXCEPT ![u].at = "stage", ![u].id = used + 1, ![u].target = v])

\* The release the policy offers is checked against ledger and high water.
Select(u, v) ==
  /\ op[u].at = "select"
  /\ \/ /\ Pending \/ ~TerminalEvidence \/ v < ledger.high \/ v < ledger.current
        /\ Decide(u, Abandon(u))
     \/ /\ ~Pending /\ TerminalEvidence /\ v = ledger.current /\ v >= ledger.high
        /\ Attempt(u, SaveLedger([ledger EXCEPT !.high = v]),
                   Finish(u, "up_to_date", v), Abandon(u))
     \/ /\ ~Pending /\ TerminalEvidence /\ v > ledger.current /\ v >= ledger.high
        /\ Decide(u, IF used = MaxTxn THEN Abandon(u)
                     ELSE op' = [op EXCEPT ![u].at = "stage", ![u].id = used + 1,
                                           ![u].target = v])

\* A directory of its own, the candidate extracted, verified and synced.
Stage(u) ==
  LET t == op[u].id
  IN  /\ op[u].at = "stage"
      /\ Attempt(u, /\ used' = t
                    /\ slot' = [slot EXCEPT ![t].new = op[u].target]
                    /\ UNCHANGED <<ledger, active, userData>>,
                 Goto(u, IF Schema[op[u].target] = Schema[ledger.current]
                         THEN "prepare" ELSE "shadow"),
                 Abandon(u))

\* DataUpgrade.prepare(): shadow copies, then the journal.
Shadow(u) ==
  LET t == op[u].id
  IN  /\ op[u].at = "shadow"
      /\ Attempt(u, /\ kept' = [kept EXCEPT ![t] =
                                 [r \in Resource |-> [@[r] EXCEPT !.new = live[r]]]]
                    /\ journal' = [journal EXCEPT ![t] =
                                    [@ EXCEPT !.state = "PREPARED", !.before = live]]
                    /\ UNCHANGED <<ledger, program, live>>,
                 Goto(u, "migrate"), Abandon(u))

\* The candidate's adapter migrates the copies; validate() records them.  A
\* resource may keep its bytes; one that did not exist may be created.
Migrate(u, R) ==
  LET t == op[u].id
      after == [r \in Resource |->
                  IF r \in R THEN [live[r] EXCEPT !.gen = Schema[op[u].target]] ELSE live[r]]
  IN  /\ op[u].at = "migrate"
      /\ Attempt(u, /\ kept' = [kept EXCEPT ![t] =
                                 [r \in Resource |-> [@[r] EXCEPT !.new = after[r]]]]
                    /\ journal' = [journal EXCEPT ![t] =
                                    [@ EXCEPT !.state = "VALIDATED", !.after = after]]
                    /\ UNCHANGED <<ledger, program, live>>,
                 Goto(u, "prepare"), Abandon(u))

\* The transaction and its high water become durable together.
Prepare(u) ==
  /\ op[u].at = "prepare"
  /\ Attempt(u, SaveLedger([ledger EXCEPT
                  !.high = op[u].target,
                  !.txn = [id |-> op[u].id, state |-> "PREPARED", old |-> ledger.current,
                           new |-> op[u].target, cause |-> "none"]]),
             Goto(u, "save_old"), Reload(u))

\* The intent of each switch is durable before the switch.
SaveOld(u) ==
  /\ op[u].at = "save_old"
  /\ Attempt(u, SaveState("SAVE_OLD"), Goto(u, "move_old"), Reload(u))

MoveOld(u) ==
  /\ op[u].at = "move_old"
  /\ Switch(u, active = txn.old /\ dirs.old = 0, MoveActive("old"),
            Goto(u, "publish_new"), Reload(u))

PublishNew(u) ==
  /\ op[u].at = "publish_new"
  /\ Attempt(u, SaveState("PUBLISH_NEW"), Goto(u, "move_new"), Reload(u))

MoveNew(u) ==
  /\ op[u].at = "move_new"
  /\ Switch(u, dirs.new = txn.new /\ active = 0, MoveToActive("new"),
            Goto(u, "check_new"), Reload(u))

CheckNew(u) ==
  /\ op[u].at = "check_new"
  /\ Attempt(u, SaveState("CHECK_NEW"), Goto(u, "health"), Reload(u))

\* The startup probe, and the release's freshness checked once more.
Health(u) ==
  /\ op[u].at = "health"
  /\ Decide(u, \/ Reload(u)
               \/ Goto(u, IF Journaled THEN "publish_data" ELSE "commit"))

\* Mutant: the data moves before the intent to move it is durable.
PublishDataAtOnce(u) ==
  /\ op[u].at = "publish_data"
  /\ Decide(u, op' = [op EXCEPT ![u].at = "data_old", ![u].next = 1])

\* DataUpgrade.publish(): every resource is checked before the first moves.
PublishData(u) ==
  LET j == journal[txn.id]
      unchanged == /\ j.state = "VALIDATED"
                   /\ \A r \in Resource : /\ live[r] = j.before[r]
                                         /\ kept[txn.id][r].new = j.after[r]
  IN  /\ op[u].at = "publish_data"
      /\ IF unchanged
         THEN Attempt(u, SaveJournal(txn.id, [j EXCEPT !.state = "PUBLISHING"]),
                      op' = [op EXCEPT ![u].at = "data_old", ![u].next = 1], Reload(u))
         ELSE Decide(u, Reload(u))

DataOld(u) ==
  LET r == op[u].next
  IN  /\ op[u].at = "data_old" /\ r \in Resource
      /\ IF journal[txn.id].before[r] = Absent
         THEN Decide(u, Goto(u, "data_new"))
         ELSE Attempt(u, MoveLive(txn.id, r, "old"), Goto(u, "data_new"), Reload(u))

NextResource(u, p) == op' = [op EXCEPT ![u].at = p, ![u].next = @ + 1]

DataNew(u) ==
  LET r == op[u].next
  IN  /\ op[u].at = "data_new"
      /\ IF journal[txn.id].after[r] = Absent
         THEN Decide(u, NextResource(u, "data_old"))
         ELSE Attempt(u, MoveToLive(txn.id, r, "new"), NextResource(u, "data_old"), Reload(u))

DataPublished(u) ==
  /\ op[u].at = "data_old" /\ op[u].next \notin Resource
  /\ Attempt(u, SaveJournal(txn.id, [journal[txn.id] EXCEPT !.state = "PUBLISHED"]),
             Goto(u, "commit"), Reload(u))

Commit(u) ==
  /\ op[u].at = "commit"
  /\ Attempt(u, SaveLedger([ledger EXCEPT !.current = txn.new, !.txn.state = "COMMITTED"]),
             Finish(u, "committed", op[u].target), Reload(u))

-----------------------------------------------------------------------------
(* _rollback(): the user returns to the retained predecessor.              *)

\* Mutant: a release that migrated data may be taken back too.
RollbackOffered == txn.state = "COMMITTED"

\* rollback_selection(): the last transaction, and none that migrated data.
RollbackSelected == txn.state = "COMMITTED" /\ ~Journaled

\* The predecessor is probed before the intent; a failing probe, or too many
\* of them, ends the call with nothing changed.
Preflight(u) ==
  /\ op[u].at = "preflight"
  /\ \/ /\ RollbackSelected /\ TerminalEvidence
        /\ Decide(u, Goto(u, "intent") \/ Finish(u, "failed", ledger.current) \/ Abandon(u))
     \/ /\ ~(RollbackSelected /\ TerminalEvidence)
        /\ Decide(u, Abandon(u))

\* The durable intent already names the old release as current; from here it
\* is recovery that finishes the rollback.
Intent(u) ==
  /\ op[u].at = "intent"
  /\ Attempt(u, SaveLedger([ledger EXCEPT !.current = txn.old, !.txn.state = "ROLLBACK",
                                          !.txn.cause = "user"]),
             Reload(u), Reload(u))

-----------------------------------------------------------------------------
(* _recover_locked(): what recover() runs, and every failed operation.     *)

\* Mutant: what recovery found is what the caller is told.
DeliverAsFound(u, s, v) == Finish(u, s, v)

\* The answer of recovery, as the operation that needed it reports it: a
\* commit found on disk counts only when it is the one it was asked for.
Deliver(u, s, v) ==
  LET foreign == \/ op[u].kind = "apply" /\ (s = "idle" \/ (s = "committed" /\ v # op[u].target))
                 \/ op[u].kind = "rollback" /\ s = "committed"
  IN  Finish(u, IF foreign THEN "failed" ELSE s, v)

\* Mutant: a data recovery that was finished is not accepted a second time.
RecoverDataOnce(u) ==
  /\ op[u].at = "recover" /\ Journaled /\ txn.state # "ROLLED_BACK"
  /\ LET j == journal[txn.id]
     IN  CASE txn.state = "COMMITTED" -> Decide(u, Goto(u, "inspect"))
           [] Pending /\ j.state \in {"PREPARED", "VALIDATED"} ->
                Attempt(u, SaveJournal(txn.id, [j EXCEPT !.state = "RESTORED"]),
                        Goto(u, "inspect"), Stuck(u))
           [] Pending /\ j.state = "RESTORED" -> Decide(u, Stuck(u))
           [] OTHER ->
                Decide(u, op' = [op EXCEPT ![u].at = "data_restore", ![u].next = MaxResource])

\* Data first: DataUpgrade.recover() under the decision of the ledger.
RecoverData(u) ==
  /\ op[u].at = "recover" /\ Journaled /\ txn.state # "ROLLED_BACK"
  /\ LET j == journal[txn.id]
     IN  CASE txn.state = "COMMITTED" ->
                Decide(u, IF CommittedData THEN Goto(u, "inspect") ELSE Stuck(u))
           [] Pending /\ j.state \in {"PREPARED", "VALIDATED", "RESTORED"} ->
                IF live = j.before
                THEN Attempt(u, SaveJournal(txn.id, [j EXCEPT !.state = "RESTORED"]),
                             Goto(u, "inspect"), Stuck(u))
                ELSE Decide(u, Stuck(u))
           [] OTHER ->
                Decide(u, op' = [op EXCEPT ![u].at = "data_restore", ![u].next = MaxResource])

\* Without a transaction there is only the payload to look at.
RecoverProgram(u) ==
  /\ op[u].at = "recover" /\ ~(Journaled /\ txn.state # "ROLLED_BACK")
  /\ Decide(u, CASE txn.state # "NONE" -> Goto(u, "inspect")
                 [] txn.state = "NONE" /\ active = ledger.current ->
                      Deliver(u, "idle", ledger.current)
                 [] OTHER -> Stuck(u))

PreviousResource(u) == op' = [op EXCEPT ![u].next = @ - 1]

\* Resources are restored in the reverse order; what was published goes to
\* the failed slot, never over anything.
RestoreResource(u) ==
  LET r == op[u].next
      b == journal[txn.id].before[r]
      k == kept[txn.id][r]
      published == live[r] = journal[txn.id].after[r] /\ live[r] # Absent
                   /\ k.new = Absent /\ k.failed = Absent
  IN  /\ op[u].at = "data_restore" /\ r \in Resource
      /\ CASE ~KnownData(r) -> Decide(u, Stuck(u))
           [] KnownData(r) /\ k.old = b /\ b # Absent /\ published ->
                Attempt(u, MoveLive(txn.id, r, "failed"), UNCHANGED op, Stuck(u))
           [] KnownData(r) /\ k.old = b /\ b # Absent /\ ~published ->
                IF live[r] # Absent THEN Decide(u, Stuck(u))
                ELSE Attempt(u, MoveToLive(txn.id, r, "old"), PreviousResource(u), Stuck(u))
           [] KnownData(r) /\ (k.old # b \/ b = Absent) /\ live[r] = b /\ k.old = Absent ->
                Decide(u, PreviousResource(u))
           [] OTHER ->
                IF b = Absent /\ published /\ k.old = Absent
                THEN Attempt(u, MoveLive(txn.id, r, "failed"), PreviousResource(u), Stuck(u))
                ELSE Decide(u, Stuck(u))

DataRestored(u) ==
  /\ op[u].at = "data_restore" /\ op[u].next = 0
  /\ Attempt(u, SaveJournal(txn.id, [journal[txn.id] EXCEPT !.state = "RESTORED"]),
             Goto(u, "inspect"), Stuck(u))

\* Then the program: a decision that was made is reported, any other
\* transaction is taken back.
Inspect(u) ==
  /\ op[u].at = "inspect"
  /\ CASE txn.state = "COMMITTED" /\ Layout = <<txn.new, txn.old, 0, 0>> ->
            Decide(u, Deliver(u, "committed", txn.new))
       [] txn.state = "ROLLED_BACK" /\ KnownLayout /\ active = txn.old ->
            Decide(u, Deliver(u, "rolled_back", txn.old))
       [] Pending /\ KnownLayout ->
            Attempt(u, SaveLedger([ledger EXCEPT !.txn.state = "ROLLBACK",
                         !.txn.cause = IF @ = "none" THEN "failed" ELSE @]),
                    Goto(u, "unpublish"), Stuck(u))
       [] OTHER -> Decide(u, Stuck(u))

Unpublish(u) ==
  /\ op[u].at = "unpublish"
  /\ IF active = txn.new
     THEN Switch(u, dirs.failed = 0, MoveActive("failed"), Goto(u, "restore"), Stuck(u))
     ELSE Decide(u, Goto(u, "restore"))

Restore(u) ==
  /\ op[u].at = "restore"
  /\ IF active = 0
     THEN Switch(u, dirs.old = txn.old, MoveToActive("old"), Goto(u, "close"), Stuck(u))
     ELSE Decide(u, Goto(u, "close"))

Close(u) ==
  /\ op[u].at = "close"
  /\ IF active = txn.old
     THEN Attempt(u, SaveState("ROLLED_BACK"), Deliver(u, "rolled_back", txn.old), Stuck(u))
     ELSE Decide(u, Stuck(u))

-----------------------------------------------------------------------------
(* A launch reads the ledger without a lock and goes on only when nothing  *)
(* is pending; runtime_lease() then reads the installation under both      *)
(* locks and keeps the shared one for as long as the host runs.            *)

Launch(h) ==
  /\ host[h] = "out" /\ ~Pending
  /\ host' = [host EXCEPT ![h] = "launching"]
  /\ UNCHANGED <<disk, op, opLock, faults>>

Admissible == ~Pending /\ TerminalEvidence /\ active = ledger.current

LeaseLock(h) ==
  /\ host[h] = "launching" /\ ~\E u \in Updater : Exclusive(u)
  /\ host' = [host EXCEPT ![h] = "shared"]
  /\ UNCHANGED <<disk, op, opLock, faults>>

LeaseAdmit(h) ==
  /\ host[h] = "shared" /\ opLock = "free" /\ Admissible
  /\ host' = [host EXCEPT ![h] = "in"]
  /\ UNCHANGED <<disk, op, opLock, faults>>

LeaseRefused(h) ==
  /\ \/ host[h] = "launching" /\ \E u \in Updater : Exclusive(u)
     \/ host[h] = "shared" /\ (opLock # "free" \/ ~Admissible)
  /\ host' = [host EXCEPT ![h] = "out"]
  /\ UNCHANGED <<disk, op, opLock, faults>>

Lease(h) == LeaseLock(h) \/ LeaseAdmit(h) \/ LeaseRefused(h)

\* The host exits or is killed.
HostExit(h) ==
  /\ host[h] # "out"
  /\ host' = [host EXCEPT ![h] = "out"]
  /\ UNCHANGED <<disk, op, opLock, faults>>

\* The running program works on the user's data, in the format it finds.
HostWrite(h, r) ==
  /\ host[h] = "in" /\ live[r].work < MaxWork
  /\ live' = [live EXCEPT ![r] = [gen |-> IF @.gen = 0 THEN Schema[active] ELSE @.gen,
                                  work |-> @.work + 1]]
  /\ UNCHANGED <<ledger, program, journal, kept, op, opLock, host, faults>>

-----------------------------------------------------------------------------
ApplyStep(u) ==
  \/ \E v \in Version : Select(u, v)
  \/ Stage(u) \/ Shadow(u) \/ (\E R \in SUBSET Resource : Migrate(u, R))
  \/ Prepare(u) \/ SaveOld(u) \/ MoveOld(u) \/ PublishNew(u) \/ MoveNew(u)
  \/ CheckNew(u) \/ Health(u)
  \/ PublishData(u) \/ DataOld(u) \/ DataNew(u) \/ DataPublished(u)
  \/ Commit(u)

RollbackStep(u) == Preflight(u) \/ Intent(u)

RecoverStep(u) ==
  \/ RecoverData(u) \/ RecoverProgram(u) \/ RestoreResource(u) \/ DataRestored(u)
  \/ Inspect(u) \/ Unpublish(u) \/ Restore(u) \/ Close(u)

Step(u) == ApplyStep(u) \/ RollbackStep(u) \/ RecoverStep(u) \/ Return(u)

Next ==
  \/ \E u \in Updater :
       \/ \E kind \in {"apply", "rollback", "recover"} : Start(u, kind)
       \/ LockRuntime(u) \/ Busy(u) \/ Step(u) \/ Crash(u)
  \/ \E h \in Host :
       \/ Launch(h) \/ Lease(h) \/ HostExit(h)
       \/ \E r \in Resource : HostWrite(h, r)

Spec == Init /\ [][Next]_vars

\* A process goes on once it has its locks, and so does a launch.  A launch
\* that finds a pending transaction recovers it before anything else, however
\* often another operation was in the way (locks are not waited for, hence
\* strong fairness).  Nobody has to apply, to roll back, to launch or to exit.
Fairness ==
  /\ \A u \in Updater :
       /\ WF_vars(LockRuntime(u) \/ Busy(u) \/ Step(u))
       /\ SF_vars(Pending /\ Start(u, "recover"))
  /\ \A h \in Host : WF_vars(Lease(h))

FairSpec == Spec /\ Fairness

-----------------------------------------------------------------------------
(* Properties.                                                             *)

Content == [gen : {0} \union {Schema[v] : v \in Version}, work : 0 .. MaxWork]
Payload == 0 .. MaxVersion

Point == {"idle", "lock", "return", "select", "stage", "shadow", "migrate", "prepare",
          "save_old", "move_old", "publish_new", "move_new", "check_new", "health",
          "publish_data", "data_old", "data_new", "commit", "preflight", "intent",
          "recover", "data_restore", "inspect", "unpublish", "restore", "close"}

\* Type correctness of ledger, directories, journals and processes.
TypeOK ==
  /\ ledger \in [current : Version, high : Payload,
                 txn : [id : 0 .. MaxTxn, old : Payload, new : Payload,
                        state : {"NONE", "PREPARED", "SAVE_OLD", "PUBLISH_NEW", "CHECK_NEW",
                                 "COMMITTED", "ROLLBACK", "ROLLED_BACK"},
                        cause : {"none", "failed", "user"}]]
  /\ active \in Payload
  /\ slot \in [Txn -> [old : Payload, new : Payload, failed : Payload]]
  /\ used \in 0 .. MaxTxn
  /\ journal \in [Txn -> [state : {"NONE", "PREPARED", "VALIDATED", "PUBLISHING",
                                   "PUBLISHED", "RESTORED"},
                          before : [Resource -> Content], after : [Resource -> Content]]]
  /\ live \in [Resource -> Content]
  /\ kept \in [Txn -> [Resource -> [old : Content, new : Content, failed : Content]]]
  /\ op \in [Updater ->
       [at : Point, kind : {"none", "apply", "rollback", "recover"},
        id : 0 .. MaxTxn, target : Payload, next : 0 .. MaxResource + 1,
        result : [status : {"none", "rejected", "up_to_date", "committed", "rolled_back",
                            "failed", "idle", "recovery_required"}, version : Payload]]]
  /\ opLock \in Updater \union {"free"}
  /\ host \in [Host -> {"out", "launching", "shared", "in"}]
  /\ faults \in 0 .. MaxFaults

\* Wherever the processes are killed, and whatever write failed on the way,
\* the disk holds a layout that recovery and admission accept: between any two
\* steps of _apply, _rollback and _recover_locked.
Recoverable ==
  IF ~Pending THEN TerminalEvidence
  ELSE /\ KnownLayout
       /\ Journaled => IF journal[txn.id].state \in {"PREPARED", "VALIDATED", "RESTORED"}
                       THEN live = journal[txn.id].before
                       ELSE \A r \in Resource : KnownData(r)

\* While a host runs (runtime_lease), the program under it is the one the
\* ledger calls current, no transaction is pending, and the data is in a format
\* this release knows: the migrated one where the release migrated it.
RunsWhatIsInstalled ==
  \A h \in Host :
    host[h] = "in" =>
      /\ ~Pending /\ active = ledger.current
      /\ \A r \in Resource : live[r].gen <= Schema[active]
      /\ txn.state = "COMMITTED" /\ Journaled =>
           \A r \in Resource :
             live[r].gen = journal[txn.id].after[r].gen \/ journal[txn.id].after[r] = Absent

\* An operation that reports success did what it was asked for, and any report
\* that names a version names the one the ledger has decided for.
ReportsAreTrue ==
  \A u \in Updater :
    LET res == op[u].result
    IN  op[u].at = "return" =>
          /\ res.status \in {"committed", "rolled_back", "failed", "idle", "up_to_date"} =>
               ~Pending /\ ledger.current = res.version
          /\ op[u].kind = "apply" /\ res.status = "committed" =>
               txn.id = op[u].id /\ txn.state = "COMMITTED"
          /\ op[u].kind = "rollback" => res.status # "committed"

\* To everybody but the updater a release and its data change in one step:
\* until the ledger says COMMITTED the data is what it was before.
Atomic == INSTANCE AtomicUpdate WITH
  installed   <- ledger.current,
  predecessor <- IF txn.state = "COMMITTED" /\ ~Journaled THEN txn.old ELSE 0,
  seen        <- ledger.high,
  running     <- {h \in Host : host[h] = "in"},
  data        <- IF Pending /\ Journaled THEN journal[txn.id].before ELSE live

\* The transaction implements the atomic update.
ImplementsAtomicUpdate == Atomic!Spec

\* A pending transaction is eventually finished or taken back.
PendingEnds == Pending ~> ~Pending
=============================================================================
