---------------------- MODULE UpdateTransaction_proofs ----------------------
(***************************************************************************)
(* Proofs about the update transaction, for every number of releases, data *)
(* resources, updaters, hosts, kills and failing writes: types, the disk   *)
(* is recoverable between any two steps, what operations report is true,   *)
(* and hosts run what is installed.                                        *)
(***************************************************************************)
EXTENDS UpdateTransaction, TLAPS

-----------------------------------------------------------------------------
(***************************************************************************)
(* The invariant.  The two locks come first: one updater at a time, and no *)
(* host beside an exclusive one.  Then what the ledger, the journals and   *)
(* the directories not yet used always say, and, for each program point of *)
(* an operation, what it has found or done so far.                         *)
(***************************************************************************)
Before == journal[txn.id].before
After == journal[txn.id].after
Stored == journal[txn.id].state
Places(r) == <<live[r], kept[txn.id][r].old, kept[txn.id][r].new, kept[txn.id][r].failed>>

\* operation.lock and runtime.lock.
OneOwner == \A u \in Updater : op[u].at # "idle" => opLock = u
NoReader == \A u \in Updater : Exclusive(u) => Reading = {}

\* The last transaction and the installed release.
LedgerInv ==
  /\ txn.state = "NONE" <=> txn.id = 0
  /\ txn.id <= used
  /\ txn.state # "NONE" => txn.old \in Version /\ txn.new \in Version /\ txn.old < txn.new
  /\ txn.state = "COMMITTED" => ledger.current = txn.new
  /\ txn.state \notin {"NONE", "COMMITTED"} => ledger.current = txn.old

\* Directories not yet used are empty, and data that was not touched yet has
\* left nothing behind.
FreshInv ==
  \A t \in Txn :
    /\ t > used => slot[t] = EmptySlots /\ journal[t].state = "NONE"
    /\ journal[t].state \in {"NONE", "PREPARED", "VALIDATED"} =>
         \A r \in Resource : kept[t][r].old = Absent /\ kept[t][r].failed = Absent

\* Before the intent: the candidate and the copies of the data.
Candidate(u) ==
  /\ op[u].id = used /\ op[u].id \in Txn /\ txn.id < op[u].id
  /\ slot[op[u].id] = [old |-> 0, new |-> op[u].target, failed |-> 0]

Migrated(u) ==
  LET t == op[u].id IN
  journal[t].state # "NONE" =>
    /\ journal[t].state = "VALIDATED"
    /\ journal[t].before = live
    /\ \A r \in Resource : kept[t][r].new = journal[t].after[r]

PreparingInv(u) ==
  op[u].at \in {"stage", "shadow", "migrate", "prepare"} =>
    /\ ~Pending
    /\ op[u].target \in Version /\ op[u].target > ledger.current
    /\ op[u].at = "stage" => op[u].id = used + 1 /\ op[u].id \in Txn
    /\ op[u].at # "stage" => Candidate(u)
    /\ op[u].at = "shadow" => journal[op[u].id].state = "NONE"
    /\ op[u].at = "migrate" =>
         journal[op[u].id].state = "PREPARED" /\ journal[op[u].id].before = live
    /\ op[u].at = "prepare" => Migrated(u)

\* Between the intent and the commit: the program's directories.
Switching == {"save_old", "move_old", "publish_new", "move_new", "check_new", "health",
              "publish_data", "data_old", "data_new", "commit"}

ProgramInv(u) ==
  op[u].at \in Switching =>
    /\ Pending
    /\ txn.id = op[u].id /\ txn.new = op[u].target
    /\ op[u].at \in {"save_old", "move_old"} => Layout = <<txn.old, 0, txn.new, 0>>
    /\ op[u].at \in {"publish_new", "move_new"} => Layout = <<0, txn.old, txn.new, 0>>
    /\ op[u].at \notin {"save_old", "move_old", "publish_new", "move_new"} =>
         Layout = <<txn.new, txn.old, 0, 0>>

\* ... and the data, resource by resource.
Unmoved(r) == Places(r) = <<Before[r], Absent, After[r], Absent>>
Taken(r) == Places(r) = <<Absent, Before[r], After[r], Absent>>
Moved(r) == Places(r) = <<After[r], Before[r], Absent, Absent>>

DataInv(u) ==
  /\ op[u].at \in Switching \ {"data_old", "data_new", "commit"} =>
       Stored \in {"NONE", "VALIDATED"}
  /\ op[u].at \in {"publish_data", "data_old", "data_new"} => Journaled
  /\ op[u].at \in {"data_old", "data_new"} =>
       /\ Stored = "PUBLISHING" /\ op[u].next \in 1 .. MaxResource + 1
       /\ \A r \in Resource : r < op[u].next => Moved(r)
       /\ \A r \in Resource : r > op[u].next => Unmoved(r)
  /\ op[u].at = "data_old" /\ op[u].next \in Resource => Unmoved(op[u].next)
  /\ op[u].at = "data_new" => op[u].next \in Resource /\ Taken(op[u].next)
  /\ op[u].at = "commit" /\ Journaled =>
       Stored = "PUBLISHED" /\ \A r \in Resource : Moved(r)

\* A rollback and a recovery.
RecoverInv(u) ==
  /\ op[u].at = "intent" => txn.state = "COMMITTED" /\ ~Journaled
  /\ op[u].at = "data_restore" =>
       /\ Pending /\ Journaled /\ Stored \in {"PUBLISHING", "PUBLISHED"}
       /\ op[u].next \in 0 .. MaxResource
       /\ \A r \in Resource : r > op[u].next => live[r] = Before[r]
  /\ op[u].at \in {"inspect", "unpublish", "restore", "close"} =>
       txn.state # "NONE" /\ (Pending /\ Journaled => Stored = "RESTORED")
  /\ op[u].at \in {"unpublish", "restore", "close"} => Pending

\* What an apply that has failed may find: its own transaction, or one that
\* ended long ago.
Recovering == {"recover", "data_restore", "inspect", "unpublish", "restore", "close"}

ForeignInv(u) ==
  op[u].kind = "apply" /\ op[u].at \in Recovering =>
    \/ txn.id = op[u].id /\ txn.new = op[u].target
    \/ ~Pending /\ op[u].target > ledger.current

ReportInv(u) ==
  LET res == op[u].result
  IN  op[u].at = "return" =>
        /\ res.status \in {"committed", "rolled_back", "failed", "idle", "up_to_date"} =>
             ~Pending /\ ledger.current = res.version
        /\ op[u].kind = "apply" /\ res.status = "committed" =>
             txn.id = op[u].id /\ txn.state = "COMMITTED"
        /\ op[u].kind = "rollback" => res.status # "committed"

KindInv(u) ==
  /\ op[u].at \in {"select", "stage", "shadow", "migrate", "prepare"} \cup Switching =>
       op[u].kind = "apply"
  /\ op[u].at \in {"preflight", "intent"} => op[u].kind = "rollback"
  /\ op[u].at = "lock" => op[u].kind # "none"

PointInv(u) ==
  /\ KindInv(u) /\ PreparingInv(u) /\ ProgramInv(u) /\ DataInv(u)
  /\ RecoverInv(u) /\ ForeignInv(u) /\ ReportInv(u)
OpInv == \A u \in Updater : PointInv(u)

\* Hosts.
HostInv == \A h \in Host : host[h] = "in" => ~Pending /\ active = ledger.current

DiskInv == LedgerInv /\ FreshInv /\ Recoverable
SafeInv == TypeOK /\ OneOwner /\ NoReader /\ HostInv /\ DiskInv /\ OpInv

-----------------------------------------------------------------------------
(* Types of the parts of the state.                                        *)

LedgerState == {"NONE", "PREPARED", "SAVE_OLD", "PUBLISH_NEW", "CHECK_NEW",
                "COMMITTED", "ROLLBACK", "ROLLED_BACK"}
TxnType == [id : 0 .. MaxTxn, old : Payload, new : Payload, state : LedgerState,
            cause : {"none", "failed", "user"}]
LedgerType == [current : Version, high : Payload, txn : TxnType]
SlotType == [old : Payload, new : Payload, failed : Payload]
JournalType == [state : {"NONE", "PREPARED", "VALIDATED", "PUBLISHING", "PUBLISHED", "RESTORED"},
                before : [Resource -> Content], after : [Resource -> Content]]
KeptType == [old : Content, new : Content, failed : Content]
Kind == {"none", "apply", "rollback", "recover"}
Report == [status : {"none", "rejected", "up_to_date", "committed", "rolled_back",
                     "failed", "idle", "recovery_required"}, version : Payload]
OpType == [at : Point, kind : Kind, id : 0 .. MaxTxn, target : Payload,
           next : 0 .. MaxResource + 1, result : Report]

DiskType ==
  /\ ledger \in LedgerType /\ active \in Payload
  /\ slot \in [Txn -> SlotType] /\ used \in 0 .. MaxTxn
  /\ journal \in [Txn -> JournalType] /\ live \in [Resource -> Content]
  /\ kept \in [Txn -> [Resource -> KeptType]]

ProcType ==
  /\ op \in [Updater -> OpType] /\ opLock \in Updater \union {"free"}
  /\ host \in [Host -> {"out", "launching", "shared", "in"}]
  /\ faults \in 0 .. MaxFaults

LEMMA TypeParts ==
  /\ TypeOK <=> DiskType /\ ProcType
  /\ TypeOK' <=> DiskType' /\ ProcType'
BY DEF TypeOK, DiskType, ProcType, LedgerType, TxnType, LedgerState, SlotType,
       JournalType, KeptType, OpType, Kind, Report

LEMMA Bounds ==
  /\ MaxVersion \in Nat \ {0} /\ MaxTxn \in Nat /\ MaxResource \in Nat
  /\ MaxWork \in Nat /\ MaxFaults \in Nat
  /\ Version \subseteq Payload /\ 0 \in Payload /\ 0 \notin Version
  /\ \A v \in Payload : v # 0 => v \in Version
  /\ Absent \in Content
  /\ \A v \in Version : Schema[v] \in Nat \ {0}
BY BoundAssumption, SchemaAssumption DEF Version, Payload, Absent, Content

-----------------------------------------------------------------------------
(* What the steps of an operation do to its control.                       *)

\* Only u moves.
Turns(u) ==
  op' \in [Updater -> OpType] /\ \A v \in Updater : v # u => op'[v] = op[v]

\* u goes to p; what it works on, and every other updater, stay.
Goes(u, p) ==
  /\ op' \in [Updater -> OpType]
  /\ op'[u].at = p /\ op'[u].kind = op[u].kind
  /\ op'[u].id = op[u].id /\ op'[u].target = op[u].target
  /\ \A v \in Updater : v # u => op'[v] = op[v]

LEMMA GotoGoes ==
  ASSUME ProcType, NEW u \in Updater, NEW p \in Point, Goto(u, p)
  PROVE  Goes(u, p) /\ op'[u].next = op[u].next
BY DEF ProcType, Goto, Goes, OpType

LEMMA FinishGoes ==
  ASSUME ProcType, NEW u \in Updater, NEW s, NEW v \in Payload, Finish(u, s, v),
         [status |-> s, version |-> v] \in Report
  PROVE  Goes(u, "return") /\ op'[u].result = [status |-> s, version |-> v]
<1>1. "return" \in Point BY DEF Point
<1> QED BY <1>1 DEF ProcType, Finish, Goes, OpType

\* Recovery's last answer is one of the two reports.
LEMMA RefusalGoes ==
  ASSUME ProcType, NEW u \in Updater, Stuck(u) \/ Abandon(u)
  PROVE  Goes(u, "return") /\ op'[u].result.status \in {"rejected", "recovery_required"}
<1>1. 0 \in Payload BY Bounds
<1>2. \A s \in {"rejected", "recovery_required"} : [status |-> s, version |-> 0] \in Report
  BY <1>1 DEF Report
<1> QED BY <1>1, <1>2, FinishGoes DEF Stuck, Abandon

LEMMA ReloadGoes ==
  ASSUME ProcType, NEW u \in Updater, Reload(u)
  PROVE  Goes(u, "recover")
BY GotoGoes DEF Reload, Point

\* One operation at a time.
LEMMA OthersIdle ==
  ASSUME OneOwner, NEW u \in Updater, op[u].at # "idle", NEW v \in Updater, v # u
  PROVE  op[v].at = "idle"
BY DEF OneOwner

LEMMA IdlePoint ==
  ASSUME NEW v \in Updater,
         op'[v].at = "idle" \/ (op'[v].at = "lock" /\ op'[v].kind # "none")
  PROVE  PointInv(v)'
BY DEF PointInv, KindInv, PreparingInv, ProgramInv, DataInv, RecoverInv, ForeignInv,
       ReportInv, Switching, Recovering

\* An exclusive operation's step has to be looked at on the disk and at the
\* point it goes to, and nowhere else.
LEMMA FrameTurns ==
  ASSUME SafeInv, NEW u \in Updater, Exclusive(u), Turns(u),
         DiskType', DiskInv', UNCHANGED <<opLock, host>>, faults' \in 0 .. MaxFaults,
         PointInv(u)'
  PROVE  SafeInv'
<1> USE DEF SafeInv
<1>1. op[u].at \notin {"idle", "lock"} BY DEF Exclusive
<1>2. TypeOK'
  <2>1. ProcType BY TypeParts
  <2>2. ProcType' BY <2>1 DEF ProcType, Turns
  <2> QED BY <2>2, TypeParts
<1>3. \A v \in Updater : v # u => op'[v] = op[v] /\ op[v].at = "idle"
  BY <1>1, OthersIdle DEF Turns
<1>4. OneOwner'
  BY <1>1, <1>3 DEF OneOwner
<1>5. Reading = {} /\ Reading' = Reading
  BY DEF NoReader, Reading
<1>6. NoReader'
  BY <1>5 DEF NoReader
<1>7. HostInv'
  BY <1>5 DEF HostInv, Reading
<1>8. OpInv'
  BY <1>3, IdlePoint DEF OpInv
<1> QED BY <1>2, <1>4, <1>6, <1>7, <1>8

LEMMA Frame ==
  ASSUME SafeInv, NEW u \in Updater, Exclusive(u), NEW p, Goes(u, p),
         DiskType', DiskInv', UNCHANGED <<opLock, host>>, faults' \in 0 .. MaxFaults,
         PointInv(u)'
  PROVE  SafeInv'
<1>1. Turns(u) BY DEF Goes, Turns
<1> QED BY <1>1, FrameTurns

\* Steps that end in a refusal, or go to recovery, say nothing of the disk.
LEMMA RefusedPoint ==
  ASSUME NEW u \in Updater, op'[u].at = "return",
         op'[u].result.status \in {"rejected", "recovery_required"}
  PROVE  PointInv(u)'
BY DEF PointInv, KindInv, PreparingInv, ProgramInv, DataInv, RecoverInv, ForeignInv,
       ReportInv, Switching, Recovering

LEMMA ReloadPoint ==
  ASSUME NEW u \in Updater, op'[u].at = "recover", ForeignInv(u)'
  PROVE  PointInv(u)'
BY DEF PointInv, KindInv, PreparingInv, ProgramInv, DataInv, RecoverInv, ReportInv, Switching

LEMMA FaultType ==
  ASSUME ProcType, Fault \/ UNCHANGED faults
  PROVE  faults' \in 0 .. MaxFaults
BY BoundAssumption DEF ProcType, Fault

\* A refused or abandoned operation leaves a good disk behind.
LEMMA RefusedStep ==
  ASSUME SafeInv, NEW u \in Updater, Exclusive(u), DiskType', DiskInv',
         UNCHANGED <<opLock, host>>, Fault \/ UNCHANGED faults, Stuck(u) \/ Abandon(u)
  PROVE  SafeInv'
<1>1. ProcType BY TypeParts DEF SafeInv
<1>2. Goes(u, "return") /\ op'[u].result.status \in {"rejected", "recovery_required"}
  BY <1>1, RefusalGoes
<1>3. PointInv(u)' BY <1>2, RefusedPoint DEF Goes
<1> QED BY <1>1, <1>2, <1>3, FaultType, Frame

\* The transaction's try block hands over to recovery.
LEMMA ReloadStep ==
  ASSUME SafeInv, NEW u \in Updater, Exclusive(u), DiskType', DiskInv',
         UNCHANGED <<opLock, host>>, Fault \/ UNCHANGED faults, Reload(u),
         \/ op[u].kind # "apply"
         \/ txn'.id = op[u].id /\ txn'.new = op[u].target
         \/ ~Pending' /\ op[u].target > ledger'.current
  PROVE  SafeInv'
<1>1. ProcType BY TypeParts DEF SafeInv
<1>2. Goes(u, "recover") BY <1>1, ReloadGoes
<1>3. PointInv(u)' BY <1>2, ReloadPoint DEF Goes, ForeignInv
<1> QED BY <1>1, <1>2, <1>3, FaultType, Frame

-----------------------------------------------------------------------------
(* What the writes do to the disk.                                         *)

\* A step that writes nothing, or whose write had no effect.
LEMMA DiskKept ==
  ASSUME SafeInv, UNCHANGED disk
  PROVE  /\ DiskType' /\ DiskInv'
         /\ txn' = txn /\ ledger' = ledger /\ Layout' = Layout /\ (Pending' <=> Pending)
         /\ (Journaled' <=> Journaled) /\ Stored' = Stored
         /\ Before' = Before /\ After' = After /\ live' = live
         /\ \A r \in Resource : Places(r)' = Places(r)
<1>1. /\ ledger' = ledger /\ active' = active /\ slot' = slot /\ used' = used
      /\ journal' = journal /\ live' = live /\ kept' = kept
  BY DEF disk
<1>2. DiskType' BY <1>1, TypeParts DEF SafeInv, DiskType
<1>3. /\ txn' = txn /\ Layout' = Layout /\ (Pending' <=> Pending)
      /\ (Journaled' <=> Journaled) /\ Stored' = Stored /\ Before' = Before /\ After' = After
  BY <1>1 DEF txn, dirs, Layout, Pending, Journaled, Stored, Before, After
<1>4. LedgerInv' BY <1>1, <1>3 DEF SafeInv, DiskInv, LedgerInv
<1>5. FreshInv' BY <1>1 DEF SafeInv, DiskInv, FreshInv
<1>6. Recoverable'
  <2>1. KnownLayout' <=> KnownLayout BY <1>3 DEF KnownLayout
  <2>2. CommittedData' <=> CommittedData BY <1>1, <1>3 DEF CommittedData
  <2>3. TerminalEvidence' <=> TerminalEvidence BY <1>1, <1>3, <2>1, <2>2 DEF TerminalEvidence
  <2>4. \A r \in Resource : KnownData(r)' <=> KnownData(r) BY <1>1, <1>3 DEF KnownData
  <2> QED BY <1>1, <1>3, <2>1, <2>3, <2>4 DEF SafeInv, DiskInv, Recoverable
<1>7. \A r \in Resource : Places(r)' = Places(r) BY <1>1, <1>3 DEF Places
<1> QED BY <1>1, <1>2, <1>3, <1>4, <1>5, <1>6, <1>7 DEF DiskInv

\* A step that reads and decides.
LEMMA DecidedStep ==
  ASSUME SafeInv, NEW u \in Updater, Exclusive(u), NEW p, Goes(u, p), PointInv(u)',
         UNCHANGED <<disk, opLock, host, faults>>
  PROVE  SafeInv'
<1>1. ProcType BY TypeParts DEF SafeInv
<1>2. DiskType' /\ DiskInv' BY DiskKept
<1> QED BY <1>1, <1>2, FaultType, Frame

\* The layouts of a pending transaction.
LEMMA LayoutParts ==
  /\ \A x1, x2, x3, x4, y1, y2, y3, y4 :
       <<x1, x2, x3, x4>> = <<y1, y2, y3, y4>> <=> x1 = y1 /\ x2 = y2 /\ x3 = y3 /\ x4 = y4
OBVIOUS

LEMMA Named ==
  ASSUME SafeInv, txn.state # "NONE"
  PROVE  /\ txn.id \in Txn /\ txn.id <= used
         /\ txn.old \in Version /\ txn.new \in Version /\ txn.old < txn.new
         /\ txn.old \in Nat \ {0} /\ txn.new \in Nat \ {0} /\ txn.old # txn.new
<1>1. txn.id \in 0 .. MaxTxn /\ txn.id # 0
  BY TypeParts DEF SafeInv, DiskInv, LedgerInv, DiskType, LedgerType, TxnType, txn
<1>2. txn.id \in Txn BY <1>1, Bounds DEF Txn
<1>3. Version \subseteq Nat \ {0} BY BoundAssumption DEF Version
<1>4. /\ txn.id <= used
      /\ txn.old \in Version /\ txn.new \in Version /\ txn.old < txn.new
  BY DEF SafeInv, DiskInv, LedgerInv
<1>5. txn.old \in Nat /\ txn.new \in Nat BY <1>3, <1>4
<1> QED BY <1>2, <1>3, <1>4, <1>5

\* The ledger's state moves on within a pending transaction.
LEMMA StateSaved ==
  ASSUME SafeInv, Pending, NEW s \in LedgerState \ Terminal, NEW c \in {"none", "failed", "user"},
         SaveLedger([ledger EXCEPT !.txn.state = s, !.txn.cause = c])
  PROVE  /\ DiskType' /\ DiskInv'
         /\ Pending' /\ ledger'.current = ledger.current
         /\ txn' = [txn EXCEPT !.state = s, !.cause = c]
         /\ UNCHANGED <<program, userData>>
<1> USE DEF SafeInv
<1>1. DiskType BY TypeParts
<1>2. ledger' \in LedgerType /\ ledger'.current = ledger.current /\ ledger'.high = ledger.high
      /\ txn' = [txn EXCEPT !.state = s, !.cause = c]
      /\ txn'.id = txn.id /\ txn'.old = txn.old /\ txn'.new = txn.new /\ txn'.state = s
  BY <1>1 DEF SaveLedger, DiskType, LedgerType, TxnType, txn
<1>3. UNCHANGED <<program, userData>> BY DEF SaveLedger
<1>4. DiskType' BY <1>1, <1>2, <1>3 DEF DiskType, program, userData
<1>5. Pending' /\ s \notin Terminal /\ txn.state \notin Terminal
  BY <1>2 DEF Pending
<1>6. LedgerInv'
  BY <1>2, <1>3, <1>5 DEF DiskInv, LedgerInv, Terminal, program
<1>7. FreshInv' BY <1>3 DEF DiskInv, FreshInv, program, userData
<1>8. Recoverable'
  <2>1. KnownLayout' <=> KnownLayout
    BY <1>2, <1>3 DEF KnownLayout, Layout, dirs, program
  <2>2. Journaled' <=> Journaled
    BY <1>2, <1>3 DEF Journaled, userData
  <2>3. \A r \in Resource : KnownData(r)' <=> KnownData(r)
    BY <1>2, <1>3 DEF KnownData, userData
  <2> QED BY <1>2, <1>3, <1>5, <2>1, <2>2, <2>3 DEF DiskInv, Recoverable, userData
<1> QED BY <1>2, <1>3, <1>4, <1>5, <1>6, <1>7, <1>8 DEF DiskInv

\* A directory of the pending transaction is moved.
LEMMA ProgramMoved ==
  ASSUME SafeInv, Pending, NEW a \in Payload, NEW d \in SlotType,
         active' = a, slot' = [slot EXCEPT ![txn.id] = d],
         UNCHANGED <<ledger, used, userData>>,
         <<a, d.old, d.new, d.failed>> \in
           {<<txn.old, 0, txn.new, 0>>, <<0, txn.old, txn.new, 0>>, <<txn.new, txn.old, 0, 0>>,
            <<0, txn.old, 0, txn.new>>, <<txn.old, 0, 0, txn.new>>}
  PROVE  /\ DiskType' /\ DiskInv'
         /\ txn' = txn /\ ledger' = ledger /\ Pending'
         /\ Layout' = <<a, d.old, d.new, d.failed>>
         /\ (Journaled' <=> Journaled) /\ Stored' = Stored
<1> USE DEF SafeInv
<1>1. DiskType BY TypeParts
<1>2. ledger' = ledger /\ used' = used /\ journal' = journal /\ live' = live /\ kept' = kept
      /\ txn' = txn
  BY DEF userData, txn
<1>3. txn.id \in Txn /\ txn.id <= used /\ txn.id \in Nat /\ used \in Nat
  BY <1>1, Named DEF Pending, Terminal, Txn, DiskType
<1>4. dirs' = d /\ \A t \in Txn : t # txn.id => slot'[t] = slot[t]
  BY <1>1, <1>2, <1>3 DEF DiskType, dirs
<1>5. DiskType' BY <1>1, <1>2 DEF DiskType
<1>6. Layout' = <<a, d.old, d.new, d.failed>> BY <1>4 DEF Layout
<1>7. /\ Pending' /\ (Journaled' <=> Journaled) /\ Stored' = Stored
      /\ \A r \in Resource : KnownData(r)' <=> KnownData(r)
  BY <1>2 DEF Pending, Journaled, Stored, KnownData
<1>8. LedgerInv' BY <1>2 DEF DiskInv, LedgerInv
<1>9. FreshInv'
  <2>1. \A t \in Txn : t > used => t # txn.id BY <1>3 DEF Txn
  <2> QED BY <1>2, <1>4, <2>1 DEF DiskInv, FreshInv
<1>10. KnownLayout' BY <1>2, <1>6 DEF KnownLayout
<1>11. Recoverable' BY <1>2, <1>7, <1>10 DEF DiskInv, Recoverable
<1> QED BY <1>2, <1>5, <1>6, <1>7, <1>8, <1>9, <1>11 DEF DiskInv

-----------------------------------------------------------------------------
(* _apply() between the intent and the data.                               *)

LEMMA SwitchingFacts ==
  ASSUME SafeInv, NEW u \in Updater, op[u].at \in Switching
  PROVE  /\ Exclusive(u) /\ Pending /\ op[u].kind = "apply"
         /\ txn.id = op[u].id /\ txn.new = op[u].target
         /\ ProgramInv(u) /\ DataInv(u)
         /\ ProcType /\ DiskType
         /\ txn.id \in Txn /\ txn.id <= used
         /\ txn.old \in Version /\ txn.new \in Version
         /\ txn.old # 0 /\ txn.new # 0 /\ txn.old # txn.new
<1>1. Exclusive(u) BY DEF Exclusive, Switching
<1>2. PointInv(u) BY DEF SafeInv, OpInv
<1>3. Pending /\ txn.state # "NONE" BY <1>2 DEF PointInv, ProgramInv, Pending, Terminal
<1> QED BY <1>1, <1>2, <1>3, TypeParts, Named DEF PointInv, ProgramInv, KindInv, SafeInv

LEMMA SaveStateIs ==
  ASSUME DiskType, NEW s, SaveState(s)
  PROVE  SaveLedger([ledger EXCEPT !.txn.state = s, !.txn.cause = txn.cause])
<1>1. [ledger EXCEPT !.txn.state = s] = [ledger EXCEPT !.txn.state = s, !.txn.cause = txn.cause]
  BY DEF DiskType, LedgerType, TxnType, txn
<1> QED BY <1>1 DEF SaveState

\* The intent of a switch: _apply() saves it, and goes on or to recovery.
LEMMA IntentSaved ==
  ASSUME SafeInv, NEW u \in Updater, NEW s \in LedgerState \ Terminal, NEW p,
         <<op[u].at, p>> \in {<<"save_old", "move_old">>, <<"publish_new", "move_new">>,
                              <<"check_new", "health">>},
         Attempt(u, SaveState(s), Goto(u, p), Reload(u))
  PROVE  SafeInv'
<1>0. op[u].at \in Switching /\ p \in Switching /\ p \in Point BY DEF Switching, Point
<1>1. Exclusive(u) /\ ProcType /\ DiskType /\ Pending BY <1>0, SwitchingFacts
<1>2. UNCHANGED <<opLock, host>> /\ (Fault \/ UNCHANGED faults) BY DEF Attempt
<1>3. ASSUME SaveState(s)
      PROVE  /\ DiskType' /\ DiskInv' /\ Pending' /\ ledger'.current = ledger.current
             /\ txn'.id = txn.id /\ txn'.new = txn.new /\ txn'.old = txn.old
             /\ Layout' = Layout /\ Stored' = Stored
  <2>1. txn.cause \in {"none", "failed", "user"} BY <1>1 DEF DiskType, LedgerType, TxnType, txn
  <2>2. /\ DiskType' /\ DiskInv' /\ Pending' /\ ledger'.current = ledger.current
        /\ txn' = [txn EXCEPT !.state = s, !.cause = txn.cause] /\ UNCHANGED <<program, userData>>
    BY <1>1, <1>3, <2>1, SaveStateIs, StateSaved
  <2>3. txn'.id = txn.id /\ txn'.new = txn.new /\ txn'.old = txn.old
    BY <1>1, <2>2 DEF DiskType, LedgerType, TxnType, txn
  <2> QED BY <2>2, <2>3 DEF Layout, dirs, Stored, program, userData
<1>4. CASE SaveState(s) /\ Goto(u, p)
  <2>1. Goes(u, p) BY <1>0, <1>1, <1>4, GotoGoes
  <2>2. PointInv(u)'
    BY <1>0, <1>3, <1>4, <2>1, SwitchingFacts
       DEF Goes, PointInv, KindInv, PreparingInv, ProgramInv, DataInv, RecoverInv,
           ForeignInv, ReportInv, Switching, Recovering
  <2> QED BY <1>1, <1>2, <1>3, <1>4, <2>1, <2>2, FaultType, Frame
<1>5. CASE Reload(u) /\ (SaveState(s) \/ UNCHANGED disk)
  <2>1. DiskType' /\ DiskInv' /\ txn'.id = op[u].id /\ txn'.new = op[u].target
    BY <1>0, <1>3, <1>5, DiskKept, SwitchingFacts
  <2> QED BY <1>1, <1>2, <1>5, <2>1, ReloadStep
<1> QED BY <1>4, <1>5 DEF Attempt

\* A switch leaves active and the transaction's directories as a and d.
ProgramWrite(a, d) ==
  /\ active' = a /\ slot' = [slot EXCEPT ![txn.id] = d]
  /\ UNCHANGED <<ledger, used, userData>>

\* A switch of _apply(): the directories move, or the installation is looked
\* at again.
LEMMA SwitchStep ==
  ASSUME SafeInv, NEW u \in Updater, NEW p,
         NEW a \in Payload, NEW d \in SlotType,
         \/ /\ op[u].at = "move_old" /\ p = "publish_new"
            /\ <<a, d.old, d.new, d.failed>> = <<0, txn.old, txn.new, 0>>
         \/ /\ op[u].at = "move_new" /\ p = "check_new"
            /\ <<a, d.old, d.new, d.failed>> = <<txn.new, txn.old, 0, 0>>,
         Attempt(u, ProgramWrite(a, d), Goto(u, p), Reload(u))
  PROVE  SafeInv'
<1>0. op[u].at \in Switching /\ p \in Switching /\ p \in Point BY DEF Switching, Point
<1>1. Exclusive(u) /\ ProcType /\ DiskType /\ Pending BY <1>0, SwitchingFacts
<1>2. UNCHANGED <<opLock, host>> /\ (Fault \/ UNCHANGED faults) BY DEF Attempt
<1>3. ASSUME ProgramWrite(a, d)
      PROVE  /\ DiskType' /\ DiskInv' /\ Pending' /\ txn' = txn
             /\ Layout' = <<a, d.old, d.new, d.failed>> /\ Stored' = Stored
  BY <1>1, <1>3, ProgramMoved DEF ProgramWrite
<1>4. CASE ProgramWrite(a, d) /\ Goto(u, p)
  <2>1. Goes(u, p) BY <1>0, <1>1, <1>4, GotoGoes
  <2>2. PointInv(u)'
    BY <1>0, <1>3, <1>4, <2>1, SwitchingFacts
       DEF Goes, PointInv, KindInv, PreparingInv, ProgramInv, DataInv, RecoverInv,
           ForeignInv, ReportInv, Switching, Recovering
  <2> QED BY <1>1, <1>2, <1>3, <1>4, <2>1, <2>2, FaultType, Frame
<1>5. CASE Reload(u) /\ (ProgramWrite(a, d) \/ UNCHANGED disk)
  <2>1. DiskType' /\ DiskInv' /\ txn'.id = op[u].id /\ txn'.new = op[u].target
    BY <1>0, <1>3, <1>5, DiskKept, SwitchingFacts
  <2> QED BY <1>1, <1>2, <1>5, <2>1, ReloadStep
<1> QED BY <1>4, <1>5 DEF Attempt

\* The two switches of directories.
LEMMA MoveOldStep ==
  ASSUME SafeInv, NEW u \in Updater, MoveOld(u)
  PROVE  SafeInv'
<1>0. op[u].at = "move_old" /\ op[u].at \in Switching BY DEF MoveOld, Switching
<1>1. /\ Exclusive(u) /\ ProcType /\ DiskType /\ txn.id \in Txn
      /\ Layout = <<txn.old, 0, txn.new, 0>> /\ txn.old \in Payload
      /\ txn.id = op[u].id /\ txn.new = op[u].target
  BY <1>0, SwitchingFacts, Bounds DEF ProgramInv
<1>2. CASE active = txn.old /\ dirs.old = 0
  <2> DEFINE d == [dirs EXCEPT !["old"] = active]
  <2>1. d \in SlotType /\ dirs \in SlotType /\ active \in Payload /\ 0 \in Payload
    BY <1>1, Bounds DEF DiskType, SlotType, dirs
  <2>2. MoveActive("old") <=> ProgramWrite(0, d)
    BY DEF MoveActive, ProgramWrite, dirs
  <2>3. <<0, d.old, d.new, d.failed>> = <<0, txn.old, txn.new, 0>>
    BY <1>1, <1>2, <2>1 DEF Layout, SlotType
  <2>4. Attempt(u, ProgramWrite(0, d), Goto(u, "publish_new"), Reload(u))
    BY <1>2, <2>2 DEF MoveOld, Switch, Attempt
  <2> HIDE DEF d
  <2> QED BY <1>0, <2>1, <2>3, <2>4, SwitchStep
<1>3. CASE ~(active = txn.old /\ dirs.old = 0)
  BY <1>1, <1>3 DEF Layout
<1> QED BY <1>2, <1>3

LEMMA MoveNewStep ==
  ASSUME SafeInv, NEW u \in Updater, MoveNew(u)
  PROVE  SafeInv'
<1>0. op[u].at = "move_new" /\ op[u].at \in Switching BY DEF MoveNew, Switching
<1>1. /\ Exclusive(u) /\ ProcType /\ DiskType /\ txn.id \in Txn
      /\ Layout = <<0, txn.old, txn.new, 0>> /\ txn.new \in Payload
  BY <1>0, SwitchingFacts, Bounds DEF ProgramInv
<1> DEFINE d == [dirs EXCEPT !["new"] = 0]
<1>2. d \in SlotType /\ dirs \in SlotType /\ dirs.new \in Payload /\ 0 \in Payload
  BY <1>1, Bounds DEF DiskType, SlotType, dirs
<1>3. MoveToActive("new") <=> ProgramWrite(dirs.new, d)
  BY DEF MoveToActive, ProgramWrite, dirs
<1>4. <<dirs.new, d.old, d.new, d.failed>> = <<txn.new, txn.old, 0, 0>>
  BY <1>1, <1>2 DEF Layout, SlotType
<1>5. dirs.new = txn.new /\ active = 0 BY <1>1 DEF Layout
<1>6. Attempt(u, ProgramWrite(dirs.new, d), Goto(u, "check_new"), Reload(u))
  BY <1>3, <1>5 DEF MoveNew, Switch, Attempt
<1> HIDE DEF d
<1> QED BY <1>0, <1>2, <1>4, <1>6, SwitchStep

LEMMA HealthStep ==
  ASSUME SafeInv, NEW u \in Updater, Health(u)
  PROVE  SafeInv'
<1>0. op[u].at = "health" /\ op[u].at \in Switching BY DEF Health, Switching
<1>1. Exclusive(u) /\ ProcType BY <1>0, SwitchingFacts
<1>2. UNCHANGED disk /\ UNCHANGED <<opLock, host, faults>> BY DEF Health, Decide
<1>3. CASE Reload(u)
  <2>1. DiskType' /\ DiskInv' /\ txn'.id = op[u].id /\ txn'.new = op[u].target
    BY <1>0, <1>2, DiskKept, SwitchingFacts
  <2> QED BY <1>1, <1>2, <1>3, <2>1, ReloadStep
<1>4. ASSUME NEW p \in {"publish_data", "commit"}, Goto(u, p), Journaled <=> p = "publish_data"
      PROVE  SafeInv'
  <2>1. Goes(u, p) BY <1>1, <1>4, GotoGoes DEF Point
  <2>2. PointInv(u)'
    BY <1>0, <1>2, <1>4, <2>1, DiskKept, SwitchingFacts
       DEF Goes, PointInv, KindInv, PreparingInv, ProgramInv, DataInv, RecoverInv,
           ForeignInv, ReportInv, Switching, Recovering
  <2> QED BY <1>1, <1>2, <2>1, <2>2, DecidedStep
<1>5. Reload(u) \/ Goto(u, IF Journaled THEN "publish_data" ELSE "commit")
  BY DEF Health, Decide
<1> QED BY <1>3, <1>4, <1>5

-----------------------------------------------------------------------------
(* The data.                                                               *)

Known(r) ==
  Places(r) \in {<<Before[r], Absent, After[r], Absent>>, <<Absent, Before[r], After[r], Absent>>,
                 <<After[r], Before[r], Absent, Absent>>, <<Absent, Before[r], Absent, After[r]>>,
                 <<Before[r], Absent, Absent, After[r]>>}

LEMMA KnownIs ==
  /\ \A r \in Resource : KnownData(r) <=> Known(r)
  /\ \A r \in Resource : KnownData(r)' <=> Known(r)'
BY DEF KnownData, Known, Places, Before, After

LEMMA PlacesAre ==
  ASSUME NEW r \in Resource, NEW x1, NEW x2, NEW x3, NEW x4,
         Places(r) = <<x1, x2, x3, x4>>
  PROVE  live[r] = x1 /\ kept[txn.id][r].old = x2 /\ kept[txn.id][r].new = x3
         /\ kept[txn.id][r].failed = x4
BY DEF Places

\* The journal's state moves on.
LEMMA JournalSaved ==
  ASSUME SafeInv, Pending, Journaled, NEW s \in {"PUBLISHING", "PUBLISHED", "RESTORED"},
         SaveJournal(txn.id, [journal[txn.id] EXCEPT !.state = s]),
         IF s = "RESTORED" THEN live = Before ELSE \A r \in Resource : Known(r)
  PROVE  /\ DiskType' /\ DiskInv' /\ ledger' = ledger /\ txn' = txn /\ Pending' /\ Journaled'
         /\ Layout' = Layout /\ Stored' = s /\ Before' = Before /\ After' = After /\ live' = live
         /\ \A r \in Resource : Places(r)' = Places(r)
<1> USE DEF SafeInv
<1>1. DiskType BY TypeParts
<1>2. ledger' = ledger /\ txn' = txn /\ live' = live /\ kept' = kept
      /\ active' = active /\ slot' = slot /\ used' = used
  BY DEF SaveJournal, program, txn
<1>3. txn.id \in Txn /\ txn.id # 0 BY Named DEF Pending, Terminal, Journaled
<1>4. journal[txn.id] \in JournalType BY <1>1, <1>3 DEF DiskType
<1>5. /\ journal' \in [Txn -> JournalType]
      /\ journal'[txn.id].state = s
      /\ journal'[txn.id].before = Before /\ journal'[txn.id].after = After
      /\ \A t \in Txn : t # txn.id => journal'[t] = journal[t]
  BY <1>1, <1>3, <1>4 DEF SaveJournal, DiskType, JournalType, Before, After
<1>6. DiskType' BY <1>1, <1>2, <1>5 DEF DiskType
<1>7. /\ Pending' /\ Journaled' /\ Layout' = Layout /\ Stored' = s
      /\ Before' = Before /\ After' = After /\ \A r \in Resource : Places(r)' = Places(r)
  BY <1>2, <1>3, <1>5 DEF Pending, Journaled, Layout, dirs, Stored, Before, After, Places
<1>8. LedgerInv' BY <1>2 DEF DiskInv, LedgerInv
<1>9. FreshInv'
  <2>1. ~(txn.id > used)
    BY <1>1, Named DEF Pending, Terminal, Txn, DiskType
  <2> QED BY <1>2, <1>5, <2>1 DEF DiskInv, FreshInv
<1>10. Recoverable'
  <2>1. KnownLayout' BY <1>2, <1>7 DEF DiskInv, Recoverable, KnownLayout
  <2>2. s # "RESTORED" => \A r \in Resource : Known(r)' BY <1>7 DEF Known
  <2> QED BY <1>2, <1>7, <2>1, <2>2, KnownIs DEF Recoverable, Stored, Before
<1> QED BY <1>2, <1>6, <1>7, <1>8, <1>9, <1>10 DEF DiskInv

\* A switch leaves resource r with content c and slots k.
DataWrite(r, c, k) ==
  /\ live' = [live EXCEPT ![r] = c] /\ kept' = [kept EXCEPT ![txn.id][r] = k]
  /\ UNCHANGED <<ledger, program, journal>>

LEMMA DataMoved ==
  ASSUME SafeInv, Pending, Journaled, Stored \in {"PUBLISHING", "PUBLISHED"},
         NEW r \in Resource, NEW c \in Content, NEW k \in KeptType, DataWrite(r, c, k),
         <<c, k.old, k.new, k.failed>> \in
           {<<Before[r], Absent, After[r], Absent>>, <<Absent, Before[r], After[r], Absent>>,
            <<After[r], Before[r], Absent, Absent>>, <<Absent, Before[r], Absent, After[r]>>,
            <<Before[r], Absent, Absent, After[r]>>}
  PROVE  /\ DiskType' /\ DiskInv' /\ ledger' = ledger /\ txn' = txn /\ Pending' /\ Journaled'
         /\ Layout' = Layout /\ Stored' = Stored /\ Before' = Before /\ After' = After
         /\ Places(r)' = <<c, k.old, k.new, k.failed>> /\ live'[r] = c
         /\ \A q \in Resource : q # r => Places(q)' = Places(q) /\ live'[q] = live[q]
<1> USE DEF SafeInv
<1>1. DiskType BY TypeParts
<1>2. ledger' = ledger /\ txn' = txn /\ journal' = journal
      /\ active' = active /\ slot' = slot /\ used' = used
  BY DEF DataWrite, program, txn
<1>3. txn.id \in Txn /\ txn.id # 0 BY Named DEF Pending, Terminal, Journaled
<1>4. /\ live' \in [Resource -> Content] /\ live'[r] = c
      /\ \A q \in Resource : q # r => live'[q] = live[q]
  BY <1>1 DEF DiskType, DataWrite
<1>5. /\ kept' \in [Txn -> [Resource -> KeptType]]
      /\ kept'[txn.id][r] = k
      /\ \A q \in Resource : q # r => kept'[txn.id][q] = kept[txn.id][q]
      /\ \A t \in Txn : t # txn.id => kept'[t] = kept[t]
  BY <1>1, <1>3 DEF DiskType, DataWrite
<1>6. DiskType' BY <1>1, <1>2, <1>4, <1>5 DEF DiskType
<1>7. /\ Pending' /\ Journaled' /\ Layout' = Layout /\ Stored' = Stored
      /\ Before' = Before /\ After' = After
  BY <1>2 DEF Pending, Journaled, Layout, dirs, Stored, Before, After
<1>8. /\ Places(r)' = <<c, k.old, k.new, k.failed>>
      /\ \A q \in Resource : q # r => Places(q)' = Places(q)
  BY <1>2, <1>4, <1>5 DEF Places
<1>9. LedgerInv' BY <1>2 DEF DiskInv, LedgerInv
<1>10. FreshInv' BY <1>2, <1>5 DEF DiskInv, FreshInv, Stored
<1>11. Recoverable'
  <2>1. KnownLayout' BY <1>2, <1>7 DEF DiskInv, Recoverable, KnownLayout
  <2>2. \A q \in Resource : Known(q) BY KnownIs DEF DiskInv, Recoverable, Stored
  <2>3. \A q \in Resource : Known(q)' BY <1>7, <1>8, <2>2 DEF Known
  <2> QED BY <1>2, <1>7, <2>1, <2>3, KnownIs DEF Recoverable, Stored
<1> QED BY <1>2, <1>4, <1>6, <1>7, <1>8, <1>9, <1>10, <1>11 DEF DiskInv

LEMMA NextGoes ==
  ASSUME ProcType, NEW u \in Updater, NEW p \in Point, NEW n \in 0 .. MaxResource + 1,
         op' = [op EXCEPT ![u].at = p, ![u].next = n]
  PROVE  Goes(u, p) /\ op'[u].next = n
BY DEF ProcType, Goes, OpType

\* At the points of the data's exchange every resource is known.
LEMMA ExchangeFacts ==
  ASSUME SafeInv, NEW u \in Updater, op[u].at \in {"publish_data", "data_old", "data_new"}
  PROVE  /\ Exclusive(u) /\ Pending /\ Journaled /\ op[u].kind = "apply"
         /\ txn.id = op[u].id /\ txn.new = op[u].target
         /\ Layout = <<txn.new, txn.old, 0, 0>>
         /\ DataInv(u) /\ ProcType /\ DiskType /\ txn.id \in Txn
         /\ Before \in [Resource -> Content] /\ After \in [Resource -> Content]
         /\ Absent \in Content /\ MaxResource \in Nat /\ op[u].next \in 0 .. MaxResource + 1
         /\ kept[txn.id] \in [Resource -> KeptType]
<1>1. op[u].at \in Switching BY DEF Switching
<1>2. /\ Exclusive(u) /\ Pending /\ op[u].kind = "apply" /\ txn.id = op[u].id
      /\ txn.new = op[u].target /\ ProgramInv(u) /\ DataInv(u) /\ ProcType /\ DiskType
      /\ txn.id \in Txn
  BY <1>1, SwitchingFacts
<1>3. Layout = <<txn.new, txn.old, 0, 0>> BY <1>1, <1>2 DEF ProgramInv
<1>4. /\ Before \in [Resource -> Content] /\ After \in [Resource -> Content]
      /\ kept[txn.id] \in [Resource -> KeptType] /\ op[u].next \in 0 .. MaxResource + 1
  BY <1>2 DEF DiskType, JournalType, ProcType, OpType, Before, After
<1>5. Journaled BY <1>2 DEF DataInv
<1> QED BY <1>2, <1>3, <1>4, <1>5, Bounds

LEMMA PublishDataStep ==
  ASSUME SafeInv, NEW u \in Updater, PublishData(u)
  PROVE  SafeInv'
<1>0. op[u].at = "publish_data" /\ op[u].at \in Switching BY DEF PublishData, Switching
<1>1. /\ Exclusive(u) /\ Pending /\ Journaled /\ ProcType /\ DiskType /\ MaxResource \in Nat
      /\ txn.id = op[u].id /\ txn.new = op[u].target
  BY <1>0, ExchangeFacts
<1>2. UNCHANGED <<opLock, host>> /\ (Fault \/ UNCHANGED faults)
  BY DEF PublishData, Attempt, Decide
<1> DEFINE save == SaveJournal(txn.id, [journal[txn.id] EXCEPT !.state = "PUBLISHING"])
<1>3. CASE Reload(u) /\ UNCHANGED disk
  <2>1. DiskType' /\ DiskInv' /\ txn'.id = op[u].id /\ txn'.new = op[u].target
    BY <1>1, <1>3, DiskKept
  <2> QED BY <1>1, <1>2, <1>3, <2>1, ReloadStep
<1>4. ASSUME save, \A r \in Resource : live[r] = Before[r] /\ kept[txn.id][r].new = After[r]
      PROVE  /\ DiskType' /\ DiskInv' /\ txn' = txn /\ Pending' /\ Journaled' /\ Layout' = Layout
             /\ Stored' = "PUBLISHING" /\ \A r \in Resource : Unmoved(r)'
  <2>1. Stored \in {"NONE", "VALIDATED"}
    BY <1>0, ExchangeFacts DEF DataInv
  <2>2. \A r \in Resource : kept[txn.id][r].old = Absent /\ kept[txn.id][r].failed = Absent
    BY <1>0, <2>1, ExchangeFacts DEF SafeInv, DiskInv, FreshInv, Stored
  <2>3. \A r \in Resource : Unmoved(r) BY <1>4, <2>2 DEF Unmoved, Places
  <2>4. \A r \in Resource : Known(r) BY <2>3 DEF Known, Unmoved
  <2>5. /\ DiskType' /\ DiskInv' /\ txn' = txn /\ Pending' /\ Journaled' /\ Layout' = Layout
        /\ Stored' = "PUBLISHING" /\ Before' = Before /\ After' = After
        /\ \A r \in Resource : Places(r)' = Places(r)
    BY <1>1, <1>4, <2>4, JournalSaved
  <2> QED BY <2>3, <2>5 DEF Unmoved
<1> HIDE DEF save
<1>5. ASSUME save, \A r \in Resource : live[r] = Before[r] /\ kept[txn.id][r].new = After[r],
             op' = [op EXCEPT ![u].at = "data_old", ![u].next = 1]
      PROVE  SafeInv'
  <2>0. "data_old" \in Point /\ 1 \in 0 .. MaxResource + 1 BY <1>1 DEF Point
  <2>1. Goes(u, "data_old") /\ op'[u].next = 1
    BY <1>1, <1>5, <2>0, NextGoes
  <2>2. 1 \in 1 .. MaxResource + 1 /\ \A r \in Resource : ~(r < 1)
    BY <1>1 DEF Resource
  <2>3. PointInv(u)'
    BY <1>0, <1>4, <1>5, <2>1, <2>2, ExchangeFacts
       DEF Goes, PointInv, KindInv, PreparingInv, ProgramInv, DataInv, RecoverInv,
           ForeignInv, ReportInv, Switching, Recovering
  <2> QED BY <1>1, <1>2, <1>4, <1>5, <2>1, <2>3, FaultType, Frame
<1>6. ASSUME save, \A r \in Resource : live[r] = Before[r] /\ kept[txn.id][r].new = After[r],
             Reload(u)
      PROVE  SafeInv'
  BY <1>1, <1>2, <1>4, <1>6, ReloadStep
<1>7. \/ Reload(u) /\ UNCHANGED disk
      \/ /\ save /\ \A r \in Resource : live[r] = Before[r] /\ kept[txn.id][r].new = After[r]
         /\ Reload(u) \/ op' = [op EXCEPT ![u].at = "data_old", ![u].next = 1]
  BY DEF PublishData, Attempt, Decide, save, Before, After
<1> QED BY <1>3, <1>5, <1>6, <1>7

\* Neighbours among the resources.
LEMMA Successor ==
  \A r, q \in Nat : /\ q < r + 1 => q < r \/ q = r
                    /\ q > r + 1 => q > r
                    /\ r + 1 > r
OBVIOUS

\* One resource's switch of _apply(), or nothing when there is nothing to move.
LEMMA ExchangeStep ==
  ASSUME SafeInv, NEW u \in Updater, NEW p, NEW n \in 0 .. MaxResource + 1,
         NEW c \in Content, NEW k \in KeptType,
         op[u].at \in {"data_old", "data_new"}, op[u].next \in Resource,
         \/ /\ op[u].at = "data_old" /\ p = "data_new" /\ n = op[u].next
            /\ <<c, k.old, k.new, k.failed>> =
                 <<Absent, Before[op[u].next], After[op[u].next], Absent>>
         \/ /\ op[u].at = "data_new" /\ p = "data_old" /\ n = op[u].next + 1
            /\ <<c, k.old, k.new, k.failed>> =
                 <<After[op[u].next], Before[op[u].next], Absent, Absent>>,
         \/ DataWrite(op[u].next, c, k)
         \/ UNCHANGED disk /\ Places(op[u].next) = <<c, k.old, k.new, k.failed>>,
         UNCHANGED <<opLock, host>>, Fault \/ UNCHANGED faults,
         Reload(u) \/ (Goes(u, p) /\ op'[u].next = n)
  PROVE  SafeInv'
<1>0. PICK r \in Resource : r = op[u].next OBVIOUS
<1>1. /\ Exclusive(u) /\ Pending /\ Journaled /\ ProcType /\ DiskType /\ MaxResource \in Nat
      /\ txn.id = op[u].id /\ txn.new = op[u].target /\ DataInv(u)
  BY ExchangeFacts
<1>2. Stored = "PUBLISHING" BY <1>1 DEF DataInv
<1>3. /\ DiskType' /\ DiskInv' /\ txn' = txn /\ Pending' /\ Journaled' /\ Layout' = Layout
      /\ Stored' = "PUBLISHING" /\ Before' = Before /\ After' = After
      /\ Places(r)' = <<c, k.old, k.new, k.failed>>
      /\ \A q \in Resource : q # r => Places(q)' = Places(q)
  <2>1. <<c, k.old, k.new, k.failed>> \in
          {<<Absent, Before[r], After[r], Absent>>, <<After[r], Before[r], Absent, Absent>>}
    BY <1>0
  <2>2. CASE DataWrite(op[u].next, c, k)
    <3>1. DataWrite(r, c, k) BY <1>0, <2>2
    <3> QED BY <1>1, <1>2, <2>1, <3>1, DataMoved
  <2>3. CASE UNCHANGED disk /\ Places(op[u].next) = <<c, k.old, k.new, k.failed>>
    BY <1>0, <1>1, <1>2, <2>3, DiskKept
  <2> QED BY <2>2, <2>3
<1>4. CASE Reload(u)
  BY <1>1, <1>3, <1>4, ReloadStep
<1>5. CASE Goes(u, p) /\ op'[u].next = n
  <2>1. Goes(u, p) /\ op'[u].next = n BY <1>5
  <2>2. /\ \A q \in Resource : q < r => Moved(q)'
        /\ \A q \in Resource : q > r => Unmoved(q)'
        /\ p = "data_new" => Taken(r)'
        /\ p = "data_old" => Moved(r)'
    <3>1. \A q \in Resource : q \in Nat BY <1>1 DEF Resource
    <3>2. /\ \A q \in Resource : q < r => Moved(q)
          /\ \A q \in Resource : q > r => Unmoved(q)
      BY <1>0, <1>1 DEF DataInv
    <3>3. \A q \in Resource : (q < r \/ q > r) => q # r BY <3>1
    <3>4. /\ \A q \in Resource : q < r => Moved(q)'
          /\ \A q \in Resource : q > r => Unmoved(q)'
      BY <1>3, <3>2, <3>3 DEF Moved, Unmoved
    <3>5. /\ p = "data_new" => Taken(r)'
          /\ p = "data_old" => Moved(r)'
      BY <1>0, <1>3 DEF Moved, Taken
    <3> QED BY <3>4, <3>5
  <2>3. n \in 1 .. MaxResource + 1 /\ r \in Nat /\ \A q \in Resource : q \in Nat
    BY <1>0, <1>1 DEF Resource
  <2>4. DataInv(u)'
    <3>1. CASE p = "data_new"
      BY <1>0, <1>3, <2>1, <2>2, <2>3, <3>1 DEF Goes, DataInv, Switching
    <3>2. CASE p = "data_old"
      <4>1. n = r + 1 /\ op'[u].next = n /\ op'[u].at = "data_old"
        BY <1>0, <2>1, <3>2 DEF Goes
      <4>2. \A q \in Resource : q < n => Moved(q)'
        <5>1. \A q \in Resource : q < n => q < r \/ q = r BY <2>3, <4>1, Successor
        <5> QED BY <2>2, <3>2, <5>1
      <4>3. \A q \in Resource : q > n => Unmoved(q)'
        <5>1. \A q \in Resource : q > n => q > r BY <2>3, <4>1, Successor
        <5> QED BY <2>2, <5>1
      <4>4. n \in Resource => Unmoved(n)'
        <5>1. n > r BY <2>3, <4>1, Successor
        <5> QED BY <2>2, <5>1
      <4> QED BY <1>3, <2>3, <4>1, <4>2, <4>3, <4>4 DEF DataInv, Switching
    <3> QED BY <3>1, <3>2
  <2>5. PointInv(u)'
    BY <1>1, <1>3, <2>1, <2>4, ExchangeFacts
       DEF Goes, PointInv, KindInv, PreparingInv, ProgramInv, RecoverInv,
           ForeignInv, ReportInv, Switching, Recovering
  <2> QED BY <1>1, <1>3, <2>1, <2>5, FaultType, Frame
<1> QED BY <1>4, <1>5

LEMMA DataOldStep ==
  ASSUME SafeInv, NEW u \in Updater, DataOld(u)
  PROVE  SafeInv'
<1>0. PICK r \in Resource : r = op[u].next BY DEF DataOld
<1>1. op[u].at = "data_old" BY DEF DataOld
<1>2. /\ ProcType /\ DiskType /\ MaxResource \in Nat /\ r \in 0 .. MaxResource + 1
      /\ Unmoved(r) /\ Before[r] \in Content /\ After[r] \in Content /\ Absent \in Content
      /\ kept[txn.id][r] \in KeptType /\ live[r] \in Content
  BY <1>0, <1>1, ExchangeFacts DEF DataInv, DiskType
<1>3. /\ UNCHANGED <<opLock, host>> /\ (Fault \/ UNCHANGED faults)
  BY DEF DataOld, Attempt, Decide
<1> DEFINE k == [kept[txn.id][r] EXCEPT !["old"] = live[r]]
<1>4. live[r] = Before[r] /\ kept[txn.id][r].old = Absent /\ kept[txn.id][r].new = After[r]
      /\ kept[txn.id][r].failed = Absent
  BY <1>2, PlacesAre DEF Unmoved
<1>5. k \in KeptType /\ k.old = Before[r] /\ k.new = After[r] /\ k.failed = Absent
  BY <1>2, <1>4 DEF KeptType
<1>6. "data_new" \in Point /\ (Goto(u, "data_new") => Goes(u, "data_new") /\ op'[u].next = r)
  BY <1>0, <1>2, GotoGoes DEF Point
<1>7. CASE Before[r] = Absent
  <2>1. Goto(u, "data_new") /\ UNCHANGED disk
    BY <1>0, <1>7 DEF DataOld, Decide, Before
  <2>2. Places(r) = <<Absent, k.old, k.new, k.failed>>
    BY <1>2, <1>5, <1>7 DEF Unmoved
  <2> HIDE DEF k
  <2> QED BY <1>0, <1>1, <1>2, <1>3, <1>5, <1>6, <2>1, <2>2, ExchangeStep
<1>8. CASE Before[r] # Absent
  <2>1. MoveLive(txn.id, r, "old") <=> DataWrite(r, Absent, k)
    BY DEF MoveLive, DataWrite
  <2>2. Attempt(u, MoveLive(txn.id, r, "old"), Goto(u, "data_new"), Reload(u))
    BY <1>0, <1>8 DEF DataOld, Before
  <2> HIDE DEF k
  <2>3. CASE DataWrite(r, Absent, k) /\ (Goto(u, "data_new") \/ Reload(u))
    BY <1>0, <1>1, <1>2, <1>3, <1>5, <1>6, <2>3, ExchangeStep
  <2>4. CASE UNCHANGED disk /\ Reload(u)
    <3>1. /\ Exclusive(u) /\ txn.id = op[u].id /\ txn.new = op[u].target
      BY <1>1, ExchangeFacts
    <3> QED BY <1>3, <2>4, <3>1, DiskKept, ReloadStep
  <2> QED BY <2>1, <2>2, <2>3, <2>4 DEF Attempt
<1> QED BY <1>7, <1>8

LEMMA DataNewStep ==
  ASSUME SafeInv, NEW u \in Updater, DataNew(u)
  PROVE  SafeInv'
<1>1. op[u].at = "data_new" BY DEF DataNew
<1>0. PICK r \in Resource : r = op[u].next BY <1>1, ExchangeFacts DEF DataInv
<1>2. /\ ProcType /\ DiskType /\ MaxResource \in Nat /\ r \in Nat /\ r + 1 \in 0 .. MaxResource + 1
      /\ Taken(r) /\ Before[r] \in Content /\ After[r] \in Content /\ Absent \in Content
      /\ kept[txn.id][r] \in KeptType
  BY <1>0, <1>1, ExchangeFacts DEF DataInv, Resource
<1>3. /\ UNCHANGED <<opLock, host>> /\ (Fault \/ UNCHANGED faults)
  BY DEF DataNew, Attempt, Decide
<1> DEFINE k == [kept[txn.id][r] EXCEPT !["new"] = Absent]
<1>4. live[r] = Absent /\ kept[txn.id][r].old = Before[r] /\ kept[txn.id][r].new = After[r]
      /\ kept[txn.id][r].failed = Absent
  BY <1>2, PlacesAre DEF Taken
<1>5. k \in KeptType /\ k.old = Before[r] /\ k.new = Absent /\ k.failed = Absent
  BY <1>2, <1>4 DEF KeptType
<1>6. NextResource(u, "data_old") => Goes(u, "data_old") /\ op'[u].next = r + 1
  <2>1. "data_old" \in Point BY DEF Point
  <2>2. NextResource(u, "data_old") => op' = [op EXCEPT ![u].at = "data_old", ![u].next = r + 1]
    BY <1>0 DEF NextResource
  <2> QED BY <1>2, <2>1, <2>2, NextGoes
<1>7. CASE After[r] = Absent
  <2>1. NextResource(u, "data_old") /\ UNCHANGED disk
    BY <1>0, <1>7 DEF DataNew, Decide, After
  <2>2. Places(r) = <<After[r], k.old, k.new, k.failed>>
    BY <1>2, <1>5, <1>7 DEF Taken
  <2> HIDE DEF k
  <2> QED BY <1>0, <1>1, <1>2, <1>3, <1>5, <1>6, <2>1, <2>2, ExchangeStep
<1>8. CASE After[r] # Absent
  <2>1. MoveToLive(txn.id, r, "new") <=> DataWrite(r, kept[txn.id][r].new, k)
    BY DEF MoveToLive, DataWrite
  <2>2. Attempt(u, MoveToLive(txn.id, r, "new"), NextResource(u, "data_old"), Reload(u))
    BY <1>0, <1>8 DEF DataNew, After
  <2> HIDE DEF k
  <2>3. CASE DataWrite(r, After[r], k) /\ (NextResource(u, "data_old") \/ Reload(u))
    BY <1>0, <1>1, <1>2, <1>3, <1>5, <1>6, <2>3, ExchangeStep
  <2>4. CASE UNCHANGED disk /\ Reload(u)
    <3>1. /\ Exclusive(u) /\ txn.id = op[u].id /\ txn.new = op[u].target
      BY <1>1, ExchangeFacts
    <3> QED BY <1>3, <2>4, <3>1, DiskKept, ReloadStep
  <2> QED BY <1>4, <2>1, <2>2, <2>3, <2>4 DEF Attempt
<1> QED BY <1>7, <1>8

LEMMA DataPublishedStep ==
  ASSUME SafeInv, NEW u \in Updater, DataPublished(u)
  PROVE  SafeInv'
<1>0. op[u].at = "data_old" /\ op[u].next \notin Resource BY DEF DataPublished
<1>1. /\ Exclusive(u) /\ Pending /\ Journaled /\ ProcType /\ DiskType
      /\ txn.id = op[u].id /\ txn.new = op[u].target
  BY <1>0, ExchangeFacts
<1>2. UNCHANGED <<opLock, host>> /\ (Fault \/ UNCHANGED faults) BY DEF DataPublished, Attempt
<1>3. \A r \in Resource : Moved(r)
  <2>1. /\ op[u].next \in 1 .. MaxResource + 1 /\ MaxResource \in Nat
        /\ \A r \in Resource : r < op[u].next => Moved(r)
    BY <1>0, ExchangeFacts DEF DataInv
  <2>2. op[u].next = MaxResource + 1 BY <1>0, <2>1 DEF Resource
  <2>3. \A r \in Resource : r < op[u].next BY <2>1, <2>2 DEF Resource
  <2> QED BY <2>1, <2>3
<1> DEFINE save == SaveJournal(txn.id, [journal[txn.id] EXCEPT !.state = "PUBLISHED"])
<1>4. ASSUME save
      PROVE  /\ DiskType' /\ DiskInv' /\ txn' = txn /\ Pending' /\ Journaled' /\ Layout' = Layout
             /\ Stored' = "PUBLISHED" /\ \A r \in Resource : Moved(r)'
  <2>1. \A r \in Resource : Known(r) BY <1>3 DEF Known, Moved
  <2>2. /\ DiskType' /\ DiskInv' /\ txn' = txn /\ Pending' /\ Journaled' /\ Layout' = Layout
        /\ Stored' = "PUBLISHED" /\ Before' = Before /\ After' = After
        /\ \A r \in Resource : Places(r)' = Places(r)
    BY <1>1, <1>4, <2>1, JournalSaved
  <2> QED BY <1>3, <2>2 DEF Moved
<1> HIDE DEF save
<1>5. CASE save /\ Goto(u, "commit")
  <2>1. Goes(u, "commit") BY <1>1, <1>5, GotoGoes DEF Point
  <2>2. PointInv(u)'
    BY <1>0, <1>4, <1>5, <2>1, ExchangeFacts
       DEF Goes, PointInv, KindInv, PreparingInv, ProgramInv, DataInv, RecoverInv,
           ForeignInv, ReportInv, Switching, Recovering
  <2> QED BY <1>1, <1>2, <1>4, <1>5, <2>1, <2>2, FaultType, Frame
<1>6. CASE Reload(u) /\ (save \/ UNCHANGED disk)
  BY <1>1, <1>2, <1>4, <1>6, DiskKept, ReloadStep
<1> QED BY <1>5, <1>6 DEF DataPublished, Attempt, save

LEMMA CommitStep ==
  ASSUME SafeInv, NEW u \in Updater, Commit(u)
  PROVE  SafeInv'
<1>0. op[u].at = "commit" /\ op[u].at \in Switching BY DEF Commit, Switching
<1>1. /\ Exclusive(u) /\ Pending /\ ProcType /\ DiskType /\ op[u].kind = "apply"
      /\ txn.id = op[u].id /\ txn.new = op[u].target /\ txn.new \in Version
      /\ txn.id \in Txn /\ DataInv(u)
      /\ Layout = <<txn.new, txn.old, 0, 0>> /\ op[u].target \in Payload
  BY <1>0, SwitchingFacts DEF ProgramInv, ProcType, OpType
<1>2. UNCHANGED <<opLock, host>> /\ (Fault \/ UNCHANGED faults) BY DEF Commit, Attempt
<1> DEFINE save == SaveLedger([ledger EXCEPT !.current = txn.new, !.txn.state = "COMMITTED"])
<1>3. ASSUME save
      PROVE  /\ DiskType' /\ DiskInv' /\ ~Pending' /\ ledger'.current = txn.new
             /\ txn'.id = txn.id /\ txn'.new = txn.new /\ txn'.state = "COMMITTED"
  <2>1. /\ ledger' \in LedgerType /\ ledger'.current = txn.new
        /\ txn'.id = txn.id /\ txn'.new = txn.new /\ txn'.old = txn.old
        /\ txn'.state = "COMMITTED"
    BY <1>1, <1>3 DEF SaveLedger, DiskType, LedgerType, LedgerState, TxnType, txn
  <2>2. active' = active /\ slot' = slot /\ used' = used /\ journal' = journal
        /\ live' = live /\ kept' = kept
    BY <1>3 DEF SaveLedger, program, userData
  <2>3. DiskType' BY <1>1, <2>1, <2>2 DEF DiskType
  <2>4. ~Pending' BY <2>1 DEF Pending, Terminal
  <2>5. LedgerInv' BY <1>1, <2>1, <2>2 DEF SafeInv, DiskInv, LedgerInv, Pending, Terminal
  <2>6. FreshInv' BY <2>2 DEF SafeInv, DiskInv, FreshInv
  <2>7. CommittedData'
    <3>1. Journaled' <=> Journaled BY <2>1, <2>2 DEF Journaled
    <3>2. Journaled => journal[txn.id].state = "PUBLISHED"
                       /\ \A r \in Resource : kept[txn.id][r].old = journal[txn.id].before[r]
      BY <1>0, <1>1, PlacesAre DEF DataInv, Moved, Stored, Before
    <3> QED BY <2>1, <2>2, <3>1, <3>2 DEF CommittedData
  <2>8. Recoverable'
    BY <1>1, <2>1, <2>2, <2>4, <2>7 DEF Recoverable, TerminalEvidence, Layout, dirs
  <2> QED BY <2>1, <2>3, <2>4, <2>5, <2>6, <2>8 DEF DiskInv
<1> HIDE DEF save
<1>4. CASE save /\ Finish(u, "committed", op[u].target)
  <2>1. [status |-> "committed", version |-> op[u].target] \in Report BY <1>1 DEF Report
  <2>2. Goes(u, "return")
        /\ op'[u].result = [status |-> "committed", version |-> op[u].target]
    BY <1>1, <1>4, <2>1, FinishGoes
  <2>3. PointInv(u)'
    BY <1>1, <1>3, <1>4, <2>2
       DEF Goes, PointInv, KindInv, PreparingInv, ProgramInv, DataInv, RecoverInv,
           ForeignInv, ReportInv, Switching, Recovering
  <2> QED BY <1>1, <1>2, <1>3, <1>4, <2>2, <2>3, FaultType, Frame
<1>5. CASE Reload(u) /\ (save \/ UNCHANGED disk)
  BY <1>1, <1>2, <1>3, <1>5, DiskKept, ReloadStep
<1> QED BY <1>4, <1>5 DEF Commit, Attempt, save

-----------------------------------------------------------------------------
(* _apply() before the intent.                                             *)

\* Without a pending transaction the installed release is in its place.
LEMMA Installed ==
  ASSUME SafeInv, ~Pending
  PROVE  /\ active = ledger.current /\ ledger.current \in Version /\ TerminalEvidence
         /\ txn.id <= used /\ txn.id \in 0 .. MaxTxn /\ used \in 0 .. MaxTxn /\ MaxTxn \in Nat
<1> USE DEF SafeInv
<1>1. DiskType BY TypeParts
<1>2. LedgerInv /\ TerminalEvidence BY DEF DiskInv, Recoverable
<1>3. txn.state \in Terminal BY DEF Pending
<1>4. active = ledger.current
  BY <1>2, <1>3 DEF LedgerInv, TerminalEvidence, Terminal, Layout
<1> QED BY <1>1, <1>2, <1>4, Bounds DEF DiskType, LedgerType, TxnType, LedgerInv, txn

\* The high water alone.
LEMMA HighSaved ==
  ASSUME SafeInv, NEW v \in Payload, SaveLedger([ledger EXCEPT !.high = v])
  PROVE  /\ DiskType' /\ DiskInv' /\ ledger'.current = ledger.current /\ txn' = txn
<1> USE DEF SafeInv
<1>1. DiskType BY TypeParts
<1>2. /\ ledger' \in LedgerType /\ ledger'.current = ledger.current /\ txn' = txn
      /\ active' = active /\ slot' = slot /\ used' = used /\ journal' = journal
      /\ live' = live /\ kept' = kept
  BY <1>1 DEF SaveLedger, program, userData, DiskType, LedgerType, txn
<1>3. DiskType' BY <1>1, <1>2 DEF DiskType
<1>4. LedgerInv' /\ FreshInv' BY <1>2 DEF DiskInv, LedgerInv, FreshInv
<1>5. Recoverable'
  <2>1. KnownLayout' <=> KnownLayout BY <1>2 DEF KnownLayout, Layout, dirs
  <2>2. CommittedData' <=> CommittedData BY <1>2 DEF CommittedData, Journaled
  <2>3. TerminalEvidence' <=> TerminalEvidence
    BY <1>2, <2>1, <2>2 DEF TerminalEvidence, Layout, dirs
  <2>4. \A r \in Resource : KnownData(r)' <=> KnownData(r) BY <1>2 DEF KnownData
  <2> QED BY <1>2, <2>1, <2>3, <2>4 DEF DiskInv, Recoverable, Pending, Journaled
<1> QED BY <1>2, <1>3, <1>4, <1>5 DEF DiskInv

LEMMA SelectStep ==
  ASSUME SafeInv, NEW u \in Updater, NEW v \in Version, Select(u, v)
  PROVE  SafeInv'
<1>0. op[u].at = "select" BY DEF Select
<1>1. Exclusive(u) /\ op[u].kind = "apply" /\ ProcType /\ v \in Payload
  BY <1>0, TypeParts, Bounds DEF Exclusive, SafeInv, OpInv, PointInv, KindInv
<1>2. UNCHANGED <<opLock, host>> /\ (Fault \/ UNCHANGED faults)
  BY DEF Select, Decide, Attempt
<1>3. CASE Abandon(u) /\ UNCHANGED disk
  BY <1>1, <1>2, <1>3, DiskKept, RefusedStep
<1>4. CASE Abandon(u) /\ SaveLedger([ledger EXCEPT !.high = v])
  BY <1>1, <1>2, <1>4, HighSaved, RefusedStep
<1>5. CASE ~Pending /\ v = ledger.current /\ SaveLedger([ledger EXCEPT !.high = v])
           /\ Finish(u, "up_to_date", v)
  <2>1. /\ DiskType' /\ DiskInv' /\ ledger'.current = v /\ txn' = txn /\ ~Pending'
    BY <1>1, <1>5, HighSaved DEF Pending
  <2>2. [status |-> "up_to_date", version |-> v] \in Report BY <1>1 DEF Report
  <2>3. Goes(u, "return") /\ op'[u].result = [status |-> "up_to_date", version |-> v]
    BY <1>1, <1>5, <2>2, FinishGoes
  <2>4. PointInv(u)'
    BY <1>1, <2>1, <2>3
       DEF Goes, PointInv, KindInv, PreparingInv, ProgramInv, DataInv, RecoverInv,
           ForeignInv, ReportInv, Switching, Recovering
  <2> QED BY <1>1, <1>2, <2>1, <2>3, <2>4, FaultType, Frame
<1>6. CASE /\ ~Pending /\ v > ledger.current /\ used # MaxTxn
           /\ op' = [op EXCEPT ![u].at = "stage", ![u].id = used + 1, ![u].target = v]
           /\ UNCHANGED <<disk, opLock, host, faults>>
  <2>1. used + 1 \in Txn /\ used + 1 \in 0 .. MaxTxn BY <1>6, Installed DEF Txn
  <2>2. "stage" \in Point BY DEF Point
  <2>3. /\ op' \in [Updater -> OpType] /\ op'[u].at = "stage" /\ op'[u].kind = op[u].kind
        /\ op'[u].id = used + 1 /\ op'[u].target = v
        /\ \A w \in Updater : w # u => op'[w] = op[w]
    BY <1>1, <1>6, <2>1, <2>2 DEF ProcType, OpType
  <2>4. DiskType' /\ DiskInv' /\ ~Pending' /\ ledger' = ledger /\ used' = used
    BY <1>6, DiskKept DEF disk
  <2>5. PointInv(u)'
    BY <1>1, <1>6, <2>1, <2>3, <2>4
       DEF PointInv, KindInv, PreparingInv, ProgramInv, DataInv, RecoverInv,
           ForeignInv, ReportInv, Switching, Recovering
  <2>6. Turns(u) BY <2>3 DEF Turns
  <2> QED BY <1>1, <1>2, <2>4, <2>5, <2>6, FaultType, FrameTurns
<1> QED BY <1>3, <1>4, <1>5, <1>6 DEF Select, Decide, Attempt

\* Nothing of a directory not named by the ledger counts for recovery.
LEMMA CandidateWritten ==
  ASSUME SafeInv, ~Pending, NEW t \in Txn, txn.id < t, used <= t, used' = t,
         ledger' = ledger, active' = active, live' = live, DiskType',
         \A q \in Txn : q # t => slot'[q] = slot[q] /\ journal'[q] = journal[q] /\ kept'[q] = kept[q],
         journal'[t].state \in {"NONE", "PREPARED", "VALIDATED"} =>
           \A r \in Resource : kept'[t][r].old = Absent /\ kept'[t][r].failed = Absent
  PROVE  DiskInv' /\ ~Pending'
<1> USE DEF SafeInv
<1>1. DiskType BY TypeParts
<1>2. txn' = txn /\ ~Pending' BY DEF txn, Pending
<1>3. /\ txn.id \in 0 .. MaxTxn /\ used \in 0 .. MaxTxn /\ MaxTxn \in Nat
      /\ TerminalEvidence /\ txn.id <= used /\ t \in Nat
  BY Installed DEF Txn
<1>4. LedgerInv' BY <1>2, <1>3 DEF DiskInv, LedgerInv
<1>5. FreshInv'
  <2>1. \A q \in Txn : q \in Nat /\ (q > t => q > used /\ q # t) BY <1>3 DEF Txn
  <2> QED BY <2>1 DEF DiskInv, FreshInv
<1>6. TerminalEvidence'
  <2>1. CASE txn.state = "NONE"
    BY <1>2, <1>3, <2>1 DEF TerminalEvidence
  <2>2. CASE txn.state # "NONE"
    <3>1. txn.id \in Txn /\ txn.id # t BY <1>3, <2>2, Named
    <3>2. dirs' = dirs /\ journal'[txn.id] = journal[txn.id] /\ kept'[txn.id] = kept[txn.id]
      BY <1>2, <3>1 DEF dirs
    <3>3. Layout' = Layout BY <3>2 DEF Layout
    <3>4. CommittedData' <=> CommittedData BY <1>2, <3>2 DEF CommittedData, Journaled
    <3>5. KnownLayout' <=> KnownLayout BY <1>2, <3>3 DEF KnownLayout
    <3> QED BY <1>2, <1>3, <3>3, <3>4, <3>5 DEF TerminalEvidence
  <2> QED BY <2>1, <2>2
<1> QED BY <1>2, <1>4, <1>5, <1>6 DEF DiskInv, Recoverable

\* The points before the intent.
LEMMA PreparingFacts ==
  ASSUME SafeInv, NEW u \in Updater, op[u].at \in {"stage", "shadow", "migrate", "prepare"}
  PROVE  /\ Exclusive(u) /\ ~Pending /\ op[u].kind = "apply" /\ PreparingInv(u)
         /\ ProcType /\ DiskType
         /\ op[u].id \in Txn /\ op[u].target \in Version /\ op[u].target \in Payload
         /\ op[u].target > ledger.current
         /\ txn.id < op[u].id /\ used <= op[u].id
         /\ active = ledger.current /\ ledger.current \in Version
         /\ Absent \in Content /\ 0 \in Payload
<1>1. Exclusive(u) BY DEF Exclusive
<1>2. PreparingInv(u) /\ op[u].kind = "apply" BY DEF SafeInv, OpInv, PointInv, KindInv
<1>3. ~Pending /\ op[u].target \in Version /\ op[u].target > ledger.current
  BY <1>2 DEF PreparingInv
<1>4. /\ txn.id <= used /\ txn.id \in 0 .. MaxTxn /\ used \in 0 .. MaxTxn /\ MaxTxn \in Nat
      /\ active = ledger.current /\ ledger.current \in Version
  BY <1>3, Installed
<1>5. op[u].id \in Txn /\ txn.id < op[u].id /\ used <= op[u].id
  <2>1. CASE op[u].at = "stage"
    BY <1>2, <1>4, <2>1 DEF PreparingInv
  <2>2. CASE op[u].at # "stage"
    BY <1>2, <1>4, <2>2 DEF PreparingInv, Candidate
  <2> QED BY <2>1, <2>2
<1>6. op[u].target \in Payload BY <1>3, Bounds
<1> QED BY <1>1, <1>2, <1>3, <1>4, <1>5, <1>6, Bounds, TypeParts DEF SafeInv

LEMMA StageStep ==
  ASSUME SafeInv, NEW u \in Updater, Stage(u)
  PROVE  SafeInv'
<1> DEFINE t == op[u].id
           write == /\ used' = t
                    /\ slot' = [slot EXCEPT ![t].new = op[u].target]
                    /\ UNCHANGED <<ledger, active, userData>>
<1>0. op[u].at = "stage" BY DEF Stage
<1>1. /\ Exclusive(u) /\ ~Pending /\ op[u].kind = "apply" /\ PreparingInv(u)
      /\ ProcType /\ DiskType /\ t \in Txn /\ op[u].target \in Version
      /\ op[u].target \in Payload /\ op[u].target > ledger.current
      /\ txn.id < t /\ used <= t /\ 0 \in Payload
  BY <1>0, PreparingFacts
<1>2. UNCHANGED <<opLock, host>> /\ (Fault \/ UNCHANGED faults) BY DEF Stage, Attempt
<1>3. ASSUME write
      PROVE  /\ DiskType' /\ DiskInv' /\ ~Pending' /\ ledger' = ledger /\ used' = t
             /\ slot'[t] = [old |-> 0, new |-> op[u].target, failed |-> 0]
             /\ journal'[t].state = "NONE"
  <2>1. ledger' = ledger /\ active' = active /\ journal' = journal /\ live' = live /\ kept' = kept
    BY <1>3 DEF userData
  <2>2. slot[t] = EmptySlots /\ journal[t].state = "NONE"
    <3>1. t > used
      BY <1>0, <1>1 DEF PreparingInv, DiskType
    <3> QED BY <1>1, <3>1 DEF SafeInv, DiskInv, FreshInv
  <2>3. /\ slot' \in [Txn -> SlotType]
        /\ slot'[t] = [old |-> 0, new |-> op[u].target, failed |-> 0]
        /\ \A q \in Txn : q # t => slot'[q] = slot[q]
    BY <1>1, <1>3, <2>2 DEF DiskType, SlotType, EmptySlots
  <2>4. t \in 0 .. MaxTxn BY <1>1, Bounds DEF Txn
  <2>5. DiskType' BY <1>1, <1>3, <2>1, <2>3, <2>4 DEF DiskType
  <2>6. \A r \in Resource : kept'[t][r].old = Absent /\ kept'[t][r].failed = Absent
    BY <1>1, <2>1, <2>2 DEF SafeInv, DiskInv, FreshInv
  <2>7. DiskInv' /\ ~Pending'
    BY <1>1, <1>3, <2>1, <2>3, <2>5, <2>6, CandidateWritten
  <2> QED BY <1>3, <2>1, <2>2, <2>3, <2>5, <2>7
<1> DEFINE p == IF Schema[op[u].target] = Schema[ledger.current] THEN "prepare" ELSE "shadow"
<1>p. p \in {"prepare", "shadow"} /\ p \in Point BY DEF Point
<1>4. CASE write /\ Goto(u, p)
  <2> HIDE DEF write, p
  <2>1. Goes(u, p) BY <1>1, <1>4, <1>p, GotoGoes
  <2>2. txn' = txn BY <1>3, <1>4 DEF txn
  <2>3. PreparingInv(u)'
    BY <1>1, <1>3, <1>4, <1>p, <2>1, <2>2 DEF Goes, PreparingInv, Candidate, Migrated
  <2>4. PointInv(u)'
    BY <1>1, <1>3, <1>4, <1>p, <2>1, <2>3
       DEF Goes, PointInv, KindInv, ProgramInv, DataInv, RecoverInv,
           ForeignInv, ReportInv, Switching, Recovering
  <2> QED BY <1>1, <1>2, <1>3, <1>4, <2>1, <2>4, FaultType, Frame
<1>5. CASE Abandon(u) /\ (write \/ UNCHANGED disk)
  <2> HIDE DEF write
  <2> QED BY <1>1, <1>2, <1>3, <1>5, DiskKept, RefusedStep
<1> QED BY <1>4, <1>5 DEF Stage, Attempt

\* The data's copies and their journal, for the candidate's directory.
LEMMA CopiesWritten ==
  ASSUME SafeInv, NEW u \in Updater, op[u].at \in {"shadow", "migrate"},
         kept' \in [Txn -> [Resource -> KeptType]], journal' \in [Txn -> JournalType],
         \A q \in Txn : q # op[u].id => journal'[q] = journal[q] /\ kept'[q] = kept[q],
         \A r \in Resource :
           kept'[op[u].id][r].old = Absent /\ kept'[op[u].id][r].failed = Absent,
         UNCHANGED <<ledger, program, live>>
  PROVE  /\ DiskType' /\ DiskInv' /\ ~Pending' /\ ledger' = ledger /\ txn' = txn /\ live' = live
         /\ used' = used /\ slot' = slot
<1> DEFINE t == op[u].id
<1>1. /\ ~Pending /\ DiskType /\ t \in Txn /\ txn.id < t /\ used <= t /\ PreparingInv(u)
  BY PreparingFacts
<1>2. used = t BY <1>1 DEF PreparingInv, Candidate
<1>3. ledger' = ledger /\ active' = active /\ slot' = slot /\ used' = used /\ live' = live
      /\ txn' = txn
  BY DEF program, txn
<1>4. DiskType' BY <1>1, <1>3 DEF DiskType
<1>5. DiskInv' /\ ~Pending'
  BY <1>1, <1>2, <1>3, <1>4, CandidateWritten
<1> QED BY <1>3, <1>4, <1>5

LEMMA ShadowStep ==
  ASSUME SafeInv, NEW u \in Updater, Shadow(u)
  PROVE  SafeInv'
<1> DEFINE t == op[u].id
           k == [r \in Resource |-> [kept[t][r] EXCEPT !.new = live[r]]]
           j == [journal[t] EXCEPT !.state = "PREPARED", !.before = live]
           write == /\ kept' = [kept EXCEPT ![t] = k] /\ journal' = [journal EXCEPT ![t] = j]
                    /\ UNCHANGED <<ledger, program, live>>
<1>0. op[u].at = "shadow" BY DEF Shadow
<1>1. /\ Exclusive(u) /\ ~Pending /\ op[u].kind = "apply" /\ PreparingInv(u)
      /\ ProcType /\ DiskType /\ t \in Txn
  BY <1>0, PreparingFacts
<1>2. UNCHANGED <<opLock, host>> /\ (Fault \/ UNCHANGED faults) BY DEF Shadow, Attempt
<1>3. /\ kept[t] \in [Resource -> KeptType] /\ journal[t] \in JournalType
      /\ live \in [Resource -> Content]
  BY <1>1 DEF DiskType
<1>4. k \in [Resource -> KeptType] /\ \A r \in Resource : k[r].old = Absent /\ k[r].failed = Absent
  <2>1. journal[t].state = "NONE" BY <1>0, <1>1 DEF PreparingInv
  <2>2. \A r \in Resource : kept[t][r].old = Absent /\ kept[t][r].failed = Absent
    BY <1>1, <2>1 DEF SafeInv, DiskInv, FreshInv
  <2> QED BY <1>3, <2>2 DEF KeptType
<1>5. j \in JournalType /\ j.state = "PREPARED" /\ j.before = live
  BY <1>3 DEF JournalType
<1>6. write => /\ DiskType' /\ DiskInv' /\ ~Pending' /\ ledger' = ledger /\ txn' = txn
               /\ live' = live /\ used' = used /\ slot' = slot /\ journal'[t] = j
  <2> HIDE DEF k, j
  <2>1. ASSUME write
        PROVE  /\ kept' \in [Txn -> [Resource -> KeptType]] /\ kept'[t] = k
               /\ journal' \in [Txn -> JournalType] /\ journal'[t] = j
               /\ \A q \in Txn : q # t => journal'[q] = journal[q] /\ kept'[q] = kept[q]
    BY <1>1, <1>4, <1>5, <2>1 DEF DiskType
  <2> QED BY <1>0, <1>4, <1>5, <2>1, CopiesWritten
<1>7. Attempt(u, write, Goto(u, "migrate"), Abandon(u)) BY DEF Shadow
<1> HIDE DEF write, k, j
<1>8. CASE write /\ Goto(u, "migrate")
  <2>1. Goes(u, "migrate") BY <1>1, <1>8, GotoGoes DEF Point
  <2>2. PreparingInv(u)'
    BY <1>0, <1>1, <1>5, <1>6, <1>8, <2>1 DEF Goes, PreparingInv, Candidate
  <2>3. PointInv(u)'
    BY <1>1, <1>6, <1>8, <2>1, <2>2
       DEF Goes, PointInv, KindInv, ProgramInv, DataInv, RecoverInv,
           ForeignInv, ReportInv, Switching, Recovering
  <2> QED BY <1>1, <1>2, <1>6, <1>8, <2>1, <2>3, FaultType, Frame
<1>9. CASE Abandon(u) /\ (write \/ UNCHANGED disk)
  BY <1>1, <1>2, <1>6, <1>9, DiskKept, RefusedStep
<1> QED BY <1>7, <1>8, <1>9 DEF Attempt

LEMMA MigrateStep ==
  ASSUME SafeInv, NEW u \in Updater, NEW R \in SUBSET Resource, Migrate(u, R)
  PROVE  SafeInv'
<1> DEFINE t == op[u].id
           after == [r \in Resource |->
                       IF r \in R THEN [live[r] EXCEPT !.gen = Schema[op[u].target]] ELSE live[r]]
           k == [r \in Resource |-> [kept[t][r] EXCEPT !.new = after[r]]]
           j == [journal[t] EXCEPT !.state = "VALIDATED", !.after = after]
           write == /\ kept' = [kept EXCEPT ![t] = k] /\ journal' = [journal EXCEPT ![t] = j]
                    /\ UNCHANGED <<ledger, program, live>>
<1>0. op[u].at = "migrate" BY DEF Migrate
<1>1. /\ Exclusive(u) /\ ~Pending /\ op[u].kind = "apply" /\ PreparingInv(u)
      /\ ProcType /\ DiskType /\ t \in Txn /\ op[u].target \in Version
  BY <1>0, PreparingFacts
<1>2. UNCHANGED <<opLock, host>> /\ (Fault \/ UNCHANGED faults) BY DEF Migrate, Attempt
<1>3. /\ kept[t] \in [Resource -> KeptType] /\ journal[t] \in JournalType
      /\ live \in [Resource -> Content]
  BY <1>1 DEF DiskType
<1>4. after \in [Resource -> Content]
  <2>1. Schema[op[u].target] \in {Schema[v] : v \in Version} BY <1>1
  <2> QED BY <1>3, <2>1 DEF Content
<1>5. journal[t].state = "PREPARED" /\ journal[t].before = live
  BY <1>0, <1>1 DEF PreparingInv
<1> HIDE DEF after
<1>6. /\ k \in [Resource -> KeptType]
      /\ \A r \in Resource : k[r].old = Absent /\ k[r].failed = Absent /\ k[r].new = after[r]
  <2>1. \A r \in Resource : kept[t][r].old = Absent /\ kept[t][r].failed = Absent
    BY <1>1, <1>5 DEF SafeInv, DiskInv, FreshInv
  <2> QED BY <1>3, <1>4, <2>1 DEF KeptType
<1>7. j \in JournalType /\ j.state = "VALIDATED" /\ j.before = live /\ j.after = after
  BY <1>3, <1>4, <1>5 DEF JournalType
<1>8. write => /\ DiskType' /\ DiskInv' /\ ~Pending' /\ ledger' = ledger /\ txn' = txn
               /\ live' = live /\ used' = used /\ slot' = slot
               /\ journal'[t] = j /\ kept'[t] = k
  <2> HIDE DEF k, j
  <2>1. ASSUME write
        PROVE  /\ kept' \in [Txn -> [Resource -> KeptType]] /\ kept'[t] = k
               /\ journal' \in [Txn -> JournalType] /\ journal'[t] = j
               /\ \A q \in Txn : q # t => journal'[q] = journal[q] /\ kept'[q] = kept[q]
    BY <1>1, <1>6, <1>7, <2>1 DEF DiskType
  <2> QED BY <1>0, <1>6, <1>7, <2>1, CopiesWritten
<1>9. Attempt(u, write, Goto(u, "prepare"), Abandon(u)) BY DEF Migrate, after
<1> HIDE DEF write, k, j
<1>10. CASE write /\ Goto(u, "prepare")
  <2>1. Goes(u, "prepare") BY <1>1, <1>10, GotoGoes DEF Point
  <2>2. Migrated(u)'
    BY <1>6, <1>7, <1>8, <1>10, <2>1 DEF Goes, Migrated
  <2>3. PreparingInv(u)'
    BY <1>0, <1>1, <1>8, <1>10, <2>1, <2>2 DEF Goes, PreparingInv, Candidate
  <2>4. PointInv(u)'
    BY <1>1, <1>8, <1>10, <2>1, <2>3
       DEF Goes, PointInv, KindInv, ProgramInv, DataInv, RecoverInv,
           ForeignInv, ReportInv, Switching, Recovering
  <2> QED BY <1>1, <1>2, <1>8, <1>10, <2>1, <2>4, FaultType, Frame
<1>11. CASE Abandon(u) /\ (write \/ UNCHANGED disk)
  BY <1>1, <1>2, <1>8, <1>11, DiskKept, RefusedStep
<1> QED BY <1>9, <1>10, <1>11 DEF Attempt

LEMMA PrepareStep ==
  ASSUME SafeInv, NEW u \in Updater, Prepare(u)
  PROVE  SafeInv'
<1> DEFINE t == op[u].id
           intent == [id |-> t, state |-> "PREPARED", old |-> ledger.current,
                      new |-> op[u].target, cause |-> "none"]
           write == SaveLedger([ledger EXCEPT !.high = op[u].target, !.txn = intent])
<1>0. op[u].at = "prepare" BY DEF Prepare
<1>1. /\ Exclusive(u) /\ ~Pending /\ op[u].kind = "apply" /\ PreparingInv(u)
      /\ ProcType /\ DiskType /\ t \in Txn /\ op[u].target \in Version /\ op[u].target \in Payload
      /\ op[u].target > ledger.current /\ active = ledger.current /\ ledger.current \in Version
  BY <1>0, PreparingFacts
<1>2. UNCHANGED <<opLock, host>> /\ (Fault \/ UNCHANGED faults) BY DEF Prepare, Attempt
<1>3. Candidate(u) /\ Migrated(u) BY <1>0, <1>1 DEF PreparingInv
<1>4. ASSUME write
      PROVE  /\ DiskType' /\ DiskInv' /\ Pending' /\ txn'.id = t /\ txn'.new = op[u].target
             /\ Layout' = <<txn'.old, 0, txn'.new, 0>> /\ Stored' \in {"NONE", "VALIDATED"}
  <2>1. t \in 0 .. MaxTxn /\ t \in Nat \ {0} /\ ledger.current \in Payload
        /\ ledger.current \in Nat /\ op[u].target \in Nat
    BY <1>1, Bounds, BoundAssumption DEF Txn, Version
  <2>2. intent \in TxnType BY <1>1, <2>1 DEF TxnType, LedgerState
  <2>3. /\ ledger' \in LedgerType /\ ledger'.current = ledger.current /\ txn' = intent
        /\ txn'.id = t /\ txn'.new = op[u].target /\ txn'.old = ledger.current
        /\ txn'.state = "PREPARED"
    BY <1>1, <1>4, <2>2 DEF SaveLedger, DiskType, LedgerType, txn
  <2>4. active' = active /\ slot' = slot /\ used' = used /\ journal' = journal
        /\ live' = live /\ kept' = kept
    BY <1>4 DEF SaveLedger, program, userData
  <2>5. DiskType' BY <1>1, <2>3, <2>4 DEF DiskType
  <2>6. Pending' BY <2>3 DEF Pending, Terminal
  <2>7. LedgerInv' BY <1>1, <1>3, <2>1, <2>3, <2>4 DEF LedgerInv, Candidate
  <2>8. FreshInv' BY <2>4 DEF SafeInv, DiskInv, FreshInv
  <2>9. Layout' = <<ledger.current, 0, op[u].target, 0>>
    BY <1>1, <1>3, <2>3, <2>4 DEF Layout, dirs, Candidate
  <2>10. KnownLayout' BY <2>3, <2>9 DEF KnownLayout
  <2>11. Journaled' => journal[t].state = "VALIDATED" /\ live = journal[t].before
    BY <1>3, <2>3, <2>4 DEF Journaled, Migrated
  <2>12. Recoverable' BY <2>3, <2>4, <2>6, <2>10, <2>11 DEF Recoverable
  <2>13. Stored' \in {"NONE", "VALIDATED"} BY <1>3, <2>3, <2>4 DEF Stored, Migrated
  <2> QED BY <2>3, <2>5, <2>6, <2>7, <2>8, <2>9, <2>12, <2>13 DEF DiskInv
<1>5. Attempt(u, write, Goto(u, "save_old"), Reload(u)) BY DEF Prepare
<1> HIDE DEF write
<1>6. CASE write /\ Goto(u, "save_old")
  <2>1. Goes(u, "save_old") BY <1>1, <1>6, GotoGoes DEF Point
  <2>2. PointInv(u)'
    BY <1>1, <1>4, <1>6, <2>1
       DEF Goes, PointInv, KindInv, PreparingInv, ProgramInv, DataInv, RecoverInv,
           ForeignInv, ReportInv, Switching, Recovering
  <2> QED BY <1>1, <1>2, <1>4, <1>6, <2>1, <2>2, FaultType, Frame
<1>7. CASE Reload(u) /\ write
  BY <1>1, <1>2, <1>4, <1>7, ReloadStep
<1>8. CASE Reload(u) /\ UNCHANGED disk
  BY <1>1, <1>2, <1>8, DiskKept, ReloadStep
<1> QED BY <1>5, <1>6, <1>7, <1>8 DEF Attempt

-----------------------------------------------------------------------------
(* _rollback().                                                            *)

LEMMA PreflightStep ==
  ASSUME SafeInv, NEW u \in Updater, Preflight(u)
  PROVE  SafeInv'
<1>0. op[u].at = "preflight" BY DEF Preflight
<1>1. Exclusive(u) /\ ProcType /\ op[u].kind = "rollback"
  BY <1>0, TypeParts DEF Exclusive, SafeInv, OpInv, PointInv, KindInv
<1>2. UNCHANGED disk /\ UNCHANGED <<opLock, host, faults>> BY DEF Preflight, Decide
<1>3. CASE Abandon(u)
  BY <1>1, <1>2, <1>3, DiskKept, RefusedStep
<1>4. CASE RollbackSelected /\ Goto(u, "intent")
  <2>1. Goes(u, "intent") BY <1>1, <1>4, GotoGoes DEF Point
  <2>2. txn'.state = "COMMITTED" /\ ~Journaled'
    BY <1>2, <1>4, DiskKept DEF RollbackSelected
  <2>3. PointInv(u)'
    BY <1>1, <2>1, <2>2
       DEF Goes, PointInv, KindInv, PreparingInv, ProgramInv, DataInv, RecoverInv,
           ForeignInv, ReportInv, Switching, Recovering
  <2> QED BY <1>1, <1>2, <2>1, <2>3, DecidedStep
<1>5. CASE RollbackSelected /\ Finish(u, "failed", ledger.current)
  <2>1. ~Pending BY <1>5 DEF RollbackSelected, Pending, Terminal
  <2>2. ledger.current \in Payload BY <2>1, Installed, Bounds
  <2>3. [status |-> "failed", version |-> ledger.current] \in Report BY <2>2 DEF Report
  <2>4. Goes(u, "return")
        /\ op'[u].result = [status |-> "failed", version |-> ledger.current]
    BY <1>1, <1>5, <2>2, <2>3, FinishGoes
  <2>5. ~Pending' /\ ledger' = ledger BY <1>2, <2>1, DiskKept
  <2>6. PointInv(u)'
    BY <1>1, <2>4, <2>5
       DEF Goes, PointInv, KindInv, PreparingInv, ProgramInv, DataInv, RecoverInv,
           ForeignInv, ReportInv, Switching, Recovering
  <2> QED BY <1>1, <1>2, <2>4, <2>6, DecidedStep
<1> QED BY <1>3, <1>4, <1>5 DEF Preflight, Decide

LEMMA IntentStep ==
  ASSUME SafeInv, NEW u \in Updater, Intent(u)
  PROVE  SafeInv'
<1> DEFINE write == SaveLedger([ledger EXCEPT !.current = txn.old, !.txn.state = "ROLLBACK",
                                              !.txn.cause = "user"])
<1>0. op[u].at = "intent" BY DEF Intent
<1>1. Exclusive(u) /\ DiskType /\ op[u].kind = "rollback" /\ txn.state = "COMMITTED" /\ ~Journaled
  BY <1>0, TypeParts DEF Exclusive, SafeInv, OpInv, PointInv, KindInv, RecoverInv
<1>2. UNCHANGED <<opLock, host>> /\ (Fault \/ UNCHANGED faults) BY DEF Intent, Attempt
<1>3. /\ ~Pending /\ Layout = <<txn.new, txn.old, 0, 0>>
      /\ txn.old \in Version /\ txn.new \in Version /\ txn.old < txn.new
      /\ txn.id # 0 /\ txn.id <= used
  <2>1. ~Pending BY <1>1 DEF Pending, Terminal
  <2>2. Layout = <<txn.new, txn.old, 0, 0>>
    BY <1>1, <2>1, Installed DEF TerminalEvidence
  <2> QED BY <1>1, <2>1, <2>2 DEF SafeInv, DiskInv, LedgerInv
<1>4. ASSUME write PROVE DiskType' /\ DiskInv'
  <2>1. /\ ledger' \in LedgerType /\ ledger'.current = txn.old
        /\ txn'.id = txn.id /\ txn'.new = txn.new /\ txn'.old = txn.old
        /\ txn'.state = "ROLLBACK"
    BY <1>1, <1>3, <1>4 DEF SaveLedger, DiskType, LedgerType, LedgerState, TxnType, txn
  <2>2. active' = active /\ slot' = slot /\ used' = used /\ journal' = journal
        /\ live' = live /\ kept' = kept
    BY <1>4 DEF SaveLedger, program, userData
  <2>3. DiskType' BY <1>1, <2>1, <2>2 DEF DiskType
  <2>4. LedgerInv' BY <1>3, <2>1, <2>2 DEF LedgerInv
  <2>5. FreshInv' BY <2>2 DEF SafeInv, DiskInv, FreshInv
  <2>6. Layout' = <<txn'.new, txn'.old, 0, 0>> BY <1>3, <2>1, <2>2 DEF Layout, dirs
  <2>7. KnownLayout' BY <2>6 DEF KnownLayout
  <2>8. Pending' /\ ~Journaled' BY <1>1, <2>1, <2>2 DEF Pending, Terminal, Journaled
  <2>9. Recoverable' BY <2>7, <2>8 DEF Recoverable
  <2> QED BY <2>3, <2>4, <2>5, <2>9 DEF DiskInv
<1>5. Attempt(u, write, Reload(u), Reload(u)) BY DEF Intent
<1> HIDE DEF write
<1>6. CASE Reload(u) /\ (write \/ UNCHANGED disk)
  BY <1>1, <1>2, <1>4, <1>6, DiskKept, ReloadStep
<1> QED BY <1>5, <1>6 DEF Attempt

-----------------------------------------------------------------------------
(* _recover_locked().                                                      *)

LEMMA RecoveringFacts ==
  ASSUME SafeInv, NEW u \in Updater, op[u].at \in Recovering
  PROVE  /\ Exclusive(u) /\ ProcType /\ DiskType /\ RecoverInv(u) /\ ForeignInv(u)
         /\ LedgerInv /\ Recoverable
BY TypeParts DEF Recovering, Exclusive, SafeInv, OpInv, PointInv, DiskInv

\* What is not settled yet leaves the installation's name alone.
LEMMA StillForeign ==
  ASSUME SafeInv, NEW u \in Updater, op[u].at \in Recovering,
         op'[u].kind = op[u].kind, op'[u].id = op[u].id, op'[u].target = op[u].target,
         txn'.id = txn.id, txn'.new = txn.new, Pending' <=> Pending,
         ledger'.current = ledger.current
  PROVE  ForeignInv(u)'
BY RecoveringFacts DEF ForeignInv

\* Recovery's answer, made into the operation's report.
LEMMA DeliverStep ==
  ASSUME SafeInv, NEW u \in Updater, op[u].at \in Recovering,
         NEW s \in {"idle", "committed", "rolled_back"}, NEW v \in Payload, Deliver(u, s, v),
         DiskType', DiskInv', UNCHANGED <<opLock, host>>, Fault \/ UNCHANGED faults,
         ~Pending', ledger'.current = v,
         s = "committed" => UNCHANGED disk /\ txn.state = "COMMITTED" /\ v = txn.new
  PROVE  SafeInv'
<1>1. Exclusive(u) /\ ProcType /\ ForeignInv(u) /\ DiskType BY RecoveringFacts
<1>2. PICK t \in {"idle", "committed", "rolled_back", "failed"} :
        /\ Finish(u, t, v)
        /\ t = "committed" => s = "committed"
        /\ t = "committed" /\ op[u].kind = "apply" => v = op[u].target
        /\ op[u].kind = "rollback" => t # "committed"
  <2> DEFINE foreign == \/ op[u].kind = "apply"
                             /\ (s = "idle" \/ (s = "committed" /\ v # op[u].target))
                        \/ op[u].kind = "rollback" /\ s = "committed"
  <2>1. Finish(u, IF foreign THEN "failed" ELSE s, v) BY DEF Deliver
  <2>2. CASE foreign BY <2>1, <2>2
  <2>3. CASE ~foreign
    <3>1. Finish(u, s, v) BY <2>1, <2>3
    <3>2. op[u].kind = "rollback" => s # "committed" BY <2>3
    <3>3. s = "committed" /\ op[u].kind = "apply" => v = op[u].target BY <2>3
    <3> QED BY <3>1, <3>2, <3>3
  <2> QED BY <2>2, <2>3
<1>3. [status |-> t, version |-> v] \in Report BY DEF Report
<1>4. Goes(u, "return") /\ op'[u].result = [status |-> t, version |-> v]
  BY <1>1, <1>2, <1>3, FinishGoes
<1>5. t = "committed" /\ op[u].kind = "apply" => txn'.id = op[u].id /\ txn'.state = "COMMITTED"
  <2> SUFFICES ASSUME t = "committed", op[u].kind = "apply"
               PROVE  txn'.id = op[u].id /\ txn'.state = "COMMITTED"
    OBVIOUS
  <2>1. /\ txn' = txn /\ ledger' = ledger /\ txn.state = "COMMITTED" /\ txn.new = op[u].target
        /\ ledger.current = op[u].target
    BY <1>2, DiskKept
  <2>2. op[u].target \in Nat BY <1>1 DEF ProcType, OpType, Payload
  <2>3. ~(op[u].target > ledger.current) BY <2>1, <2>2
  <2> QED BY <1>1, <2>1, <2>3 DEF ForeignInv
<1>6. PointInv(u)'
  BY <1>2, <1>4, <1>5
     DEF Goes, PointInv, KindInv, PreparingInv, ProgramInv, DataInv, RecoverInv,
         ForeignInv, ReportInv, Switching, Recovering
<1> QED BY <1>1, <1>4, <1>6, FaultType, Frame

\* From one point of recovery to the next.
LEMMA RecoverMoves ==
  ASSUME SafeInv, NEW u \in Updater, op[u].at \in Recovering, NEW p \in Recovering, Goes(u, p),
         DiskType', DiskInv', UNCHANGED <<opLock, host>>, Fault \/ UNCHANGED faults,
         txn'.id = txn.id, txn'.new = txn.new, Pending' <=> Pending,
         ledger'.current = ledger.current, RecoverInv(u)'
  PROVE  SafeInv'
<1>1. Exclusive(u) /\ ProcType BY RecoveringFacts
<1>2. ForeignInv(u)' BY StillForeign DEF Goes
<1>3. PointInv(u)'
  BY <1>2 DEF Goes, PointInv, KindInv, PreparingInv, ProgramInv, DataInv, ReportInv,
              Switching, Recovering
<1> QED BY <1>1, <1>3, FaultType, Frame

LEMMA RecoverDataStep ==
  ASSUME SafeInv, NEW u \in Updater, RecoverData(u)
  PROVE  SafeInv'
<1>0. /\ op[u].at = "recover" /\ op[u].at \in Recovering /\ Journaled /\ txn.state # "ROLLED_BACK"
      /\ "inspect" \in Recovering /\ "data_restore" \in Recovering
      /\ "inspect" \in Point /\ "data_restore" \in Point
  BY DEF RecoverData, Recovering, Point
<1>1. Exclusive(u) /\ ProcType /\ DiskType /\ LedgerInv BY <1>0, RecoveringFacts
<1>2. UNCHANGED <<opLock, host>> /\ (Fault \/ UNCHANGED faults)
  BY DEF RecoverData, Attempt, Decide
<1>3. txn.state # "NONE" /\ txn.id \in Txn BY <1>0, <1>1, Named DEF LedgerInv, Journaled
<1> DEFINE write == SaveJournal(txn.id, [journal[txn.id] EXCEPT !.state = "RESTORED"])
<1>4. CASE txn.state = "COMMITTED" /\ Goto(u, "inspect") /\ UNCHANGED disk
  <2>1. Goes(u, "inspect") BY <1>0, <1>1, <1>4, GotoGoes
  <2>2. ~Pending BY <1>4 DEF Pending, Terminal
  <2>3. RecoverInv(u)' BY <1>3, <1>4, <2>1, <2>2, DiskKept DEF RecoverInv, Goes
  <2> QED BY <1>0, <1>2, <1>4, <2>1, <2>3, DiskKept, RecoverMoves
<1>5. CASE Stuck(u) /\ UNCHANGED disk
  BY <1>1, <1>2, <1>5, DiskKept, RefusedStep
<1>6. ASSUME Pending, live = Before, write
      PROVE  /\ DiskType' /\ DiskInv' /\ ledger' = ledger /\ txn' = txn /\ Pending'
             /\ Stored' = "RESTORED"
  BY <1>0, <1>6, JournalSaved
<1> HIDE DEF write
<1>7. CASE Pending /\ live = Before /\ write /\ Goto(u, "inspect")
  <2>1. Goes(u, "inspect") BY <1>0, <1>1, <1>7, GotoGoes
  <2>2. RecoverInv(u)' BY <1>3, <1>6, <1>7, <2>1 DEF RecoverInv, Goes
  <2> QED BY <1>0, <1>2, <1>6, <1>7, <2>1, <2>2, RecoverMoves
<1>8. CASE Pending /\ live = Before /\ write /\ Stuck(u)
  BY <1>1, <1>2, <1>6, <1>8, RefusedStep
<1>9. CASE /\ Pending /\ Stored \in {"PUBLISHING", "PUBLISHED"} /\ UNCHANGED disk
           /\ op' = [op EXCEPT ![u].at = "data_restore", ![u].next = MaxResource]
  <2>1. MaxResource \in 0 .. MaxResource + 1 /\ MaxResource \in 0 .. MaxResource
        /\ \A r \in Resource : ~(r > MaxResource)
    BY Bounds DEF Resource
  <2>2. Goes(u, "data_restore") /\ op'[u].next = MaxResource
    BY <1>0, <1>1, <1>9, <2>1, NextGoes
  <2>3. RecoverInv(u)' BY <1>0, <1>3, <1>9, <2>1, <2>2, DiskKept DEF RecoverInv, Goes
  <2> QED BY <1>0, <1>2, <1>9, <2>2, <2>3, DiskKept, RecoverMoves
<1>10. Stored \in {"PREPARED", "VALIDATED", "PUBLISHING", "PUBLISHED", "RESTORED"}
  BY <1>0, <1>1, <1>3 DEF DiskType, JournalType, Journaled, Stored
<1>11. txn.state # "COMMITTED" => Pending
  BY <1>0, <1>3 DEF Pending, Terminal
<1> QED BY <1>4, <1>5, <1>7, <1>8, <1>9, <1>10, <1>11
           DEF RecoverData, Decide, Attempt, Stored, Before, write

LEMMA RecoverProgramStep ==
  ASSUME SafeInv, NEW u \in Updater, RecoverProgram(u)
  PROVE  SafeInv'
<1>0. /\ op[u].at = "recover" /\ op[u].at \in Recovering
      /\ "inspect" \in Recovering /\ "inspect" \in Point
      /\ Journaled => txn.state = "ROLLED_BACK"
  BY DEF RecoverProgram, Recovering, Point
<1>1. Exclusive(u) /\ ProcType /\ DiskType BY <1>0, RecoveringFacts
<1>2. UNCHANGED disk /\ UNCHANGED <<opLock, host, faults>> BY DEF RecoverProgram, Decide
<1>3. CASE Stuck(u)
  BY <1>1, <1>2, <1>3, DiskKept, RefusedStep
<1>4. CASE txn.state # "NONE" /\ Goto(u, "inspect")
  <2>1. Goes(u, "inspect") BY <1>0, <1>1, <1>4, GotoGoes
  <2>2. ~(Pending /\ Journaled) BY <1>0 DEF Pending, Terminal
  <2>3. RecoverInv(u)' BY <1>2, <1>4, <2>1, <2>2, DiskKept DEF RecoverInv, Goes
  <2> QED BY <1>0, <1>2, <2>1, <2>3, DiskKept, RecoverMoves
<1>5. CASE txn.state = "NONE" /\ Deliver(u, "idle", ledger.current)
  <2>1. ~Pending BY <1>5 DEF Pending, Terminal
  <2>2. ledger.current \in Payload BY <1>1, Bounds DEF DiskType, LedgerType
  <2> QED BY <1>0, <1>2, <1>5, <2>1, <2>2, DiskKept, DeliverStep
<1> QED BY <1>3, <1>4, <1>5 DEF RecoverProgram, Decide

LEMMA InspectStep ==
  ASSUME SafeInv, NEW u \in Updater, Inspect(u)
  PROVE  SafeInv'
<1>0. /\ op[u].at = "inspect" /\ op[u].at \in Recovering
      /\ "unpublish" \in Recovering /\ "unpublish" \in Point
  BY DEF Inspect, Recovering, Point
<1>1. Exclusive(u) /\ ProcType /\ DiskType /\ RecoverInv(u) /\ LedgerInv
  BY <1>0, RecoveringFacts
<1>2. UNCHANGED <<opLock, host>> /\ (Fault \/ UNCHANGED faults)
  BY DEF Inspect, Attempt, Decide
<1>3. txn.state # "NONE" /\ txn.old \in Payload /\ txn.new \in Payload
  BY <1>0, <1>1, Named, Bounds DEF RecoverInv
<1> DEFINE c == IF txn.cause = "none" THEN "failed" ELSE txn.cause
           write == SaveLedger([ledger EXCEPT !.txn.state = "ROLLBACK", !.txn.cause = c])
<1>4. CASE txn.state = "COMMITTED" /\ UNCHANGED disk /\ Deliver(u, "committed", txn.new)
  <2>1. ~Pending /\ ledger.current = txn.new BY <1>1, <1>4 DEF Pending, Terminal, LedgerInv
  <2> QED BY <1>0, <1>2, <1>3, <1>4, <2>1, DiskKept, DeliverStep
<1>5. CASE txn.state = "ROLLED_BACK" /\ UNCHANGED disk /\ Deliver(u, "rolled_back", txn.old)
  <2>1. ~Pending /\ ledger.current = txn.old BY <1>1, <1>5 DEF Pending, Terminal, LedgerInv
  <2> QED BY <1>0, <1>2, <1>3, <1>5, <2>1, DiskKept, DeliverStep
<1>6. CASE Stuck(u) /\ UNCHANGED disk
  BY <1>1, <1>2, <1>6, DiskKept, RefusedStep
<1>7. ASSUME Pending, write
      PROVE  /\ DiskType' /\ DiskInv' /\ Pending' /\ ledger'.current = ledger.current
             /\ txn'.id = txn.id /\ txn'.new = txn.new /\ txn'.state # "NONE"
             /\ (Journaled' <=> Journaled) /\ Stored' = Stored
  <2>1. c \in {"none", "failed", "user"} BY <1>1 DEF DiskType, LedgerType, TxnType, txn
  <2>2. "ROLLBACK" \in LedgerState \ Terminal BY DEF LedgerState, Terminal
  <2>3. SaveLedger([ledger EXCEPT !.txn.state = "ROLLBACK", !.txn.cause = c]) BY <1>7
  <2> HIDE DEF c, write
  <2>4. /\ DiskType' /\ DiskInv' /\ Pending' /\ ledger'.current = ledger.current
        /\ txn' = [txn EXCEPT !.state = "ROLLBACK", !.cause = c]
        /\ UNCHANGED <<program, userData>>
    BY <1>7, <2>1, <2>2, <2>3, StateSaved
  <2>5. txn'.id = txn.id /\ txn'.new = txn.new /\ txn'.state = "ROLLBACK"
    BY <1>1, <2>4 DEF DiskType, LedgerType, TxnType, txn
  <2> QED BY <2>4, <2>5 DEF Journaled, Stored, userData
<1>8. Pending => write <=> SaveLedger([ledger EXCEPT !.txn.state = "ROLLBACK",
                              !.txn.cause = IF @ = "none" THEN "failed" ELSE @])
  BY DEF txn
<1> HIDE DEF c, write
<1>9. CASE Pending /\ write /\ Goto(u, "unpublish")
  <2>1. Goes(u, "unpublish") BY <1>0, <1>1, <1>9, GotoGoes
  <2>2. RecoverInv(u)' BY <1>0, <1>1, <1>7, <1>9, <2>1 DEF RecoverInv, Goes
  <2> QED BY <1>0, <1>2, <1>7, <1>9, <2>1, <2>2, RecoverMoves
<1>10. CASE Pending /\ write /\ Stuck(u)
  BY <1>1, <1>2, <1>7, <1>10, RefusedStep
<1> QED BY <1>4, <1>5, <1>6, <1>8, <1>9, <1>10 DEF Inspect, Decide, Attempt

\* A switch of recovery: the directories move, or nothing does.
LEMMA TakeBackStep ==
  ASSUME SafeInv, NEW u \in Updater, NEW p,
         <<op[u].at, p>> \in {<<"unpublish", "restore">>, <<"restore", "close">>},
         NEW a \in Payload, NEW d \in SlotType,
         <<a, d.old, d.new, d.failed>> \in
           {<<0, txn.old, 0, txn.new>>, <<txn.old, 0, txn.new, 0>>, <<txn.old, 0, 0, txn.new>>},
         \/ Attempt(u, ProgramWrite(a, d), Goto(u, p), Stuck(u))
         \/ Decide(u, Goto(u, p)) \/ Decide(u, Stuck(u))
  PROVE  SafeInv'
<1>0. op[u].at \in Recovering /\ p \in Recovering /\ p \in Point BY DEF Recovering, Point
<1>1. Exclusive(u) /\ ProcType /\ DiskType /\ RecoverInv(u) BY <1>0, RecoveringFacts
<1>2. /\ Pending /\ txn.state # "NONE" /\ (Journaled => Stored = "RESTORED")
      /\ op[u].at \in {"inspect", "unpublish", "restore", "close"}
  <2>1. op[u].at \in {"inspect", "unpublish", "restore", "close"} /\ op[u].at # "inspect"
    OBVIOUS
  <2> QED BY <1>1, <2>1 DEF RecoverInv
<1>3. UNCHANGED <<opLock, host>> /\ (Fault \/ UNCHANGED faults) BY DEF Attempt, Decide
<1>4. CASE (ProgramWrite(a, d) \/ UNCHANGED disk) /\ (Goto(u, p) \/ Stuck(u))
  <2>1. /\ DiskType' /\ DiskInv' /\ txn' = txn /\ ledger' = ledger /\ Pending'
        /\ (Journaled' <=> Journaled) /\ Stored' = Stored
    <3>1. CASE ProgramWrite(a, d)
      BY <1>2, <3>1, ProgramMoved DEF ProgramWrite
    <3>2. CASE UNCHANGED disk
      BY <1>2, <3>2, DiskKept
    <3> QED BY <1>4, <3>1, <3>2
  <2>2. CASE Stuck(u)
    BY <1>1, <1>3, <2>1, <2>2, RefusedStep
  <2>3. CASE Goto(u, p)
    <3>1. Goes(u, p) BY <1>0, <1>1, <2>3, GotoGoes
    <3>2. RecoverInv(u)' BY <1>2, <2>1, <3>1 DEF RecoverInv, Goes
    <3> QED BY <1>0, <1>2, <1>3, <2>1, <3>1, <3>2, RecoverMoves
  <2> QED BY <1>4, <2>2, <2>3
<1> QED BY <1>4 DEF Attempt, Decide

\* What recovery finds while it takes the program back.
LEMMA TakeBackFacts ==
  ASSUME SafeInv, NEW u \in Updater, op[u].at \in {"unpublish", "restore", "close"}
  PROVE  /\ Exclusive(u) /\ ProcType /\ DiskType /\ Pending /\ txn.state # "NONE" /\ KnownLayout
         /\ txn.id \in Txn /\ txn.id <= used
         /\ txn.old \in Version /\ txn.new \in Version /\ txn.old < txn.new
         /\ txn.old # 0 /\ txn.new # 0 /\ txn.old # txn.new
         /\ dirs \in SlotType /\ active \in Payload /\ 0 \in Payload
<1>1. op[u].at \in Recovering BY DEF Recovering
<1>2. Exclusive(u) /\ ProcType /\ DiskType /\ RecoverInv(u) /\ Recoverable
  BY <1>1, RecoveringFacts
<1>3. Pending /\ txn.state # "NONE" BY <1>2 DEF RecoverInv
<1>4. KnownLayout BY <1>2, <1>3 DEF Recoverable
<1>5. txn.id \in Txn BY <1>3, Named
<1>6. dirs \in SlotType /\ active \in Payload BY <1>2, <1>5 DEF DiskType, dirs
<1> QED BY <1>2, <1>3, <1>4, <1>5, <1>6, Named, Bounds

LEMMA UnpublishStep ==
  ASSUME SafeInv, NEW u \in Updater, Unpublish(u)
  PROVE  SafeInv'
<1>0. op[u].at = "unpublish" BY DEF Unpublish
<1>1. /\ KnownLayout /\ txn.old \in Payload /\ txn.new \in Payload
      /\ txn.old # 0 /\ txn.new # 0 /\ txn.old # txn.new
      /\ dirs \in SlotType /\ active \in Payload /\ 0 \in Payload
  BY <1>0, TakeBackFacts, Bounds
<1>2. CASE active = txn.new
  <2> DEFINE d == [dirs EXCEPT !["failed"] = active]
  <2>1. Layout = <<txn.new, txn.old, 0, 0>>
    BY <1>1, <1>2 DEF KnownLayout, Layout
  <2>2. d \in SlotType /\ d.old = txn.old /\ d.new = 0 /\ d.failed = txn.new /\ dirs.failed = 0
    BY <1>1, <1>2, <2>1 DEF Layout, SlotType
  <2>3. MoveActive("failed") <=> ProgramWrite(0, d)
    BY DEF MoveActive, ProgramWrite, dirs
  <2>4. Attempt(u, ProgramWrite(0, d), Goto(u, "restore"), Stuck(u))
    BY <1>2, <2>2, <2>3 DEF Unpublish, Switch, Attempt
  <2> HIDE DEF d
  <2> QED BY <1>0, <1>1, <2>2, <2>4, TakeBackStep
<1>3. CASE active # txn.new
  <2>1. Decide(u, Goto(u, "restore")) BY <1>3 DEF Unpublish
  <2>2. PICK d \in SlotType : d.old = 0 /\ d.new = 0 /\ d.failed = txn.new
    <3>1. [old |-> 0, new |-> 0, failed |-> txn.new] \in SlotType BY <1>1 DEF SlotType
    <3> QED BY <3>1
  <2> QED BY <1>0, <1>1, <2>1, <2>2, TakeBackStep
<1> QED BY <1>2, <1>3

LEMMA RestoreStep ==
  ASSUME SafeInv, NEW u \in Updater, Restore(u)
  PROVE  SafeInv'
<1>0. op[u].at = "restore" BY DEF Restore
<1>1. /\ KnownLayout /\ txn.old \in Payload /\ txn.new \in Payload
      /\ txn.old # 0 /\ txn.new # 0 /\ txn.old # txn.new
      /\ dirs \in SlotType /\ active \in Payload /\ 0 \in Payload
  BY <1>0, TakeBackFacts, Bounds
<1>2. CASE active = 0
  <2> DEFINE d == [dirs EXCEPT !["old"] = 0]
  <2>1. Layout \in {<<0, txn.old, txn.new, 0>>, <<0, txn.old, 0, txn.new>>}
    BY <1>1, <1>2 DEF KnownLayout, Layout
  <2>2. /\ d \in SlotType /\ d.old = 0 /\ dirs.old = txn.old
        /\ \/ d.new = txn.new /\ d.failed = 0
           \/ d.new = 0 /\ d.failed = txn.new
    BY <1>1, <1>2, <2>1 DEF Layout, SlotType
  <2>3. MoveToActive("old") <=> ProgramWrite(txn.old, d)
    BY <2>2 DEF MoveToActive, ProgramWrite, dirs
  <2>4. Attempt(u, ProgramWrite(txn.old, d), Goto(u, "close"), Stuck(u))
    BY <1>2, <2>2, <2>3 DEF Restore, Switch, Attempt
  <2> HIDE DEF d
  <2>5. <<txn.old, d.old, d.new, d.failed>> \in
          {<<txn.old, 0, txn.new, 0>>, <<txn.old, 0, 0, txn.new>>}
    BY <2>2
  <2> QED BY <1>0, <1>1, <2>2, <2>4, <2>5, TakeBackStep
<1>3. CASE active # 0
  <2>1. Decide(u, Goto(u, "close")) BY <1>3 DEF Restore
  <2>2. PICK d \in SlotType : d.old = 0 /\ d.new = 0 /\ d.failed = txn.new
    <3>1. [old |-> 0, new |-> 0, failed |-> txn.new] \in SlotType BY <1>1 DEF SlotType
    <3> QED BY <3>1
  <2> QED BY <1>0, <1>1, <2>1, <2>2, TakeBackStep
<1> QED BY <1>2, <1>3

LEMMA CloseStep ==
  ASSUME SafeInv, NEW u \in Updater, Close(u)
  PROVE  SafeInv'
<1>0. op[u].at = "close" /\ op[u].at \in Recovering BY DEF Close, Recovering
<1>1. /\ KnownLayout /\ txn.old \in Payload /\ txn.new \in Payload /\ Pending
      /\ txn.old \in Version /\ txn.new \in Version /\ txn.old < txn.new /\ txn.state # "NONE"
      /\ txn.old # 0 /\ txn.new # 0 /\ txn.old # txn.new
      /\ DiskType /\ Exclusive(u) /\ LedgerInv
  BY <1>0, TakeBackFacts, RecoveringFacts, Bounds
<1>2. UNCHANGED <<opLock, host>> /\ (Fault \/ UNCHANGED faults) BY DEF Close, Attempt, Decide
<1>3. ASSUME active = txn.old, SaveState("ROLLED_BACK")
      PROVE  DiskType' /\ DiskInv' /\ ~Pending' /\ ledger'.current = txn.old
  <2>1. /\ ledger' \in LedgerType /\ ledger'.current = ledger.current
        /\ txn'.id = txn.id /\ txn'.new = txn.new /\ txn'.old = txn.old
        /\ txn'.state = "ROLLED_BACK"
    BY <1>1, <1>3 DEF SaveState, SaveLedger, DiskType, LedgerType, LedgerState, TxnType, txn
  <2>2. active' = active /\ slot' = slot /\ used' = used /\ journal' = journal
        /\ live' = live /\ kept' = kept
    BY <1>3 DEF SaveState, SaveLedger, program, userData
  <2>3. DiskType' BY <1>1, <2>1, <2>2 DEF DiskType
  <2>4. ~Pending' BY <2>1 DEF Pending, Terminal
  <2>5. ledger.current = txn.old BY <1>1 DEF LedgerInv, Pending, Terminal
  <2>6. LedgerInv' BY <1>1, <2>1, <2>2, <2>5 DEF LedgerInv
  <2>7. FreshInv' BY <2>2 DEF SafeInv, DiskInv, FreshInv
  <2>8. KnownLayout' BY <1>1, <2>1, <2>2 DEF KnownLayout, Layout, dirs
  <2>9. TerminalEvidence' BY <1>3, <2>1, <2>2, <2>8 DEF TerminalEvidence
  <2> QED BY <2>1, <2>3, <2>4, <2>5, <2>6, <2>7, <2>9 DEF DiskInv, Recoverable
<1>4. CASE Stuck(u) /\ UNCHANGED disk
  BY <1>1, <1>2, <1>4, DiskKept, RefusedStep
<1>5. CASE active = txn.old /\ SaveState("ROLLED_BACK") /\ Stuck(u)
  BY <1>1, <1>2, <1>3, <1>5, RefusedStep
<1>6. CASE active = txn.old /\ SaveState("ROLLED_BACK") /\ Deliver(u, "rolled_back", txn.old)
  BY <1>0, <1>1, <1>2, <1>3, <1>6, DeliverStep
<1> QED BY <1>4, <1>5, <1>6 DEF Close, Decide, Attempt

-----------------------------------------------------------------------------
(* DataUpgrade.recover(): the data, last resource first.                   *)

LEMMA RestoringFacts ==
  ASSUME SafeInv, NEW u \in Updater, op[u].at = "data_restore"
  PROVE  /\ op[u].at \in Recovering /\ Exclusive(u) /\ ProcType /\ DiskType
         /\ Pending /\ Journaled /\ Stored \in {"PUBLISHING", "PUBLISHED"} /\ txn.state # "NONE"
         /\ op[u].next \in 0 .. MaxResource /\ MaxResource \in Nat
         /\ \A r \in Resource : r > op[u].next => live[r] = Before[r]
         /\ \A r \in Resource : Known(r)
         /\ txn.id \in Txn /\ Before \in [Resource -> Content] /\ After \in [Resource -> Content]
         /\ kept[txn.id] \in [Resource -> KeptType] /\ Absent \in Content
<1>1. op[u].at \in Recovering BY DEF Recovering
<1>2. Exclusive(u) /\ ProcType /\ DiskType /\ RecoverInv(u) /\ Recoverable
  BY <1>1, RecoveringFacts
<1>3. /\ Pending /\ Journaled /\ Stored \in {"PUBLISHING", "PUBLISHED"}
      /\ op[u].next \in 0 .. MaxResource
      /\ \A r \in Resource : r > op[u].next => live[r] = Before[r]
  BY <1>2 DEF RecoverInv
<1>4. \A r \in Resource : Known(r) BY <1>2, <1>3, KnownIs DEF Recoverable, Stored
<1>5. txn.state # "NONE" BY <1>3 DEF Pending, Terminal
<1>6. txn.id \in Txn BY <1>5, Named
<1>7. /\ Before \in [Resource -> Content] /\ After \in [Resource -> Content]
      /\ kept[txn.id] \in [Resource -> KeptType]
  BY <1>2, <1>6 DEF DiskType, JournalType, Before, After
<1> QED BY <1>1, <1>2, <1>3, <1>4, <1>5, <1>6, <1>7, Bounds

\* One resource is moved back, or found where it belongs, or given up.
LEMMA RestoredStep ==
  ASSUME SafeInv, NEW u \in Updater, op[u].at = "data_restore",
         NEW r \in Resource, r = op[u].next, NEW c \in Content, NEW k \in KeptType,
         <<c, k.old, k.new, k.failed>> \in
           {<<Before[r], Absent, After[r], Absent>>, <<Absent, Before[r], After[r], Absent>>,
            <<After[r], Before[r], Absent, Absent>>, <<Absent, Before[r], Absent, After[r]>>,
            <<Before[r], Absent, Absent, After[r]>>},
         DataWrite(r, c, k) \/ UNCHANGED disk,
         UNCHANGED <<opLock, host>>, Fault \/ UNCHANGED faults,
         Stuck(u) \/ UNCHANGED op \/ (PreviousResource(u) /\ live'[r] = Before[r])
  PROVE  SafeInv'
<1>1. /\ op[u].at \in Recovering /\ Exclusive(u) /\ ProcType /\ DiskType
      /\ Pending /\ Journaled /\ Stored \in {"PUBLISHING", "PUBLISHED"} /\ txn.state # "NONE"
      /\ MaxResource \in Nat /\ r \in 0 .. MaxResource /\ r \in 1 .. MaxResource
      /\ \A q \in Resource : q > r => live[q] = Before[q]
  BY RestoringFacts DEF Resource
<1>2. /\ DiskType' /\ DiskInv' /\ ledger' = ledger /\ txn' = txn /\ Pending' /\ Journaled'
      /\ Stored' = Stored /\ Before' = Before
      /\ \A q \in Resource : q # r => live'[q] = live[q]
  <2>1. CASE DataWrite(r, c, k)
    BY <1>1, <2>1, DataMoved
  <2>2. CASE UNCHANGED disk
    BY <1>1, <2>2, DiskKept
  <2> QED BY <2>1, <2>2
<1>3. CASE Stuck(u)
  BY <1>1, <1>2, <1>3, RefusedStep
<1>4. ASSUME NEW n \in 0 .. MaxResource, Goes(u, "data_restore"), op'[u].next = n,
             n = r \/ (n = r - 1 /\ live'[r] = Before[r])
      PROVE  SafeInv'
  <2>1. \A q \in Resource : q > n => q # r \/ live'[q] = Before[q]
    BY <1>1, <1>4 DEF Resource
  <2>2. \A q \in Resource : q > n /\ q # r => q > r
    BY <1>1, <1>4 DEF Resource
  <2>3. \A q \in Resource : q > n => live'[q] = Before'[q]
    BY <1>1, <1>2, <2>1, <2>2
  <2>4. RecoverInv(u)'
    BY <1>1, <1>2, <1>4, <2>3 DEF RecoverInv, Goes
  <2>5. "data_restore" \in Recovering BY DEF Recovering
  <2> QED BY <1>1, <1>2, <1>4, <2>4, <2>5, RecoverMoves
<1>5. CASE UNCHANGED op
  <2>1. Goes(u, "data_restore") BY <1>1, <1>5 DEF Goes, ProcType
  <2> QED BY <1>1, <1>4, <1>5, <2>1
<1>6. CASE PreviousResource(u) /\ live'[r] = Before[r]
  <2>1. r - 1 \in 0 .. MaxResource /\ r - 1 \in 0 .. MaxResource + 1 BY <1>1
  <2>2. op' = [op EXCEPT ![u].next = r - 1] BY <1>6 DEF PreviousResource
  <2>3. Goes(u, "data_restore") /\ op'[u].next = r - 1
    BY <1>1, <2>1, <2>2 DEF Goes, ProcType, OpType
  <2> QED BY <1>4, <1>6, <2>1, <2>3
<1> QED BY <1>3, <1>5, <1>6

LEMMA RestoreResourceStep ==
  ASSUME SafeInv, NEW u \in Updater, RestoreResource(u)
  PROVE  SafeInv'
<1>0. PICK r \in Resource : r = op[u].next BY DEF RestoreResource
<1>1. op[u].at = "data_restore" BY DEF RestoreResource
<1>2. /\ DiskType /\ Known(r) /\ Before[r] \in Content /\ After[r] \in Content
      /\ Absent \in Content /\ kept[txn.id][r] \in KeptType /\ live[r] \in Content
  BY <1>1, RestoringFacts DEF DiskType
<1>3. UNCHANGED <<opLock, host>> /\ (Fault \/ UNCHANGED faults)
  BY DEF RestoreResource, Attempt, Decide
<1>4. PICK k \in KeptType : k = kept[txn.id][r] BY <1>2
<1>5. <<live[r], k.old, k.new, k.failed>> \in
        {<<Before[r], Absent, After[r], Absent>>, <<Absent, Before[r], After[r], Absent>>,
         <<After[r], Before[r], Absent, Absent>>, <<Absent, Before[r], Absent, After[r]>>,
         <<Before[r], Absent, Absent, After[r]>>}
  BY <1>2, <1>4 DEF Known, Places
<1> DEFINE published == /\ live[r] = After[r] /\ live[r] # Absent
                        /\ k.new = Absent /\ k.failed = Absent
           put == [k EXCEPT !["failed"] = live[r]]
           got == [k EXCEPT !["old"] = Absent]
<1>6. /\ put \in KeptType /\ put.old = k.old /\ put.new = k.new /\ put.failed = live[r]
      /\ got \in KeptType /\ got.old = Absent /\ got.new = k.new /\ got.failed = k.failed
  BY <1>2, <1>4 DEF KeptType
<1>7. /\ MoveLive(txn.id, r, "failed") <=> DataWrite(r, Absent, put)
      /\ MoveToLive(txn.id, r, "old") <=> DataWrite(r, k.old, got)
  BY <1>4 DEF MoveLive, MoveToLive, DataWrite
<1>8. CASE Decide(u, Stuck(u)) \/ (live[r] = Before[r] /\ Decide(u, PreviousResource(u)))
  <2>1. live' = live /\ UNCHANGED disk BY <1>8 DEF Decide, disk
  <2>2. Stuck(u) \/ (PreviousResource(u) /\ live'[r] = Before[r]) BY <1>8, <2>1 DEF Decide
  <2> QED BY <1>0, <1>1, <1>2, <1>3, <1>5, <2>1, <2>2, RestoredStep
<1>9. CASE /\ k.old = Before[r] /\ published
           /\ \/ Attempt(u, MoveLive(txn.id, r, "failed"), UNCHANGED op, Stuck(u))
              \/ /\ Before[r] = Absent
                 /\ Attempt(u, MoveLive(txn.id, r, "failed"), PreviousResource(u), Stuck(u))
  <2>1. <<Absent, put.old, put.new, put.failed>> = <<Absent, Before[r], Absent, After[r]>>
    BY <1>6, <1>9
  <2>2. DataWrite(r, Absent, put) \/ UNCHANGED disk BY <1>7, <1>9 DEF Attempt
  <2>3. DataWrite(r, Absent, put) => live'[r] = Absent BY <1>2 DEF DataWrite, DiskType
  <2>4. Stuck(u) \/ UNCHANGED op \/ (PreviousResource(u) /\ live'[r] = Before[r])
    BY <1>7, <1>9, <2>3 DEF Attempt
  <2> HIDE DEF put
  <2> QED BY <1>0, <1>1, <1>2, <1>3, <1>6, <2>1, <2>2, <2>4, RestoredStep
<1>10. CASE /\ k.old = Before[r] /\ Before[r] # Absent /\ live[r] = Absent
            /\ Attempt(u, MoveToLive(txn.id, r, "old"), PreviousResource(u), Stuck(u))
  <2>1. \/ k.new = After[r] /\ k.failed = Absent
        \/ k.new = Absent /\ k.failed = After[r]
    BY <1>5, <1>10
  <2>2. <<k.old, got.old, got.new, got.failed>> \in
          {<<Before[r], Absent, After[r], Absent>>, <<Before[r], Absent, Absent, After[r]>>}
    BY <1>6, <1>10, <2>1
  <2>3. DataWrite(r, k.old, got) \/ UNCHANGED disk BY <1>7, <1>10 DEF Attempt
  <2>4. DataWrite(r, k.old, got) => live'[r] = Before[r] BY <1>2, <1>10 DEF DataWrite, DiskType
  <2>5. Stuck(u) \/ (PreviousResource(u) /\ live'[r] = Before[r])
    BY <1>7, <1>10, <2>4 DEF Attempt
  <2>6. k.old \in Content BY <1>2, <1>10
  <2> HIDE DEF got
  <2> QED BY <1>0, <1>1, <1>3, <1>6, <2>2, <2>3, <2>5, <2>6, RestoredStep
<1> QED BY <1>0, <1>2, <1>4, <1>8, <1>9, <1>10, KnownIs DEF RestoreResource, Before, After

LEMMA DataRestoredStep ==
  ASSUME SafeInv, NEW u \in Updater, DataRestored(u)
  PROVE  SafeInv'
<1>0. op[u].at = "data_restore" /\ op[u].next = 0 BY DEF DataRestored
<1>1. /\ op[u].at \in Recovering /\ Exclusive(u) /\ ProcType /\ DiskType
      /\ Pending /\ Journaled /\ txn.state # "NONE" /\ Before \in [Resource -> Content]
      /\ "inspect" \in Recovering /\ "inspect" \in Point
  BY <1>0, RestoringFacts DEF Recovering, Point
<1>2. UNCHANGED <<opLock, host>> /\ (Fault \/ UNCHANGED faults) BY DEF DataRestored, Attempt
<1>3. live = Before
  <2>1. \A r \in Resource : live[r] = Before[r] BY <1>0, RestoringFacts DEF Resource
  <2> QED BY <1>1, <2>1 DEF DiskType
<1> DEFINE write == SaveJournal(txn.id, [journal[txn.id] EXCEPT !.state = "RESTORED"])
<1>4. Attempt(u, write, Goto(u, "inspect"), Stuck(u)) BY DEF DataRestored
<1>5. ASSUME write
      PROVE  /\ DiskType' /\ DiskInv' /\ ledger' = ledger /\ txn' = txn /\ Pending'
             /\ Stored' = "RESTORED"
  BY <1>1, <1>3, <1>5, JournalSaved
<1> HIDE DEF write
<1>6. CASE write /\ Goto(u, "inspect")
  <2>1. Goes(u, "inspect") BY <1>1, <1>6, GotoGoes
  <2>2. RecoverInv(u)' BY <1>1, <1>5, <1>6, <2>1 DEF RecoverInv, Goes
  <2> QED BY <1>1, <1>2, <1>5, <1>6, <2>1, <2>2, RecoverMoves
<1>7. CASE Stuck(u) /\ write
  BY <1>1, <1>2, <1>5, <1>7, RefusedStep
<1>8. CASE Stuck(u) /\ UNCHANGED disk
  BY <1>1, <1>2, <1>8, DiskKept, RefusedStep
<1> QED BY <1>4, <1>6, <1>7, <1>8 DEF Attempt

-----------------------------------------------------------------------------
(* The locks.                                                              *)

\* operation.lock is released: by a report, a refused lock or a kill.
LEMMA Released ==
  ASSUME SafeInv, NEW u \in Updater, op[u].at # "idle",
         op' = [op EXCEPT ![u] = IdleOp], opLock' = "free", UNCHANGED <<disk, host>>,
         faults' \in 0 .. MaxFaults
  PROVE  SafeInv'
<1>1. DiskType' /\ DiskInv' /\ (Pending' <=> Pending) /\ active' = active /\ ledger' = ledger
  BY DiskKept DEF disk
<1>2. ProcType BY TypeParts DEF SafeInv
<1>3. IdleOp \in OpType
  BY Bounds DEF IdleOp, OpType, Point, Kind, NoResult, Report
<1>4. ProcType' BY <1>2, <1>3 DEF ProcType
<1>5. \A v \in Updater : op'[v].at = "idle"
  <2>1. op'[u].at = "idle" BY <1>2 DEF ProcType, IdleOp
  <2>2. \A v \in Updater : v # u => op'[v] = op[v] /\ op[v].at = "idle"
    BY <1>2, OthersIdle DEF ProcType, SafeInv
  <2> QED BY <2>1, <2>2
<1>6. OneOwner' /\ NoReader' BY <1>5 DEF OneOwner, NoReader, Exclusive
<1>7. OpInv' BY <1>5, IdlePoint DEF OpInv
<1>8. HostInv' BY <1>1 DEF SafeInv, HostInv
<1> QED BY <1>1, <1>4, <1>6, <1>7, <1>8, TypeParts DEF SafeInv

LEMMA ReleaseSteps ==
  ASSUME SafeInv, NEW u \in Updater, Busy(u) \/ Return(u) \/ Crash(u)
  PROVE  SafeInv'
<1>1. ProcType BY TypeParts DEF SafeInv
<1>2. op[u].at # "idle" /\ op' = [op EXCEPT ![u] = IdleOp] /\ opLock' = "free"
      /\ UNCHANGED <<disk, host>> /\ (Fault \/ UNCHANGED faults)
  BY DEF Busy, Return, Crash
<1> QED BY <1>1, <1>2, FaultType, Released

LEMMA StartStep ==
  ASSUME SafeInv, NEW u \in Updater, NEW kind \in {"apply", "rollback", "recover"}, Start(u, kind)
  PROVE  SafeInv'
<1> DEFINE start == [IdleOp EXCEPT !.at = "lock", !.kind = kind]
<1>1. ProcType BY TypeParts DEF SafeInv
<1>2. /\ op' = [op EXCEPT ![u] = start] /\ opLock' = u /\ opLock = "free"
      /\ UNCHANGED disk /\ UNCHANGED <<host, faults>>
  BY DEF Start
<1>3. start \in OpType /\ start.at = "lock" /\ start.kind # "none"
  <2>1. "lock" \in Point /\ kind \in Kind /\ kind # "none" BY DEF Point, Kind
  <2>2. IdleOp \in OpType BY Bounds DEF IdleOp, OpType, Point, Kind, NoResult, Report
  <2> QED BY <2>1, <2>2 DEF OpType
<1> HIDE DEF start
<1>4. DiskType' /\ DiskInv' /\ (Pending' <=> Pending) /\ active' = active /\ ledger' = ledger
  BY <1>2, DiskKept DEF disk
<1>5. ProcType' BY <1>1, <1>2, <1>3 DEF ProcType
<1>6. \A v \in Updater : op[v].at = "idle"
  BY <1>2, ProcessAssumption DEF SafeInv, OneOwner
<1>7. op'[u] = start /\ \A v \in Updater : v # u => op'[v].at = "idle"
  BY <1>1, <1>2, <1>6 DEF ProcType
<1>8. OneOwner' BY <1>2, <1>7 DEF OneOwner
<1>9. NoReader' BY <1>3, <1>7 DEF NoReader, Exclusive
<1>10. OpInv' BY <1>3, <1>7, IdlePoint DEF OpInv
<1>11. HostInv' BY <1>2, <1>4 DEF SafeInv, HostInv
<1> QED BY <1>4, <1>5, <1>8, <1>9, <1>10, <1>11, TypeParts DEF SafeInv

LEMMA LockRuntimeStep ==
  ASSUME SafeInv, NEW u \in Updater, LockRuntime(u)
  PROVE  SafeInv'
<1>1. ProcType BY TypeParts DEF SafeInv
<1>2. /\ op[u].at = "lock" /\ Reading = {} /\ op[u].kind # "none"
      /\ UNCHANGED disk /\ UNCHANGED <<opLock, host, faults>>
  BY DEF LockRuntime, Decide, SafeInv, OpInv, PointInv, KindInv
<1>3. op[u].kind \in {"apply", "rollback", "recover"} BY <1>1, <1>2 DEF ProcType, OpType, Kind
<1>4. PICK p \in {"select", "preflight", "recover"} :
        /\ Goto(u, p)
        /\ p = "select" => op[u].kind = "apply"
        /\ p = "preflight" => op[u].kind = "rollback"
        /\ p = "recover" => op[u].kind = "recover"
  BY <1>3 DEF LockRuntime, Decide
<1>5. Goes(u, p) BY <1>1, <1>4, GotoGoes DEF Point
<1>6. DiskType' /\ DiskInv' /\ (Pending' <=> Pending) /\ active' = active /\ ledger' = ledger
  BY <1>2, DiskKept DEF disk
<1>7. ProcType' BY <1>1, <1>2, <1>5 DEF ProcType, Goes
<1>8. \A v \in Updater : v # u => op'[v].at = "idle"
  BY <1>2, <1>5, OthersIdle DEF Goes, SafeInv
<1>9. OneOwner' BY <1>2, <1>5, <1>8 DEF OneOwner, SafeInv
<1>10. NoReader' BY <1>2 DEF NoReader, Reading
<1>11. PointInv(u)'
  BY <1>4, <1>5 DEF Goes, PointInv, KindInv, PreparingInv, ProgramInv, DataInv, RecoverInv,
                    ForeignInv, ReportInv, Switching, Recovering
<1>12. OpInv' BY <1>8, <1>11, IdlePoint DEF OpInv
<1>13. HostInv' BY <1>2, <1>6 DEF SafeInv, HostInv
<1> QED BY <1>6, <1>7, <1>9, <1>10, <1>12, <1>13, TypeParts DEF SafeInv

-----------------------------------------------------------------------------
(* The hosts.                                                              *)

\* What an operation knows does not depend on the hosts.
LEMMA PointsKept ==
  ASSUME SafeInv, UNCHANGED <<disk, op>>
  PROVE  OpInv'
<1>1. /\ ledger' = ledger /\ active' = active /\ slot' = slot /\ used' = used
      /\ journal' = journal /\ live' = live /\ kept' = kept /\ op' = op
  BY DEF disk
<1>2. /\ txn' = txn /\ Layout' = Layout /\ (Pending' <=> Pending)
      /\ (Journaled' <=> Journaled) /\ Stored' = Stored
      /\ Before' = Before /\ After' = After /\ \A r \in Resource : Places(r)' = Places(r)
  BY DiskKept
<1>3. ASSUME NEW u \in Updater PROVE PointInv(u)'
  <2>1. PointInv(u) BY DEF SafeInv, OpInv
  <2>2. KindInv(u)' BY <1>1, <2>1 DEF PointInv, KindInv
  <2>3. PreparingInv(u)'
    BY <1>1, <1>2, <2>1 DEF PointInv, PreparingInv, Candidate, Migrated
  <2>4. ProgramInv(u)' BY <1>1, <1>2, <2>1 DEF PointInv, ProgramInv
  <2>5. DataInv(u)'
    BY <1>1, <1>2, <2>1 DEF PointInv, DataInv, Moved, Unmoved, Taken
  <2>6. RecoverInv(u)' BY <1>1, <1>2, <2>1 DEF PointInv, RecoverInv
  <2>7. ForeignInv(u)' BY <1>1, <1>2, <2>1 DEF PointInv, ForeignInv
  <2>8. ReportInv(u)' BY <1>1, <1>2, <2>1 DEF PointInv, ReportInv
  <2> QED BY <2>2, <2>3, <2>4, <2>5, <2>6, <2>7, <2>8 DEF PointInv
<1> QED BY <1>3 DEF OpInv

\* A host that does not write.
LEMMA HostMoves ==
  ASSUME SafeInv, NEW h \in Host, NEW p \in {"out", "launching", "shared", "in"},
         host' = [host EXCEPT ![h] = p], UNCHANGED <<disk, op, opLock, faults>>,
         p = "in" => host[h] = "shared" /\ ~Pending /\ active = ledger.current,
         p = "shared" => ~\E u \in Updater : Exclusive(u)
  PROVE  SafeInv'
<1>1. ProcType /\ HostInv BY TypeParts DEF SafeInv
<1>2. DiskType' /\ DiskInv' /\ (Pending' <=> Pending) /\ active' = active /\ ledger' = ledger
  BY DiskKept DEF disk
<1>3. OpInv' BY PointsKept
<1>4. ProcType' BY <1>1 DEF ProcType
<1>5. host'[h] = p /\ \A g \in Host : g # h => host'[g] = host[g] BY <1>1 DEF ProcType
<1>6. HostInv' BY <1>1, <1>2, <1>5 DEF HostInv
<1>7. OneOwner' BY DEF SafeInv, OneOwner
<1>8. NoReader'
  <2>1. p # "shared" => Reading' \subseteq Reading BY <1>5 DEF Reading
  <2>2. \A u \in Updater : Exclusive(u)' => Exclusive(u) BY DEF Exclusive
  <2> QED BY <2>1, <2>2 DEF NoReader, SafeInv
<1> QED BY <1>2, <1>3, <1>4, <1>6, <1>7, <1>8, TypeParts DEF SafeInv

LEMMA LeaseSteps ==
  ASSUME SafeInv, NEW h \in Host, Launch(h) \/ Lease(h) \/ HostExit(h)
  PROVE  SafeInv'
<1>1. CASE Launch(h) BY <1>1, HostMoves DEF Launch
<1>2. CASE LeaseLock(h) BY <1>2, HostMoves DEF LeaseLock
<1>3. CASE LeaseAdmit(h) BY <1>3, HostMoves DEF LeaseAdmit, Admissible
<1>4. CASE LeaseRefused(h) BY <1>4, HostMoves DEF LeaseRefused
<1>5. CASE HostExit(h) BY <1>5, HostMoves DEF HostExit
<1> QED BY <1>1, <1>2, <1>3, <1>4, <1>5 DEF Lease

\* A running host keeps every operation out, and its writes are the data's.
LEMMA HostWriteStep ==
  ASSUME SafeInv, NEW h \in Host, NEW r \in Resource, HostWrite(h, r)
  PROVE  SafeInv'
<1>1. /\ host[h] = "in" /\ live[r].work < MaxWork
      /\ UNCHANGED <<ledger, journal, kept, op, opLock, host, faults>>
      /\ active' = active /\ slot' = slot /\ used' = used
  BY DEF HostWrite, program
<1>2. DiskType /\ ProcType BY TypeParts DEF SafeInv
<1>3. ~Pending /\ active = ledger.current BY <1>1 DEF SafeInv, HostInv
<1>4. live' \in [Resource -> Content]
  <2> DEFINE g == IF live[r].gen = 0 THEN Schema[active] ELSE live[r].gen
  <2>1. live[r] \in Content BY <1>2 DEF DiskType
  <2>2. active \in Version BY <1>2, <1>3 DEF DiskType, LedgerType
  <2>3. g \in {0} \union {Schema[v] : v \in Version} BY <2>1, <2>2 DEF Content
  <2>4. live[r].work + 1 \in 0 .. MaxWork BY <1>1, <2>1, Bounds DEF Content
  <2>5. [gen |-> g, work |-> live[r].work + 1] \in Content BY <2>3, <2>4 DEF Content
  <2>6. live' = [live EXCEPT ![r] = [gen |-> g, work |-> live[r].work + 1]]
    BY DEF HostWrite
  <2> HIDE DEF g
  <2> QED BY <1>2, <2>5, <2>6 DEF DiskType
<1>5. DiskType' BY <1>1, <1>2, <1>4 DEF DiskType
<1>6. ProcType' BY <1>1, <1>2 DEF ProcType
<1>7. txn' = txn /\ ~Pending' /\ Layout' = Layout /\ (Journaled' <=> Journaled)
  BY <1>1, <1>3 DEF txn, Pending, Layout, dirs, Journaled
<1>8. LedgerInv' /\ FreshInv' BY <1>1, <1>7 DEF SafeInv, DiskInv, LedgerInv, FreshInv
<1>9. Recoverable'
  <2>1. TerminalEvidence BY <1>3 DEF SafeInv, DiskInv, Recoverable
  <2>2. CommittedData' <=> CommittedData BY <1>1, <1>7 DEF CommittedData
  <2>3. KnownLayout' <=> KnownLayout BY <1>7 DEF KnownLayout
  <2>4. TerminalEvidence' BY <1>1, <1>7, <2>1, <2>2, <2>3 DEF TerminalEvidence
  <2> QED BY <1>7, <2>4 DEF Recoverable
<1>10. Reading # {} /\ Reading' = Reading BY <1>1 DEF Reading
<1>11. \A u \in Updater : op[u].at \in {"idle", "lock"}
  BY <1>10 DEF SafeInv, NoReader, Exclusive
<1>12. \A u \in Updater : op[u].at = "lock" => op[u].kind # "none"
  BY DEF SafeInv, OpInv, PointInv, KindInv
<1>13. OpInv' BY <1>1, <1>11, <1>12, IdlePoint DEF OpInv
<1>14. OneOwner' BY <1>1 DEF SafeInv, OneOwner
<1>15. NoReader' BY <1>1, <1>11 DEF NoReader, Exclusive
<1>16. HostInv' BY <1>1, <1>7 DEF SafeInv, HostInv
<1> QED BY <1>5, <1>6, <1>8, <1>9, <1>13, <1>14, <1>15, <1>16, TypeParts DEF SafeInv, DiskInv

-----------------------------------------------------------------------------
(* The invariant holds first and is kept by every step.                    *)

LEMMA InitSafe == Init => SafeInv
<1> SUFFICES ASSUME Init PROVE SafeInv
  OBVIOUS
<1>1. 1 \in Version /\ 1 \in Payload /\ 0 \in Payload /\ Absent \in Content
  BY BoundAssumption DEF Version, Payload, Absent, Content
<1>2. live \in [Resource -> Content]
  <2>1. [gen |-> Schema[1], work |-> 0] \in Content BY <1>1, Bounds DEF Content
  <2> QED BY <1>1, <2>1 DEF Init
<1>3. NoJournal \in JournalType /\ NoJournal.state = "NONE" BY <1>1 DEF NoJournal, JournalType
<1>4. EmptyKept \in [Resource -> KeptType]
      /\ \A r \in Resource : EmptyKept[r].old = Absent /\ EmptyKept[r].failed = Absent
  BY <1>1 DEF EmptyKept, KeptType
<1>5. EmptySlots \in SlotType BY <1>1 DEF EmptySlots, SlotType
<1>6. ledger \in LedgerType
  <2>1. NoTxn \in TxnType BY <1>1, Bounds DEF NoTxn, TxnType, LedgerState
  <2> QED BY <1>1, <2>1 DEF Init, LedgerType
<1>7. IdleOp \in OpType /\ IdleOp.at = "idle"
  BY Bounds DEF IdleOp, OpType, Point, Kind, NoResult, Report
<1>8. DiskType
  BY <1>1, <1>2, <1>3, <1>4, <1>5, <1>6, Bounds DEF Init, DiskType
<1>9. ProcType BY <1>7, Bounds DEF Init, ProcType
<1>10. txn = NoTxn /\ txn.state = "NONE" /\ txn.id = 0 /\ used = 0 BY DEF Init, txn, NoTxn
<1>11. LedgerInv BY <1>10 DEF LedgerInv
<1>12. FreshInv BY <1>3, <1>4 DEF Init, FreshInv
<1>13. ~Pending BY <1>10 DEF Pending, Terminal
<1>14. TerminalEvidence BY <1>10 DEF Init, TerminalEvidence
<1>15. Recoverable BY <1>13, <1>14 DEF Recoverable
<1>16. \A u \in Updater : op[u].at = "idle" BY <1>7 DEF Init
<1>17. OneOwner /\ NoReader BY <1>16 DEF OneOwner, NoReader, Exclusive
<1>18. HostInv BY DEF Init, HostInv
<1>19. OpInv
  BY <1>16 DEF OpInv, PointInv, KindInv, PreparingInv, ProgramInv, DataInv, RecoverInv,
               ForeignInv, ReportInv, Switching, Recovering
<1> QED BY <1>8, <1>9, <1>11, <1>12, <1>15, <1>17, <1>18, <1>19, TypeParts DEF SafeInv, DiskInv

LEMMA ApplySteps ==
  ASSUME SafeInv, NEW u \in Updater, ApplyStep(u)
  PROVE  SafeInv'
<1>1. CASE \E v \in Version : Select(u, v) BY <1>1, SelectStep
<1>2. CASE Stage(u) BY <1>2, StageStep
<1>3. CASE Shadow(u) BY <1>3, ShadowStep
<1>4. CASE \E R \in SUBSET Resource : Migrate(u, R) BY <1>4, MigrateStep
<1>5. CASE Prepare(u) BY <1>5, PrepareStep
<1>6. CASE SaveOld(u) \/ PublishNew(u) \/ CheckNew(u)
  <2>1. /\ "SAVE_OLD" \in LedgerState \ Terminal /\ "PUBLISH_NEW" \in LedgerState \ Terminal
        /\ "CHECK_NEW" \in LedgerState \ Terminal
    BY DEF LedgerState, Terminal
  <2>2. CASE SaveOld(u) BY <2>1, <2>2, IntentSaved DEF SaveOld
  <2>3. CASE PublishNew(u) BY <2>1, <2>3, IntentSaved DEF PublishNew
  <2>4. CASE CheckNew(u) BY <2>1, <2>4, IntentSaved DEF CheckNew
  <2> QED BY <1>6, <2>2, <2>3, <2>4
<1>7. CASE MoveOld(u) BY <1>7, MoveOldStep
<1>8. CASE MoveNew(u) BY <1>8, MoveNewStep
<1>9. CASE Health(u) BY <1>9, HealthStep
<1>10. CASE PublishData(u) BY <1>10, PublishDataStep
<1>11. CASE DataOld(u) BY <1>11, DataOldStep
<1>12. CASE DataNew(u) BY <1>12, DataNewStep
<1>13. CASE DataPublished(u) BY <1>13, DataPublishedStep
<1>14. CASE Commit(u) BY <1>14, CommitStep
<1> QED BY <1>1, <1>2, <1>3, <1>4, <1>5, <1>6, <1>7, <1>8, <1>9, <1>10, <1>11, <1>12, <1>13,
           <1>14 DEF ApplyStep

LEMMA RecoverSteps ==
  ASSUME SafeInv, NEW u \in Updater, RecoverStep(u)
  PROVE  SafeInv'
<1>1. CASE RecoverData(u) BY <1>1, RecoverDataStep
<1>2. CASE RecoverProgram(u) BY <1>2, RecoverProgramStep
<1>3. CASE RestoreResource(u) BY <1>3, RestoreResourceStep
<1>4. CASE DataRestored(u) BY <1>4, DataRestoredStep
<1>5. CASE Inspect(u) BY <1>5, InspectStep
<1>6. CASE Unpublish(u) BY <1>6, UnpublishStep
<1>7. CASE Restore(u) BY <1>7, RestoreStep
<1>8. CASE Close(u) BY <1>8, CloseStep
<1> QED BY <1>1, <1>2, <1>3, <1>4, <1>5, <1>6, <1>7, <1>8 DEF RecoverStep

LEMMA NextSafe == SafeInv /\ [Next]_vars => SafeInv'
<1> SUFFICES ASSUME SafeInv, [Next]_vars PROVE SafeInv'
  OBVIOUS
<1>1. ASSUME NEW u \in Updater, NEW kind \in {"apply", "rollback", "recover"}, Start(u, kind)
      PROVE  SafeInv'
  BY <1>1, StartStep
<1>2. ASSUME NEW u \in Updater,
             LockRuntime(u) \/ Busy(u) \/ Step(u) \/ Crash(u)
      PROVE  SafeInv'
  <2>1. CASE LockRuntime(u) BY <2>1, LockRuntimeStep
  <2>2. CASE Busy(u) \/ Return(u) \/ Crash(u) BY <2>2, ReleaseSteps
  <2>3. CASE ApplyStep(u) BY <2>3, ApplySteps
  <2>4. CASE RollbackStep(u) BY <2>4, PreflightStep, IntentStep DEF RollbackStep
  <2>5. CASE RecoverStep(u) BY <2>5, RecoverSteps
  <2> QED BY <1>2, <2>1, <2>2, <2>3, <2>4, <2>5 DEF Step
<1>3. ASSUME NEW h \in Host, Launch(h) \/ Lease(h) \/ HostExit(h)
      PROVE  SafeInv'
  BY <1>3, LeaseSteps
<1>4. ASSUME NEW h \in Host, NEW r \in Resource, HostWrite(h, r)
      PROVE  SafeInv'
  BY <1>4, HostWriteStep
<1>5. CASE UNCHANGED vars
  <2>1. /\ UNCHANGED disk /\ op' = op /\ opLock' = opLock /\ host' = host /\ faults' = faults
    BY <1>5 DEF vars
  <2>2. DiskType' /\ DiskInv' /\ (Pending' <=> Pending) /\ active' = active /\ ledger' = ledger
    BY <2>1, DiskKept DEF disk
  <2>3. ProcType' BY <2>1, TypeParts DEF SafeInv, ProcType
  <2>4. OpInv' BY <2>1, PointsKept
  <2>5. OneOwner' /\ NoReader' /\ HostInv'
    BY <2>1, <2>2 DEF SafeInv, OneOwner, NoReader, Exclusive, Reading, HostInv
  <2> QED BY <2>2, <2>3, <2>4, <2>5, TypeParts DEF SafeInv
<1> QED BY <1>1, <1>2, <1>3, <1>4, <1>5 DEF Next

LEMMA Safety == Spec => []SafeInv
BY InitSafe, NextSafe, PTL DEF Spec

-----------------------------------------------------------------------------
(***************************************************************************)
(* The format of the data.  A second invariant, on top of the first: the   *)
(* data a host will find is in a format of the installed release, and what *)
(* the journal is about to publish in one of the release it belongs to.    *)
(***************************************************************************)
Whole(d) == d.gen = 0 => d = Absent

\* While a transaction with a journal is pending, the data is what it was.
UserData(r) == IF Pending /\ Journaled THEN Before[r] ELSE live[r]

FormatInv ==
  /\ \A r \in Resource : Whole(UserData(r)) /\ UserData(r).gen <= Schema[ledger.current]
  /\ Journaled => \A r \in Resource : Whole(After[r])
  /\ Journaled /\ txn.state # "ROLLED_BACK" /\ Stored \notin {"PREPARED", "RESTORED"} =>
       \A r \in Resource : After[r].gen <= Schema[txn.new]
  /\ txn.state # "NONE" /\ ~Journaled => Schema[txn.old] = Schema[txn.new]
  /\ txn.state = "COMMITTED" /\ Journaled =>
       \A r \in Resource : live[r].gen = After[r].gen \/ After[r] = Absent

\* What a candidate that is ready will publish.
PreparedInv(u) ==
  LET t == op[u].id IN
  op[u].at = "prepare" =>
    IF journal[t].state = "NONE" THEN Schema[op[u].target] = Schema[ledger.current]
    ELSE \A r \in Resource :
           Whole(journal[t].after[r]) /\ journal[t].after[r].gen <= Schema[op[u].target]

DataKnown == FormatInv /\ \A u \in Updater : PreparedInv(u)

\* Steps that do not decide anything about the data.
KeepsFormat ==
  /\ ledger'.current = ledger.current
  /\ txn'.id = txn.id /\ txn'.old = txn.old /\ txn'.new = txn.new
  /\ (Pending' <=> Pending) /\ (~Pending => txn'.state = txn.state)
  /\ (Journaled' <=> Journaled)
  /\ Journaled =>
       /\ Before' = Before /\ After' = After
       /\ Stored' \in {"PREPARED", "RESTORED"} \/ Stored \notin {"PREPARED", "RESTORED"}
  /\ live' = live \/ (Pending /\ Journaled)

\* u works on no candidate, and nobody else moves.
Early == {"stage", "shadow", "migrate", "prepare"}
Passes(u) ==
  /\ op'[u].at \notin Early /\ \A v \in Updater : v # u => op'[v] = op[v]

Keeps == KeepsFormat /\ ledger'.high = ledger.high
Quiet(u) == Exclusive(u) /\ Passes(u) /\ Keeps

LEMMA FormatKept ==
  ASSUME FormatInv, KeepsFormat
  PROVE  FormatInv'
<1>1. /\ txn'.state = "NONE" <=> txn.state = "NONE"
      /\ txn'.state = "COMMITTED" <=> txn.state = "COMMITTED"
      /\ txn'.state = "ROLLED_BACK" <=> txn.state = "ROLLED_BACK"
  BY DEF KeepsFormat, Pending, Terminal
<1>2. \A r \in Resource : UserData(r)' = UserData(r)
  BY DEF KeepsFormat, UserData
<1>3. \A r \in Resource : Whole(UserData(r))' /\ (UserData(r).gen <= Schema[ledger.current])'
  BY <1>2 DEF FormatInv, Whole, KeepsFormat, Absent
<1>4. Journaled' => \A r \in Resource : Whole(After[r])'
  BY DEF FormatInv, Whole, KeepsFormat, Absent
<1>5. (Journaled /\ txn.state # "ROLLED_BACK" /\ Stored \notin {"PREPARED", "RESTORED"})' =>
        \A r \in Resource : (After[r].gen <= Schema[txn.new])'
  BY <1>1 DEF FormatInv, KeepsFormat
<1>6. (txn.state # "NONE" /\ ~Journaled)' => (Schema[txn.old] = Schema[txn.new])'
  BY <1>1 DEF FormatInv, KeepsFormat
<1>7. (txn.state = "COMMITTED" /\ Journaled)' =>
        \A r \in Resource : (live[r].gen = After[r].gen \/ After[r] = Absent)'
  <2>1. txn.state = "COMMITTED" => ~Pending BY DEF Pending, Terminal
  <2> QED BY <1>1, <2>1 DEF FormatInv, KeepsFormat, Absent
<1> QED BY <1>3, <1>4, <1>5, <1>6, <1>7 DEF FormatInv

LEMMA FormatFrame ==
  ASSUME SafeInv, DataKnown, NEW u \in Updater, Exclusive(u), Passes(u), KeepsFormat
  PROVE  DataKnown'
<1>1. FormatInv' BY FormatKept DEF DataKnown
<1>2. \A v \in Updater : v # u => op'[v].at = "idle"
  BY OthersIdle DEF Passes, SafeInv, Exclusive
<1>3. \A v \in Updater : PreparedInv(v)' BY <1>2 DEF Passes, Early, PreparedInv
<1> QED BY <1>1, <1>3 DEF DataKnown

LEMMA PassForms ==
  ASSUME ProcType, NEW u \in Updater
  PROVE  /\ \A p : p \notin Early /\ Goto(u, p) => Passes(u)
         /\ \A s, v : Finish(u, s, v) => Passes(u)
         /\ Stuck(u) \/ Abandon(u) \/ Reload(u) => Passes(u)
         /\ \A s, v : Deliver(u, s, v) => Passes(u)
         /\ \A p, n : p \notin Early /\ op' = [op EXCEPT ![u].at = p, ![u].next = n] => Passes(u)
         /\ \A p : p \notin Early /\ NextResource(u, p) => Passes(u)
<1>1. op \in [Updater -> OpType] BY DEF ProcType
<1>2. \A p : p \notin Early /\ Goto(u, p) => Passes(u) BY <1>1 DEF Goto, Passes, OpType
<1>3. \A s, v : Finish(u, s, v) => Passes(u) BY <1>1 DEF Finish, Passes, OpType, Early
<1>4. Stuck(u) \/ Abandon(u) \/ Reload(u) => Passes(u)
  BY <1>2, <1>3 DEF Stuck, Abandon, Reload, Early
<1>5. \A s, v : Deliver(u, s, v) => Passes(u) BY <1>3 DEF Deliver
<1>6. \A p, n : p \notin Early /\ op' = [op EXCEPT ![u].at = p, ![u].next = n] => Passes(u)
  BY <1>1 DEF Passes, OpType
<1>7. \A p : p \notin Early /\ NextResource(u, p) => Passes(u)
  BY <1>1 DEF Passes, OpType, NextResource
<1> QED BY <1>2, <1>3, <1>4, <1>5, <1>6, <1>7

\* The writes that decide nothing about the data.
LEMMA ProgramKeeps ==
  ASSUME ledger' = ledger, journal' = journal, live' = live
  PROVE  Keeps
BY DEF Keeps, KeepsFormat, txn, Pending, Journaled, Before, After, Stored

LEMMA DiskKeeps ==
  ASSUME UNCHANGED disk
  PROVE  Keeps
<1>1. ledger' = ledger /\ journal' = journal /\ live' = live BY DEF disk
<1> QED BY <1>1, ProgramKeeps

LEMMA DataKeeps ==
  ASSUME Pending, Journaled, ledger' = ledger, journal' = journal
  PROVE  Keeps
BY DEF Keeps, KeepsFormat, txn, Pending, Journaled, Before, After, Stored

LEMMA StateKeeps ==
  ASSUME SafeInv, Pending, NEW s \in LedgerState \ Terminal, NEW c \in {"none", "failed", "user"},
         SaveLedger([ledger EXCEPT !.txn.state = s, !.txn.cause = c])
  PROVE  Keeps
<1>1. DiskType BY TypeParts DEF SafeInv
<1>2. /\ Pending' /\ ledger'.current = ledger.current /\ txn' = [txn EXCEPT !.state = s, !.cause = c]
      /\ UNCHANGED <<program, userData>>
  BY StateSaved
<1>3. txn'.id = txn.id /\ txn'.old = txn.old /\ txn'.new = txn.new
  BY <1>1, <1>2 DEF DiskType, LedgerType, TxnType, txn
<1>4. ledger'.high = ledger.high BY <1>1 DEF SaveLedger, DiskType, LedgerType
<1> QED BY <1>2, <1>3, <1>4 DEF Keeps, KeepsFormat, Journaled, Before, After, Stored, userData

LEMMA JournalKeeps ==
  ASSUME SafeInv, Pending, Journaled, NEW s \in {"PUBLISHING", "PUBLISHED", "RESTORED"},
         SaveJournal(txn.id, [journal[txn.id] EXCEPT !.state = s]),
         s = "RESTORED" \/ Stored \notin {"PREPARED", "RESTORED"}
  PROVE  Keeps
<1>1. DiskType BY TypeParts DEF SafeInv
<1>2. txn.id \in Txn BY Named DEF Pending, Terminal
<1>3. ledger' = ledger /\ live' = live /\ txn' = txn BY DEF SaveJournal, txn
<1>4. journal[txn.id] \in JournalType BY <1>1, <1>2 DEF DiskType
<1>5. journal'[txn.id] = [journal[txn.id] EXCEPT !.state = s]
  BY <1>1, <1>2 DEF DiskType, SaveJournal
<1>6. /\ journal'[txn.id].state = s /\ journal'[txn.id].before = Before
      /\ journal'[txn.id].after = After
  BY <1>4, <1>5 DEF JournalType, Before, After
<1> QED BY <1>3, <1>6 DEF Keeps, KeepsFormat, Pending, Journaled, Before, After, Stored

\* _apply() between the intent and the data.
LEMMA SwitchQuiet ==
  ASSUME SafeInv, NEW u \in Updater,
         SaveOld(u) \/ PublishNew(u) \/ CheckNew(u) \/ MoveOld(u) \/ MoveNew(u) \/ Health(u)
  PROVE  Quiet(u)
<1>1. op[u].at \in Switching
  BY DEF SaveOld, PublishNew, CheckNew, MoveOld, MoveNew, Health, Switching
<1>2. Exclusive(u) /\ Pending /\ ProcType /\ DiskType BY <1>1, SwitchingFacts
<1>3. Passes(u)
  BY <1>2, PassForms
     DEF Early, SaveOld, PublishNew, CheckNew, MoveOld, MoveNew, Health, Attempt, Switch, Decide
<1>4. Keeps
  <2>1. \A s \in LedgerState \ Terminal : SaveState(s) => Keeps
    <3> SUFFICES ASSUME NEW s \in LedgerState \ Terminal, SaveState(s) PROVE Keeps
      OBVIOUS
    <3>1. txn.cause \in {"none", "failed", "user"} BY <1>2 DEF DiskType, LedgerType, TxnType, txn
    <3>2. SaveLedger([ledger EXCEPT !.txn.state = s, !.txn.cause = txn.cause])
      BY <1>2, SaveStateIs
    <3> QED BY <1>2, <3>1, <3>2, StateKeeps
  <2>2. /\ "SAVE_OLD" \in LedgerState \ Terminal /\ "PUBLISH_NEW" \in LedgerState \ Terminal
        /\ "CHECK_NEW" \in LedgerState \ Terminal
    BY DEF LedgerState, Terminal
  <2>3. \A to : MoveActive(to) \/ MoveToActive(to) => Keeps
    BY ProgramKeeps DEF MoveActive, MoveToActive, userData
  <2>4. UNCHANGED disk => Keeps BY DiskKeeps
  <2> QED BY <2>1, <2>2, <2>3, <2>4
             DEF SaveOld, PublishNew, CheckNew, MoveOld, MoveNew, Health, Attempt, Switch, Decide
<1> QED BY <1>2, <1>3, <1>4 DEF Quiet

\* The exchange of the data: what it was, and what it will be, stays known.
LEMMA ExchangeQuiet ==
  ASSUME SafeInv, NEW u \in Updater,
         PublishData(u) \/ DataOld(u) \/ DataNew(u) \/ DataPublished(u)
  PROVE  Quiet(u)
<1>1. op[u].at \in {"publish_data", "data_old", "data_new"}
  BY DEF PublishData, DataOld, DataNew, DataPublished
<1>2. Exclusive(u) /\ Pending /\ Journaled /\ ProcType /\ DataInv(u) BY <1>1, ExchangeFacts
<1>3. Passes(u)
  <2>1. CASE PublishData(u)
    <3>1. Reload(u) \/ op' = [op EXCEPT ![u].at = "data_old", ![u].next = 1]
      BY <2>1 DEF PublishData, Attempt, Decide
    <3>2. op' = [op EXCEPT ![u].at = "data_old", ![u].next = 1] => Passes(u)
      <4>1. op \in [Updater -> OpType] BY <1>2 DEF ProcType
      <4> QED BY <4>1 DEF Passes, OpType, Early
    <3>3. Reload(u) => Passes(u) BY <1>2, PassForms DEF Early
    <3> QED BY <3>1, <3>2, <3>3
  <2>2. CASE DataOld(u) BY <1>2, <2>2, PassForms DEF Early, DataOld, Attempt, Decide
  <2>3. CASE DataNew(u) BY <1>2, <2>3, PassForms DEF Early, DataNew, Attempt, Decide
  <2>4. CASE DataPublished(u) BY <1>2, <2>4, PassForms DEF Early, DataPublished, Attempt
  <2> QED BY <2>1, <2>2, <2>3, <2>4
<1>4. Keeps
  <2>1. CASE PublishData(u)
    <3>1. ASSUME SaveJournal(txn.id, [journal[txn.id] EXCEPT !.state = "PUBLISHING"]),
                 Stored = "VALIDATED"
          PROVE  Keeps
      BY <1>2, <3>1, JournalKeeps
    <3> QED BY <2>1, <3>1, DiskKeeps DEF PublishData, Attempt, Decide, Stored
  <2>2. CASE DataPublished(u)
    <3>1. Stored = "PUBLISHING" BY <1>2, <2>2 DEF DataPublished, DataInv
    <3>2. ASSUME SaveJournal(txn.id, [journal[txn.id] EXCEPT !.state = "PUBLISHED"])
          PROVE  Keeps
      BY <1>2, <3>1, <3>2, JournalKeeps
    <3> QED BY <2>2, <3>2, DiskKeeps DEF DataPublished, Attempt
  <2>3. \A r, to : MoveLive(txn.id, r, to) \/ MoveToLive(txn.id, r, to) => Keeps
    BY <1>2, DataKeeps DEF MoveLive, MoveToLive
  <2>4. CASE DataOld(u) \/ DataNew(u)
    BY <2>3, <2>4, DiskKeeps DEF DataOld, DataNew, Attempt, Decide
  <2> QED BY <2>1, <2>2, <2>4
<1> QED BY <1>2, <1>3, <1>4 DEF Quiet

\* Recovery, up to its last write.
LEMMA RecoverQuiet ==
  ASSUME SafeInv, NEW u \in Updater,
         \/ RecoverData(u) \/ RecoverProgram(u) \/ RestoreResource(u) \/ DataRestored(u)
         \/ Inspect(u) \/ Unpublish(u) \/ Restore(u)
  PROVE  Quiet(u)
<1>1. op[u].at \in Recovering
  BY DEF RecoverData, RecoverProgram, RestoreResource, DataRestored, Inspect, Unpublish,
         Restore, Recovering
<1>2. Exclusive(u) /\ ProcType /\ DiskType /\ RecoverInv(u) BY <1>1, RecoveringFacts
<1>3. op \in [Updater -> OpType] BY <1>2 DEF ProcType
<1>4. UNCHANGED disk => Keeps BY DiskKeeps
<1>5. Pending /\ Journaled /\ SaveJournal(txn.id, [journal[txn.id] EXCEPT !.state = "RESTORED"])
        => Keeps
  BY JournalKeeps
<1>6. CASE RecoverData(u)
  <2>1. Passes(u) BY <1>2, <1>6, PassForms DEF Early, RecoverData, Attempt, Decide
  <2>2. Keeps BY <1>4, <1>5, <1>6 DEF RecoverData, Attempt, Decide
  <2> QED BY <1>2, <2>1, <2>2 DEF Quiet
<1>7. CASE RecoverProgram(u)
  <2>1. Passes(u) BY <1>2, <1>7, PassForms DEF Early, RecoverProgram, Decide
  <2> QED BY <1>2, <1>4, <1>7, <2>1 DEF Quiet, RecoverProgram, Decide
<1>8. CASE RestoreResource(u) \/ DataRestored(u)
  <2>1. op[u].at = "data_restore" BY <1>8 DEF RestoreResource, DataRestored
  <2>2. Pending /\ Journaled BY <2>1, RestoringFacts
  <2>3. UNCHANGED op \/ PreviousResource(u) => Passes(u)
    BY <1>3, <2>1 DEF PreviousResource, Passes, Early, OpType
  <2>4. Passes(u)
    BY <1>2, <1>8, <2>3, PassForms DEF Early, RestoreResource, DataRestored, Attempt, Decide
  <2>5. \A r, to : MoveLive(txn.id, r, to) \/ MoveToLive(txn.id, r, to) => Keeps
    BY <2>2, DataKeeps DEF MoveLive, MoveToLive
  <2>6. Keeps
    BY <1>4, <1>5, <1>8, <2>2, <2>5 DEF RestoreResource, DataRestored, Attempt, Decide
  <2> QED BY <1>2, <2>4, <2>6 DEF Quiet
<1>9. CASE Inspect(u)
  <2>1. Passes(u) BY <1>2, <1>9, PassForms DEF Early, Inspect, Attempt, Decide
  <2>2. ASSUME Pending,
               SaveLedger([ledger EXCEPT !.txn.state = "ROLLBACK",
                                         !.txn.cause = IF @ = "none" THEN "failed" ELSE @])
        PROVE  Keeps
    <3> DEFINE c == IF txn.cause = "none" THEN "failed" ELSE txn.cause
    <3>1. c \in {"none", "failed", "user"} BY <1>2 DEF DiskType, LedgerType, TxnType, txn
    <3>2. SaveLedger([ledger EXCEPT !.txn.state = "ROLLBACK", !.txn.cause = c])
      BY <2>2 DEF txn
    <3>3. "ROLLBACK" \in LedgerState \ Terminal BY DEF LedgerState, Terminal
    <3> HIDE DEF c
    <3> QED BY <2>2, <3>1, <3>2, <3>3, StateKeeps
  <2>3. Keeps BY <1>4, <1>9, <2>2 DEF Inspect, Attempt, Decide
  <2> QED BY <1>2, <2>1, <2>3 DEF Quiet
<1>10. CASE Unpublish(u) \/ Restore(u)
  <2>1. Passes(u) BY <1>2, <1>10, PassForms DEF Early, Unpublish, Restore, Switch, Attempt, Decide
  <2>2. \A to : MoveActive(to) \/ MoveToActive(to) => Keeps
    BY ProgramKeeps DEF MoveActive, MoveToActive, userData
  <2>3. Keeps BY <1>4, <1>10, <2>2 DEF Unpublish, Restore, Switch, Attempt, Decide
  <2> QED BY <1>2, <2>1, <2>3 DEF Quiet
<1> QED BY <1>6, <1>7, <1>8, <1>9, <1>10

LEMMA QuietFormat ==
  ASSUME SafeInv, DataKnown, NEW u \in Updater, Quiet(u)
  PROVE  DataKnown'
BY FormatFrame DEF Quiet, Keeps

\* u comes to the point where its candidate is ready, or stays away from it.
LEMMA FormatReady ==
  ASSUME SafeInv, DataKnown, NEW u \in Updater, Exclusive(u), KeepsFormat,
         \A v \in Updater : v # u => op'[v] = op[v], PreparedInv(u)'
  PROVE  DataKnown'
<1>1. FormatInv' BY FormatKept DEF DataKnown
<1>2. \A v \in Updater : v # u => op'[v].at = "idle"
  BY OthersIdle DEF SafeInv, Exclusive
<1>3. \A v \in Updater : PreparedInv(v)' BY <1>2 DEF PreparedInv
<1> QED BY <1>1, <1>3 DEF DataKnown

\* _apply() before the intent.
LEMMA SelectFormat ==
  ASSUME SafeInv, DataKnown, NEW u \in Updater, NEW v \in Version, Select(u, v)
  PROVE  DataKnown'
<1>1. Exclusive(u) /\ ProcType /\ DiskType
  BY TypeParts DEF Select, Exclusive, SafeInv
<1>2. op \in [Updater -> OpType] BY <1>1 DEF ProcType
<1>3. op'[u].at # "prepare" /\ \A w \in Updater : w # u => op'[w] = op[w]
  <2>1. op' = [op EXCEPT ![u].at = "stage", ![u].id = used + 1, ![u].target = v]
          => op'[u].at = "stage" /\ \A w \in Updater : w # u => op'[w] = op[w]
    BY <1>2 DEF OpType
  <2> QED BY <1>1, <2>1, PassForms DEF Passes, Early, Select, Attempt, Decide
<1>4. KeepsFormat
  <2>1. SaveLedger([ledger EXCEPT !.high = v]) => KeepsFormat
    <3> SUFFICES ASSUME SaveLedger([ledger EXCEPT !.high = v]) PROVE KeepsFormat
      OBVIOUS
    <3>1. /\ ledger'.current = ledger.current /\ txn' = txn
          /\ journal' = journal /\ live' = live
      BY <1>1 DEF SaveLedger, userData, DiskType, LedgerType, txn
    <3> QED BY <3>1 DEF KeepsFormat, Pending, Journaled, Before, After, Stored
  <2> QED BY <2>1, DiskKeeps DEF Keeps, Select, Attempt, Decide
<1> QED BY <1>1, <1>3, <1>4, FormatReady DEF PreparedInv

LEMMA StageFormat ==
  ASSUME SafeInv, DataKnown, NEW u \in Updater, Stage(u)
  PROVE  DataKnown'
<1>0. op[u].at = "stage" BY DEF Stage
<1>1. /\ Exclusive(u) /\ ProcType /\ DiskType /\ PreparingInv(u) /\ op[u].id \in Txn
  BY <1>0, PreparingFacts
<1>2. Keeps /\ KeepsFormat BY DiskKeeps, ProgramKeeps DEF Keeps, Stage, Attempt, userData
<1>3. CASE Abandon(u)
  BY <1>1, <1>2, <1>3, PassForms, FormatFrame
<1>4. CASE /\ journal' = journal /\ ledger' = ledger
           /\ Goto(u, IF Schema[op[u].target] = Schema[ledger.current] THEN "prepare" ELSE "shadow")
  <2>1. PICK p \in {"prepare", "shadow"} :
          /\ Goto(u, p) /\ (p = "prepare" => Schema[op[u].target] = Schema[ledger.current])
    BY <1>4
  <2>2. p \in Point BY DEF Point
  <2>3. Goes(u, p) BY <1>1, <2>1, <2>2, GotoGoes
  <2>4. journal[op[u].id].state = "NONE"
    <3>1. op[u].id > used BY <1>0, <1>1 DEF PreparingInv, DiskType
    <3> QED BY <1>1, <3>1 DEF SafeInv, DiskInv, FreshInv
  <2>5. PreparedInv(u)' BY <1>4, <2>1, <2>3, <2>4 DEF PreparedInv, Goes
  <2> QED BY <1>1, <1>2, <2>3, <2>5, FormatReady DEF Goes
<1> QED BY <1>3, <1>4 DEF Stage, Attempt, userData

LEMMA CopiesKeep ==
  ASSUME SafeInv, NEW u \in Updater, op[u].at \in {"shadow", "migrate"}, NEW j,
         journal' = [journal EXCEPT ![op[u].id] = j], UNCHANGED <<ledger, live>>
  PROVE  Keeps
<1>1. DiskType /\ txn.id < op[u].id /\ op[u].id \in Txn BY PreparingFacts
<1>2. txn' = txn BY DEF txn
<1>3. txn.id \in 0 .. MaxTxn BY <1>1 DEF DiskType, LedgerType, TxnType, txn
<1>4. txn.id # 0 => journal'[txn.id] = journal[txn.id]
  <2>1. txn.id # 0 => txn.id \in Txn /\ txn.id # op[u].id
    BY <1>1, <1>3, Bounds DEF Txn
  <2> QED BY <1>1, <2>1 DEF DiskType
<1> QED BY <1>2, <1>4 DEF Keeps, KeepsFormat, Pending, Journaled, Before, After, Stored

LEMMA ShadowFormat ==
  ASSUME SafeInv, DataKnown, NEW u \in Updater, Shadow(u)
  PROVE  DataKnown'
<1>0. op[u].at = "shadow" BY DEF Shadow
<1>1. Exclusive(u) /\ ProcType BY <1>0, PreparingFacts
<1>2. KeepsFormat BY <1>0, CopiesKeep, DiskKeeps DEF Keeps, Shadow, Attempt
<1>3. CASE Abandon(u)
  BY <1>1, <1>2, <1>3, PassForms, FormatFrame
<1>4. CASE Goto(u, "migrate")
  <2>1. Goes(u, "migrate") BY <1>1, <1>4, GotoGoes DEF Point
  <2> QED BY <1>1, <1>2, <2>1, FormatReady DEF Goes, PreparedInv
<1> QED BY <1>3, <1>4 DEF Shadow, Attempt

LEMMA MigrateFormat ==
  ASSUME SafeInv, DataKnown, NEW u \in Updater, NEW R \in SUBSET Resource, Migrate(u, R)
  PROVE  DataKnown'
<1> DEFINE t == op[u].id
           after == [r \in Resource |->
                       IF r \in R THEN [live[r] EXCEPT !.gen = Schema[op[u].target]] ELSE live[r]]
           j == [journal[t] EXCEPT !.state = "VALIDATED", !.after = after]
<1>0. op[u].at = "migrate" BY DEF Migrate
<1>1. /\ Exclusive(u) /\ ~Pending /\ ProcType /\ DiskType /\ t \in Txn
      /\ op[u].target \in Version /\ op[u].target > ledger.current /\ ledger.current \in Version
  BY <1>0, PreparingFacts
<1>2. KeepsFormat BY <1>0, CopiesKeep, DiskKeeps DEF Keeps, Migrate, Attempt
<1>3. CASE Abandon(u)
  BY <1>1, <1>2, <1>3, PassForms, FormatFrame
<1>4. \A r \in Resource : Whole(after[r]) /\ after[r].gen <= Schema[op[u].target]
  <2> SUFFICES ASSUME NEW r \in Resource
               PROVE  Whole(after[r]) /\ after[r].gen <= Schema[op[u].target]
    OBVIOUS
  <2>1. Whole(live[r]) /\ live[r].gen <= Schema[ledger.current]
    BY <1>1 DEF DataKnown, FormatInv, UserData
  <2>2. Schema[op[u].target] \in Nat \ {0} /\ Schema[ledger.current] \in Nat
        /\ Schema[ledger.current] <= Schema[op[u].target]
    BY <1>1, Bounds, SchemaAssumption, BoundAssumption DEF Version
  <2>3. live[r] \in Content BY <1>1 DEF DiskType
  <2>4. live[r].gen \in Nat BY <2>3, Bounds DEF Content
  <2>5. CASE r \in R
    <3>1. after[r].gen = Schema[op[u].target] BY <2>3, <2>5 DEF Content
    <3> QED BY <2>2, <3>1 DEF Whole
  <2>6. CASE r \notin R
    <3>1. after[r] = live[r] BY <2>6
    <3> QED BY <2>1, <2>2, <2>4, <3>1
  <2> QED BY <2>5, <2>6
<1>5. CASE journal' = [journal EXCEPT ![t] = j] /\ Goto(u, "prepare")
  <2>1. Goes(u, "prepare") BY <1>1, <1>5, GotoGoes DEF Point
  <2>2. journal'[t].state = "VALIDATED" /\ journal'[t].after = after
    <3>1. journal[t] \in JournalType BY <1>1 DEF DiskType
    <3> HIDE DEF after
    <3>2. j.state = "VALIDATED" /\ j.after = after BY <3>1 DEF JournalType
    <3> HIDE DEF j
    <3> QED BY <1>1, <1>5, <3>2 DEF DiskType
  <2> HIDE DEF after
  <2>3. PreparedInv(u)'
    BY <1>4, <2>1, <2>2 DEF PreparedInv, Goes, Whole, Absent
  <2> QED BY <1>1, <1>2, <2>1, <2>3, FormatReady DEF Goes
<1> QED BY <1>3, <1>5 DEF Migrate, Attempt

\* The transaction becomes durable: the data is what it was, the journal that
\* of the candidate.
LEMMA PrepareFormat ==
  ASSUME SafeInv, DataKnown, NEW u \in Updater, Prepare(u)
  PROVE  DataKnown'
<1> DEFINE t == op[u].id
           intent == [id |-> t, state |-> "PREPARED", old |-> ledger.current,
                      new |-> op[u].target, cause |-> "none"]
           write == SaveLedger([ledger EXCEPT !.high = op[u].target, !.txn = intent])
<1>0. op[u].at = "prepare" BY DEF Prepare
<1>1. /\ Exclusive(u) /\ ~Pending /\ PreparingInv(u) /\ ProcType /\ DiskType /\ t \in Txn
  BY <1>0, PreparingFacts
<1>2. Migrated(u) /\ PreparedInv(u) BY <1>0, <1>1 DEF PreparingInv, DataKnown
<1>3. Passes(u) BY <1>1, PassForms DEF Early, Prepare, Attempt
<1>4. CASE UNCHANGED disk
  BY <1>1, <1>3, <1>4, DiskKeeps, FormatFrame DEF Keeps
<1>5. CASE write
  <2>1. /\ ledger'.current = ledger.current /\ txn'.id = t /\ txn'.new = op[u].target
        /\ txn'.old = ledger.current /\ txn'.state = "PREPARED"
    BY <1>1, <1>5 DEF SaveLedger, DiskType, LedgerType, txn
  <2>2. journal' = journal /\ live' = live BY <1>5 DEF SaveLedger, userData
  <2>3. t # 0 BY <1>1, Bounds DEF Txn
  <2>4. Pending' /\ (Journaled' <=> journal[t].state # "NONE")
    BY <2>1, <2>2, <2>3 DEF Pending, Terminal, Journaled
  <2>5. Journaled' => journal[t].before = live /\ After' = journal[t].after
    BY <1>2, <2>1, <2>2, <2>4 DEF Migrated, After
  <2>6. \A r \in Resource : UserData(r)' = live[r] /\ UserData(r) = live[r]
    BY <1>1, <2>1, <2>2, <2>4, <2>5 DEF UserData, Before
  <2>7. \A r \in Resource : Whole(UserData(r))' /\ (UserData(r).gen <= Schema[ledger.current])'
    BY <2>1, <2>6 DEF DataKnown, FormatInv, Whole, Absent
  <2>8. Journaled' => \A r \in Resource :
          Whole(After[r])' /\ (After[r].gen <= Schema[txn.new])'
    BY <1>0, <1>2, <2>1, <2>4, <2>5 DEF PreparedInv, Whole, Absent
  <2>9. ~Journaled' => (Schema[txn.old] = Schema[txn.new])'
    BY <1>0, <1>2, <2>1, <2>4 DEF PreparedInv
  <2>10. FormatInv' BY <2>1, <2>7, <2>8, <2>9 DEF FormatInv
  <2>11. \A v \in Updater : v # u => op'[v].at = "idle"
    BY <1>1, <1>3, OthersIdle DEF Passes, SafeInv, Exclusive
  <2>12. \A v \in Updater : PreparedInv(v)' BY <1>3, <2>11 DEF Passes, Early, PreparedInv
  <2> QED BY <2>10, <2>12 DEF DataKnown
<1> QED BY <1>4, <1>5 DEF Prepare, Attempt

\* The commit: what was migrated is the data now.
LEMMA CommitFormat ==
  ASSUME SafeInv, DataKnown, NEW u \in Updater, Commit(u)
  PROVE  DataKnown'
<1> DEFINE write == SaveLedger([ledger EXCEPT !.current = txn.new, !.txn.state = "COMMITTED"])
<1>0. op[u].at = "commit" /\ op[u].at \in Switching BY DEF Commit, Switching
<1>1. Exclusive(u) /\ Pending /\ ProcType /\ DiskType /\ DataInv(u) BY <1>0, SwitchingFacts
<1>2. Passes(u) BY <1>1, PassForms DEF Early, Commit, Attempt
<1>3. CASE UNCHANGED disk
  BY <1>1, <1>2, <1>3, DiskKeeps, FormatFrame DEF Keeps
<1>4. CASE write
  <2>1. /\ ledger'.current = txn.new /\ txn'.id = txn.id /\ txn'.new = txn.new
        /\ txn'.old = txn.old /\ txn'.state = "COMMITTED"
    BY <1>1, <1>4 DEF SaveLedger, DiskType, LedgerType, TxnType, txn
  <2>2. journal' = journal /\ live' = live BY <1>4 DEF SaveLedger, userData
  <2>3. ~Pending' /\ (Journaled' <=> Journaled) /\ After' = After
    BY <2>1, <2>2 DEF Pending, Terminal, Journaled, After
  <2>4. txn.state \notin {"NONE", "ROLLED_BACK"} BY <1>1 DEF Pending, Terminal
  <2>5. ASSUME Journaled PROVE FormatInv'
    <3>1. Stored = "PUBLISHED" /\ \A r \in Resource : Moved(r)
      BY <1>0, <1>1, <2>5 DEF DataInv
    <3>2. \A r \in Resource : live[r] = After[r] BY <3>1 DEF Moved, Places
    <3>3. \A r \in Resource : Whole(After[r]) /\ After[r].gen <= Schema[txn.new]
      BY <2>4, <2>5, <3>1 DEF DataKnown, FormatInv
    <3>4. \A r \in Resource : UserData(r)' = After[r]
      BY <2>2, <2>3, <3>2 DEF UserData
    <3>5. \A r \in Resource : Whole(UserData(r))' /\ (UserData(r).gen <= Schema[ledger.current])'
      BY <2>1, <3>3, <3>4 DEF Whole, Absent
    <3>6. \A r \in Resource : Whole(After[r])' /\ (After[r].gen <= Schema[txn.new])'
                              /\ (live[r].gen = After[r].gen)'
      BY <2>1, <2>2, <2>3, <3>2, <3>3 DEF Whole, Absent
    <3> QED BY <2>3, <2>5, <3>5, <3>6 DEF FormatInv
  <2>6. ASSUME ~Journaled PROVE FormatInv'
    <3>1. Schema[txn.old] = Schema[txn.new] /\ ledger.current = txn.old
      BY <1>1, <2>4, <2>6 DEF DataKnown, FormatInv, SafeInv, DiskInv, LedgerInv, Pending, Terminal
    <3>2. \A r \in Resource : UserData(r)' = live[r] /\ UserData(r) = live[r]
      BY <2>2, <2>3, <2>6 DEF UserData
    <3>3. \A r \in Resource : Whole(UserData(r))' /\ (UserData(r).gen <= Schema[ledger.current])'
      BY <2>1, <3>1, <3>2 DEF DataKnown, FormatInv, Whole, Absent
    <3> QED BY <2>1, <2>3, <2>6, <3>1, <3>3 DEF FormatInv
  <2>7. \A v \in Updater : v # u => op'[v].at = "idle"
    BY <1>1, <1>2, OthersIdle DEF Passes, SafeInv, Exclusive
  <2>8. \A v \in Updater : PreparedInv(v)' BY <1>2, <2>7 DEF Passes, Early, PreparedInv
  <2> QED BY <2>5, <2>6, <2>8 DEF DataKnown
<1> QED BY <1>3, <1>4 DEF Commit, Attempt

\* The user's way back: offered only where the format did not change.
LEMMA RollbackFormat ==
  ASSUME SafeInv, DataKnown, NEW u \in Updater, Preflight(u) \/ Intent(u)
  PROVE  DataKnown'
<1>1. Exclusive(u) /\ ProcType /\ DiskType
  BY TypeParts DEF Preflight, Intent, Exclusive, SafeInv
<1>2. Passes(u)
  <2>1. CASE Preflight(u) BY <1>1, <2>1, PassForms DEF Early, Preflight, Decide
  <2>2. CASE Intent(u) BY <1>1, <2>2, PassForms DEF Early, Intent, Attempt
  <2> QED BY <2>1, <2>2
<1>3. CASE UNCHANGED disk
  BY <1>1, <1>2, <1>3, DiskKeeps, FormatFrame DEF Keeps
<1>4. CASE /\ Intent(u)
           /\ SaveLedger([ledger EXCEPT !.current = txn.old, !.txn.state = "ROLLBACK",
                                        !.txn.cause = "user"])
  <2>0. txn.state = "COMMITTED" /\ ~Journaled /\ ~Pending
    BY <1>4 DEF Intent, SafeInv, OpInv, PointInv, RecoverInv, Pending, Terminal
  <2>1. /\ ledger'.current = txn.old /\ txn'.id = txn.id /\ txn'.new = txn.new
        /\ txn'.old = txn.old /\ txn'.state = "ROLLBACK"
    BY <1>1, <1>4 DEF SaveLedger, DiskType, LedgerType, TxnType, txn
  <2>2. journal' = journal /\ live' = live BY <1>4 DEF SaveLedger, userData
  <2>3. ~Journaled' BY <2>0, <2>1, <2>2 DEF Journaled
  <2>4. Schema[txn.old] = Schema[txn.new] /\ ledger.current = txn.new
    BY <2>0 DEF DataKnown, FormatInv, SafeInv, DiskInv, LedgerInv
  <2>5. \A r \in Resource : UserData(r)' = live[r] /\ UserData(r) = live[r]
    BY <2>0, <2>2, <2>3 DEF UserData
  <2>6. \A r \in Resource : Whole(UserData(r))' /\ (UserData(r).gen <= Schema[ledger.current])'
    BY <2>1, <2>4, <2>5 DEF DataKnown, FormatInv, Whole, Absent
  <2>7. FormatInv' BY <2>1, <2>3, <2>4, <2>6 DEF FormatInv
  <2>8. \A v \in Updater : v # u => op'[v].at = "idle"
    BY <1>1, <1>2, OthersIdle DEF Passes, SafeInv, Exclusive
  <2>9. \A v \in Updater : PreparedInv(v)' BY <1>2, <2>8 DEF Passes, Early, PreparedInv
  <2> QED BY <2>7, <2>9 DEF DataKnown
<1> QED BY <1>3, <1>4 DEF Preflight, Intent, Attempt, Decide

\* The end of a recovery: the data is back where it was.
LEMMA CloseFormat ==
  ASSUME SafeInv, DataKnown, NEW u \in Updater, Close(u)
  PROVE  DataKnown'
<1>0. op[u].at = "close" /\ op[u].at \in Recovering BY DEF Close, Recovering
<1>1. Exclusive(u) /\ Pending /\ ProcType /\ DiskType /\ RecoverInv(u) /\ Recoverable
  BY <1>0, RecoveringFacts, TakeBackFacts
<1>2. Passes(u) BY <1>1, PassForms DEF Early, Close, Attempt, Decide
<1>3. CASE UNCHANGED disk
  BY <1>1, <1>2, <1>3, DiskKeeps, FormatFrame DEF Keeps
<1>4. CASE SaveState("ROLLED_BACK")
  <2>1. /\ ledger'.current = ledger.current /\ txn'.id = txn.id /\ txn'.new = txn.new
        /\ txn'.old = txn.old /\ txn'.state = "ROLLED_BACK"
    BY <1>1, <1>4 DEF SaveState, SaveLedger, DiskType, LedgerType, TxnType, txn
  <2>2. journal' = journal /\ live' = live BY <1>4 DEF SaveState, SaveLedger, userData
  <2>3. ~Pending' /\ (Journaled' <=> Journaled) /\ After' = After
    BY <2>1, <2>2 DEF Pending, Terminal, Journaled, After
  <2>4. Journaled => live = Before
    <3>1. Journaled => Stored = "RESTORED" BY <1>0, <1>1 DEF RecoverInv
    <3> QED BY <1>1, <3>1 DEF Recoverable, Stored, Before
  <2>5. \A r \in Resource : UserData(r)' = UserData(r)
    BY <1>1, <2>2, <2>3, <2>4 DEF UserData
  <2>6. \A r \in Resource : Whole(UserData(r))' /\ (UserData(r).gen <= Schema[ledger.current])'
    BY <2>1, <2>5 DEF DataKnown, FormatInv, Whole, Absent
  <2>7. txn.state # "NONE" BY <1>1 DEF Pending, Terminal
  <2>8. Journaled' => \A r \in Resource : Whole(After[r])'
    BY <2>3 DEF DataKnown, FormatInv, Whole, Absent
  <2>9. ~Journaled' => (Schema[txn.old] = Schema[txn.new])'
    BY <2>1, <2>3, <2>7 DEF DataKnown, FormatInv
  <2>10. FormatInv' BY <2>1, <2>6, <2>8, <2>9 DEF FormatInv
  <2>11. \A v \in Updater : v # u => op'[v].at = "idle"
    BY <1>1, <1>2, OthersIdle DEF Passes, SafeInv, Exclusive
  <2>12. \A v \in Updater : PreparedInv(v)' BY <1>2, <2>11 DEF Passes, Early, PreparedInv
  <2> QED BY <2>10, <2>12 DEF DataKnown
<1> QED BY <1>3, <1>4 DEF Close, Attempt, Decide

\* The locks, the hosts' leases, and kills.
LEMMA LockFormat ==
  ASSUME SafeInv, DataKnown, UNCHANGED disk,
         \A v \in Updater : op'[v].at # "prepare" \/ op'[v] = op[v]
  PROVE  DataKnown'
<1>1. FormatInv' BY DiskKeeps, FormatKept DEF DataKnown, Keeps
<1>2. ledger' = ledger /\ journal' = journal BY DEF disk
<1>3. \A v \in Updater : PreparedInv(v)'
  BY <1>2 DEF DataKnown, PreparedInv, Whole, Absent
<1> QED BY <1>1, <1>3 DEF DataKnown

LEMMA EntryFormat ==
  ASSUME SafeInv, DataKnown, NEW u \in Updater,
         \/ \E kind \in {"apply", "rollback", "recover"} : Start(u, kind)
         \/ LockRuntime(u) \/ Busy(u) \/ Return(u) \/ Crash(u)
  PROVE  DataKnown'
<1>1. ProcType /\ op \in [Updater -> OpType] BY TypeParts DEF SafeInv, ProcType
<1>2. UNCHANGED disk BY DEF Start, LockRuntime, Decide, Busy, Return, Crash
<1>3. CASE \E kind \in {"apply", "rollback", "recover"} : Start(u, kind)
  <2>1. PICK o : op' = [op EXCEPT ![u] = o] /\ o.at = "lock"
    <3>1. PICK kind : op' = [op EXCEPT ![u] = [IdleOp EXCEPT !.at = "lock", !.kind = kind]]
      BY <1>3 DEF Start
    <3>2. IdleOp \in OpType BY Bounds DEF IdleOp, OpType, Point, Kind, NoResult, Report
    <3>3. [IdleOp EXCEPT !.at = "lock", !.kind = kind].at = "lock" BY <3>2 DEF OpType
    <3> QED BY <3>1, <3>3
  <2> QED BY <1>1, <1>2, <2>1, LockFormat
<1>4. CASE LockRuntime(u)
  <2>1. Passes(u) BY <1>1, <1>4, PassForms DEF Early, LockRuntime, Decide
  <2> QED BY <1>2, <2>1, LockFormat DEF Passes, Early
<1>5. CASE Busy(u) \/ Return(u) \/ Crash(u)
  <2>1. op' = [op EXCEPT ![u] = IdleOp] BY <1>5 DEF Busy, Return, Crash
  <2>2. IdleOp.at = "idle" BY DEF IdleOp
  <2> QED BY <1>1, <1>2, <2>1, <2>2, LockFormat
<1> QED BY <1>3, <1>4, <1>5

\* A running program writes in the format it finds, or in its own.
LEMMA HostWriteFormat ==
  ASSUME SafeInv, DataKnown, NEW h \in Host, NEW r \in Resource, HostWrite(h, r)
  PROVE  DataKnown'
<1> DEFINE g == IF live[r].gen = 0 THEN Schema[active] ELSE live[r].gen
<1>1. /\ host[h] = "in" /\ UNCHANGED <<ledger, journal, op>>
      /\ live' = [live EXCEPT ![r] = [gen |-> g, work |-> live[r].work + 1]]
  BY DEF HostWrite
<1>2. DiskType BY TypeParts DEF SafeInv
<1>3. ~Pending /\ active = ledger.current BY <1>1 DEF SafeInv, HostInv
<1>4. txn' = txn /\ ~Pending' /\ (Journaled' <=> Journaled) /\ Stored' = Stored /\ After' = After
  BY <1>1, <1>3 DEF txn, Pending, Journaled, Stored, After
<1>5. live'[r].gen = g /\ \A q \in Resource : q # r => live'[q] = live[q]
  <2> HIDE DEF g
  <2> QED BY <1>1, <1>2 DEF DiskType
<1>6. Schema[active] \in Nat \ {0}
  BY <1>2, <1>3, Bounds DEF DiskType, LedgerType
<1>7. \A q \in Resource : UserData(q) = live[q] /\ UserData(q)' = live'[q]
  BY <1>3, <1>4 DEF UserData
<1>8. \A q \in Resource : Whole(live[q]) /\ live[q].gen <= Schema[ledger.current]
  BY <1>7 DEF DataKnown, FormatInv
<1>9. Whole(live'[r]) /\ live'[r].gen <= Schema[ledger.current]
  BY <1>3, <1>5, <1>6, <1>8 DEF Whole
<1>10. \A q \in Resource : Whole(UserData(q))' /\ (UserData(q).gen <= Schema[ledger.current])'
  <2>1. \A q \in Resource : Whole(live'[q]) /\ live'[q].gen <= Schema[ledger.current]
    BY <1>5, <1>8, <1>9
  <2> QED BY <1>1, <1>7, <2>1 DEF Whole, Absent
<1>11. (txn.state = "COMMITTED" /\ Journaled)' =>
         \A q \in Resource : (live[q].gen = After[q].gen \/ After[q] = Absent)'
  <2> SUFFICES ASSUME txn.state = "COMMITTED", Journaled, NEW q \in Resource
               PROVE  live'[q].gen = After[q].gen \/ After[q] = Absent
    BY <1>4 DEF Absent
  <2>1. live[q].gen = After[q].gen \/ After[q] = Absent
    BY DEF DataKnown, FormatInv
  <2>2. Whole(After[q]) BY DEF DataKnown, FormatInv
  <2>3. CASE q # r BY <1>5, <2>1, <2>3
  <2>4. CASE q = r /\ live[r].gen = 0 BY <2>1, <2>2, <2>4 DEF Whole
  <2>5. CASE q = r /\ live[r].gen # 0 BY <1>5, <2>1, <2>5
  <2> QED BY <2>3, <2>4, <2>5
<1>12. FormatInv'
  <2>1. Journaled' => \A q \in Resource : Whole(After[q])'
    BY <1>4 DEF DataKnown, FormatInv, Whole, Absent
  <2>2. (Journaled /\ txn.state # "ROLLED_BACK" /\ Stored \notin {"PREPARED", "RESTORED"})' =>
          \A q \in Resource : (After[q].gen <= Schema[txn.new])'
    BY <1>4 DEF DataKnown, FormatInv
  <2>3. (txn.state # "NONE" /\ ~Journaled)' => (Schema[txn.old] = Schema[txn.new])'
    BY <1>4 DEF DataKnown, FormatInv
  <2> QED BY <1>10, <1>11, <2>1, <2>2, <2>3 DEF FormatInv
<1>13. \A v \in Updater : PreparedInv(v)'
  BY <1>1 DEF DataKnown, PreparedInv, Whole, Absent
<1> QED BY <1>12, <1>13 DEF DataKnown

LEMMA InitFormat == Init => DataKnown
<1> SUFFICES ASSUME Init PROVE DataKnown
  OBVIOUS
<1>1. txn.state = "NONE" /\ txn.id = 0 /\ ledger.current = 1 BY DEF Init, txn, NoTxn
<1>2. ~Pending /\ ~Journaled BY <1>1 DEF Pending, Terminal, Journaled
<1>3. 1 \in Version BY BoundAssumption DEF Version
<1>4. Schema[1] \in Nat \ {0} BY <1>3, Bounds
<1>5. \A r \in Resource : Whole(live[r]) /\ live[r].gen <= Schema[1]
  <2> SUFFICES ASSUME NEW r \in Resource PROVE Whole(live[r]) /\ live[r].gen <= Schema[1]
    OBVIOUS
  <2>1. live[r] = Absent \/ live[r] = [gen |-> Schema[1], work |-> 0] BY DEF Init
  <2> QED BY <1>4, <2>1 DEF Whole, Absent
<1>6. FormatInv BY <1>1, <1>2, <1>5 DEF FormatInv, UserData
<1>7. \A u \in Updater : op[u].at = "idle" BY DEF Init, IdleOp
<1>8. \A u \in Updater : PreparedInv(u) BY <1>7 DEF PreparedInv
<1> QED BY <1>6, <1>8 DEF DataKnown

LEMMA NextFormat == SafeInv /\ DataKnown /\ [Next]_vars => DataKnown'
<1> SUFFICES ASSUME SafeInv, DataKnown, [Next]_vars PROVE DataKnown'
  OBVIOUS
<1>1. ASSUME NEW u \in Updater,
             \/ \E kind \in {"apply", "rollback", "recover"} : Start(u, kind)
             \/ LockRuntime(u) \/ Busy(u) \/ Return(u) \/ Crash(u)
      PROVE  DataKnown'
  BY <1>1, EntryFormat
<1>2. ASSUME NEW u \in Updater, ApplyStep(u) PROVE DataKnown'
  <2>1. CASE \E v \in Version : Select(u, v) BY <2>1, SelectFormat
  <2>2. CASE Stage(u) BY <2>2, StageFormat
  <2>3. CASE Shadow(u) BY <2>3, ShadowFormat
  <2>4. CASE \E R \in SUBSET Resource : Migrate(u, R) BY <2>4, MigrateFormat
  <2>5. CASE Prepare(u) BY <2>5, PrepareFormat
  <2>6. CASE SaveOld(u) \/ PublishNew(u) \/ CheckNew(u) \/ MoveOld(u) \/ MoveNew(u) \/ Health(u)
    BY <2>6, SwitchQuiet, QuietFormat
  <2>7. CASE PublishData(u) \/ DataOld(u) \/ DataNew(u) \/ DataPublished(u)
    BY <2>7, ExchangeQuiet, QuietFormat
  <2>8. CASE Commit(u) BY <2>8, CommitFormat
  <2> QED BY <1>2, <2>1, <2>2, <2>3, <2>4, <2>5, <2>6, <2>7, <2>8 DEF ApplyStep
<1>3. ASSUME NEW u \in Updater, RollbackStep(u) PROVE DataKnown'
  BY <1>3, RollbackFormat DEF RollbackStep
<1>4. ASSUME NEW u \in Updater, RecoverStep(u) PROVE DataKnown'
  BY <1>4, RecoverQuiet, QuietFormat, CloseFormat DEF RecoverStep
<1>5. CASE (\E h \in Host : Launch(h) \/ Lease(h) \/ HostExit(h)) \/ UNCHANGED vars
  <2>1. UNCHANGED disk /\ op' = op
    BY <1>5 DEF Launch, Lease, LeaseLock, LeaseAdmit, LeaseRefused, HostExit, vars
  <2> QED BY <2>1, LockFormat
<1>6. ASSUME NEW h \in Host, NEW r \in Resource, HostWrite(h, r) PROVE DataKnown'
  BY <1>6, HostWriteFormat
<1> QED BY <1>1, <1>2, <1>3, <1>4, <1>5, <1>6 DEF Next, Step

LEMMA DataSafety == Spec => [](SafeInv /\ DataKnown)
BY InitSafe, NextSafe, InitFormat, NextFormat, PTL DEF Spec

-----------------------------------------------------------------------------
(* What the update transaction promises.                                   *)

\* Ledger, directories, journals and processes keep their types through every
\* operation, kill and failing write.
THEOREM TypeCorrect == Spec => []TypeOK
<1>1. SafeInv => TypeOK BY DEF SafeInv
<1> QED BY <1>1, Safety, PTL

\* Wherever the processes are killed, and whatever write fails on the way, the
\* disk is one that recovery and admission accept: between any two durable
\* steps of _apply, _rollback and _recover_locked.
THEOREM RecoverableHolds == Spec => []Recoverable
<1>1. SafeInv => Recoverable BY DEF SafeInv, DiskInv
<1> QED BY <1>1, Safety, PTL

\* An operation that reports a version reports what the ledger has decided, an
\* apply reports "committed" for its own transaction only, and a rollback never.
THEOREM ReportsAreTrueHolds == Spec => []ReportsAreTrue
<1>1. SafeInv => ReportsAreTrue
  BY DEF SafeInv, OpInv, PointInv, ReportInv, ReportsAreTrue
<1> QED BY <1>1, Safety, PTL

\* No host reads or runs the installation beside an operation that owns it, and
\* a running one runs the installed release with nothing pending.
THEOREM HostsStandAside ==
  Spec => [](/\ \A u \in Updater : Exclusive(u) => Reading = {}
             /\ \A h \in Host : host[h] = "in" => ~Pending /\ active = ledger.current)
<1>1. SafeInv => /\ \A u \in Updater : Exclusive(u) => Reading = {}
                 /\ \A h \in Host : host[h] = "in" => ~Pending /\ active = ledger.current
  BY DEF SafeInv, NoReader, HostInv
<1> QED BY <1>1, Safety, PTL

\* While a host runs, the program under it is the installed one, nothing is
\* pending, and it knows the format of the data: the migrated one where its
\* release migrated it (runtime_lease over _apply and data_upgrade).
THEOREM RunsWhatIsInstalledHolds == Spec => []RunsWhatIsInstalled
<1>1. SafeInv /\ DataKnown => RunsWhatIsInstalled
  <2> SUFFICES ASSUME SafeInv, DataKnown PROVE RunsWhatIsInstalled
    OBVIOUS
  <2>1. ~Pending => \A r \in Resource : UserData(r) = live[r] BY DEF UserData
  <2> QED BY <2>1 DEF SafeInv, HostInv, DataKnown, FormatInv, After, RunsWhatIsInstalled
<1> QED BY <1>1, DataSafety, PTL
=============================================================================
