------------------------- MODULE AtomicUpdate_proofs -------------------------
(***************************************************************************)
(* The update transaction implements AtomicUpdate, for every value of the  *)
(* constants: each step either leaves what others see of the installation  *)
(* alone or is one step of the abstract specification.                     *)
(***************************************************************************)
EXTENDS UpdateTransaction_proofs

-----------------------------------------------------------------------------
(***************************************************************************)
(* What the abstract actions demand and the other invariants do not say:   *)
(* the last transaction is for the newest release accepted so far, it has  *)
(* a journal exactly when the format changes, and what it publishes is a   *)
(* migration of what it found; the same of a candidate on its way.         *)
(***************************************************************************)

\* v has changed the format of some resources, and no work in any.
Migrates(before, after, v) ==
  \A r \in Resource : after[r] \in {before[r], [before[r] EXCEPT !.gen = Schema[v]]}

IntentInv ==
  /\ txn.state # "NONE" => txn.new = ledger.high
  /\ txn.state # "NONE" /\ Journaled => Schema[txn.old] # Schema[txn.new]
  /\ Pending /\ Journaled /\ Stored \notin {"PREPARED", "RESTORED"} =>
       Migrates(Before, After, txn.new)

AimInv(u) ==
  LET t == op[u].id IN
  /\ op[u].at \in Early => op[u].target >= ledger.high
  /\ \/ op[u].at \in {"shadow", "migrate"}
     \/ op[u].at = "prepare" /\ journal[t].state # "NONE"
     => Schema[op[u].target] # Schema[ledger.current]
  /\ op[u].at = "prepare" /\ journal[t].state # "NONE" =>
       Migrates(journal[t].before, journal[t].after, op[u].target)

Aims == IntentInv /\ \A u \in Updater : AimInv(u)

\* The installation as others see it.
Predecessor == IF txn.state = "COMMITTED" /\ ~Journaled THEN txn.old ELSE 0
Running == {h \in Host : host[h] = "in"}
Data == IF Pending /\ Journaled THEN Before ELSE live

-----------------------------------------------------------------------------
(* Steps of the transaction and steps of the abstract update.              *)

LEMMA Mapped ==
  /\ Atomic!vars = <<ledger.current, Predecessor, ledger.high, Running, Data>>
  /\ Atomic!vars' = <<ledger'.current, Predecessor', ledger'.high, Running', Data'>>
BY DEF Atomic!vars, Predecessor, Running, Data, Before

LEMMA Stutters ==
  ASSUME ledger'.current = ledger.current, ledger'.high = ledger.high,
         Predecessor' = Predecessor, Running' = Running, Data' = Data
  PROVE  [Atomic!Next]_(Atomic!vars)
BY Mapped

LEMMA Accepts ==
  ASSUME NEW v \in Version, v > ledger.high, ledger'.current = ledger.current,
         ledger'.high = v, Predecessor' = 0, Running' = Running, Data' = Data
  PROVE  [Atomic!Next]_(Atomic!vars)
<1>1. Atomic!Accept(v) BY DEF Atomic!Accept, Predecessor, Running, Data, Before
<1> QED BY <1>1 DEF Atomic!Next

LEMMA Commits ==
  ASSUME NEW v \in Version, Running = {}, Running' = {}, v > ledger.current,
         v = ledger.high, ledger'.current = v, ledger'.high = v,
         IF Schema[v] = Schema[ledger.current]
         THEN Predecessor' = ledger.current /\ Data' = Data
         ELSE /\ Predecessor' = 0
              /\ \E R \in SUBSET Resource :
                   Data' = [r \in Resource |-> IF r \in R THEN [Data[r] EXCEPT !.gen = Schema[v]]
                                                          ELSE Data[r]]
  PROVE  [Atomic!Next]_(Atomic!vars)
<1>1. Atomic!Commit(v) BY DEF Atomic!Commit, Predecessor, Running, Data, Before
<1> QED BY <1>1 DEF Atomic!Next

LEMMA Reverts ==
  ASSUME Running = {}, Running' = {}, Predecessor # 0, ledger'.current = Predecessor,
         Predecessor' = 0, ledger'.high = ledger.high, Data' = Data
  PROVE  [Atomic!Next]_(Atomic!vars)
<1>1. Atomic!Revert BY DEF Atomic!Revert, Predecessor, Running, Data, Before
<1> QED BY <1>1 DEF Atomic!Next

LEMMA Writes ==
  ASSUME NEW r \in Resource, Running # {}, Running' = Running,
         Data' = [Data EXCEPT ![r] = [gen |-> IF Data[r].gen = 0 THEN Schema[ledger.current]
                                              ELSE Data[r].gen,
                                      work |-> Data[r].work + 1]],
         ledger'.current = ledger.current, ledger'.high = ledger.high,
         Predecessor' = Predecessor
  PROVE  [Atomic!Next]_(Atomic!vars)
<1>1. Atomic!Write(r) BY DEF Atomic!Write, Atomic!Written, Predecessor, Running, Data, Before
<1> QED BY <1>1 DEF Atomic!Next

LEMMA ComesAndGoes ==
  ASSUME NEW h \in Host, \/ h \notin Running /\ Running' = Running \union {h}
                         \/ h \in Running /\ Running' = Running \ {h},
         ledger'.current = ledger.current, ledger'.high = ledger.high,
         Predecessor' = Predecessor, Data' = Data
  PROVE  [Atomic!Next]_(Atomic!vars)
<1>1. Atomic!Admit(h) \/ Atomic!Exit(h)
  BY DEF Atomic!Admit, Atomic!Exit, Predecessor, Running, Data, Before
<1> QED BY <1>1 DEF Atomic!Next

-----------------------------------------------------------------------------
(* Steps that decide nothing: what others see stays, and so do the aims.   *)

LEMMA KeepsAtomic ==
  ASSUME IntentInv, Keeps, host' = host
  PROVE  IntentInv' /\ [Atomic!Next]_(Atomic!vars)
<1>1. /\ txn'.state = "NONE" <=> txn.state = "NONE"
      /\ txn'.state = "COMMITTED" <=> txn.state = "COMMITTED"
  BY DEF Keeps, KeepsFormat, Pending, Terminal
<1>2. Predecessor' = Predecessor BY <1>1 DEF Predecessor, Keeps, KeepsFormat
<1>3. Running' = Running BY DEF Running
<1>4. Data' = Data BY DEF Data, Keeps, KeepsFormat
<1>5. (Pending /\ Journaled /\ Stored \notin {"PREPARED", "RESTORED"})' =>
        Migrates(Before, After, txn.new)'
  BY DEF IntentInv, Keeps, KeepsFormat, Migrates
<1>6. IntentInv' BY <1>1, <1>5 DEF IntentInv, Keeps, KeepsFormat
<1> QED BY <1>2, <1>3, <1>4, <1>6, Stutters DEF Keeps, KeepsFormat

LEMMA OwnerAims ==
  ASSUME SafeInv, NEW u \in Updater, Exclusive(u),
         \A v \in Updater : v # u => op'[v] = op[v], AimInv(u)'
  PROVE  \A v \in Updater : AimInv(v)'
<1>1. \A v \in Updater : v # u => op'[v].at = "idle"
  BY OthersIdle DEF SafeInv, Exclusive
<1> QED BY <1>1 DEF AimInv, Early

LEMMA PassesAims ==
  ASSUME SafeInv, NEW u \in Updater, Exclusive(u), Passes(u)
  PROVE  \A v \in Updater : AimInv(v)'
<1>1. AimInv(u)' BY DEF Passes, AimInv, Early
<1> QED BY <1>1, OwnerAims DEF Passes

LEMMA QuietAtomic ==
  ASSUME SafeInv, Aims, NEW u \in Updater, Quiet(u), host' = host
  PROVE  Aims' /\ [Atomic!Next]_(Atomic!vars)
<1>1. IntentInv' /\ [Atomic!Next]_(Atomic!vars) BY KeepsAtomic DEF Aims, Quiet
<1>2. \A v \in Updater : AimInv(v)' BY PassesAims DEF Quiet
<1> QED BY <1>1, <1>2 DEF Aims

\* The locks, the leases and kills: the disk is left alone.
LEMMA LockAims ==
  ASSUME Aims, UNCHANGED disk,
         \A v \in Updater : op'[v].at \notin Early \/ op'[v] = op[v]
  PROVE  /\ Aims'
         /\ ledger' = ledger /\ Predecessor' = Predecessor /\ Data' = Data
<1>1. ledger' = ledger /\ journal' = journal /\ live' = live BY DEF disk
<1>2. /\ txn' = txn /\ (Pending' <=> Pending) /\ (Journaled' <=> Journaled)
      /\ Before' = Before /\ After' = After /\ Stored' = Stored
  BY <1>1 DEF txn, Pending, Journaled, Before, After, Stored
<1>3. IntentInv' BY <1>1, <1>2 DEF Aims, IntentInv, Migrates
<1>4. \A v \in Updater : AimInv(v)'
  BY <1>1 DEF Aims, AimInv, Early, Migrates
<1>5. Predecessor' = Predecessor /\ Data' = Data BY <1>1, <1>2 DEF Predecessor, Data
<1> QED BY <1>1, <1>3, <1>4, <1>5 DEF Aims

LEMMA EntryAtomic ==
  ASSUME SafeInv, Aims, NEW u \in Updater,
         \/ \E kind \in {"apply", "rollback", "recover"} : Start(u, kind)
         \/ LockRuntime(u) \/ Busy(u) \/ Return(u) \/ Crash(u)
  PROVE  Aims' /\ [Atomic!Next]_(Atomic!vars)
<1>1. ProcType /\ op \in [Updater -> OpType] BY TypeParts DEF SafeInv, ProcType
<1>2. UNCHANGED disk /\ host' = host
  BY DEF Start, LockRuntime, Decide, Busy, Return, Crash
<1>3. \A v \in Updater : op'[v].at \notin Early \/ op'[v] = op[v]
  <2>1. CASE \E kind \in {"apply", "rollback", "recover"} : Start(u, kind)
    <3>1. PICK kind : op' = [op EXCEPT ![u] = [IdleOp EXCEPT !.at = "lock", !.kind = kind]]
      BY <2>1 DEF Start
    <3>2. IdleOp \in OpType BY Bounds DEF IdleOp, OpType, Point, Kind, NoResult, Report
    <3>3. [IdleOp EXCEPT !.at = "lock", !.kind = kind].at = "lock" BY <3>2 DEF OpType
    <3> QED BY <1>1, <3>1, <3>3 DEF Early
  <2>2. CASE LockRuntime(u)
    <3>1. Passes(u) BY <1>1, <2>2, PassForms DEF Early, LockRuntime, Decide
    <3> QED BY <3>1 DEF Passes
  <2>3. CASE Busy(u) \/ Return(u) \/ Crash(u)
    <3>1. op' = [op EXCEPT ![u] = IdleOp] BY <2>3 DEF Busy, Return, Crash
    <3>2. IdleOp.at = "idle" BY DEF IdleOp
    <3> QED BY <1>1, <3>1, <3>2 DEF Early
  <2> QED BY <2>1, <2>2, <2>3
<1>4. Running' = Running BY <1>2 DEF Running
<1> QED BY <1>2, <1>3, <1>4, LockAims, Stutters

\* A lease is granted, refused, or ends.
LEMMA LeaseAtomic ==
  ASSUME SafeInv, Aims, NEW h \in Host, Launch(h) \/ Lease(h) \/ HostExit(h)
  PROVE  Aims' /\ [Atomic!Next]_(Atomic!vars)
<1>1. UNCHANGED disk /\ op' = op
  BY DEF Launch, Lease, LeaseLock, LeaseAdmit, LeaseRefused, HostExit
<1>2. Aims' /\ ledger' = ledger /\ Predecessor' = Predecessor /\ Data' = Data
  BY <1>1, LockAims
<1>3. PICK w : host' = [host EXCEPT ![h] = w]
  BY DEF Launch, Lease, LeaseLock, LeaseAdmit, LeaseRefused, HostExit
<1>4. host \in [Host -> {"out", "launching", "shared", "in"}]
  BY TypeParts DEF SafeInv, ProcType
<1>5. CASE host[h] # "in" /\ w = "in"
  <2>1. h \notin Running /\ Running' = Running \union {h} BY <1>3, <1>4, <1>5 DEF Running
  <2> QED BY <1>2, <2>1, ComesAndGoes
<1>6. CASE host[h] = "in" /\ w # "in"
  <2>1. h \in Running /\ Running' = Running \ {h} BY <1>3, <1>4, <1>6 DEF Running
  <2> QED BY <1>2, <2>1, ComesAndGoes
<1>7. CASE host[h] = "in" <=> w = "in"
  <2>1. Running' = Running BY <1>3, <1>4, <1>7 DEF Running
  <2> QED BY <1>2, <2>1, Stutters
<1> QED BY <1>5, <1>6, <1>7

\* A running program writes: in the installed format, or in the one it finds.
LEMMA HostWriteAtomic ==
  ASSUME SafeInv, Aims, NEW h \in Host, NEW r \in Resource, HostWrite(h, r)
  PROVE  Aims' /\ [Atomic!Next]_(Atomic!vars)
<1>1. /\ host[h] = "in" /\ UNCHANGED <<ledger, journal, op, host>>
      /\ live' = [live EXCEPT ![r] = [gen |-> IF live[r].gen = 0 THEN Schema[active]
                                              ELSE live[r].gen,
                                      work |-> live[r].work + 1]]
  BY DEF HostWrite
<1>2. ~Pending /\ active = ledger.current BY <1>1 DEF SafeInv, HostInv
<1>3. /\ txn' = txn /\ ~Pending' /\ (Journaled' <=> Journaled)
      /\ Before' = Before /\ After' = After /\ Stored' = Stored
  BY <1>1, <1>2 DEF txn, Pending, Journaled, Before, After, Stored
<1>4. IntentInv' BY <1>1, <1>3 DEF Aims, IntentInv
<1>5. \A v \in Updater : AimInv(v)' BY <1>1 DEF Aims, AimInv, Early, Migrates
<1>6. Data = live /\ Data' = live' BY <1>2, <1>3 DEF Data
<1>7. Predecessor' = Predecessor BY <1>3 DEF Predecessor
<1>8. Running # {} /\ Running' = Running BY <1>1 DEF Running
<1>9. [Atomic!Next]_(Atomic!vars) BY <1>1, <1>2, <1>6, <1>7, <1>8, Writes
<1> QED BY <1>4, <1>5, <1>9 DEF Aims

-----------------------------------------------------------------------------
(* _apply() before the intent: only a release that is already installed    *)
(* may raise what was accepted.                                            *)

LEMMA RaiseAtomic ==
  ASSUME SafeInv, Aims, NEW v \in Version, ~Pending, v = ledger.current, v >= ledger.high,
         SaveLedger([ledger EXCEPT !.high = v]), host' = host
  PROVE  IntentInv' /\ [Atomic!Next]_(Atomic!vars)
<1>1. DiskType BY TypeParts DEF SafeInv
<1>2. /\ ledger'.current = ledger.current /\ ledger'.high = v /\ txn' = txn
      /\ journal' = journal /\ live' = live
  BY <1>1 DEF SaveLedger, userData, DiskType, LedgerType, txn
<1>3. /\ (Pending' <=> Pending) /\ (Journaled' <=> Journaled) /\ Stored' = Stored
      /\ Before' = Before /\ After' = After
  BY <1>2 DEF Pending, Journaled, Stored, Before, After
<1>4. Predecessor' = Predecessor /\ Data' = Data /\ Running' = Running
  BY <1>2, <1>3 DEF Predecessor, Data, Running
<1>5. v \in Nat /\ ledger.high \in Nat
  BY <1>1, Bounds DEF DiskType, LedgerType, Version, Payload
<1>6. CASE v = ledger.high
  <2>1. IntentInv' BY <1>2, <1>3, <1>6 DEF Aims, IntentInv, Migrates
  <2> QED BY <1>2, <1>4, <1>6, <2>1, Stutters
<1>7. CASE v > ledger.high
  <2>1. txn.state = "NONE"
    <3>1. txn.state # "NONE" =>
            /\ txn.new = ledger.high /\ txn.old < txn.new /\ txn.old \in Nat
            /\ (ledger.current = txn.new \/ ledger.current = txn.old)
      BY <1>1 DEF Aims, IntentInv, SafeInv, DiskInv, LedgerInv, Version
    <3> QED BY <1>5, <1>7, <3>1
  <2>2. Predecessor = 0 BY <2>1 DEF Predecessor
  <2>3. IntentInv' BY <1>2, <1>3, <2>1 DEF IntentInv
  <2> QED BY <1>2, <1>4, <1>7, <2>2, <2>3, Accepts
<1> QED BY <1>5, <1>6, <1>7

LEMMA SelectAtomic ==
  ASSUME SafeInv, Aims, NEW u \in Updater, NEW v \in Version, Select(u, v)
  PROVE  Aims' /\ [Atomic!Next]_(Atomic!vars)
<1>1. Exclusive(u) /\ ProcType /\ DiskType
  BY TypeParts DEF Select, Exclusive, SafeInv
<1>2. op \in [Updater -> OpType] BY <1>1 DEF ProcType
<1>3. host' = host BY DEF Select, Attempt, Decide
<1>4. IntentInv' /\ [Atomic!Next]_(Atomic!vars)
  <2>1. CASE UNCHANGED disk BY <1>3, <2>1, DiskKeeps, KeepsAtomic DEF Aims
  <2>2. CASE /\ ~Pending /\ v = ledger.current /\ v >= ledger.high
             /\ SaveLedger([ledger EXCEPT !.high = v])
    BY <1>3, <2>2, RaiseAtomic
  <2> QED BY <2>1, <2>2 DEF Select, Attempt, Decide
<1>5. CASE Abandon(u) \/ Finish(u, "up_to_date", v)
  BY <1>1, <1>4, <1>5, PassForms, PassesAims DEF Aims
<1>6. CASE /\ UNCHANGED disk /\ v >= ledger.high
           /\ op' = [op EXCEPT ![u].at = "stage", ![u].id = used + 1, ![u].target = v]
  <2>1. op'[u].at = "stage" /\ op'[u].target = v /\ \A w \in Updater : w # u => op'[w] = op[w]
    BY <1>2, <1>6 DEF OpType
  <2>2. AimInv(u)' BY <1>6, <2>1 DEF AimInv, disk
  <2> QED BY <1>1, <1>4, <2>1, <2>2, OwnerAims DEF Aims
<1> QED BY <1>5, <1>6 DEF Select, Attempt, Decide

LEMMA StageAtomic ==
  ASSUME SafeInv, Aims, NEW u \in Updater, Stage(u)
  PROVE  Aims' /\ [Atomic!Next]_(Atomic!vars)
<1>0. op[u].at = "stage" BY DEF Stage
<1>1. /\ Exclusive(u) /\ ProcType /\ DiskType /\ PreparingInv(u) /\ op[u].id \in Txn
  BY <1>0, PreparingFacts
<1>2. Keeps /\ host' = host BY DiskKeeps, ProgramKeeps DEF Stage, Attempt, userData
<1>3. IntentInv' /\ [Atomic!Next]_(Atomic!vars) BY <1>2, KeepsAtomic DEF Aims
<1>4. CASE Abandon(u)
  BY <1>1, <1>3, <1>4, PassForms, PassesAims DEF Aims
<1>5. CASE /\ journal' = journal /\ ledger' = ledger
           /\ Goto(u, IF Schema[op[u].target] = Schema[ledger.current] THEN "prepare" ELSE "shadow")
  <2>1. PICK p \in {"prepare", "shadow"} :
          /\ Goto(u, p) /\ (p = "shadow" => Schema[op[u].target] # Schema[ledger.current])
    BY <1>5
  <2>2. p \in Point BY DEF Point
  <2>3. Goes(u, p) BY <1>1, <2>1, <2>2, GotoGoes
  <2>4. journal[op[u].id].state = "NONE"
    <3>1. op[u].id > used BY <1>0, <1>1 DEF PreparingInv, DiskType
    <3> QED BY <1>1, <3>1 DEF SafeInv, DiskInv, FreshInv
  <2>5. op[u].target >= ledger.high BY <1>0 DEF Aims, AimInv, Early
  <2>6. AimInv(u)' BY <1>5, <2>1, <2>3, <2>4, <2>5 DEF AimInv, Goes
  <2> QED BY <1>1, <1>3, <2>3, <2>6, OwnerAims DEF Aims, Goes
<1> QED BY <1>4, <1>5 DEF Stage, Attempt, userData

LEMMA ShadowAtomic ==
  ASSUME SafeInv, Aims, NEW u \in Updater, Shadow(u)
  PROVE  Aims' /\ [Atomic!Next]_(Atomic!vars)
<1>0. op[u].at = "shadow" BY DEF Shadow
<1>1. Exclusive(u) /\ ProcType BY <1>0, PreparingFacts
<1>2. Keeps /\ host' = host BY <1>0, CopiesKeep, DiskKeeps DEF Shadow, Attempt
<1>3. IntentInv' /\ [Atomic!Next]_(Atomic!vars) BY <1>2, KeepsAtomic DEF Aims
<1>4. CASE Abandon(u)
  BY <1>1, <1>3, <1>4, PassForms, PassesAims DEF Aims
<1>5. CASE Goto(u, "migrate")
  <2>1. Goes(u, "migrate") BY <1>1, <1>5, GotoGoes DEF Point
  <2>2. ledger'.current = ledger.current /\ ledger'.high = ledger.high
    BY <1>2 DEF Keeps, KeepsFormat
  <2>3. AimInv(u)' BY <1>0, <2>1, <2>2 DEF Aims, AimInv, Early, Goes
  <2> QED BY <1>1, <1>3, <2>1, <2>3, OwnerAims DEF Aims, Goes
<1> QED BY <1>4, <1>5 DEF Shadow, Attempt

LEMMA MigrateAtomic ==
  ASSUME SafeInv, Aims, NEW u \in Updater, NEW R \in SUBSET Resource, Migrate(u, R)
  PROVE  Aims' /\ [Atomic!Next]_(Atomic!vars)
<1> DEFINE t == op[u].id
           after == [r \in Resource |->
                       IF r \in R THEN [live[r] EXCEPT !.gen = Schema[op[u].target]] ELSE live[r]]
           j == [journal[t] EXCEPT !.state = "VALIDATED", !.after = after]
<1>0. op[u].at = "migrate" BY DEF Migrate
<1>1. /\ Exclusive(u) /\ ProcType /\ DiskType /\ PreparingInv(u) /\ t \in Txn
  BY <1>0, PreparingFacts
<1>2. Keeps /\ host' = host BY <1>0, CopiesKeep, DiskKeeps DEF Migrate, Attempt
<1>3. IntentInv' /\ [Atomic!Next]_(Atomic!vars) BY <1>2, KeepsAtomic DEF Aims
<1>4. CASE Abandon(u)
  BY <1>1, <1>3, <1>4, PassForms, PassesAims DEF Aims
<1>5. CASE journal' = [journal EXCEPT ![t] = j] /\ Goto(u, "prepare")
  <2>1. Goes(u, "prepare") BY <1>1, <1>5, GotoGoes DEF Point
  <2>2. ledger'.current = ledger.current /\ ledger'.high = ledger.high
    BY <1>2 DEF Keeps, KeepsFormat
  <2>3. journal[t].before = live BY <1>0, <1>1 DEF PreparingInv
  <2>4. Migrates(live, after, op[u].target) BY DEF Migrates
  <2>5. journal'[t].before = live /\ journal'[t].after = after
    <3>1. journal[t] \in JournalType BY <1>1 DEF DiskType
    <3> HIDE DEF after
    <3>2. j.before = live /\ j.after = after BY <2>3, <3>1 DEF JournalType
    <3> HIDE DEF j
    <3> QED BY <1>1, <1>5, <3>2 DEF DiskType
  <2> HIDE DEF after
  <2>6. op[u].target >= ledger.high /\ Schema[op[u].target] # Schema[ledger.current]
    BY <1>0 DEF Aims, AimInv, Early
  <2>7. AimInv(u)' BY <2>1, <2>2, <2>4, <2>5, <2>6 DEF AimInv, Goes, Migrates
  <2> QED BY <1>1, <1>3, <2>1, <2>7, OwnerAims DEF Aims, Goes
<1> QED BY <1>4, <1>5 DEF Migrate, Attempt

-----------------------------------------------------------------------------
(* The steps that decide.                                                  *)

\* No host is running beside an operation that owns the installation.
LEMMA NobodyRuns ==
  ASSUME SafeInv, NEW u \in Updater, Exclusive(u), host' = host
  PROVE  Running = {} /\ Running' = {}
BY DEF SafeInv, NoReader, Reading, Running

\* The intent accepts its release, unless an earlier attempt has; the data is
\* still what it was.
LEMMA PrepareAtomic ==
  ASSUME SafeInv, DataKnown, Aims, NEW u \in Updater, Prepare(u)
  PROVE  Aims' /\ [Atomic!Next]_(Atomic!vars)
<1> DEFINE t == op[u].id
           intent == [id |-> t, state |-> "PREPARED", old |-> ledger.current,
                      new |-> op[u].target, cause |-> "none"]
           write == SaveLedger([ledger EXCEPT !.high = op[u].target, !.txn = intent])
<1>0. op[u].at = "prepare" BY DEF Prepare
<1>1. /\ Exclusive(u) /\ ~Pending /\ PreparingInv(u) /\ ProcType /\ DiskType /\ t \in Txn
      /\ op[u].target \in Version /\ op[u].target > ledger.current
  BY <1>0, PreparingFacts
<1>2. Migrated(u) /\ AimInv(u) BY <1>0, <1>1 DEF PreparingInv, Aims
<1>3. Passes(u) BY <1>1, PassForms DEF Early, Prepare, Attempt
<1>4. host' = host BY DEF Prepare, Attempt
<1>5. CASE UNCHANGED disk
  BY <1>1, <1>3, <1>4, <1>5, DiskKeeps, KeepsAtomic, PassesAims DEF Aims
<1>6. CASE write
  <2>1. /\ ledger'.current = ledger.current /\ ledger'.high = op[u].target
        /\ txn'.id = t /\ txn'.new = op[u].target
        /\ txn'.old = ledger.current /\ txn'.state = "PREPARED"
    BY <1>1, <1>6 DEF SaveLedger, DiskType, LedgerType, txn
  <2>2. journal' = journal /\ live' = live BY <1>6 DEF SaveLedger, userData
  <2>3. t # 0 BY <1>1, Bounds DEF Txn
  <2>4. Pending' /\ (Journaled' <=> journal[t].state # "NONE")
    BY <2>1, <2>2, <2>3 DEF Pending, Terminal, Journaled
  <2>5. Journaled' =>
          /\ Before' = live /\ After' = journal[t].after
          /\ Schema[op[u].target] # Schema[ledger.current]
          /\ Migrates(live, journal[t].after, op[u].target)
    BY <1>0, <1>2, <2>1, <2>2, <2>4 DEF Migrated, AimInv, Before, After
  <2>6. IntentInv' BY <2>1, <2>5 DEF IntentInv, Migrates
  <2>7. Predecessor' = 0 /\ Data' = Data /\ Running' = Running
    BY <1>1, <1>4, <2>1, <2>2, <2>4, <2>5 DEF Predecessor, Data, Running
  <2>8. op[u].target >= ledger.high BY <1>0, <1>2 DEF AimInv, Early
  <2>9. op[u].target \in Nat /\ ledger.high \in Nat /\ ledger.current \in Nat
    BY <1>1, Bounds DEF DiskType, LedgerType, Version, Payload
  <2>10. op[u].target = ledger.high => Predecessor = 0
    BY <1>1, <2>9 DEF Aims, IntentInv, SafeInv, DiskInv, LedgerInv, Predecessor
  <2>11. [Atomic!Next]_(Atomic!vars)
    <3>1. CASE op[u].target = ledger.high BY <2>1, <2>7, <2>10, <3>1, Stutters
    <3>2. CASE op[u].target > ledger.high BY <1>1, <2>1, <2>7, <3>2, Accepts
    <3> QED BY <2>8, <2>9, <3>1, <3>2
  <2> QED BY <1>1, <1>3, <2>6, <2>11, PassesAims DEF Aims
<1> QED BY <1>4, <1>5, <1>6 DEF Prepare, Attempt

\* The commit changes the release and its data in one step.
LEMMA CommitAtomic ==
  ASSUME SafeInv, DataKnown, Aims, NEW u \in Updater, Commit(u)
  PROVE  Aims' /\ [Atomic!Next]_(Atomic!vars)
<1> DEFINE write == SaveLedger([ledger EXCEPT !.current = txn.new, !.txn.state = "COMMITTED"])
<1>0. op[u].at = "commit" /\ op[u].at \in Switching BY DEF Commit, Switching
<1>1. /\ Exclusive(u) /\ Pending /\ ProcType /\ DiskType /\ DataInv(u)
      /\ txn.id \in Txn /\ txn.old \in Version /\ txn.new \in Version
  BY <1>0, SwitchingFacts
<1>2. Passes(u) BY <1>1, PassForms DEF Early, Commit, Attempt
<1>3. host' = host BY DEF Commit, Attempt
<1>4. CASE UNCHANGED disk
  BY <1>1, <1>2, <1>3, <1>4, DiskKeeps, KeepsAtomic, PassesAims DEF Aims
<1>5. CASE write
  <2>1. /\ ledger'.current = txn.new /\ ledger'.high = ledger.high
        /\ txn'.id = txn.id /\ txn'.new = txn.new
        /\ txn'.old = txn.old /\ txn'.state = "COMMITTED"
    BY <1>1, <1>5 DEF SaveLedger, DiskType, LedgerType, TxnType, txn
  <2>2. journal' = journal /\ live' = live BY <1>5 DEF SaveLedger, userData
  <2>3. ~Pending' /\ (Journaled' <=> Journaled)
    BY <2>1, <2>2 DEF Pending, Terminal, Journaled
  <2>4. txn.state \notin {"NONE", "COMMITTED", "ROLLED_BACK"} BY <1>1 DEF Pending, Terminal
  <2>5. txn.new = ledger.high /\ ledger.current = txn.old /\ txn.new > ledger.current
    BY <1>1, <2>4 DEF Aims, IntentInv, SafeInv, DiskInv, LedgerInv, Version
  <2>6. Journaled <=> Schema[txn.new] # Schema[ledger.current]
    BY <2>4, <2>5 DEF Aims, IntentInv, DataKnown, FormatInv
  <2>7. IntentInv' BY <2>1, <2>3, <2>5, <2>6 DEF IntentInv
  <2>8. Running = {} /\ Running' = {} BY <1>1, <1>3, NobodyRuns
  <2>9. Data' = live BY <2>2, <2>3 DEF Data
  <2>10. CASE ~Journaled
    <3>1. Predecessor' = ledger.current /\ Data' = Data
      BY <2>1, <2>3, <2>5, <2>9, <2>10 DEF Predecessor, Data
    <3>2. [Atomic!Next]_(Atomic!vars)
      BY <1>1, <2>1, <2>5, <2>6, <2>8, <2>10, <3>1, Commits
    <3> QED BY <1>1, <1>2, <2>7, <3>2, PassesAims DEF Aims
  <2>11. CASE Journaled
    <3>1. Stored = "PUBLISHED" /\ \A r \in Resource : Moved(r)
      BY <1>0, <1>1, <2>11 DEF DataInv
    <3>2. \A r \in Resource : live[r] = After[r] BY <3>1 DEF Moved, Places
    <3>3. Migrates(Before, After, txn.new) BY <1>1, <2>11, <3>1 DEF Aims, IntentInv
    <3>4. Data = Before BY <1>1, <2>11 DEF Data
    <3>5. live \in [Resource -> Content] BY <1>1 DEF DiskType
    <3>6. live = [r \in Resource |-> IF r \in {q \in Resource : live[q] # Data[q]}
                                     THEN [Data[r] EXCEPT !.gen = Schema[txn.new]]
                                     ELSE Data[r]]
      BY <3>2, <3>3, <3>4, <3>5 DEF Migrates
    <3>7. \E R \in SUBSET Resource :
            Data' = [r \in Resource |-> IF r \in R THEN [Data[r] EXCEPT !.gen = Schema[txn.new]]
                                                   ELSE Data[r]]
      BY <2>9, <3>6
    <3>8. Predecessor' = 0 BY <2>3, <2>11 DEF Predecessor
    <3>9. [Atomic!Next]_(Atomic!vars)
      BY <1>1, <2>1, <2>5, <2>6, <2>8, <2>11, <3>7, <3>8, Commits
    <3> QED BY <1>1, <1>2, <2>7, <3>9, PassesAims DEF Aims
  <2> QED BY <2>10, <2>11
<1> QED BY <1>3, <1>4, <1>5 DEF Commit, Attempt

\* The intent of a rollback is the return to the predecessor.
LEMMA RollbackAtomic ==
  ASSUME SafeInv, Aims, NEW u \in Updater, Preflight(u) \/ Intent(u)
  PROVE  Aims' /\ [Atomic!Next]_(Atomic!vars)
<1>1. Exclusive(u) /\ ProcType /\ DiskType
  BY TypeParts DEF Preflight, Intent, Exclusive, SafeInv
<1>2. Passes(u)
  <2>1. CASE Preflight(u) BY <1>1, <2>1, PassForms DEF Early, Preflight, Decide
  <2>2. CASE Intent(u) BY <1>1, <2>2, PassForms DEF Early, Intent, Attempt
  <2> QED BY <2>1, <2>2
<1>3. host' = host BY DEF Preflight, Intent, Attempt, Decide
<1>4. CASE UNCHANGED disk
  BY <1>1, <1>2, <1>3, <1>4, DiskKeeps, KeepsAtomic, PassesAims DEF Aims
<1>5. CASE /\ Intent(u)
           /\ SaveLedger([ledger EXCEPT !.current = txn.old, !.txn.state = "ROLLBACK",
                                        !.txn.cause = "user"])
  <2>1. txn.state = "COMMITTED" /\ ~Journaled /\ ~Pending
    BY <1>5 DEF Intent, SafeInv, OpInv, PointInv, RecoverInv, Pending, Terminal
  <2>2. /\ ledger'.current = txn.old /\ ledger'.high = ledger.high
        /\ txn'.id = txn.id /\ txn'.new = txn.new /\ txn'.state = "ROLLBACK"
    BY <1>1, <1>5 DEF SaveLedger, DiskType, LedgerType, TxnType, txn
  <2>3. journal' = journal /\ live' = live BY <1>5 DEF SaveLedger, userData
  <2>4. ~Journaled' BY <2>1, <2>2, <2>3 DEF Journaled
  <2>5. IntentInv' BY <2>1, <2>2, <2>4 DEF Aims, IntentInv
  <2>6. Predecessor = txn.old /\ txn.old # 0 /\ Predecessor' = 0
    BY <2>1, <2>2, Bounds DEF Predecessor, SafeInv, DiskInv, LedgerInv
  <2>7. Data' = Data BY <2>1, <2>3, <2>4 DEF Data
  <2>8. Running = {} /\ Running' = {} BY <1>1, <1>3, NobodyRuns
  <2>9. [Atomic!Next]_(Atomic!vars) BY <2>2, <2>6, <2>7, <2>8, Reverts
  <2> QED BY <1>1, <1>2, <2>5, <2>9, PassesAims DEF Aims
<1> QED BY <1>4, <1>5 DEF Preflight, Intent, Attempt, Decide

\* The end of a recovery: nobody has seen the transaction.
LEMMA CloseAtomic ==
  ASSUME SafeInv, Aims, NEW u \in Updater, Close(u)
  PROVE  Aims' /\ [Atomic!Next]_(Atomic!vars)
<1>0. op[u].at = "close" /\ op[u].at \in Recovering BY DEF Close, Recovering
<1>1. Exclusive(u) /\ Pending /\ ProcType /\ DiskType /\ RecoverInv(u) /\ Recoverable
  BY <1>0, RecoveringFacts, TakeBackFacts
<1>2. Passes(u) BY <1>1, PassForms DEF Early, Close, Attempt, Decide
<1>3. host' = host BY DEF Close, Attempt, Decide
<1>4. CASE UNCHANGED disk
  BY <1>1, <1>2, <1>3, <1>4, DiskKeeps, KeepsAtomic, PassesAims DEF Aims
<1>5. CASE SaveState("ROLLED_BACK")
  <2>1. /\ ledger'.current = ledger.current /\ ledger'.high = ledger.high
        /\ txn'.id = txn.id /\ txn'.new = txn.new
        /\ txn'.old = txn.old /\ txn'.state = "ROLLED_BACK"
    BY <1>1, <1>5 DEF SaveState, SaveLedger, DiskType, LedgerType, TxnType, txn
  <2>2. journal' = journal /\ live' = live BY <1>5 DEF SaveState, SaveLedger, userData
  <2>3. ~Pending' /\ (Journaled' <=> Journaled)
    BY <2>1, <2>2 DEF Pending, Terminal, Journaled
  <2>4. Journaled => live = Before
    <3>1. Journaled => Stored = "RESTORED" BY <1>0, <1>1 DEF RecoverInv
    <3> QED BY <1>1, <3>1 DEF Recoverable, Stored, Before
  <2>5. txn.state \notin {"NONE", "COMMITTED"} BY <1>1 DEF Pending, Terminal
  <2>6. Predecessor' = Predecessor /\ Data' = Data /\ Running' = Running
    BY <1>3, <2>1, <2>2, <2>3, <2>4, <2>5 DEF Predecessor, Data, Running
  <2>7. IntentInv' BY <2>1, <2>3, <2>5 DEF Aims, IntentInv
  <2> QED BY <1>1, <1>2, <2>1, <2>6, <2>7, PassesAims, Stutters DEF Aims
<1> QED BY <1>4, <1>5 DEF Close, Attempt, Decide

-----------------------------------------------------------------------------
(* The refinement.                                                         *)

LEMMA InitAtomic == Init => Aims /\ Atomic!Init
<1> SUFFICES ASSUME Init PROVE Aims /\ Atomic!Init
  OBVIOUS
<1>1. /\ txn.state = "NONE" /\ txn.id = 0 /\ ledger.current = 1 /\ ledger.high = 0
      /\ live = [r \in Resource |-> IF r \in Seeded THEN [gen |-> Schema[1], work |-> 0]
                                    ELSE Absent]
      /\ \A h \in Host : host[h] = "out"
  BY DEF Init, txn, NoTxn
<1>2. ~Pending /\ ~Journaled BY <1>1 DEF Pending, Terminal, Journaled
<1>3. \A u \in Updater : op[u].at = "idle" BY DEF Init, IdleOp
<1>4. Aims BY <1>1, <1>2, <1>3 DEF Aims, IntentInv, AimInv, Early
<1>5. live \in [Resource -> {Absent, [gen |-> Schema[1], work |-> 0]}] BY <1>1
<1>6. Atomic!Init BY <1>1, <1>2, <1>5 DEF Atomic!Init, Atomic!Absent, Absent
<1> QED BY <1>4, <1>6

LEMMA NextAtomic ==
  SafeInv /\ DataKnown /\ Aims /\ [Next]_vars => Aims' /\ [Atomic!Next]_(Atomic!vars)
<1> SUFFICES ASSUME SafeInv, DataKnown, Aims, [Next]_vars
             PROVE  Aims' /\ [Atomic!Next]_(Atomic!vars)
  OBVIOUS
<1>1. ASSUME NEW u \in Updater,
             \/ \E kind \in {"apply", "rollback", "recover"} : Start(u, kind)
             \/ LockRuntime(u) \/ Busy(u) \/ Return(u) \/ Crash(u)
      PROVE  Aims' /\ [Atomic!Next]_(Atomic!vars)
  BY <1>1, EntryAtomic
<1>2. ASSUME NEW u \in Updater, ApplyStep(u)
      PROVE  Aims' /\ [Atomic!Next]_(Atomic!vars)
  <2>1. CASE \E v \in Version : Select(u, v) BY <2>1, SelectAtomic
  <2>2. CASE Stage(u) BY <2>2, StageAtomic
  <2>3. CASE Shadow(u) BY <2>3, ShadowAtomic
  <2>4. CASE \E R \in SUBSET Resource : Migrate(u, R) BY <2>4, MigrateAtomic
  <2>5. CASE Prepare(u) BY <2>5, PrepareAtomic
  <2>6. CASE SaveOld(u) \/ PublishNew(u) \/ CheckNew(u) \/ MoveOld(u) \/ MoveNew(u) \/ Health(u)
    <3>1. host' = host
      BY <2>6 DEF SaveOld, PublishNew, CheckNew, MoveOld, MoveNew, Health, Switch, Attempt, Decide
    <3> QED BY <2>6, <3>1, SwitchQuiet, QuietAtomic
  <2>7. CASE PublishData(u) \/ DataOld(u) \/ DataNew(u) \/ DataPublished(u)
    <3>1. host' = host
      BY <2>7 DEF PublishData, DataOld, DataNew, DataPublished, Attempt, Decide
    <3> QED BY <2>7, <3>1, ExchangeQuiet, QuietAtomic
  <2>8. CASE Commit(u) BY <2>8, CommitAtomic
  <2> QED BY <1>2, <2>1, <2>2, <2>3, <2>4, <2>5, <2>6, <2>7, <2>8 DEF ApplyStep
<1>3. ASSUME NEW u \in Updater, RollbackStep(u)
      PROVE  Aims' /\ [Atomic!Next]_(Atomic!vars)
  BY <1>3, RollbackAtomic DEF RollbackStep
<1>4. ASSUME NEW u \in Updater, RecoverStep(u)
      PROVE  Aims' /\ [Atomic!Next]_(Atomic!vars)
  <2>1. CASE Close(u) BY <2>1, CloseAtomic
  <2>2. CASE \/ RecoverData(u) \/ RecoverProgram(u) \/ RestoreResource(u) \/ DataRestored(u)
             \/ Inspect(u) \/ Unpublish(u) \/ Restore(u)
    <3>1. host' = host
      BY <2>2 DEF RecoverData, RecoverProgram, RestoreResource, DataRestored, Inspect,
                  Unpublish, Restore, Switch, Attempt, Decide
    <3> QED BY <2>2, <3>1, RecoverQuiet, QuietAtomic
  <2> QED BY <1>4, <2>1, <2>2 DEF RecoverStep
<1>5. ASSUME NEW h \in Host, Launch(h) \/ Lease(h) \/ HostExit(h)
      PROVE  Aims' /\ [Atomic!Next]_(Atomic!vars)
  BY <1>5, LeaseAtomic
<1>6. ASSUME NEW h \in Host, NEW r \in Resource, HostWrite(h, r)
      PROVE  Aims' /\ [Atomic!Next]_(Atomic!vars)
  BY <1>6, HostWriteAtomic
<1>7. CASE UNCHANGED vars
  <2>1. UNCHANGED disk /\ op' = op /\ Running' = Running BY <1>7 DEF vars, Running
  <2> QED BY <2>1, LockAims, Stutters
<1> QED BY <1>1, <1>2, <1>3, <1>4, <1>5, <1>6, <1>7 DEF Next, Step

\* Whatever crashes, failing writes and recoveries happen underneath, what a
\* host sees of a managed installation are the atomic steps of AtomicUpdate:
\* _apply changes the release and its data at once, at its commit, a rollback
\* takes effect at its intent, and recovery decides nothing.
THEOREM TransactionIsAtomic == Spec => ImplementsAtomicUpdate
BY InitAtomic, NextAtomic, DataSafety, PTL DEF Spec, ImplementsAtomicUpdate, Atomic!Spec
=============================================================================
