----------------------- MODULE ProcessManager_proofs -----------------------
(***************************************************************************)
(* Theorems about ProcessManager: what its runs check on small task trees  *)
(* holds for every finite set of children, every dependency relation and   *)
(* every set of claims.                                                    *)
(***************************************************************************)
EXTENDS ProcessManager, FiniteSetTheorems, TLAPS

-----------------------------------------------------------------------------
(* The status algebra.                                                     *)

USE RootAssumption, ChildAssumption, DependencyAssumption, ClaimAssumption,
    SlotAssumption, KillerAssumption, UserAssumption, SaveAssumption,
    QuestionAssumption

AnyStatus == Status \union {"none"}

\* A worker's call leaves a status behind, whatever it proposes.
LEMMA WorkerStatus ==
  ASSUME NEW s \in AnyStatus, NEW t \in Status, NEW c \in BOOLEAN, NEW f \in BOOLEAN
  PROVE  AfterOrFailed(s, t, c, f) \in AnyStatus
BY DEF AfterOrFailed, After, Effective, Permitted, Sticky, Rejected, AnyStatus, Status,
       Terminal, Recovery, Active

\* So does a call whose exception is not handled, unless it raises.
LEMMA CallStatus ==
  ASSUME NEW s \in AnyStatus, NEW t \in Status, NEW c \in BOOLEAN, NEW f \in BOOLEAN,
         After(s, t, c, f) # Rejected
  PROVE  After(s, t, c, f) \in AnyStatus
BY DEF After, Effective, Permitted, Sticky, Rejected, AnyStatus, Status,
       Terminal, Recovery, Active

LEMMA UncertainStatus ==
  ASSUME NEW s \in AnyStatus
  PROVE  AfterUncertainCommit(s) \in AnyStatus
BY DEF AfterUncertainCommit, AnyStatus, Status, Terminal, Recovery, Active

-----------------------------------------------------------------------------
(* Type correctness.                                                       *)

LEMMA TypeInit == Init => TypeOK
BY DEF Init, TypeOK, Proc, Point, IdleKill, IdleAnswer, KillRecord, Status,
       Terminal, Recovery, Active

LEMMA Statuses ==
  /\ {"running", "waiting", "awaiting_user", "failed", "cancelled", "completed",
      "timed_out", "cancelling"} \subseteq Status
  /\ Killable \subseteq Status
BY DEF Killable, Status, Terminal, Recovery, Active

\* What a worker's transition, or one that does not raise, does to `status`.
LEMMA WorkerType ==
  ASSUME TypeOK, NEW p \in Proc, NEW t \in Status, Worker(p, t)
  PROVE  status' \in [Proc -> AnyStatus]
<1>1. AfterOrFailed(status[p], t, cancelled[p], finalized[p]) \in AnyStatus
  BY WorkerStatus DEF TypeOK, AnyStatus
<1>. QED
  BY <1>1 DEF TypeOK, Worker, AnyStatus

LEMMA CallType ==
  ASSUME TypeOK, NEW p \in Proc, NEW t \in Status, NEW c \in BOOLEAN, NEW f \in BOOLEAN,
         After(status[p], t, c, f) # Rejected,
         status' = [status EXCEPT ![p] = After(status[p], t, c, f)]
  PROVE  status' \in [Proc -> AnyStatus]
<1>1. After(status[p], t, c, f) \in AnyStatus
  BY CallStatus DEF TypeOK, AnyStatus
<1>. QED
  BY <1>1 DEF TypeOK, AnyStatus

LEMMA KillMoveType ==
  ASSUME TypeOK, NEW k \in Killers, KillMove(k)
  PROVE  status' \in [Proc -> AnyStatus]
<1>. DEFINE t == kill[k].at
            u == IF /\ kill[k].saw \in {"awaiting_user", "resume_available",
                                        "recovery_review_required"}
                    /\ ~Alive(t)
                 THEN "cancelled" ELSE "cancelling"
            a == After(status[t], u, cancelled[t], finalized[t])
<1>1. t \in Proc /\ u \in Status
  BY Statuses DEF TypeOK, KillRecord
<1>2. cancelled[t] \in BOOLEAN /\ finalized[t] \in BOOLEAN /\ status \in [Proc -> AnyStatus]
  BY <1>1 DEF TypeOK, AnyStatus
<1>3. \/ status' = status
      \/ a # Rejected /\ status' = [status EXCEPT ![t] = a]
  BY DEF KillMove
<1>4. a # Rejected => a \in AnyStatus
  <2>1. status[t] \in AnyStatus
    BY <1>1, <1>2
  <2>. HIDE DEF t, u
  <2>. QED
    BY <1>1, <1>2, <2>1, CallStatus
<1>. HIDE DEF t, a
<1>. QED
  BY <1>1, <1>2, <1>3, <1>4

LEMMA ClosureForked ==
  ASSUME TypeOK, NEW p \in Proc
  PROVE  Closure(p) \subseteq Proc
BY DEF Closure, Forked

LEMMA KillCallType ==
  ASSUME TypeOK, NEW k \in Killers, NEW p \in Proc, NEW job \in {"user", "reap"},
         KillCall(k, p, job)
  PROVE  TypeOK'
<1>1. Closure(p) \in SUBSET Proc
  BY ClosureForked
<1>. DEFINE r == [phase |-> "pick", job |-> job, target |-> p,
                  scope |-> Closure(p), todo |-> Closure(p), at |-> p, saw |-> "none"]
<1>2. r \in KillRecord
  BY <1>1 DEF KillRecord
<1>3. kill' = [kill EXCEPT ![k] = r]
  BY DEF KillCall
<1>4. kill' \in [Killers -> KillRecord]
  BY <1>2, <1>3 DEF TypeOK
<1>. QED
  BY <1>4 DEF TypeOK, KillCall, procVars, runVars, resumeVars

LEMMA TypeStep == TypeOK /\ [Next]_vars => TypeOK'
<1>. SUFFICES ASSUME TypeOK, [Next]_vars PROVE TypeOK'
  OBVIOUS
<1>. USE Statuses DEF TypeOK, procVars, runVars, resumeVars, deskVars, AnyStatus
<1>1. ASSUME NEW p \in Child, Fork(p) PROVE TypeOK'
  BY <1>1 DEF Fork, Proc
<1>2. ASSUME NEW p \in Child, Start(p) PROVE TypeOK'
  BY <1>2 DEF Start, Launch, Proc, Point
<1>3. ASSUME NEW p \in Child, DepsCancelled(p) PROVE TypeOK'
  <2>1. status' \in [Proc -> AnyStatus]
    BY <1>3, WorkerType DEF DepsCancelled, Proc
  <2>. QED
    BY <1>3, <2>1 DEF DepsCancelled, Proc, Point
<1>4. ASSUME NEW p \in Child, DepsFailed(p) PROVE TypeOK'
  <2>1. status' \in [Proc -> AnyStatus]
    BY <1>4, WorkerType DEF DepsFailed, Proc
  <2>. QED
    BY <1>4, <2>1 DEF DepsFailed, Proc, Point
<1>5. ASSUME NEW p \in Child, DepsReady(p) PROVE TypeOK'
  BY <1>5 DEF DepsReady, Proc, Point
<1>6. ASSUME NEW p \in Child, TakeSlot(p) PROVE TypeOK'
  BY <1>6 DEF TakeSlot, Proc, Point
<1>7. ASSUME NEW p \in Child, ClaimRefused(p) PROVE TypeOK'
  <2>1. status' \in [Proc -> AnyStatus]
    BY <1>7, WorkerType DEF ClaimRefused, Proc
  <2>. QED
    BY <1>7, <2>1 DEF ClaimRefused, Proc, Point
<1>8. ASSUME NEW p \in Child, Claim(p) PROVE TypeOK'
  BY <1>8 DEF Claim, Proc, Point
<1>9. ASSUME NEW p \in Proc, Admit(p) PROVE TypeOK'
  <2>1. status' \in [Proc -> AnyStatus]
    BY <1>9, WorkerType DEF Admit
  <2>. QED
    BY <1>9, <2>1 DEF Admit, Point
<1>10. ASSUME NEW p \in Proc, AdmitFailed(p) PROVE TypeOK'
  <2>1. status' \in [Proc -> AnyStatus]
    BY <1>10, WorkerType DEF AdmitFailed
  <2>. QED
    BY <1>10, <2>1 DEF AdmitFailed, Point
<1>11. ASSUME NEW p \in Proc, LoopEnd(p) PROVE TypeOK'
  <2>1. status' \in [Proc -> AnyStatus]
    BY <1>11, WorkerType DEF LoopEnd
  <2>. QED
    BY <1>11, <2>1 DEF LoopEnd, Point
<1>12. ASSUME NEW p \in Child, LoopAsk(p) PROVE TypeOK'
  <2>1. status' \in [Proc -> AnyStatus]
    BY <1>12, WorkerType DEF LoopAsk, Proc
  <2>2. asks' \in [Child -> Nat]
    BY <1>12 DEF LoopAsk
  <2>3. pending' \in [Proc -> BOOLEAN]
    BY <1>12 DEF LoopAsk, Proc
  <2>4. thread' \in [Proc -> Point]
    BY <1>12 DEF LoopAsk, Proc, Point
  <2>. QED
    BY <1>12, <2>1, <2>2, <2>3, <2>4 DEF LoopAsk
<1>13. ASSUME NEW p \in Proc, Retire(p) PROVE TypeOK'
  <2>1. status' \in [Proc -> AnyStatus]
    BY <1>13, WorkerType DEF Retire
  <2>2. freeSlots' \in Nat
    BY <1>13 DEF Retire
  <2>3. thread' \in [Proc -> Point]
    BY <1>13 DEF Retire, Point
  <2>. QED
    BY <1>13, <2>1, <2>2, <2>3 DEF Retire
<1>14. ASSUME NEW p \in Proc, Release(p) PROVE TypeOK'
  BY <1>14 DEF Release, Point
<1>15. ASSUME NEW p \in Proc, Checkpoint(p) PROVE TypeOK'
  <2>1. AfterOrFailed(status[p], "failed", cancelled[p], FALSE) \in AnyStatus
    BY WorkerStatus
  <2>2. status' \in [Proc -> AnyStatus]
    BY <1>15, <2>1 DEF Checkpoint
  <2>3. finalized' \in [Proc -> BOOLEAN]
    BY <1>15 DEF Checkpoint
  <2>4. thread' \in [Proc -> Point]
    BY <1>15 DEF Checkpoint, Point
  <2>. QED
    BY <1>15, <2>2, <2>3, <2>4 DEF Checkpoint
<1>16. ASSUME NEW p \in Proc, Settle(p) PROVE TypeOK'
  BY <1>16 DEF Settle, Point
<1>17. ASSUME NEW p \in Child, ResumeCheck(p) PROVE TypeOK'
  BY <1>17 DEF ResumeCheck
<1>18. ASSUME NEW p \in Child, ResumeStart(p) PROVE TypeOK'
  <2>1. CASE Alive(p)
    BY <1>18, <2>1 DEF ResumeStart
  <2>2. CASE ~Alive(p)
    <3>1. Launch(p)
      BY <1>18, <2>2 DEF ResumeStart
    <3>2. /\ thread' \in [Proc -> Point]
          /\ finalized' \in [Proc -> BOOLEAN]
          /\ continuation' \in [Child -> BOOLEAN]
      BY <3>1 DEF Launch, Point, Proc
    <3>. QED
      BY <1>18, <3>2 DEF ResumeStart
  <2>. QED
    BY <2>1, <2>2
<1>19. ASSUME NEW p \in Child, AnswerCheck(p) PROVE TypeOK'
  BY <1>19 DEF AnswerCheck, Proc
<1>20. ASSUME AnswerApply PROVE TypeOK'
  <2>1. status' \in [Proc -> AnyStatus]
    BY <1>20, CallType DEF AnswerApply
  <2>. QED
    BY <1>20, <2>1 DEF AnswerApply, IdleAnswer, Proc
<1>21. ASSUME AnswerSave PROVE TypeOK'
  <2>1. status' \in [Proc -> AnyStatus]
    BY <1>21, UncertainStatus DEF AnswerSave
  <2>2. pending' \in [Proc -> BOOLEAN]
    BY <1>21 DEF AnswerSave
  <2>3. answer' \in [phase : {"idle", "checked", "saving", "saved"}, proc : Proc]
    BY <1>21 DEF AnswerSave, IdleAnswer, Proc
  <2>. QED
    BY <1>21, <2>1, <2>2, <2>3 DEF AnswerSave
<1>22. ASSUME AnswerResume PROVE TypeOK'
  BY <1>22 DEF AnswerResume, IdleAnswer, Proc
<1>23. ASSUME NEW p \in Proc, UserKill(p) PROVE TypeOK'
  BY <1>23, KillCallType DEF UserKill
<1>24. ASSUME NEW p \in Child, Reap(p) PROVE TypeOK'
  BY <1>24, KillCallType DEF Reap, Proc
<1>25. ASSUME NEW p \in Child, SupervisorKill(p) PROVE TypeOK'
  BY <1>25, KillCallType DEF SupervisorKill, Proc
<1>26. ASSUME DeadlineKill PROVE TypeOK'
  BY <1>26, KillCallType DEF DeadlineKill, Proc
<1>27. ASSUME NEW k \in Killers, NEW t \in Proc, KillPick(k, t) PROVE TypeOK'
  <2>1. kill[k] \in KillRecord
    OBVIOUS
  <2>2. /\ status[t] \in Killable =>
             [kill[k] EXCEPT !.phase = "flag", !.at = t, !.saw = status[t]] \in KillRecord
        /\ [kill[k] EXCEPT !.todo = @ \ {t}] \in KillRecord
    BY <2>1 DEF KillRecord
  <2>3. kill' \in [Killers -> KillRecord]
    <3>1. CASE kill' = [kill EXCEPT ![k].phase = "flag", ![k].at = t, ![k].saw = status[t]]
                 /\ status[t] \in Killable
      BY <2>2, <3>1
    <3>2. CASE kill' = [kill EXCEPT ![k].todo = @ \ {t}]
      BY <2>2, <3>2
    <3>. QED
      BY <1>27, <3>1, <3>2 DEF KillPick
  <2>. QED
    BY <1>27, <2>3 DEF KillPick
<1>28. ASSUME NEW k \in Killers, KillFlag(k) PROVE TypeOK'
  <2>1. kill[k] \in KillRecord
    OBVIOUS
  <2>2. [kill[k] EXCEPT !.phase = "move"] \in KillRecord
    BY <2>1 DEF KillRecord
  <2>3. kill' \in [Killers -> KillRecord]
    BY <1>28, <2>2 DEF KillFlag
  <2>4. cancelled' \in [Proc -> BOOLEAN] /\ pending' \in [Proc -> BOOLEAN]
    BY <1>28 DEF KillFlag
  <2>. QED
    BY <1>28, <2>3, <2>4 DEF KillFlag
<1>29. ASSUME NEW k \in Killers, KillMove(k) PROVE TypeOK'
  <2>. DEFINE t == kill[k].at
  <2>1. t \in Proc /\ kill[k] \in KillRecord
    BY DEF KillRecord
  <2>2. kill' \in [Killers -> KillRecord]
    <3>1. /\ [kill[k] EXCEPT !.phase = "aborted"] \in KillRecord
          /\ [kill[k] EXCEPT !.phase = "pick", !.todo = @ \ {t}] \in KillRecord
      BY <2>1 DEF KillRecord
    <3>. QED
      BY <1>29, <3>1 DEF KillMove
  <2>3. status' \in [Proc -> AnyStatus]
    BY <1>29, KillMoveType
  <2>4. finalized' \in [Proc -> BOOLEAN]
    BY <1>29, <2>1 DEF KillMove
  <2>. QED
    BY <1>29, <2>2, <2>3, <2>4 DEF KillMove
<1>30. ASSUME NEW k \in Killers, KillReturn(k) PROVE TypeOK'
  BY <1>30 DEF KillReturn, IdleKill, KillRecord, Proc
<1>31. CASE UNCHANGED vars
  BY <1>31 DEF vars
<1>. QED
  BY <1>1, <1>2, <1>3, <1>4, <1>5, <1>6, <1>7, <1>8, <1>9, <1>10, <1>11, <1>12, <1>13,
     <1>14, <1>15, <1>16, <1>17, <1>18, <1>19, <1>20, <1>21, <1>22, <1>23, <1>24, <1>25,
     <1>26, <1>27, <1>28, <1>29, <1>30, <1>31
     DEF Next, ChildRunner, Runner, Resumer, Answerer, KillStep

\* Every variable of the manager keeps its type, in any tree of any size; the
\* semaphore in particular never goes below zero.
THEOREM TypeCorrect == Spec => []TypeOK
<1>. QED
  BY TypeInit, TypeStep, PTL DEF Spec

-----------------------------------------------------------------------------
(* Slots and claims.                                                       *)

\* The children that hold a permit of the semaphore.
SlotPoint == {"claim", "admit", "loop", "retire"}
InSlot == {p \in Child : thread[p] \in SlotPoint}

SlotsCounted   == freeSlots + Cardinality(InSlot) = MaxConcurrency
ClaimsHeld     == \A p \in Child : InTarget(p) => p \in held
HeldByRunner   == \A p \in held : thread[p] \in {"admit", "loop", "retire", "release"}
HeldCompatible == \A p, q \in held : p # q => ~Conflict(p, q)

AccessInv ==
  TypeOK /\ SlotsCounted /\ ClaimsHeld /\ HeldByRunner /\ HeldCompatible

\* Overlap is symmetric, so conflicts are.
LEMMA ConflictSymmetric ==
  ASSUME NEW p \in Child, NEW q \in Child, Conflict(p, q)
  PROVE  Conflict(q, p)
<1>1. PICK r \in Claims[p], t \in Claims[q] : <<r, t>> \in Overlap
  BY DEF Conflict
<1>2. r \in Resource /\ t \in Resource
  OBVIOUS
<1>3. <<t, r>> \in Overlap
  BY <1>1, <1>2
<1>. QED
  BY <1>1, <1>3 DEF Conflict

LEMMA InSlotFinite == IsFiniteSet(InSlot) /\ Cardinality(InSlot) \in Nat
  BY FS_Subset, FS_CardinalityType DEF InSlot

\* A thread that moves within, or outside, the part that holds a permit.
LEMMA InSlotSame ==
  ASSUME TypeOK, NEW p \in Proc, NEW x, thread' = [thread EXCEPT ![p] = x],
         p \in Child => (thread[p] \in SlotPoint <=> x \in SlotPoint)
  PROVE  InSlot' = InSlot
BY DEF InSlot, TypeOK, Proc

LEMMA InSlotEnter ==
  ASSUME TypeOK, NEW p \in Child, NEW x \in SlotPoint, thread' = [thread EXCEPT ![p] = x],
         thread[p] \notin SlotPoint
  PROVE  Cardinality(InSlot') = Cardinality(InSlot) + 1
<1>1. InSlot' = InSlot \union {p} /\ p \notin InSlot
  BY DEF InSlot, TypeOK, Proc
<1>. QED
  BY <1>1, InSlotFinite, FS_AddElement

LEMMA InSlotLeave ==
  ASSUME TypeOK, NEW p \in Child, NEW x, x \notin SlotPoint,
         thread' = [thread EXCEPT ![p] = x], thread[p] \in SlotPoint
  PROVE  Cardinality(InSlot') = Cardinality(InSlot) - 1
<1>1. InSlot' = InSlot \ {p} /\ p \in InSlot
  BY DEF InSlot, TypeOK, Proc
<1>. QED
  BY <1>1, InSlotFinite, FS_RemoveElement

LEMMA AccessInit == Init => AccessInv
<1>. SUFFICES ASSUME Init PROVE AccessInv
  OBVIOUS
<1>1. TypeOK
  BY TypeInit
<1>2. InSlot = {}
  BY DEF Init, InSlot, SlotPoint, Proc
<1>3. SlotsCounted
  BY <1>2, FS_EmptySet DEF SlotsCounted, Init
<1>. QED
  BY <1>1, <1>3 DEF AccessInv, ClaimsHeld, HeldByRunner, HeldCompatible, Init, InTarget, Proc

LEMMA AccessStep == AccessInv /\ [Next]_vars => AccessInv'
<1>. SUFFICES ASSUME AccessInv, [Next]_vars PROVE AccessInv'
  OBVIOUS
<1>. USE DEF AccessInv
<1>0. TypeOK'
  BY TypeStep
<1>. DEFINE Rest == ClaimsHeld' /\ HeldByRunner' /\ HeldCompatible'
<1>a. ASSUME NEW p \in Proc, NEW x, thread' = [thread EXCEPT ![p] = x],
             held' = held, freeSlots' = freeSlots,
             p \in Child => (thread[p] \in SlotPoint <=> x \in SlotPoint)
      PROVE  SlotsCounted'
  BY <1>a, InSlotSame DEF SlotsCounted
<1>1. ASSUME NEW p \in Child,
             Start(p) \/ DepsCancelled(p) \/ DepsFailed(p) \/ DepsReady(p) \/ ResumeStart(p)
      PROVE  SlotsCounted' /\ Rest
  <2>1. CASE UNCHANGED runVars
    BY <2>1 DEF runVars, SlotsCounted, InSlot, ClaimsHeld, HeldByRunner, HeldCompatible,
                InTarget, Conflict
  <2>2. CASE thread' # thread
    <3>1. PICK x \in {"deps", "release", "slot"} : thread' = [thread EXCEPT ![p] = x]
      BY <1>1, <2>2 DEF Start, Launch, DepsCancelled, DepsFailed, DepsReady, ResumeStart,
         runVars
    <3>2. thread[p] \in {"unstarted", "deps", "dead"}
      BY <1>1, <2>2 DEF Start, Launch, DepsCancelled, DepsFailed, DepsReady, ResumeStart,
         Alive
    <3>3. held' = held /\ freeSlots' = freeSlots
      BY <1>1 DEF Start, DepsCancelled, DepsFailed, DepsReady, ResumeStart
    <3>4. p \in Proc /\ (thread[p] \in SlotPoint <=> x \in SlotPoint)
      BY <3>2 DEF Proc, SlotPoint
    <3>5. SlotsCounted'
      BY <1>a, <3>1, <3>3, <3>4
    <3>6. Rest
      BY <3>1, <3>2, <3>3 DEF ClaimsHeld, HeldByRunner, HeldCompatible, InTarget, Conflict,
         TypeOK, Proc
    <3>. QED
      BY <3>5, <3>6
  <2>3. thread' = thread => UNCHANGED runVars
    BY <1>1 DEF Start, DepsCancelled, DepsFailed, DepsReady, ResumeStart, runVars
  <2>. QED
    BY <2>1, <2>2, <2>3
<1>2. ASSUME NEW p \in Child, TakeSlot(p) PROVE SlotsCounted' /\ Rest
  <2>1. Cardinality(InSlot') = Cardinality(InSlot) + 1
    BY <1>2, InSlotEnter DEF TakeSlot, SlotPoint
  <2>2. SlotsCounted'
    BY <1>2, <2>1, InSlotFinite DEF TakeSlot, SlotsCounted, TypeOK
  <2>. QED
    BY <1>2, <2>2 DEF TakeSlot, ClaimsHeld, HeldByRunner, HeldCompatible, InTarget, Conflict,
       TypeOK, Proc
<1>3. ASSUME NEW p \in Child, ClaimRefused(p) PROVE SlotsCounted' /\ Rest
  <2>1. Cardinality(InSlot') = Cardinality(InSlot) - 1
    BY <1>3, InSlotLeave DEF ClaimRefused, SlotPoint
  <2>2. SlotsCounted'
    BY <1>3, <2>1, InSlotFinite DEF ClaimRefused, SlotsCounted, TypeOK
  <2>. QED
    BY <1>3, <2>2 DEF ClaimRefused, ClaimsHeld, HeldByRunner, HeldCompatible, InTarget,
       Conflict, TypeOK, Proc
<1>4. ASSUME NEW p \in Child, Claim(p) PROVE SlotsCounted' /\ Rest
  <2>1. SlotsCounted'
    BY <1>4, InSlotSame DEF Claim, SlotsCounted, SlotPoint, Proc
  <2>2. ClaimsHeld' /\ HeldByRunner'
    BY <1>4 DEF Claim, ClaimsHeld, HeldByRunner, InTarget, TypeOK, Proc
  <2>3. HeldCompatible'
    <3>1. \A q \in held : ~Conflict(p, q) /\ ~Conflict(q, p)
      BY <1>4, ConflictSymmetric DEF Claim, TypeOK
    <3>. QED
      BY <1>4, <3>1 DEF Claim, HeldCompatible, Conflict
  <2>. QED
    BY <2>1, <2>2, <2>3
<1>5. ASSUME NEW p \in Proc,
             \/ Admit(p) \/ AdmitFailed(p) \/ LoopEnd(p) \/ LoopAsk(p)
             \/ Checkpoint(p) \/ Settle(p)
      PROVE  SlotsCounted' /\ Rest
  <2>1. PICK x \in {"loop", "retire", "settle", "dead"} : thread' = [thread EXCEPT ![p] = x]
    BY <1>5 DEF Admit, AdmitFailed, LoopEnd, LoopAsk, Checkpoint, Settle
  <2>2. \/ thread[p] \in {"admit", "loop"} /\ x \in {"loop", "retire"}
        \/ thread[p] \in {"checkpoint", "settle"} /\ x \in {"settle", "dead"}
    BY <1>5, <2>1 DEF Admit, AdmitFailed, LoopEnd, LoopAsk, LoopFree, Checkpoint, Settle, TypeOK
  <2>3. held' = held /\ freeSlots' = freeSlots
    BY <1>5 DEF Admit, AdmitFailed, LoopEnd, LoopAsk, Checkpoint, Settle
  <2>4. SlotsCounted'
    BY <1>a, <2>1, <2>2, <2>3 DEF SlotPoint
  <2>. QED
    BY <2>1, <2>2, <2>3, <2>4 DEF ClaimsHeld, HeldByRunner, HeldCompatible, InTarget, Conflict,
       TypeOK, Proc
<1>6. ASSUME NEW p \in Proc, Retire(p) PROVE SlotsCounted' /\ Rest
  <2>1. CASE p = Root
    BY <1>6, <2>1, <1>a DEF Retire, ClaimsHeld, HeldByRunner, HeldCompatible, InTarget,
       Conflict, TypeOK, Proc
  <2>2. CASE p \in Child
    <3>1. Cardinality(InSlot') = Cardinality(InSlot) - 1
      BY <1>6, <2>2, InSlotLeave DEF Retire, SlotPoint
    <3>2. SlotsCounted'
      BY <1>6, <2>2, <3>1, InSlotFinite DEF Retire, SlotsCounted, TypeOK
    <3>. QED
      BY <1>6, <2>2, <3>2 DEF Retire, ClaimsHeld, HeldByRunner, HeldCompatible, InTarget,
         Conflict, TypeOK, Proc
  <2>. QED
    BY <2>1, <2>2 DEF Proc
<1>7. ASSUME NEW p \in Proc, Release(p) PROVE SlotsCounted' /\ Rest
  <2>1. SlotsCounted'
    BY <1>7, InSlotSame DEF Release, SlotsCounted, SlotPoint
  <2>. QED
    BY <1>7, <2>1 DEF Release, ClaimsHeld, HeldByRunner, HeldCompatible, InTarget, Conflict,
       TypeOK, Proc
<1>8. CASE UNCHANGED runVars
  <2>1. InSlot' = InSlot
    BY <1>8 DEF runVars, InSlot
  <2>2. SlotsCounted'
    BY <1>8, <2>1 DEF runVars, SlotsCounted
  <2>3. Rest
    BY <1>8 DEF runVars, ClaimsHeld, HeldByRunner, HeldCompatible, InTarget, Conflict
  <2>. QED
    BY <1>0, <2>2, <2>3
<1>9. ASSUME \/ \E p \in Child : Fork(p) \/ ResumeCheck(p) \/ AnswerCheck(p) \/ Reap(p)
                                \/ SupervisorKill(p)
             \/ Answerer \/ \E p \in Proc : UserKill(p)
             \/ DeadlineKill \/ \E k \in Killers : KillStep(k)
             \/ UNCHANGED vars
      PROVE  UNCHANGED runVars
  BY <1>9 DEF Fork, ResumeCheck, AnswerCheck, Reap, SupervisorKill, Answerer, AnswerApply,
     AnswerSave, AnswerResume, UserKill, DeadlineKill, KillCall, KillStep, KillPick,
     KillFlag, KillMove, KillReturn, vars, runVars
<1>. QED
  BY <1>0, <1>1, <1>2, <1>3, <1>4, <1>5, <1>6, <1>7, <1>8, <1>9
     DEF Next, ChildRunner, Runner, Resumer, Proc

LEMMA AccessInvariant == Spec => []AccessInv
  BY AccessInit, AccessStep, PTL DEF Spec

\* Exclusive targets never run beside an overlapping claim and the semaphore
\* bounds the targets that run, for every set of claims and every concurrency.
THEOREM TargetsAreExclusive == Spec => []TargetsExclusive
<1>1. ASSUME AccessInv PROVE TargetsExclusive
  <2>. USE <1>1 DEF AccessInv
  <2>1. ASSUME NEW p \in Child, NEW q \in Child, p # q, InTarget(p), InTarget(q),
               Mode[p] = "exclusive"
        PROVE  Overlap \intersect (Claims[p] \X Claims[q]) = {}
    <3>1. ~Conflict(p, q)
      BY <2>1 DEF ClaimsHeld, HeldCompatible
    <3>. QED
      BY <2>1, <3>1 DEF Conflict
  <2>2. Cardinality({p \in Child : InTarget(p)}) <= Cardinality(InSlot)
    <3>1. {p \in Child : InTarget(p)} \subseteq InSlot
      BY DEF InTarget, InSlot, SlotPoint
    <3>. QED
      BY <3>1, InSlotFinite, FS_Subset
  <2>3. Cardinality(InSlot) <= MaxConcurrency
    BY InSlotFinite DEF SlotsCounted, TypeOK
  <2>4. Cardinality({p \in Child : InTarget(p)}) \in Nat
    BY FS_Subset, FS_CardinalityType
  <2>. QED
    BY <2>1, <2>2, <2>3, <2>4, InSlotFinite DEF TargetsExclusive
<1>. QED
  BY <1>1, AccessInvariant, PTL

\* No way out of a runner keeps a permit or a claim.
THEOREM NothingIsLeaked == Spec => []NothingLeaked
<1>1. ASSUME AccessInv PROVE NothingLeaked
  <2>. SUFFICES ASSUME \A p \in Child : thread[p] \in {"unstarted", "deps", "slot", "dead"}
                PROVE  freeSlots = MaxConcurrency /\ held = {}
    BY DEF NothingLeaked
  <2>. USE <1>1 DEF AccessInv
  <2>1. InSlot = {}
    BY DEF InSlot, SlotPoint
  <2>2. freeSlots = MaxConcurrency
    BY <2>1, FS_EmptySet DEF SlotsCounted, TypeOK
  <2>3. held = {}
    BY DEF HeldByRunner, TypeOK
  <2>. QED
    BY <2>2, <2>3
<1>. QED
  BY <1>1, AccessInvariant, PTL

-----------------------------------------------------------------------------
(* Lifecycles: who may still change the status of an execution.            *)

RunPoint == {"deps", "slot", "claim", "admit", "loop", "retire", "release", "checkpoint"}

\* The agent loop of p's last run is over.
LoopOver(p) == thread[p] \in {"retire", "release", "checkpoint", "settle", "dead"}

RunningNotFinal  == \A p \in Proc : thread[p] \in RunPoint => ~finalized[p]
AwaitingIsOver   == \A p \in Child :
                      status[p] = "awaiting_user" => LoopOver(p) /\ resume[p] = "none"
CompletedIsOver  == \A p \in Child : status[p] = "completed" => LoopOver(p)
AnsweredIsOver   == answer.phase # "idle" =>
                      /\ answer.proc \in Child
                      /\ LoopOver(answer.proc) /\ resume[answer.proc] = "none"
AnsweredHasMoved == answer.phase \in {"saving", "saved"} =>
                      status[answer.proc] \notin {"awaiting_user", "completed"}
ResumedIsOver    == \A p \in Child :
                      resume[p] # "none" =>
                        LoopOver(p) /\ status[p] \notin {"awaiting_user", "completed"}
CheckedIsDead    == \A p \in Child : resume[p] = "checked" => thread[p] = "dead"
CompletedLast    == \A p \in Child :
                      status[p] = "completed" => \A u \in DependsOn[p] : Done(u)

LifeInv ==
  /\ TypeOK
  /\ RunningNotFinal
  /\ AwaitingIsOver
  /\ CompletedIsOver
  /\ AnsweredIsOver
  /\ AnsweredHasMoved
  /\ ResumedIsOver
  /\ CheckedIsDead
  /\ DependenciesDone
  /\ CompletedLast

\* What a worker's call may leave behind: nothing new, what it proposed, or
\* the outcome of the guard or of the exception handler.
LEMMA WorkerOutcome ==
  ASSUME NEW s \in AnyStatus, NEW t \in Status, NEW c \in BOOLEAN, NEW f \in BOOLEAN
  PROVE  AfterOrFailed(s, t, c, f) \in {s, t, "cancelled", "failed"}
BY DEF AfterOrFailed, After, Effective, Sticky, Rejected, AnyStatus, Status,
       Terminal, Recovery, Active

LEMMA CallOutcome ==
  ASSUME NEW s \in AnyStatus, NEW t \in Status \ {"completed"}, NEW c \in BOOLEAN,
         NEW f \in BOOLEAN, After(s, t, c, f) # Rejected
  PROVE  /\ After(s, t, c, f) \in {s, t}
         /\ t = "running" => After(s, t, c, f) = "running"
BY DEF After, Effective, Sticky, Rejected, AnyStatus, Status, Terminal, Recovery, Active

\* The part of LifeInv that says nothing of dependencies.
LocalInv ==
  /\ RunningNotFinal
  /\ AwaitingIsOver
  /\ CompletedIsOver
  /\ AnsweredIsOver
  /\ AnsweredHasMoved
  /\ ResumedIsOver
  /\ CheckedIsDead

LEMMA WorkerOutcomeOf ==
  ASSUME TypeOK, NEW p \in Proc, NEW t \in Status, NEW f \in BOOLEAN
  PROVE  AfterOrFailed(status[p], t, cancelled[p], f) \in {status[p], t, "cancelled", "failed"}
<1>1. status[p] \in AnyStatus /\ cancelled[p] \in BOOLEAN
  BY DEF TypeOK, AnyStatus
<1>. QED
  BY <1>1, WorkerOutcome

LEMMA CallOutcomeOf ==
  ASSUME TypeOK, NEW p \in Proc, NEW t \in Status \ {"completed"},
         After(status[p], t, cancelled[p], finalized[p]) # Rejected
  PROVE  /\ After(status[p], t, cancelled[p], finalized[p]) \in {status[p], t}
         /\ t = "running" =>
               After(status[p], t, cancelled[p], finalized[p]) = "running"
<1>1. status[p] \in AnyStatus /\ cancelled[p] \in BOOLEAN /\ finalized[p] \in BOOLEAN
  BY DEF TypeOK, AnyStatus
<1>. QED
  BY <1>1, CallOutcome

\* A runner's step that gives p the status s.
LEMMA WorkerSets ==
  ASSUME TypeOK, NEW p \in Proc, NEW t \in Status, Worker(p, t)
  PROVE  \E s \in {status[p], t, "cancelled", "failed"} :
           status' = [status EXCEPT ![p] = s]
<1>1. AfterOrFailed(status[p], t, cancelled[p], finalized[p])
        \in {status[p], t, "cancelled", "failed"}
  BY WorkerOutcomeOf DEF TypeOK
<1>. QED
  BY <1>1 DEF Worker

LEMMA CheckpointSets ==
  ASSUME TypeOK, NEW p \in Proc, Checkpoint(p)
  PROVE  \E s \in {status[p], "cancelled", "failed"} :
           status' = [status EXCEPT ![p] = s]
<1>. DEFINE a == AfterOrFailed(status[p], "failed", cancelled[p], FALSE)
<1>1. a \in {status[p], "cancelled", "failed"}
  BY WorkerOutcomeOf, Statuses
<1>2. status' = status \/ status' = [status EXCEPT ![p] = a]
  BY DEF Checkpoint
<1>3. CASE status' = [status EXCEPT ![p] = a]
  <2>. HIDE DEF a
  <2>. QED
    BY <1>1, <1>3
<1>4. CASE status' = status
  <2>1. status' = [status EXCEPT ![p] = status[p]]
    BY <1>4 DEF TypeOK
  <2>. QED
    BY <2>1
<1>. QED
  BY <1>2, <1>3, <1>4

LEMMA LocalStep == TypeOK /\ LocalInv /\ [Next]_vars => LocalInv'
<1>. SUFFICES ASSUME TypeOK, LocalInv, [Next]_vars PROVE LocalInv'
  OBVIOUS
<1>. USE Statuses DEF TypeOK, LocalInv, RunningNotFinal, AwaitingIsOver, CompletedIsOver,
       AnsweredIsOver, AnsweredHasMoved, ResumedIsOver, CheckedIsDead, LoopOver, RunPoint,
       procVars, runVars, resumeVars, deskVars
<1>1. ASSUME NEW p \in Child, Fork(p) PROVE LocalInv'
  BY <1>1 DEF Fork, Proc
<1>2. ASSUME NEW p \in Child, Start(p) PROVE LocalInv'
  BY <1>2 DEF Start, Launch, Proc
<1>3. ASSUME NEW p \in Child, DepsCancelled(p) \/ DepsFailed(p) \/ ClaimRefused(p)
      PROVE  LocalInv'
  <2>1. PICK s \in {status[p], "cancelled", "failed"} : status' = [status EXCEPT ![p] = s]
    BY <1>3, WorkerSets DEF DepsCancelled, DepsFailed, ClaimRefused, Proc
  <2>. QED
    BY <1>3, <2>1 DEF DepsCancelled, DepsFailed, ClaimRefused, Proc
<1>5. ASSUME NEW p \in Child, DepsReady(p) \/ TakeSlot(p) \/ Claim(p) PROVE LocalInv'
  BY <1>5 DEF DepsReady, TakeSlot, Claim, Proc
<1>9. ASSUME NEW p \in Proc, Admit(p) \/ AdmitFailed(p) PROVE LocalInv'
  <2>1. PICK s \in {status[p], "running", "cancelled", "failed"} :
          status' = [status EXCEPT ![p] = s]
    BY <1>9, WorkerSets DEF Admit, AdmitFailed
  <2>. QED
    BY <1>9, <2>1 DEF Admit, AdmitFailed, Proc
<1>11. ASSUME NEW p \in Proc, LoopEnd(p) PROVE LocalInv'
  <2>1. PICK s \in {status[p], "completed", "timed_out", "cancelled", "failed"} :
          status' = [status EXCEPT ![p] = s]
    BY <1>11, WorkerSets DEF LoopEnd
  <2>. QED
    BY <1>11, <2>1 DEF LoopEnd, LoopFree, Proc
<1>12. ASSUME NEW p \in Child, LoopAsk(p) PROVE LocalInv'
  <2>1. PICK s \in {status[p], "awaiting_user", "cancelled", "failed"} :
          status' = [status EXCEPT ![p] = s]
    BY <1>12, WorkerSets DEF LoopAsk, Proc
  <2>. QED
    BY <1>12, <2>1 DEF LoopAsk, LoopFree, Proc
<1>13. ASSUME NEW p \in Proc, Retire(p) \/ Release(p) PROVE LocalInv'
  <2>1. PICK s \in {status[p], "cancelled", "failed"} : status' = [status EXCEPT ![p] = s]
    BY <1>13, WorkerSets DEF Retire, Release
  <2>. QED
    BY <1>13, <2>1 DEF Retire, Release, Proc
<1>15. ASSUME NEW p \in Proc, Checkpoint(p) PROVE LocalInv'
  <2>1. PICK s \in {status[p], "cancelled", "failed"} : status' = [status EXCEPT ![p] = s]
    BY <1>15, CheckpointSets
  <2>. QED
    BY <1>15, <2>1 DEF Checkpoint, Proc
<1>16. ASSUME NEW p \in Proc, Settle(p) PROVE LocalInv'
  BY <1>16 DEF Settle, Proc
<1>17. ASSUME NEW p \in Child, ResumeCheck(p) PROVE LocalInv'
  BY <1>17 DEF ResumeCheck
<1>18. ASSUME NEW p \in Child, ResumeStart(p) PROVE LocalInv'
  BY <1>18 DEF ResumeStart, Launch, Proc
<1>19. ASSUME NEW p \in Child, AnswerCheck(p) PROVE LocalInv'
  BY <1>19 DEF AnswerCheck
<1>20. ASSUME AnswerApply PROVE LocalInv'
  <2>. DEFINE p == answer.proc
              a == After(status[p], "running", cancelled[p], finalized[p])
  <2>1. p \in Child /\ p \in Proc
    BY <1>20 DEF AnswerApply, Proc
  <2>2. a = Rejected \/ a = "running"
    BY <2>1, CallOutcomeOf
  <2>3. CASE a = Rejected
    BY <1>20, <2>1, <2>3 DEF AnswerApply, IdleAnswer
  <2>4. CASE a = "running" /\ a # Rejected
    <3>1. status' = [status EXCEPT ![p] = "running"]
      BY <1>20, <2>4 DEF AnswerApply
    <3>2. answer'.phase = "saving" /\ answer'.proc = p
      BY <1>20, <2>4 DEF AnswerApply
    <3>3. UNCHANGED <<thread, finalized, resume>>
      BY <1>20 DEF AnswerApply
    <3>4. answer.phase # "idle"
      BY <1>20 DEF AnswerApply
    <3>. QED
      BY <2>1, <3>1, <3>2, <3>3, <3>4
  <2>. QED
    BY <2>2, <2>3, <2>4
<1>21. ASSUME AnswerSave PROVE LocalInv'
  <2>1. answer.proc \in Child /\ answer.proc \in Proc
    BY <1>21 DEF AnswerSave, Proc
  <2>2. PICK s \in {status[answer.proc], "awaiting_user", "recovery_review_required"} :
          status' = [status EXCEPT ![answer.proc] = s]
    BY <1>21, <2>1 DEF AnswerSave, AfterUncertainCommit
  <2>3. answer'.phase \in {"idle", "saved"} /\ answer'.proc \in {Root, answer.proc}
    BY <1>21 DEF AnswerSave, IdleAnswer
  <2>4. answer'.phase = "saved" => answer'.proc = answer.proc /\ status' = status
    BY <1>21 DEF AnswerSave, IdleAnswer
  <2>. QED
    BY <1>21, <2>1, <2>2, <2>3, <2>4 DEF AnswerSave
<1>22. ASSUME AnswerResume PROVE LocalInv'
  BY <1>22 DEF AnswerResume, IdleAnswer
<1>23. ASSUME NEW k \in Killers, NEW p \in Proc, NEW job, KillCall(k, p, job)
       PROVE  LocalInv'
  BY <1>23 DEF KillCall
<1>27. ASSUME NEW k \in Killers,
              (\E t \in Proc : KillPick(k, t)) \/ KillFlag(k) \/ KillReturn(k)
       PROVE  LocalInv'
  <2>1. UNCHANGED <<status, finalized, thread, resume, answer>>
    BY <1>27 DEF KillPick, KillFlag, KillReturn
  <2>. QED
    BY <2>1
<1>29. ASSUME NEW k \in Killers, KillMove(k) PROVE LocalInv'
  <2>. DEFINE t == kill[k].at
  <2>1. t \in Proc
    BY DEF KillRecord
  <2>2. PICK s \in {status[t], "cancelled", "cancelling"} :
          status' = [status EXCEPT ![t] = s]
    <3>. DEFINE a(o) == After(status[t], o, cancelled[t], finalized[t])
    <3>2. \A o \in {"cancelled", "cancelling"} : a(o) # Rejected => a(o) \in {status[t], o}
      BY <2>1, CallOutcomeOf
    <3>3. \/ UNCHANGED status
          \/ \E o \in {"cancelled", "cancelling"} :
               a(o) # Rejected /\ status' = [status EXCEPT ![t] = a(o)]
      BY <1>29 DEF KillMove
    <3>. QED
      BY <2>1, <3>2, <3>3
  <2>3. \A p \in Proc : finalized'[p] # finalized[p] => ~Alive(p)
    BY <1>29, <2>1 DEF KillMove
  <2>. QED
    BY <1>29, <2>1, <2>2, <2>3 DEF KillMove, Alive, Proc
<1>31. CASE UNCHANGED vars
  BY <1>31 DEF vars
<1>. QED
  BY <1>1, <1>2, <1>3, <1>5, <1>9, <1>11, <1>12, <1>13, <1>15, <1>16, <1>17, <1>18, <1>19,
     <1>20, <1>21, <1>22, <1>23, <1>27, <1>29, <1>31
     DEF Next, ChildRunner, Runner, Resumer, Answerer, KillStep, UserKill, Reap,
         SupervisorKill, DeadlineKill, Proc

-----------------------------------------------------------------------------
(* The ways a status changes, and what they cannot do.                     *)

\* Every change of p's status is its fork, a call of its own runner, a
\* transition by an answer or a kill, or the end of a decision save.
StatusMoves(p) ==
  \/ p \in Child /\ Fork(p) /\ status[p] = "none" /\ status'[p] = "waiting"
  \/ /\ thread[p] \in RunPoint
     /\ \E t \in Status :
          /\ t = "completed" => thread[p] = "loop"
          /\ status'[p] = AfterOrFailed(status[p], t, cancelled[p], finalized[p])
  \/ \E t \in {"running", "cancelled", "cancelling"} :
       /\ After(status[p], t, cancelled[p], finalized[p]) # Rejected
       /\ status'[p] = After(status[p], t, cancelled[p], finalized[p])
  \/ /\ answer.phase = "saving" /\ answer.proc = p
     /\ \/ status'[p] = AfterUncertainCommit(status[p])
        \/ status'[p] = "awaiting_user" /\ "error" \in SaveOutcomes

LEMMA StatusSteps ==
  ASSUME TypeOK, LocalInv, [Next]_vars, NEW p \in Proc, status'[p] # status[p]
  PROVE  StatusMoves(p)
<1>. USE DEF TypeOK, procVars, runVars, resumeVars, deskVars
<1>1. ASSUME NEW q \in Child, Fork(q) PROVE StatusMoves(p)
  BY <1>1 DEF Fork, Proc, StatusMoves
<1>2. ASSUME NEW q \in Proc, NEW t \in Status, Worker(q, t), thread[q] \in RunPoint,
             t = "completed" => thread[q] = "loop"
      PROVE  StatusMoves(p)
  <2>1. p = q
    BY <1>2 DEF Worker
  <2>2. status'[p] = AfterOrFailed(status[p], t, cancelled[p], finalized[p])
    BY <1>2, <2>1 DEF Worker
  <2>. QED
    BY <1>2, <2>1, <2>2 DEF StatusMoves
<1>3. ASSUME NEW q \in Child, DepsCancelled(q) \/ DepsFailed(q) \/ ClaimRefused(q)
      PROVE  StatusMoves(p)
  BY <1>2, <1>3, Statuses DEF DepsCancelled, DepsFailed, ClaimRefused, RunPoint, Proc
<1>4. ASSUME NEW q \in Proc, Admit(q) \/ AdmitFailed(q) \/ Retire(q) \/ LoopAsk(q)
      PROVE  StatusMoves(p)
  BY <1>2, <1>4, Statuses DEF Admit, AdmitFailed, Retire, LoopAsk, LoopFree, RunPoint
<1>5. ASSUME NEW q \in Proc, LoopEnd(q) PROVE StatusMoves(p)
  BY <1>2, <1>5, Statuses DEF LoopEnd, LoopFree, RunPoint
<1>6. ASSUME NEW q \in Proc, Checkpoint(q) PROVE StatusMoves(p)
  <2>1. p = q /\ thread[p] \in RunPoint /\ thread[p] = "checkpoint"
    BY <1>6 DEF Checkpoint, RunPoint
  <2>2. finalized[p] = FALSE
    BY <2>1 DEF LocalInv, RunningNotFinal
  <2>3. status'[p] = AfterOrFailed(status[p], "failed", cancelled[p], finalized[p])
    <3>1. status'[p] = AfterOrFailed(status[p], "failed", cancelled[p], FALSE)
      BY <1>6, <2>1 DEF Checkpoint
    <3>. QED
      BY <2>2, <3>1, Zenon
  <2>. QED
    BY <2>1, <2>3, Statuses DEF StatusMoves
<1>7. ASSUME AnswerApply PROVE StatusMoves(p)
  <2>1. p = answer.proc
    BY <1>7 DEF AnswerApply
  <2>2. /\ After(status[p], "running", cancelled[p], finalized[p]) # Rejected
        /\ status'[p] = After(status[p], "running", cancelled[p], finalized[p])
    BY <1>7, <2>1 DEF AnswerApply
  <2>. QED
    BY <2>2 DEF StatusMoves
<1>8. ASSUME AnswerSave PROVE StatusMoves(p)
  BY <1>8 DEF AnswerSave, StatusMoves
<1>9. ASSUME NEW k \in Killers, KillMove(k) PROVE StatusMoves(p)
  <2>1. p = kill[k].at
    BY <1>9 DEF KillMove
  <2>2. PICK t \in {"cancelled", "cancelling"} :
          /\ After(status[p], t, cancelled[p], finalized[p]) # Rejected
          /\ status'[p] = After(status[p], t, cancelled[p], finalized[p])
    BY <1>9, <2>1 DEF KillMove
  <2>. QED
    BY <2>2 DEF StatusMoves
<1>10. ASSUME NEW q \in Child,
              \/ Start(q) \/ DepsReady(q) \/ TakeSlot(q) \/ Claim(q) \/ ResumeCheck(q)
              \/ ResumeStart(q) \/ AnswerCheck(q) \/ Reap(q) \/ SupervisorKill(q)
       PROVE  status' = status
  BY <1>10 DEF Start, DepsReady, TakeSlot, Claim, ResumeCheck, ResumeStart, AnswerCheck,
     Reap, SupervisorKill, KillCall
<1>11. ASSUME \/ \E q \in Proc : Release(q) \/ Settle(q) \/ UserKill(q)
              \/ AnswerResume \/ DeadlineKill \/ UNCHANGED vars
              \/ \E k \in Killers : (\E t \in Proc : KillPick(k, t)) \/ KillFlag(k) \/ KillReturn(k)
       PROVE  status' = status
  BY <1>11 DEF Release, Settle, UserKill, AnswerResume, DeadlineKill, KillCall, KillPick,
     KillFlag, KillReturn, vars
<1>. QED
  BY <1>1, <1>3, <1>4, <1>5, <1>6, <1>7, <1>8, <1>9, <1>10, <1>11
     DEF Next, ChildRunner, Runner, Resumer, Answerer, KillStep, Proc

\* Finality is taken back by a new run only.
LEMMA FinalitySteps ==
  ASSUME TypeOK, LocalInv, [Next]_vars, NEW p \in Proc, finalized[p], ~finalized'[p]
  PROVE  p \in Child /\ (thread[p] = "unstarted" \/ resume[p] = "checked")
<1>. USE DEF TypeOK, procVars, runVars, resumeVars, deskVars
<1>. DEFINE Goal == p \in Child /\ (thread[p] = "unstarted" \/ resume[p] = "checked")
<1>1. ASSUME NEW q \in Child, Start(q) \/ ResumeStart(q) PROVE Goal
  BY <1>1 DEF Start, ResumeStart, Launch
<1>2. ASSUME NEW q \in Proc, Checkpoint(q) PROVE Goal
  BY <1>2 DEF Checkpoint, LocalInv, RunningNotFinal, RunPoint
<1>3. ASSUME NEW q \in Proc, Settle(q) PROVE Goal
  BY <1>3 DEF Settle
<1>4. ASSUME NEW k \in Killers, KillMove(k) PROVE Goal
  BY <1>4 DEF KillMove
<1>5. ASSUME NEW q \in Child,
             \/ Fork(q) \/ DepsCancelled(q) \/ DepsFailed(q) \/ DepsReady(q) \/ TakeSlot(q)
             \/ ClaimRefused(q) \/ Claim(q) \/ LoopAsk(q) \/ ResumeCheck(q) \/ AnswerCheck(q)
             \/ Reap(q) \/ SupervisorKill(q)
      PROVE  finalized' = finalized
  BY <1>5 DEF Fork, DepsCancelled, DepsFailed, DepsReady, TakeSlot, ClaimRefused, Claim,
     LoopAsk, ResumeCheck, AnswerCheck, Reap, SupervisorKill, KillCall
<1>6. ASSUME NEW q \in Proc,
             Admit(q) \/ AdmitFailed(q) \/ LoopEnd(q) \/ Retire(q) \/ Release(q) \/ UserKill(q)
      PROVE  finalized' = finalized
  BY <1>6 DEF Admit, AdmitFailed, LoopEnd, Retire, Release, UserKill, KillCall
<1>7. ASSUME \/ Answerer \/ DeadlineKill \/ UNCHANGED vars
             \/ \E k \in Killers :
                  (\E t \in Proc : KillPick(k, t)) \/ KillFlag(k) \/ KillReturn(k)
      PROVE  finalized' = finalized
  BY <1>7 DEF Answerer, AnswerApply, AnswerSave, AnswerResume, DeadlineKill, KillCall,
     KillPick, KillFlag, KillReturn, vars
<1>. QED
  BY <1>1, <1>2, <1>3, <1>4, <1>5, <1>6, <1>7
     DEF Next, ChildRunner, Runner, Resumer, KillStep, Proc

\* A worker completes an execution by proposing it, and not a cancelled one.
LEMMA CompletionIsProposed ==
  ASSUME NEW s \in AnyStatus, NEW t \in Status, NEW c \in BOOLEAN, NEW f \in BOOLEAN,
         AfterOrFailed(s, t, c, f) = "completed"
  PROVE  s = "completed" \/ (t = "completed" /\ ~c)
BY DEF AfterOrFailed, After, Effective, Permitted, Sticky, Rejected, AnyStatus, Status,
       Terminal, Recovery, Active

\* No call replaces a terminal status; a success has to be final for that.
LEMMA TerminalIsKept ==
  ASSUME NEW s \in Terminal, NEW t \in Status, NEW c \in BOOLEAN, NEW f \in BOOLEAN,
         s = "completed" => f
  PROVE  /\ AfterOrFailed(s, t, c, f) = s
         /\ After(s, t, c, f) # Rejected => After(s, t, c, f) = s
BY DEF AfterOrFailed, After, Effective, Permitted, Sticky, Rejected, Status,
       Terminal, Recovery, Active

LEMMA UncertainKeeps ==
  ASSUME NEW s \in Terminal
  PROVE  AfterUncertainCommit(s) = s
BY DEF AfterUncertainCommit

\* A status becomes "completed" inside the agent loop of an execution that
\* nobody cancelled, and nowhere else.
LEMMA CompletionSteps ==
  ASSUME TypeOK, LocalInv, [Next]_vars, NEW p \in Proc,
         status'[p] = "completed", status[p] # "completed"
  PROVE  thread[p] = "loop" /\ ~cancelled[p]
<1>1. status[p] \in AnyStatus /\ cancelled[p] \in BOOLEAN /\ finalized[p] \in BOOLEAN
  BY DEF TypeOK, AnyStatus
<1>2. StatusMoves(p)
  BY StatusSteps
<1>3. CASE status[p] = "none" /\ status'[p] = "waiting"
  BY <1>3
<1>4. CASE \E t \in Status :
             /\ t = "completed" => thread[p] = "loop"
             /\ status'[p] = AfterOrFailed(status[p], t, cancelled[p], finalized[p])
  BY <1>1, <1>4, CompletionIsProposed
<1>5. CASE \E t \in {"running", "cancelled", "cancelling"} :
             /\ After(status[p], t, cancelled[p], finalized[p]) # Rejected
             /\ status'[p] = After(status[p], t, cancelled[p], finalized[p])
  BY <1>5, CallOutcomeOf, Statuses
<1>6. CASE /\ answer.phase = "saving" /\ answer.proc = p
           /\ \/ status'[p] = AfterUncertainCommit(status[p])
              \/ status'[p] = "awaiting_user" /\ "error" \in SaveOutcomes
  BY <1>6 DEF AfterUncertainCommit
<1>. QED
  BY <1>2, <1>3, <1>4, <1>5, <1>6 DEF StatusMoves

LifeLocal == TypeOK /\ LocalInv

LEMMA LocalInit == Init => LocalInv
BY DEF Init, LocalInv, RunningNotFinal, AwaitingIsOver, CompletedIsOver, AnsweredIsOver,
       AnsweredHasMoved, ResumedIsOver, CheckedIsDead, IdleAnswer, Proc

LEMMA LocalInvariant == Spec => []LifeLocal
<1>1. Init => LifeLocal
  BY TypeInit, LocalInit DEF LifeLocal
<1>2. LifeLocal /\ [Next]_vars => LifeLocal'
  BY TypeStep, LocalStep DEF LifeLocal
<1>. QED
  BY <1>1, <1>2, PTL DEF Spec

\* Once kill() has flagged an execution no step of any thread completes it.
THEOREM CancellationWins == Spec => CancelledNeverCompletes
<1>1. LifeLocal /\ [Next]_vars => [\A p \in Proc : cancelled[p] /\ status'[p] = "completed"
                                   => status[p] = "completed"]_vars
  BY CompletionSteps DEF LifeLocal
<1>. QED
  BY <1>1, LocalInvariant, PTL DEF Spec, CancelledNeverCompletes

\* A status behind the terminal barrier, and any terminal status that is not a
\* success, survives every step but the rollback of a decision save.
LEMMA FinalStep ==
  ASSUME TypeOK, LocalInv, [Next]_vars, NEW p \in Proc,
         status[p] \in Terminal, status[p] = "completed" => finalized[p],
         answer.phase = "saving" /\ answer.proc = p => "error" \notin SaveOutcomes
  PROVE  status'[p] = status[p]
<1>. SUFFICES ASSUME status'[p] # status[p] PROVE FALSE
  OBVIOUS
<1>1. cancelled[p] \in BOOLEAN /\ finalized[p] \in BOOLEAN
  BY DEF TypeOK
<1>2. StatusMoves(p)
  BY StatusSteps
<1>3. "running" \in Status /\ "cancelled" \in Status /\ "cancelling" \in Status
  BY Statuses
<1>4. status[p] # "none"
  BY DEF Terminal
<1>. QED
  BY <1>1, <1>2, <1>3, <1>4, TerminalIsKept, UncertainKeeps DEF StatusMoves

THEOREM FinalOutcomesAreStable ==
  ASSUME "error" \notin SaveOutcomes
  PROVE  Spec => FinalOutcomeStable
<1>1. LifeLocal /\ [Next]_vars => [\A p \in Proc : finalized[p] /\ status[p] \in Terminal
                                   => status'[p] = status[p]]_vars
  BY FinalStep DEF LifeLocal
<1>. QED
  BY <1>1, LocalInvariant, PTL DEF Spec, FinalOutcomeStable

\* A success behind its barrier stays one, whatever a decision save does.
LEMMA DoneStep ==
  ASSUME TypeOK, LocalInv, [Next]_vars, NEW p \in Child, Done(p)
  PROVE  Done(p)'
<1>. USE DEF Done
<1>0. p \in Proc
  BY DEF Proc
<1>1. finalized'[p]
  <2>1. LoopOver(p) /\ resume[p] = "none"
    BY DEF LocalInv, CompletedIsOver, ResumedIsOver
  <2>. QED
    BY <1>0, <2>1, FinalitySteps DEF LoopOver
<1>2. status'[p] = "completed"
  <2>1. ~(answer.phase = "saving" /\ answer.proc = p)
    BY DEF LocalInv, AnsweredHasMoved
  <2>2. status[p] \in Terminal
    BY DEF Terminal
  <2>. QED
    BY <1>0, <2>1, <2>2, FinalStep
<1>. QED
  BY <1>1, <1>2

-----------------------------------------------------------------------------
(* Dependencies and the task graph.                                        *)

\* A runner gets past its dependency wait by DepsReady only.
LEMMA PastDepsSteps ==
  ASSUME TypeOK, LocalInv, [Next]_vars, NEW p \in Child,
         thread'[p] \in {"slot", "claim", "admit", "loop", "retire"}
  PROVE  \/ thread[p] \in {"slot", "claim", "admit", "loop", "retire"}
         \/ DepsReady(p)
<1>. USE DEF TypeOK, procVars, runVars, resumeVars, deskVars
<1>. DEFINE Past == {"slot", "claim", "admit", "loop", "retire"}
            Goal == thread[p] \in Past \/ DepsReady(p)
<1>1. ASSUME NEW q \in Child, Start(q) \/ ResumeStart(q) PROVE Goal
  BY <1>1 DEF Start, ResumeStart, Launch, Proc
<1>2. ASSUME NEW q \in Child,
             \/ DepsCancelled(q) \/ DepsFailed(q) \/ DepsReady(q) \/ TakeSlot(q)
             \/ ClaimRefused(q) \/ Claim(q)
      PROVE  Goal
  BY <1>2 DEF DepsCancelled, DepsFailed, DepsReady, TakeSlot, ClaimRefused, Claim, Proc
<1>3. ASSUME NEW q \in Proc,
             \/ Admit(q) \/ AdmitFailed(q) \/ LoopEnd(q) \/ LoopAsk(q) \/ Retire(q)
             \/ Release(q) \/ Checkpoint(q) \/ Settle(q)
      PROVE  Goal
  <2>. HIDE DEF TypeOK
  <2>1. p \in Proc /\ thread \in [Proc -> Point]
    BY DEF TypeOK, Proc
  <2>2. CASE Admit(q) \/ AdmitFailed(q)
    BY <2>1, <2>2 DEF Admit, AdmitFailed
  <2>3. CASE LoopEnd(q) \/ LoopAsk(q)
    BY <2>1, <2>3 DEF LoopEnd, LoopAsk, LoopFree
  <2>4. CASE Retire(q) \/ Release(q)
    BY <2>1, <2>4 DEF Retire, Release
  <2>5. CASE Checkpoint(q) \/ Settle(q)
    BY <2>1, <2>5 DEF Checkpoint, Settle
  <2>. QED
    BY <1>3, <2>2, <2>3, <2>4, <2>5
<1>4. ASSUME \/ \E q \in Child : \/ Fork(q) \/ ResumeCheck(q) \/ AnswerCheck(q) \/ Reap(q)
                                 \/ SupervisorKill(q)
             \/ \E q \in Proc : UserKill(q)
             \/ Answerer \/ DeadlineKill \/ UNCHANGED vars
             \/ \E k \in Killers : KillStep(k)
      PROVE  thread' = thread
  BY <1>4 DEF Fork, ResumeCheck, AnswerCheck, Reap, SupervisorKill, UserKill, Answerer,
     AnswerApply, AnswerSave, AnswerResume, DeadlineKill, KillCall, KillStep, KillPick,
     KillFlag, KillMove, KillReturn, vars
<1>. QED
  BY <1>1, <1>2, <1>3, <1>4 DEF Next, ChildRunner, Runner, Resumer, Proc

LEMMA LifeStep == LifeInv /\ [Next]_vars => LifeInv'
<1>. SUFFICES ASSUME LifeInv, [Next]_vars PROVE LifeInv'
  OBVIOUS
<1>1. TypeOK /\ LocalInv
  BY DEF LifeInv, LocalInv
<1>2. TypeOK' /\ LocalInv'
  BY <1>1, TypeStep, LocalStep
<1>3. ASSUME NEW p \in Child, NEW u \in DependsOn[p],
             thread'[p] \in {"slot", "claim", "admit", "loop", "retire"}
      PROVE  Done(u)'
  <2>0. u \in Child
    OBVIOUS
  <2>1. CASE thread[p] \in {"slot", "claim", "admit", "loop", "retire"}
    BY <1>1, <2>0, <2>1, DoneStep DEF LifeInv, DependenciesDone
  <2>2. CASE DepsReady(p)
    <3>1. status[u] = "completed" /\ ~Holds(u)
      BY <2>2 DEF DepsReady
    <3>2. thread[u] # "unstarted"
      BY <1>1, <2>0, <3>1 DEF LocalInv, CompletedIsOver, LoopOver
    <3>3. Done(u)
      BY <3>1, <3>2 DEF Holds, Done
    <3>. QED
      BY <1>1, <2>0, <3>3, DoneStep
  <2>. QED
    BY <1>1, <1>3, <2>1, <2>2, PastDepsSteps
<1>4. ASSUME NEW p \in Child, NEW u \in DependsOn[p], status'[p] = "completed"
      PROVE  Done(u)'
  <2>0. u \in Child /\ p \in Proc
    BY DEF Proc
  <2>1. CASE status[p] = "completed"
    BY <1>1, <2>0, <2>1, DoneStep DEF LifeInv, CompletedLast
  <2>2. CASE thread[p] = "loop"
    BY <1>1, <2>0, <2>2, DoneStep DEF LifeInv, DependenciesDone
  <2>. QED
    BY <1>1, <1>4, <2>0, <2>1, <2>2, CompletionSteps
<1>5. DependenciesDone'
  BY <1>3 DEF DependenciesDone
<1>6. CompletedLast'
  BY <1>4 DEF CompletedLast
<1>. QED
  BY <1>2, <1>5, <1>6 DEF LifeInv, LocalInv

LEMMA LifeInvariant == Spec => []LifeInv
<1>1. Init => LifeInv
  <2>. SUFFICES ASSUME Init PROVE LifeInv
    OBVIOUS
  <2>1. TypeOK /\ LocalInv
    BY TypeInit, LocalInit
  <2>2. DependenciesDone /\ CompletedLast
    BY DEF Init, DependenciesDone, CompletedLast, Proc
  <2>. QED
    BY <2>1, <2>2 DEF LifeInv, LocalInv
<1>. QED
  BY <1>1, LifeStep, PTL DEF Spec

\* No child runs on an upstream that failed, was cancelled or is still before
\* its barrier, in any dependency relation and however kills, questions and
\* failing checkpoints interleave.
THEOREM DependenciesAreDone == Spec => []DependenciesDone
<1>1. LifeInv => DependenciesDone
  BY DEF LifeInv
<1>. QED
  BY <1>1, LifeInvariant, PTL

\* A step changes the status and the finality of one execution at most.
LEMMA OneAtATime ==
  ASSUME TypeOK, [Next]_vars
  PROVE  \E q \in Proc : \A p \in Proc \ {q} :
           status'[p] = status[p] /\ (finalized'[p] <=> finalized[p])
<1>. USE DEF TypeOK, procVars, runVars, resumeVars, deskVars
<1>. DEFINE Only(q) == \A p \in Proc \ {q} :
              status'[p] = status[p] /\ (finalized'[p] <=> finalized[p])
<1>0. Root \in Proc
  BY DEF Proc
<1>1. ASSUME NEW q \in Child,
             \/ Fork(q) \/ Start(q) \/ ResumeStart(q) \/ DepsCancelled(q) \/ DepsFailed(q)
             \/ ClaimRefused(q)
      PROVE  Only(q) /\ q \in Proc
  BY <1>1 DEF Fork, Start, ResumeStart, Launch, DepsCancelled, DepsFailed, ClaimRefused,
     Worker, Proc
<1>2. ASSUME NEW q \in Proc,
             \/ Admit(q) \/ AdmitFailed(q) \/ LoopEnd(q) \/ LoopAsk(q) \/ Retire(q)
             \/ Checkpoint(q) \/ Settle(q)
      PROVE  Only(q)
  <2>. DEFINE Sets(f) == \E v : f' = [f EXCEPT ![q] = v]
  <2>1. (Sets(status) \/ status' = status) /\ (Sets(finalized) \/ finalized' = finalized)
    <3>. HIDE DEF TypeOK
    <3>1. CASE Admit(q) \/ AdmitFailed(q)
      BY <3>1 DEF Admit, AdmitFailed, Worker
    <3>2. CASE LoopEnd(q) \/ LoopAsk(q)
      BY <3>2 DEF LoopEnd, LoopAsk, Worker
    <3>3. CASE Retire(q) \/ Checkpoint(q) \/ Settle(q)
      BY <3>3 DEF Retire, Checkpoint, Settle, Worker
    <3>. QED
      BY <1>2, <3>1, <3>2, <3>3
  <2>2. status \in [Proc -> Status \union {"none"}] /\ finalized \in [Proc -> BOOLEAN]
    OBVIOUS
  <2>. HIDE DEF TypeOK
  <2>. QED
    BY <2>1, <2>2
<1>3. ASSUME AnswerApply \/ AnswerSave PROVE Only(answer.proc) /\ answer.proc \in Proc
  BY <1>3 DEF AnswerApply, AnswerSave
<1>4. ASSUME NEW k \in Killers, KillMove(k) PROVE Only(kill[k].at) /\ kill[k].at \in Proc
  BY <1>4 DEF KillMove, KillRecord
<1>5. ASSUME \/ \E q \in Child :
                  \/ DepsReady(q) \/ TakeSlot(q) \/ Claim(q) \/ ResumeCheck(q)
                  \/ AnswerCheck(q) \/ Reap(q) \/ SupervisorKill(q)
             \/ \E q \in Proc : Release(q) \/ UserKill(q)
             \/ AnswerResume \/ DeadlineKill \/ UNCHANGED vars
             \/ \E k \in Killers :
                  (\E t \in Proc : KillPick(k, t)) \/ KillFlag(k) \/ KillReturn(k)
      PROVE  Only(Root)
  BY <1>5 DEF DepsReady, TakeSlot, Claim, ResumeCheck, AnswerCheck, Reap, SupervisorKill,
     Release, UserKill, AnswerResume, DeadlineKill, KillCall, KillPick, KillFlag,
     KillReturn, vars
<1>. QED
  BY <1>0, <1>1, <1>2, <1>3, <1>4, <1>5
     DEF Next, ChildRunner, Runner, Resumer, Answerer, KillStep, Proc

LEMMA OutcomeStep ==
  ASSUME LifeInv, [Next]_vars, "error" \notin SaveOutcomes, NEW p \in Proc,
         outcomeOf(p) # "open"
  PROVE  outcomeOf(p)' = outcomeOf(p)
<1>1. TypeOK /\ LocalInv
  BY DEF LifeInv, LocalInv
<1>2. status[p] \in Terminal /\ (status[p] = "completed" => finalized[p])
  BY DEF outcomeOf
<1>3. status'[p] = status[p]
  BY <1>1, <1>2, FinalStep
<1>4. status[p] = "completed" => finalized'[p]
  <2>. SUFFICES ASSUME status[p] = "completed", ~finalized'[p] PROVE FALSE
    OBVIOUS
  <2>1. p \in Child /\ (thread[p] = "unstarted" \/ resume[p] = "checked")
    BY <1>1, <1>2, FinalitySteps
  <2>. QED
    BY <1>1, <2>1 DEF LocalInv, CompletedIsOver, ResumedIsOver, LoopOver
<1>. QED
  BY <1>2, <1>3, <1>4 DEF outcomeOf

\* A success is decided after the successes it depends on.
LEMMA CompletedAfterUpstreams ==
  ASSUME LifeInv, [Next]_vars, NEW p \in Child, NEW u \in DependsOn[p],
         outcomeOf(p) = "open", outcomeOf(p)' = "completed"
  PROVE  outcomeOf(u) = "completed"
<1>1. TypeOK /\ LocalInv /\ p \in Proc
  BY DEF LifeInv, LocalInv, Proc
<1>2. status'[p] = "completed"
  BY DEF outcomeOf, Terminal
<1>3. Done(u)
  <2>1. CASE status[p] = "completed"
    BY <2>1 DEF LifeInv, CompletedLast
  <2>2. CASE status[p] # "completed"
    BY <1>1, <1>2, <2>2, CompletionSteps DEF LifeInv, DependenciesDone
  <2>. QED
    BY <2>1, <2>2
<1>. QED
  BY <1>3 DEF Done, outcomeOf, Terminal

\* The manager implements the task graph, when no decision save is rolled
\* back: every execution has one outcome, decided once and, if a success,
\* after the successes it depends on.
THEOREM ManagerImplementsGraph ==
  ASSUME "error" \notin SaveOutcomes
  PROVE  Spec => ImplementsGraph
<1>1. Init => Graph!Init
  <2>. SUFFICES ASSUME Init PROVE \A p \in Proc : outcomeOf(p) = "open"
    BY DEF Graph!Init
  <2>. QED
    BY DEF Init, outcomeOf, Terminal, Proc
<1>2. LifeInv /\ [Next]_vars => [Graph!Next]_([p \in Proc |-> outcomeOf(p)])
  <2>. SUFFICES ASSUME LifeInv, [Next]_vars,
                       [p \in Proc |-> outcomeOf(p)]' # [p \in Proc |-> outcomeOf(p)]
                PROVE  Graph!Next
    OBVIOUS
  <2>. DEFINE o == [p \in Proc |-> outcomeOf(p)]
  <2>0. TypeOK
    BY DEF LifeInv
  <2>1. PICK q \in Proc : \A p \in Proc \ {q} :
          status'[p] = status[p] /\ (finalized'[p] <=> finalized[p])
    BY <2>0, OneAtATime
  <2>2. \A p \in Proc \ {q} : outcomeOf(p)' = outcomeOf(p)
    BY <2>1 DEF outcomeOf
  <2>3. outcomeOf(q)' # outcomeOf(q)
    BY <2>2
  <2>4. outcomeOf(q) = "open" /\ outcomeOf(q)' \in Graph!Outcome
    BY <2>3, OutcomeStep DEF outcomeOf, Graph!Outcome, Terminal
  <2>5. o' = [o EXCEPT ![q] = outcomeOf(q)']
    BY <2>2
  <2>6. outcomeOf(q)' = "completed" =>
          \A u \in (IF q = Root THEN {} ELSE DependsOn[q]) : o[u] = "completed"
    BY <2>4, CompletedAfterUpstreams DEF Proc
  <2>7. Graph!Decide(q, outcomeOf(q)')
    BY <2>4, <2>5, <2>6 DEF Graph!Decide
  <2>. QED
    BY <2>4, <2>7 DEF Graph!Next
<1>. QED
  BY <1>1, <1>2, LifeInvariant, PTL DEF Spec, ImplementsGraph, Graph!Spec

-----------------------------------------------------------------------------
(* Hands: who is responsible for an execution that is not over.            *)

MovesAreFlagged == \A k \in Killers : kill[k].phase = "move" => cancelled[kill[k].at]
NoOrphans       == \A p \in Proc : status[p] # "orphaned"
UnforkedIdle    == \A p \in Child : status[p] = "none" => thread[p] = "unstarted"
WaitingBefore   == \A p \in Child : status[p] = "waiting" => ~LoopOver(p)
CheckedRuns     == \A p \in Child :
                     resume[p] = "checked" => status[p] = "running" \/ cancelled[p]
EndedIsDropped  == \A p \in Child :
                     thread[p] = "dead" /\ status[p] \in Terminal /\ ~cancelled[p] =>
                       ~continuation[p]
AnswerIsKept    == answer.phase # "idle" /\ ~continuation[answer.proc] =>
                     status[answer.proc] \in Terminal
RunningIsHeld   == \A p \in Child :
                     LoopOver(p) /\ status[p] = "running" =>
                       \/ resume[p] # "none"
                       \/ answer.proc = p /\ answer.phase \in {"saving", "saved"}
                       \/ cancelled[p]

HandInv ==
  /\ MovesAreFlagged
  /\ NoOrphans
  /\ UnforkedIdle
  /\ WaitingBefore
  /\ CheckedRuns
  /\ EndedIsDropped
  /\ AnswerIsKept
  /\ RunningIsHeld

\* What ends a run, or parks it, leaves neither "running" nor "waiting".
LEMMA EndingEnds ==
  ASSUME NEW s \in AnyStatus, NEW c \in BOOLEAN, NEW f \in BOOLEAN,
         NEW t \in {"completed", "failed", "timed_out", "cancelled", "awaiting_user"}
  PROVE  AfterOrFailed(s, t, c, f) \in
           ({s, t, "cancelled", "failed"} \ {"running", "waiting"})
BY DEF AfterOrFailed, After, Effective, Permitted, Sticky, Rejected, AnyStatus, Status,
       Terminal, Recovery, Active

LEMMA EndingSets ==
  ASSUME TypeOK, NEW p \in Proc,
         NEW t \in {"completed", "failed", "timed_out", "cancelled", "awaiting_user"},
         Worker(p, t)
  PROVE  \E s \in {status[p], t, "cancelled", "failed"} \ {"running", "waiting"} :
           status' = [status EXCEPT ![p] = s]
<1>1. status[p] \in AnyStatus /\ cancelled[p] \in BOOLEAN /\ finalized[p] \in BOOLEAN
  BY DEF TypeOK, AnyStatus
<1>2. AfterOrFailed(status[p], t, cancelled[p], finalized[p])
        \in ({status[p], t, "cancelled", "failed"} \ {"running", "waiting"})
  BY <1>1, EndingEnds
<1>. QED
  BY <1>2 DEF Worker

\* A call on a terminal execution raises or changes nothing.
LEMMA CallOnTerminal ==
  ASSUME TypeOK, NEW p \in Proc, status[p] \in Terminal, NEW t \in {"running", "cancelling"}
  PROVE  After(status[p], t, cancelled[p], finalized[p]) = Rejected
BY DEF After, Effective, Permitted, Sticky, Rejected, Terminal, Recovery, Active

LEMMA HandInit == Init => HandInv
BY DEF Init, HandInv, MovesAreFlagged, NoOrphans, UnforkedIdle, WaitingBefore, CheckedRuns,
       EndedIsDropped, AnswerIsKept, RunningIsHeld, IdleKill, IdleAnswer, LoopOver, Proc

\* A step of p's own runner, of any point but its last.
LEMMA RunnerKeepsHands ==
  ASSUME TypeOK, LocalInv, HandInv, NEW p \in Proc, NEW x \in Point \ {"unstarted", "dead"},
         NEW s \in (AnyStatus \ {"none", "orphaned"}) \union {status[p]},
         thread[p] \notin {"unstarted", "dead"},
         thread' = [thread EXCEPT ![p] = x],
         status' = [status EXCEPT ![p] = s],
         LoopOver(p) => s \in {status[p], "cancelled", "failed"},
         ~LoopOver(p) => s \notin {"running", "waiting"} \/ x \in {"slot", "claim", "admit", "loop"},
         UNCHANGED <<cancelled, continuation, resume, kill, answer>>
  PROVE  HandInv'
<1>. USE DEF HandInv, LoopOver
<1>1. thread \in [Proc -> Point] /\ status \in [Proc -> AnyStatus] /\ Child \subseteq Proc
  BY DEF TypeOK, AnyStatus, Proc
<1>2. \A q \in Proc : q # p => status'[q] = status[q] /\ thread'[q] = thread[q]
  BY <1>1
<1>3. status'[p] = s /\ thread'[p] = x
  BY <1>1
<1>4. MovesAreFlagged' /\ NoOrphans'
  BY <1>2, <1>3 DEF MovesAreFlagged, NoOrphans
<1>5. UnforkedIdle'
  BY <1>1, <1>2, <1>3 DEF UnforkedIdle
<1>6. WaitingBefore'
  <2>1. p \in Child /\ s = "waiting" => ~LoopOver(p)'
    BY <1>3 DEF WaitingBefore, NoOrphans, TypeOK, Point
  <2>. QED
    BY <1>1, <1>2, <1>3 DEF WaitingBefore
<1>7. CheckedRuns' /\ EndedIsDropped'
  BY <1>1, <1>2, <1>3 DEF CheckedRuns, EndedIsDropped, LocalInv, CheckedIsDead
<1>8. AnswerIsKept'
  BY <1>1, <1>2, <1>3 DEF AnswerIsKept, LocalInv, AnsweredIsOver, Terminal
<1>9. RunningIsHeld'
  BY <1>1, <1>2, <1>3 DEF RunningIsHeld
<1>. QED
  BY <1>4, <1>5, <1>6, <1>7, <1>8, <1>9

\* One that leaves the status alone, on its way to the loop or after it.
LEMMA PassingKeepsHands ==
  ASSUME TypeOK, LocalInv, HandInv, NEW p \in Proc, NEW x \in Point \ {"unstarted", "dead"},
         thread[p] \notin {"unstarted", "dead"},
         thread' = [thread EXCEPT ![p] = x],
         x \in {"slot", "claim", "admit", "loop"} \/ status[p] \notin {"running", "waiting"},
         UNCHANGED <<status, cancelled, continuation, resume, kill, answer>>
  PROVE  HandInv'
<1>. DEFINE s == status[p]
<1>1. status' = [status EXCEPT ![p] = s]
  BY DEF TypeOK
<1>2. s \in (AnyStatus \ {"none", "orphaned"}) \union {status[p]}
  OBVIOUS
<1>3. /\ LoopOver(p) => s \in {status[p], "cancelled", "failed"}
      /\ ~LoopOver(p) => s \notin {"running", "waiting"} \/ x \in {"slot", "claim", "admit", "loop"}
  OBVIOUS
<1>4. UNCHANGED <<cancelled, continuation, resume, kill, answer>>
  OBVIOUS
<1>. HIDE DEF s
<1>. QED
  BY <1>1, <1>2, <1>3, <1>4, RunnerKeepsHands

\* What kill() does to the status of its target, which it has flagged before.
LEMMA KillMoveSets ==
  ASSUME TypeOK, HandInv, NEW k \in Killers, KillMove(k)
  PROVE  /\ kill[k].at \in Proc /\ cancelled[kill[k].at]
         /\ \E s \in {status[kill[k].at], "cancelled", "cancelling"} :
              /\ status' = [status EXCEPT ![kill[k].at] = s]
              /\ status[kill[k].at] \in Terminal => s \in Terminal
<1>. DEFINE t == kill[k].at
            a(o) == After(status[t], o, cancelled[t], finalized[t])
<1>1. t \in Proc /\ cancelled[t]
  BY DEF TypeOK, KillRecord, KillMove, HandInv, MovesAreFlagged
<1>2. \A o \in {"cancelled", "cancelling"} : a(o) # Rejected => a(o) \in {status[t], o}
  BY <1>1, CallOutcomeOf, Statuses
<1>3. status[t] \in Terminal => a("cancelling") = Rejected
  BY <1>1, CallOnTerminal
<1>4. \/ UNCHANGED status
      \/ \E o \in {"cancelled", "cancelling"} :
           a(o) # Rejected /\ status' = [status EXCEPT ![t] = a(o)]
  BY DEF KillMove
<1>5. "cancelled" \in Terminal
  BY DEF Terminal
<1>6. status = [status EXCEPT ![t] = status[t]]
  BY DEF TypeOK
<1>. HIDE DEF t, a
<1>7. CASE UNCHANGED status
  BY <1>1, <1>6, <1>7 DEF t
<1>8. ASSUME NEW o \in {"cancelled", "cancelling"}, a(o) # Rejected,
             status' = [status EXCEPT ![t] = a(o)]
      PROVE  \E s \in {status[t], "cancelled", "cancelling"} :
               /\ status' = [status EXCEPT ![t] = s]
               /\ status[t] \in Terminal => s \in Terminal
  BY <1>2, <1>3, <1>5, <1>8
<1>. QED
  BY <1>1, <1>4, <1>7, <1>8 DEF t

LEMMA KillKeepsHands ==
  ASSUME TypeOK, LocalInv, HandInv, NEW k \in Killers, KillStep(k)
  PROVE  HandInv'
<1>. USE DEF HandInv
<1>0. \A j \in Killers : kill[j] \in KillRecord /\ kill[j].at \in Proc
  BY DEF TypeOK, KillRecord
<1>1. ASSUME (\E t \in Proc : KillPick(k, t)) \/ KillReturn(k) PROVE HandInv'
  <2>1. UNCHANGED <<status, cancelled, thread, continuation, resume, answer>>
    BY <1>1 DEF KillPick, KillReturn, procVars, runVars, resumeVars
  <2>2. kill'[k].phase # "move" /\ \A j \in Killers \ {k} : kill'[j] = kill[j]
    <3>1. CASE KillReturn(k)
      BY <3>1 DEF KillReturn, IdleKill, TypeOK
    <3>2. ASSUME NEW t \in Proc, KillPick(k, t)
          PROVE  kill'[k].phase # "move" /\ \A j \in Killers \ {k} : kill'[j] = kill[j]
      BY <1>0, <3>2 DEF KillPick, KillRecord, TypeOK
    <3>. QED
      BY <1>1, <3>1, <3>2
  <2>3. MovesAreFlagged'
    BY <2>1, <2>2 DEF MovesAreFlagged
  <2>. QED
    BY <2>1, <2>3 DEF NoOrphans, UnforkedIdle, WaitingBefore, CheckedRuns, EndedIsDropped,
       AnswerIsKept, RunningIsHeld, LoopOver
<1>2. ASSUME KillFlag(k) PROVE HandInv'
  <2>1. UNCHANGED <<status, thread, continuation, resume, answer>>
    BY <1>2 DEF KillFlag, runVars, resumeVars
  <2>2. cancelled' = [cancelled EXCEPT ![kill[k].at] = TRUE]
    BY <1>2 DEF KillFlag
  <2>3. \A q \in Proc : cancelled[q] => cancelled'[q]
    BY <1>0, <2>2 DEF TypeOK
  <2>4. /\ kill'[k].at = kill[k].at
        /\ \A j \in Killers \ {k} : kill'[j] = kill[j]
    BY <1>0, <1>2 DEF KillFlag, KillRecord, TypeOK
  <2>5. MovesAreFlagged'
    <3>. SUFFICES ASSUME NEW j \in Killers, kill'[j].phase = "move"
                  PROVE  cancelled'[kill'[j].at]
      BY DEF MovesAreFlagged
    <3>1. CASE j = k
      BY <1>0, <2>2, <2>4, <3>1 DEF TypeOK
    <3>2. CASE j # k
      BY <1>0, <2>3, <2>4, <3>2 DEF MovesAreFlagged
    <3>. QED
      BY <3>1, <3>2
  <2>. QED
    BY <2>1, <2>3, <2>5 DEF NoOrphans, UnforkedIdle, WaitingBefore, CheckedRuns,
       EndedIsDropped, AnswerIsKept, RunningIsHeld, LoopOver, Proc
<1>3. ASSUME KillMove(k) PROVE HandInv'
  <2>. DEFINE t == kill[k].at
  <2>1. t \in Proc /\ cancelled[t]
    BY <1>3, KillMoveSets
  <2>2. PICK s \in {status[t], "cancelled", "cancelling"} :
          /\ status' = [status EXCEPT ![t] = s]
          /\ status[t] \in Terminal => s \in Terminal
    <3>. HIDE DEF HandInv
    <3>. QED
      BY <1>3, KillMoveSets
  <2>3. UNCHANGED <<cancelled, thread, continuation, resume, answer>>
    BY <1>3 DEF KillMove, runVars, resumeVars
  <2>4. kill'[k].phase # "move" /\ \A j \in Killers \ {k} : kill'[j] = kill[j]
    BY <1>0, <1>3 DEF KillMove, KillRecord, TypeOK
  <2>5. MovesAreFlagged'
    BY <2>3, <2>4 DEF MovesAreFlagged
  <2>6. \A q \in Proc : status'[q] = status[q] \/ (q = t /\ status'[q] = s)
    <3>1. DOMAIN status = Proc
      BY DEF TypeOK
    <3>. HIDE DEF t
    <3>. QED
      BY <2>2, <3>1
  <2>7. NoOrphans' /\ UnforkedIdle' /\ WaitingBefore'
    BY <2>2, <2>3, <2>6 DEF NoOrphans, UnforkedIdle, WaitingBefore, LoopOver, Proc
  <2>8. CheckedRuns' /\ EndedIsDropped' /\ RunningIsHeld'
    BY <2>1, <2>2, <2>3, <2>6 DEF CheckedRuns, EndedIsDropped, RunningIsHeld, LoopOver, Proc
  <2>9. AnswerIsKept'
    BY <2>2, <2>3, <2>6 DEF AnswerIsKept, LocalInv, AnsweredIsOver, Proc
  <2>. QED
    BY <2>5, <2>7, <2>8, <2>9
<1>. QED
  BY <1>1, <1>2, <1>3 DEF KillStep

LEMMA HandStep == TypeOK /\ LocalInv /\ HandInv /\ [Next]_vars => HandInv'
<1>. SUFFICES ASSUME TypeOK, LocalInv, HandInv, [Next]_vars PROVE HandInv'
  OBVIOUS
<1>0. /\ {"running", "cancelled", "failed", "completed", "timed_out", "awaiting_user"}
           \subseteq AnyStatus \ {"none", "orphaned"}
      /\ {"slot", "claim", "admit", "loop", "retire", "release", "checkpoint", "settle"}
           \subseteq Point \ {"unstarted", "dead"}
  BY Statuses DEF AnyStatus, Point
<1>3. ASSUME NEW p \in Child, DepsCancelled(p) \/ DepsFailed(p) \/ ClaimRefused(p)
      PROVE  HandInv'
  <2>1. PICK s \in {status[p], "cancelled", "failed"} \ {"running", "waiting"} :
          status' = [status EXCEPT ![p] = s]
    BY <1>3, EndingSets DEF DepsCancelled, DepsFailed, ClaimRefused, Proc
  <2>2. /\ UNCHANGED <<cancelled, continuation, resume, kill, answer>>
        /\ thread[p] \in {"deps", "claim"}
        /\ thread' = [thread EXCEPT ![p] = "release"]
    BY <1>3 DEF DepsCancelled, DepsFailed, ClaimRefused, procVars, runVars, resumeVars, deskVars
  <2>. QED
    BY <1>0, <2>1, <2>2, RunnerKeepsHands DEF Proc, LoopOver
<1>4. ASSUME NEW p \in Child, DepsReady(p) \/ TakeSlot(p) \/ Claim(p) PROVE HandInv'
  <2>1. /\ UNCHANGED <<status, cancelled, continuation, resume, kill, answer>>
        /\ thread[p] \in {"deps", "slot", "claim"}
    BY <1>4 DEF DepsReady, TakeSlot, Claim, procVars, runVars, resumeVars, deskVars
  <2>2. PICK x \in {"slot", "claim", "admit"} : thread' = [thread EXCEPT ![p] = x]
    BY <1>4 DEF DepsReady, TakeSlot, Claim
  <2>. QED
    BY <1>0, <2>1, <2>2, PassingKeepsHands DEF Proc
<1>5. ASSUME NEW p \in Proc, Admit(p) PROVE HandInv'
  <2>0. UNCHANGED <<cancelled, continuation, resume, kill, answer>> /\ thread[p] = "admit"
    BY <1>5 DEF Admit, procVars, runVars, resumeVars, deskVars
  <2>1. CASE Worker(p, "running") /\ thread' = [thread EXCEPT ![p] = "loop"]
    <3>1. PICK s \in {status[p], "running", "cancelled", "failed"} :
            status' = [status EXCEPT ![p] = s]
      BY <2>1, WorkerSets, Statuses
    <3>. QED
      BY <1>0, <2>0, <2>1, <3>1, RunnerKeepsHands DEF LoopOver
  <2>2. CASE Worker(p, "cancelled") /\ thread' = [thread EXCEPT ![p] = "retire"]
    <3>1. PICK s \in {status[p], "cancelled", "failed"} \ {"running", "waiting"} :
            status' = [status EXCEPT ![p] = s]
      BY <2>2, EndingSets
    <3>. QED
      BY <1>0, <2>0, <2>2, <3>1, RunnerKeepsHands DEF LoopOver
  <2>3. CASE /\ status[p] \notin {"waiting", "running"} /\ UNCHANGED status
             /\ thread' = [thread EXCEPT ![p] = "retire"]
    BY <1>0, <2>0, <2>3, PassingKeepsHands
  <2>. QED
    BY <1>5, <2>1, <2>2, <2>3 DEF Admit
<1>6. ASSUME NEW p \in Proc, AdmitFailed(p) \/ LoopEnd(p) \/ LoopAsk(p) PROVE HandInv'
  <2>1. PICK s \in {status[p], "completed", "failed", "timed_out", "cancelled", "awaiting_user"}
                   \ {"running", "waiting"} :
          status' = [status EXCEPT ![p] = s]
    <3>1. CASE AdmitFailed(p)
      BY <3>1, EndingSets DEF AdmitFailed
    <3>2. CASE LoopEnd(p)
      <4>1. PICK outcome \in {"completed", "failed", "timed_out", "cancelled"} :
              Worker(p, outcome)
        BY <3>2 DEF LoopEnd
      <4>. QED
        BY <4>1, EndingSets
    <3>3. CASE LoopAsk(p)
      BY <3>3, EndingSets DEF LoopAsk
    <3>. QED
      BY <1>6, <3>1, <3>2, <3>3
  <2>2. /\ UNCHANGED <<cancelled, continuation, resume, kill, answer>>
        /\ thread[p] \in {"admit", "loop"}
        /\ thread' = [thread EXCEPT ![p] = "retire"]
    BY <1>6 DEF AdmitFailed, LoopEnd, LoopAsk, LoopFree, procVars, runVars, resumeVars, deskVars
  <2>. QED
    BY <1>0, <2>1, <2>2, RunnerKeepsHands DEF LoopOver
<1>7. ASSUME NEW p \in Proc, Retire(p) \/ Checkpoint(p) \/ Release(p) PROVE HandInv'
  <2>1. /\ UNCHANGED <<cancelled, continuation, resume, kill, answer>>
        /\ thread[p] \in {"retire", "checkpoint", "release"}
        /\ \E x \in {"release", "settle", "checkpoint"} : thread' = [thread EXCEPT ![p] = x]
    BY <1>7 DEF Retire, Checkpoint, Release, procVars, runVars, resumeVars, deskVars
  <2>2. PICK s \in {"cancelled", "failed", status[p]} : status' = [status EXCEPT ![p] = s]
    <3>1. CASE status' = status
      BY <3>1 DEF TypeOK
    <3>2. CASE Worker(p, "failed")
      BY <3>2, WorkerSets, Statuses
    <3>3. CASE Checkpoint(p)
      BY <3>3, CheckpointSets
    <3>. QED
      BY <1>7, <3>1, <3>2, <3>3 DEF Retire, Release, procVars
  <2>. QED
    BY <1>0, <2>1, <2>2, RunnerKeepsHands DEF LoopOver
<1>. USE Statuses DEF TypeOK, LocalInv, AwaitingIsOver, AnsweredIsOver, ResumedIsOver,
       CheckedIsDead, HandInv, MovesAreFlagged, NoOrphans, UnforkedIdle, WaitingBefore,
       CheckedRuns, EndedIsDropped, AnswerIsKept, RunningIsHeld, LoopOver,
       procVars, runVars, resumeVars, deskVars
<1>1. ASSUME NEW p \in Child, Fork(p) PROVE HandInv'
  BY <1>1 DEF Fork, Proc
<1>2. ASSUME NEW p \in Child, Start(p) PROVE HandInv'
  BY <1>2 DEF Start, Launch, Proc, Forked
<1>8. ASSUME NEW p \in Proc, Settle(p) PROVE HandInv'
  BY <1>8 DEF Settle, Proc
<1>9. ASSUME NEW p \in Child, ResumeCheck(p) PROVE HandInv'
  BY <1>9 DEF ResumeCheck, Proc
<1>10. ASSUME NEW p \in Child, ResumeStart(p) PROVE HandInv'
  BY <1>10 DEF ResumeStart, Launch, Alive, Proc
<1>11. ASSUME NEW p \in Child, AnswerCheck(p) PROVE HandInv'
  BY <1>11 DEF AnswerCheck, DaemonFree
<1>12. ASSUME AnswerApply PROVE HandInv'
  <2>. DEFINE p == answer.proc
              a == After(status[p], "running", cancelled[p], finalized[p])
  <2>1. p \in Child /\ p \in Proc
    BY <1>12 DEF AnswerApply, Proc
  <2>2. a = Rejected \/ a = "running"
    BY <2>1, CallOutcomeOf
  <2>3. CASE a = Rejected
    BY <1>12, <2>1, <2>3 DEF AnswerApply, IdleAnswer
  <2>4. CASE a = "running" /\ a # Rejected
    <3>1. status' = [status EXCEPT ![p] = "running"]
      BY <1>12, <2>4 DEF AnswerApply
    <3>2. answer'.phase = "saving" /\ answer'.proc = p
      BY <1>12, <2>4 DEF AnswerApply
    <3>3. UNCHANGED <<cancelled, thread, continuation, resume, kill>> /\ answer.phase # "idle"
      BY <1>12 DEF AnswerApply
    <3>4. status[p] \notin Terminal
      BY <2>1, <2>4, CallOnTerminal
    <3>. QED
      BY <2>1, <3>1, <3>2, <3>3, <3>4 DEF Proc, Terminal
  <2>. QED
    BY <2>2, <2>3, <2>4
<1>13. ASSUME AnswerSave PROVE HandInv'
  <2>. DEFINE p == answer.proc
  <2>1. p \in Child /\ p \in Proc
    BY <1>13 DEF AnswerSave, Proc
  <2>2. UNCHANGED <<cancelled, thread, continuation, resume, kill>> /\ answer.phase = "saving"
    BY <1>13 DEF AnswerSave
  <2>3. CASE status' = status /\ answer' = [answer EXCEPT !.phase = "saved"]
    <3>1. answer'.phase = "saved" /\ answer'.proc = p
      BY <2>3
    <3>. QED
      BY <2>1, <2>2, <2>3, <3>1
  <2>4. CASE /\ answer' = IdleAnswer
             /\ \E s \in {"awaiting_user", AfterUncertainCommit(status[p])} :
                  status' = [status EXCEPT ![p] = s]
    <3>1. PICK s \in {"awaiting_user", AfterUncertainCommit(status[p])} :
            status' = [status EXCEPT ![p] = s]
      BY <2>4
    <3>2. s \in Terminal => s = status[p]
      BY <3>1 DEF AfterUncertainCommit, Terminal
    <3>3. s \notin {"running", "waiting", "none", "orphaned"}
      BY <3>1 DEF AfterUncertainCommit, Terminal
    <3>. QED
      BY <2>1, <2>2, <2>4, <3>1, <3>2, <3>3 DEF IdleAnswer
  <2>. QED
    BY <1>13, <2>3, <2>4 DEF AnswerSave
<1>14. ASSUME AnswerResume PROVE HandInv'
  <2>1. answer.proc \in Child /\ "running" \notin Terminal
    BY <1>14 DEF AnswerResume, Terminal
  <2>. QED
    BY <1>14, <2>1 DEF AnswerResume, IdleAnswer, Proc
<1>15. ASSUME NEW k \in Killers, NEW p \in Proc, NEW job, KillCall(k, p, job)
       PROVE  HandInv'
  BY <1>15 DEF KillCall
<1>19. CASE UNCHANGED vars
  BY <1>19 DEF vars
<1>. QED
  BY <1>1, <1>2, <1>3, <1>4, <1>5, <1>6, <1>7, <1>8, <1>9, <1>10, <1>11, <1>12, <1>13, <1>14,
     <1>15, <1>19, KillKeepsHands
     DEF Next, ChildRunner, Runner, Resumer, Answerer, UserKill, Reap,
         SupervisorKill, DeadlineKill, Proc

LEMMA HandInvariant == Spec => []HandInv
<1>1. LifeLocal /\ HandInv /\ [Next]_vars => HandInv'
  BY HandStep DEF LifeLocal
<1>. QED
  BY <1>1, HandInit, LocalInvariant, PTL DEF Spec

\* No execution is left running, or waiting to run, that nobody will move on:
\* whatever answers, kills and ending runners do to each other, a runner, a
\* resume thread or the command resuming it still has it.
THEOREM NobodyIsStranded == Spec => []NobodyStranded
<1>1. LifeLocal /\ HandInv => NobodyStranded
  <2>. SUFFICES ASSUME LifeLocal, HandInv, NEW p \in Child, thread[p] = "dead",
                       status[p] \in {"running", "waiting"}
                PROVE  \/ resume[p] # "none"
                       \/ answer.proc = p /\ answer.phase \in {"saving", "saved"}
                       \/ cancelled[p]
    BY DEF NobodyStranded
  <2>. QED
    BY DEF HandInv, WaitingBefore, RunningIsHeld, LoopOver
<1>. QED
  BY <1>1, HandInvariant, LocalInvariant, PTL

-----------------------------------------------------------------------------
(* Sessions: one execution of a session in its target at a time.           *)

\* Nothing starts this execution again: its run is over, it has nothing to be
\* resumed with, and no answer is on its way to it.
Spent(p) ==
  /\ thread[p] = "dead" /\ ~continuation[p] /\ resume[p] # "checked"
  /\ \/ status[p] \in Terminal
     \/ status[p] = "awaiting_user" /\ (answer.phase # "idle" => answer.proc # p)

\* It is outside its target for good, by its cancellation or as spent.
Out(p) == (cancelled[p] /\ ~InTarget(p)) \/ Spent(p)

SessionsApart ==
  \A p, q \in Forked \intersect Child :
    p # q /\ SessionOf[p] = SessionOf[q] => Out(p) \/ Out(q)

\* A cancelled execution does not enter its target: claims are refused to it.
LEMMA TargetEntry ==
  ASSUME TypeOK, [Next]_vars, NEW p \in Child, InTarget(p)', ~InTarget(p)
  PROVE  ~cancelled[p]
<1>. USE DEF TypeOK, InTarget, procVars, runVars, resumeVars, deskVars
<1>1. ASSUME NEW q \in Child, Start(q) \/ ResumeStart(q) PROVE ~cancelled[p]
  BY <1>1 DEF Start, ResumeStart, Launch, Proc
<1>2. ASSUME NEW q \in Child,
             \/ DepsCancelled(q) \/ DepsFailed(q) \/ DepsReady(q) \/ TakeSlot(q)
             \/ ClaimRefused(q) \/ Claim(q)
      PROVE  ~cancelled[p]
  BY <1>2 DEF DepsCancelled, DepsFailed, DepsReady, TakeSlot, ClaimRefused, Claim, Proc
<1>3. ASSUME NEW q \in Proc,
             \/ Admit(q) \/ AdmitFailed(q) \/ LoopEnd(q) \/ LoopAsk(q) \/ Retire(q)
             \/ Release(q) \/ Checkpoint(q) \/ Settle(q)
      PROVE  ~cancelled[p]
  <2>1. PICK x \in Point : thread' = [thread EXCEPT ![q] = x]
    BY <1>3 DEF Admit, AdmitFailed, LoopEnd, LoopAsk, Retire, Release, Checkpoint, Settle, Point
  <2>2. InTarget(q) \/ x \notin {"admit", "loop", "retire"}
    BY <1>3, <2>1 DEF Admit, AdmitFailed, LoopEnd, LoopAsk, LoopFree, Retire, Release,
       Checkpoint, Settle
  <2>. QED
    BY <2>1, <2>2 DEF Proc
<1>4. ASSUME \/ \E q \in Child : \/ Fork(q) \/ ResumeCheck(q) \/ AnswerCheck(q) \/ Reap(q)
                                 \/ SupervisorKill(q)
             \/ \E q \in Proc : UserKill(q)
             \/ Answerer \/ DeadlineKill \/ UNCHANGED vars
             \/ \E k \in Killers : KillStep(k)
      PROVE  thread' = thread
  BY <1>4 DEF Fork, ResumeCheck, AnswerCheck, Reap, SupervisorKill, UserKill, Answerer,
     AnswerApply, AnswerSave, AnswerResume, DeadlineKill, KillCall, KillStep, KillPick,
     KillFlag, KillMove, KillReturn, vars
<1>. QED
  BY <1>1, <1>2, <1>3, <1>4 DEF Next, ChildRunner, Runner, Resumer, Proc

\* No step takes a cancellation back.
LEMMA CancellationStays ==
  ASSUME TypeOK, [Next]_vars, NEW p \in Proc, cancelled[p]
  PROVE  cancelled'[p]
<1>. USE DEF TypeOK, procVars
<1>1. ASSUME NEW k \in Killers, KillFlag(k) PROVE cancelled'[p]
  BY <1>1 DEF KillFlag
<1>2. ASSUME NEW k \in Killers, (\E t \in Proc : KillPick(k, t)) \/ KillMove(k) \/ KillReturn(k)
      PROVE  cancelled' = cancelled
  BY <1>2 DEF KillPick, KillMove, KillReturn
<1>3. ASSUME NEW q \in Child,
             \/ Fork(q) \/ Start(q) \/ DepsCancelled(q) \/ DepsFailed(q) \/ DepsReady(q)
             \/ TakeSlot(q) \/ ClaimRefused(q) \/ Claim(q) \/ LoopAsk(q) \/ ResumeCheck(q)
             \/ ResumeStart(q) \/ AnswerCheck(q) \/ Reap(q) \/ SupervisorKill(q)
      PROVE  cancelled' = cancelled
  BY <1>3 DEF Fork, Start, DepsCancelled, DepsFailed, DepsReady, TakeSlot, ClaimRefused,
     Claim, LoopAsk, ResumeCheck, ResumeStart, AnswerCheck, Reap, SupervisorKill, KillCall
<1>4. ASSUME NEW q \in Proc,
             \/ Admit(q) \/ AdmitFailed(q) \/ LoopEnd(q) \/ Retire(q) \/ Release(q)
             \/ Checkpoint(q) \/ Settle(q) \/ UserKill(q)
      PROVE  cancelled' = cancelled
  BY <1>4 DEF Admit, AdmitFailed, LoopEnd, Retire, Release, Checkpoint, Settle, UserKill,
     KillCall
<1>5. ASSUME Answerer \/ DeadlineKill \/ UNCHANGED vars PROVE cancelled' = cancelled
  BY <1>5 DEF Answerer, AnswerApply, AnswerSave, AnswerResume, DeadlineKill, KillCall, vars
<1>. QED
  BY <1>1, <1>2, <1>3, <1>4, <1>5 DEF Next, ChildRunner, Runner, Resumer, KillStep

\* A spent execution is not started again unless somebody cancels it first.
LEMMA SpentStays ==
  ASSUME TypeOK, HandInv, [Next]_vars, NEW p \in Child, Spent(p), ~cancelled[p]
  PROVE  Spent(p)'
<1>. USE DEF TypeOK, Spent, procVars, runVars, resumeVars, deskVars
<1>0. p \in Proc /\ "none" \notin Terminal /\ "running" \notin Terminal
  BY DEF Proc, Terminal
<1>1. ASSUME NEW q \in Child, Fork(q) \/ Start(q) \/ ResumeStart(q) PROVE Spent(p)'
  <2>1. q # p
    BY <1>0, <1>1 DEF Fork, Start, ResumeStart
  <2>. QED
    BY <1>0, <1>1, <2>1 DEF Fork, Start, ResumeStart, Launch
<1>2. ASSUME NEW q \in Child,
             \/ DepsCancelled(q) \/ DepsFailed(q) \/ DepsReady(q) \/ TakeSlot(q)
             \/ ClaimRefused(q) \/ Claim(q)
      PROVE  Spent(p)'
  <2>1. q # p
    BY <1>2 DEF DepsCancelled, DepsFailed, DepsReady, TakeSlot, ClaimRefused, Claim
  <2>2. UNCHANGED <<continuation, resume, answer>>
    BY <1>2 DEF DepsCancelled, DepsFailed, DepsReady, TakeSlot, ClaimRefused, Claim
  <2>3. status'[p] = status[p] /\ thread'[p] = thread[p]
    BY <1>0, <1>2, <2>1 DEF DepsCancelled, DepsFailed, DepsReady, TakeSlot, ClaimRefused,
       Claim, Worker
  <2>. QED
    BY <2>2, <2>3
<1>3. ASSUME NEW q \in Proc,
             \/ Admit(q) \/ AdmitFailed(q) \/ LoopEnd(q) \/ LoopAsk(q) \/ Retire(q)
             \/ Release(q) \/ Checkpoint(q)
      PROVE  Spent(p)'
  <2>1. q # p
    BY <1>3 DEF Admit, AdmitFailed, LoopEnd, LoopAsk, LoopFree, Retire, Release, Checkpoint
  <2>2. UNCHANGED <<continuation, resume, answer>>
    BY <1>3 DEF Admit, AdmitFailed, LoopEnd, LoopAsk, Retire, Release, Checkpoint
  <2>3. thread'[p] = thread[p]
    BY <1>0, <1>3, <2>1 DEF Admit, AdmitFailed, LoopEnd, LoopAsk, Retire, Release, Checkpoint
  <2>4. status'[p] = status[p]
    <3>1. CASE Admit(q) \/ AdmitFailed(q)
      BY <1>0, <2>1, <3>1 DEF Admit, AdmitFailed, Worker
    <3>2. CASE LoopEnd(q) \/ LoopAsk(q)
      BY <1>0, <2>1, <3>2 DEF LoopEnd, LoopAsk, Worker
    <3>3. CASE Retire(q) \/ Release(q) \/ Checkpoint(q)
      BY <1>0, <2>1, <3>3 DEF Retire, Release, Checkpoint, Worker
    <3>. QED
      BY <1>3, <3>1, <3>2, <3>3
  <2>. QED
    BY <2>2, <2>3, <2>4
<1>4. ASSUME NEW q \in Proc, Settle(q) PROVE Spent(p)'
  <2>1. q # p
    BY <1>4 DEF Settle
  <2>. QED
    BY <1>0, <1>4, <2>1 DEF Settle
<1>5. ASSUME NEW q \in Child, ResumeCheck(q) \/ AnswerCheck(q) PROVE Spent(p)'
  BY <1>0, <1>5 DEF ResumeCheck, AnswerCheck
<1>6. ASSUME AnswerApply PROVE Spent(p)'
  <2>1. UNCHANGED <<thread, continuation, resume>> /\ answer.phase = "checked"
    BY <1>6 DEF AnswerApply
  <2>2. CASE answer.proc = p
    <3>1. status[p] \in Terminal
      BY <2>1, <2>2
    <3>2. After(status[p], "running", cancelled[p], finalized[p]) = Rejected
      BY <1>0, <3>1, CallOnTerminal
    <3>. QED
      BY <1>6, <2>1, <2>2, <3>1, <3>2 DEF AnswerApply
  <2>3. CASE answer.proc # p
    <3>1. status'[p] = status[p]
      BY <1>0, <1>6, <2>3 DEF AnswerApply
    <3>2. answer'.phase = "idle" \/ answer'.proc = answer.proc
      BY <1>6 DEF AnswerApply, IdleAnswer
    <3>. QED
      BY <2>1, <2>3, <3>1, <3>2
  <2>. QED
    BY <2>2, <2>3
<1>7. ASSUME AnswerSave PROVE Spent(p)'
  <2>1. UNCHANGED <<thread, continuation, resume>> /\ answer.phase = "saving"
    BY <1>7 DEF AnswerSave
  <2>2. answer'.phase = "idle" \/ (answer'.proc = answer.proc /\ status' = status)
    BY <1>7 DEF AnswerSave, IdleAnswer
  <2>3. CASE answer.proc = p
    <3>1. status[p] \in Terminal
      BY <2>1, <2>3
    <3>2. status'[p] = status[p] \/ (status'[p] = "awaiting_user" /\ answer'.phase = "idle")
      BY <1>0, <1>7, <2>3, <3>1 DEF AnswerSave, AfterUncertainCommit, IdleAnswer
    <3>. QED
      BY <2>1, <3>1, <3>2
  <2>4. CASE answer.proc # p
    <3>1. status'[p] = status[p]
      BY <1>0, <1>7, <2>4 DEF AnswerSave
    <3>. QED
      BY <2>1, <2>2, <2>4, <3>1
  <2>. QED
    BY <2>3, <2>4
<1>8. ASSUME AnswerResume PROVE Spent(p)'
  BY <1>8 DEF AnswerResume, IdleAnswer
<1>9. ASSUME NEW k \in Killers, NEW q \in Proc, NEW job, KillCall(k, q, job) PROVE Spent(p)'
  BY <1>9 DEF KillCall
<1>10. ASSUME NEW k \in Killers,
              (\E t \in Proc : KillPick(k, t)) \/ KillFlag(k) \/ KillReturn(k)
       PROVE  Spent(p)'
  BY <1>10 DEF KillPick, KillFlag, KillReturn
<1>11. ASSUME NEW k \in Killers, KillMove(k) PROVE Spent(p)'
  <2>1. kill[k].at # p
    BY <1>11, KillMoveSets
  <2>. QED
    BY <1>0, <1>11, <2>1 DEF KillMove
<1>12. CASE UNCHANGED vars
  BY <1>12 DEF vars
<1>. QED
  BY <1>1, <1>2, <1>3, <1>4, <1>5, <1>6, <1>7, <1>8, <1>9, <1>10, <1>11, <1>12
     DEF Next, ChildRunner, Runner, Resumer, Answerer, KillStep, UserKill, Reap,
         SupervisorKill, DeadlineKill, Proc

LEMMA OutStays ==
  ASSUME TypeOK, HandInv, [Next]_vars, NEW p \in Child, Out(p)
  PROVE  Out(p)'
<1>0. p \in Proc
  BY DEF Proc
<1>1. CASE cancelled[p]
  <2>1. ~InTarget(p)
    BY DEF Out, Spent, InTarget
  <2>. QED
    BY <1>0, <1>1, <2>1, TargetEntry, CancellationStays DEF Out
<1>2. CASE ~cancelled[p]
  BY <1>2, SpentStays DEF Out
<1>. QED
  BY <1>1, <1>2

\* fork() admits a session only when every other execution of it is out.
LEMMA ForkFindsOthersOut ==
  ASSUME TypeOK, LocalInv, HandInv, NEW p \in Child, Fork(p),
         NEW q \in Forked \intersect Child, SessionOf[q] = SessionOf[p]
  PROVE  Out(q)
<1>1. status[q] \in Terminal /\ thread[q] = "dead"
  BY DEF Fork, SessionFree, Alive, HandInv, NoOrphans, Forked
<1>2. CASE cancelled[q]
  BY <1>1, <1>2 DEF Out, InTarget
<1>3. CASE ~cancelled[q]
  <2>1. ~continuation[q]
    BY <1>1, <1>3 DEF HandInv, EndedIsDropped
  <2>2. resume[q] # "checked"
    BY <1>1, <1>3 DEF HandInv, CheckedRuns, Terminal
  <2>. QED
    BY <1>1, <2>1, <2>2 DEF Out, Spent
<1>. QED
  BY <1>2, <1>3

\* Nothing but fork() gives a status to an execution that has none.
LEMMA ForkedSteps ==
  ASSUME TypeOK, LocalInv, HandInv, [Next]_vars, NEW p \in Child, p \in Forked', p \notin Forked
  PROVE  Fork(p)
<1>1. p \in Proc /\ status[p] = "none" /\ status'[p] # "none"
  BY DEF Forked, Proc
<1>2. StatusMoves(p)
  BY <1>1, StatusSteps
<1>3. thread[p] = "unstarted"
  BY <1>1 DEF HandInv, UnforkedIdle
<1>4. \A t \in {"running", "cancelled", "cancelling"} :
        After(status[p], t, cancelled[p], finalized[p]) = Rejected
  BY <1>1 DEF After, Effective, Permitted, Sticky, Rejected, Terminal, Recovery, Active
<1>5. ~(answer.phase = "saving" /\ answer.proc = p)
  BY <1>3 DEF LocalInv, AnsweredIsOver, LoopOver
<1>. QED
  BY <1>2, <1>3, <1>4, <1>5 DEF StatusMoves, RunPoint

LEMMA SessionsStep ==
  TypeOK /\ LocalInv /\ HandInv /\ SessionsApart /\ [Next]_vars => SessionsApart'
<1>. SUFFICES ASSUME TypeOK, LocalInv, HandInv, SessionsApart, [Next]_vars,
                     NEW p \in Child, NEW q \in Child, p \in Forked', q \in Forked',
                     p # q, SessionOf[p] = SessionOf[q]
              PROVE  Out(p)' \/ Out(q)'
  BY DEF SessionsApart
<1>1. CASE p \in Forked /\ q \in Forked
  BY <1>1, OutStays DEF SessionsApart
<1>2. CASE p \notin Forked
  <2>1. Fork(p)
    BY <1>2, ForkedSteps
  <2>2. q \in Forked
    BY <2>1 DEF Fork, Forked, TypeOK
  <2>. QED
    BY <2>1, <2>2, ForkFindsOthersOut, OutStays
<1>3. CASE q \notin Forked
  <2>1. Fork(q)
    BY <1>3, ForkedSteps
  <2>2. p \in Forked
    BY <2>1 DEF Fork, Forked, TypeOK
  <2>. QED
    BY <2>1, <2>2, ForkFindsOthersOut, OutStays
<1>. QED
  BY <1>1, <1>2, <1>3

\* Two executions of one session never work at the same time, in any tree and
\* however questions, answers and kills interleave: by the time fork() takes
\* the second one, no thread, answer or resumption is left to the first.
THEOREM SessionsAreExclusive == Spec => []OneTargetPerSession
<1>1. Init => SessionsApart
  BY DEF Init, SessionsApart, Forked, Proc
<1>2. LifeLocal /\ HandInv /\ SessionsApart /\ [Next]_vars => SessionsApart'
  BY SessionsStep DEF LifeLocal
<1>3. HandInv /\ SessionsApart => OneTargetPerSession
  <2>. SUFFICES ASSUME HandInv, SessionsApart, NEW p \in Child, NEW q \in Child, p # q,
                       SessionOf[p] = SessionOf[q], InTarget(p), InTarget(q)
                PROVE  FALSE
    BY DEF OneTargetPerSession
  <2>1. p \in Forked /\ q \in Forked
    BY DEF HandInv, UnforkedIdle, InTarget, Forked, Proc
  <2>2. Out(p) \/ Out(q)
    BY <2>1 DEF SessionsApart
  <2>. QED
    BY <2>2 DEF Out, Spent, InTarget
<1>. QED
  BY <1>1, <1>2, <1>3, LocalInvariant, HandInvariant, PTL DEF Spec
=============================================================================
