------------------------ MODULE Coordination_proofs ------------------------
(***************************************************************************)
(* Proofs about the decisions on a changed interface, for every number of  *)
(* dependents, of versions, of proposals and of decisions: types, what the *)
(* source delivers was agreed, and no dependent starts on a proposal that  *)
(* nobody has closed.                                                      *)
(***************************************************************************)
EXTENDS Coordination, FiniteSetTheorems, SequenceTheorems,
        WellFoundedInduction, TLAPS

-----------------------------------------------------------------------------
(***************************************************************************)
(* Extremal elements, for Min and Max of the community modules.            *)
(***************************************************************************)

\* A set of naturals with an element has a least one.
LEMMA LeastExists ==
  ASSUME NEW S \in SUBSET Nat, S # {}
  PROVE  \E x \in S : \A y \in S : x <= y
<1> DEFINE R == {ss \in Nat \X Nat : ss[1] < ss[2]}
<1>1. IsWellFoundedOn(R, Nat)
  BY NatLessThanWellFounded DEF OpToRel
<1>2. PICK x \in S : \A y \in S : ~ (<<y, x>> \in R)
  <2> HIDE DEF R
  <2> QED BY <1>1, WFMin
<1>3. ASSUME NEW y \in S, y < x PROVE FALSE
  <2> DEFINE p == <<y, x>>
  <2>1. p \in Nat \X Nat /\ p[1] = y /\ p[2] = x
    OBVIOUS
  <2>2. p \in R
    <3> HIDE DEF p
    <3> QED BY <1>3, <2>1
  <2> QED BY <1>2, <2>2
<1>4. \A y \in S : y \in Nat /\ x \in Nat
  OBVIOUS
<1>5. \A y \in S : x <= y
  BY <1>3, <1>4
<1> QED BY <1>5

\* Min names it.
LEMMA MinElement ==
  ASSUME NEW S \in SUBSET Nat, S # {}
  PROVE  Min(S) \in S
BY LeastExists DEF Min

\* So does Max name the greatest one, when the set is bounded.
LEMMA MaxElement ==
  ASSUME NEW n \in Nat, NEW S \in SUBSET (1 .. n), S # {}
  PROVE  Max(S) \in S
<1> DEFINE T == {n - x : x \in S}
<1>1. T \in SUBSET Nat /\ T # {}
  <2>1. \A x \in S : x \in 1 .. n /\ n - x \in Nat OBVIOUS
  <2>2. PICK x \in S : TRUE OBVIOUS
  <2>3. n - x \in T BY <2>2
  <2> QED BY <2>1, <2>3
<1>2. PICK t \in T : \A u \in T : t <= u
  BY <1>1, LeastExists
<1>3. PICK x \in S : t = n - x
  BY <1>2
<1>4. ASSUME NEW y \in S PROVE x >= y
  <2>1. n - y \in T /\ x \in 1 .. n /\ y \in 1 .. n OBVIOUS
  <2>2. n - x <= n - y BY <1>2, <1>3, <2>1
  <2> QED BY <2>1, <2>2
<1> QED BY <1>4 DEF Max

-----------------------------------------------------------------------------
(***************************************************************************)
(* The ledger and the visits.                                              *)
(***************************************************************************)

\* A published proposal has a version.
LEMMA VersionKnown ==
  ASSUME TypeOK, NEW id \in Proposals
  PROVE  VersionOf(id) \in Version
<1>1. Entries(id) \in SUBSET Nat /\ Entries(id) # {} /\ Entries(id) \subseteq DOMAIN ledger
  BY DEF Entries, Proposals, TypeOK
<1>2. Min(Entries(id)) \in DOMAIN ledger
  BY <1>1, MinElement
<1>3. ledger[Min(Entries(id))] \in LedgerEntry
  BY <1>2, ElementOfSeq DEF TypeOK
<1> QED BY <1>3 DEF VersionOf, LedgerEntry

\* What is appended to the ledger is kept.
LEMMA LedgerGrows ==
  ASSUME TypeOK, NEW e \in LedgerEntry, ledger' = Append(ledger, e)
  PROVE  /\ ledger' \in Seq(LedgerEntry)
         /\ Proposals' = Proposals \cup {e.id}
         /\ Closed' = Closed \cup (IF e.status \in Closing THEN {e.id} ELSE {})
         /\ Accepted' = Accepted \cup (IF e.status = "accepted" THEN {e.version} ELSE {})
<1>1. ledger \in Seq(LedgerEntry) BY DEF TypeOK
<1>2. /\ ledger' \in Seq(LedgerEntry)
      /\ DOMAIN ledger' = DOMAIN ledger \cup {Len(ledger) + 1}
      /\ \A i \in DOMAIN ledger : ledger'[i] = ledger[i] /\ i # Len(ledger) + 1
      /\ ledger'[Len(ledger) + 1] = e
  BY <1>1
<1>3. Proposals' = Proposals \cup {e.id}
  BY <1>2 DEF Proposals
<1>4. Closed' = Closed \cup (IF e.status \in Closing THEN {e.id} ELSE {})
  BY <1>2, Zenon DEF Closed
<1>5. Accepted' = Accepted \cup (IF e.status = "accepted" THEN {e.version} ELSE {})
  BY <1>2, SMTT(30) DEF Accepted
<1> QED BY <1>2, <1>3, <1>4, <1>5

LEMMA LedgerSame ==
  ASSUME ledger' = ledger
  PROVE  Proposals' = Proposals /\ Closed' = Closed /\ Accepted' = Accepted
BY DEF Proposals, Closed, Accepted

\* Proposals are numbered within the bound.
LEMMA ProposalsBounded ==
  ASSUME TypeOK
  PROVE  /\ Proposals \subseteq Proposal /\ IsFiniteSet(Proposals)
         /\ Cardinality(Proposals) \in Nat
<1>1. Proposals \subseteq Proposal
  <2>1. \A i \in DOMAIN ledger : ledger[i] \in LedgerEntry
    BY ElementOfSeq DEF TypeOK
  <2> QED BY <2>1 DEF Proposals, LedgerEntry
<1>2. IsFiniteSet(Proposal)
  BY CoordinationAssumption, FS_Interval DEF Proposal
<1> QED BY <1>1, <1>2, FS_Subset, FS_CardinalityType

LEMMA EveryoneIsProc ==
  /\ Everyone \in Seq(Proc)
  /\ DOMAIN Everyone = 1 .. Len(Everyone)
  /\ \A p \in Proc : \E i \in DOMAIN Everyone : Everyone[i] = p
<1>1. <<Source>> \in Seq(Proc) /\ Affected \in Seq(Proc)
  BY CoordinationAssumption DEF Proc
<1>2. /\ Everyone \in Seq(Proc) /\ Len(Everyone) = 1 + Len(Affected)
      /\ \A i \in 1 .. 1 + Len(Affected) :
           Everyone[i] = IF i <= 1 THEN <<Source>>[i] ELSE Affected[i - 1]
  BY <1>1, ConcatProperties DEF Everyone
<1>3. DOMAIN Everyone = 1 .. Len(Everyone) BY <1>2
<1>4. Len(Affected) \in Nat /\ DOMAIN Affected = 1 .. Len(Affected) BY <1>1
<1>5. ASSUME NEW p \in Proc PROVE \E i \in DOMAIN Everyone : Everyone[i] = p
  <2>1. CASE p = Source
    <3>1. 1 \in DOMAIN Everyone /\ Everyone[1] = Source BY <1>2, <1>3, <1>4
    <3> QED BY <2>1, <3>1
  <2>2. CASE p \in Dependent
    <3>1. PICK j \in DOMAIN Affected : p = Affected[j] BY <2>2 DEF Dependent
    <3>2. j + 1 \in DOMAIN Everyone /\ Everyone[j + 1] = p BY <1>2, <1>3, <1>4, <3>1
    <3> QED BY <3>2
  <2> QED BY <1>5, <2>1, <2>2 DEF Proc
<1> QED BY <1>2, <1>3, <1>5

\* The visits to everyone.
LEMMA VisitsType ==
  ASSUME NEW V, NEW what \in {"project", "baseline", "status"}, NEW id \in V,
         NEW s \in EventStatus, NEW v \in Version
  PROVE  Visits(what, id, s, v)
           \in Seq([what : {"project", "baseline", "status"}, who : Proc, id : V,
                    status : EventStatus, version : Version])
<1> DEFINE R == [what : {"project", "baseline", "status"}, who : Proc, id : V,
                 status : EventStatus, version : Version]
           f == [i \in 1 .. Len(Everyone) |->
                  [what |-> what, who |-> Everyone[i], id |-> id, status |-> s,
                   version |-> v]]
<1>1. \A i \in 1 .. Len(Everyone) : Everyone[i] \in Proc
  BY EveryoneIsProc
<1>2. f \in [1 .. Len(Everyone) -> R]
  BY <1>1
<1>3. Len(Everyone) \in Nat BY EveryoneIsProc
<1>4. f \in Seq(R)
  <2> HIDE DEF f, R
  <2> QED BY <1>2, <1>3
<1>5. Visits(what, id, s, v) = f
  BY EveryoneIsProc DEF Visits
<1> QED BY <1>4, <1>5

LEMMA RoutingType ==
  ASSUME NEW V, NEW id \in V, NEW v \in Version
  PROVE  Routing(id, v)
           \in Seq([what : {"project", "baseline", "status"}, who : Proc, id : V,
                    status : EventStatus, version : Version])
BY VisitsType DEF Routing, EventStatus, Open

LEMMA ResolutionType ==
  ASSUME TypeOK, NEW id \in Proposals, NEW s \in EventStatus
  PROVE  Resolution(id, s) \in Seq(VisitAhead)
<1>1. VersionOf(id) \in Version BY VersionKnown
<1>2. Visits("baseline", id, s, VersionOf(id)) \in Seq(VisitAhead)
  BY <1>1, VisitsType DEF VisitAhead
<1>3. Visits("status", id, s, VersionOf(id)) \in Seq(VisitAhead)
  BY <1>1, VisitsType DEF VisitAhead
<1>4. Replacing(id, s) \in Seq(VisitAhead)
  BY <1>2 DEF Replacing
<1> QED BY <1>3, <1>4, ConcatProperties DEF Resolution

-----------------------------------------------------------------------------
(***************************************************************************)
(* Types.                                                                  *)
(***************************************************************************)

\* What spoke of published proposals still does when one is added.
LEMMA TypesGrow ==
  ASSUME TypeOK, NEW e \in LedgerEntry, ledger' = Append(ledger, e)
  PROVE  /\ ledger' \in Seq(LedgerEntry)
         /\ Proposals' = Proposals \cup {e.id}
         /\ blocks \in [Proc -> SUBSET Proposals']
         /\ found \in {0} \cup Proposals'
         /\ known \subseteq Proposals'
         /\ todo \in [Thread -> Seq(VisitAhead')]
         /\ Seq(VisitAhead) \subseteq Seq(VisitAhead')
<1>1. ledger' \in Seq(LedgerEntry) /\ Proposals' = Proposals \cup {e.id}
  BY LedgerGrows
<1>2. VisitAhead \subseteq VisitAhead'
  BY <1>1 DEF VisitAhead
<1>3. Seq(VisitAhead) \subseteq Seq(VisitAhead')
  BY <1>2, SeqMonotonic
<1>4. todo \in [Thread -> Seq(VisitAhead')]
  BY <1>3 DEF TypeOK
<1> QED BY <1>1, <1>3, <1>4 DEF TypeOK

LEMMA TypesSame ==
  ASSUME ledger' = ledger
  PROVE  Proposals' = Proposals /\ VisitAhead' = VisitAhead
BY DEF Proposals, VisitAhead

LEMMA VisitType ==
  ASSUME TypeOK, NEW t \in Thread, Visit(t)
  PROVE  TypeOK'
<1>1. Proposals' = Proposals /\ VisitAhead' = VisitAhead
  BY TypesSame DEF Visit
<1>2. Head(todo[t]) \in VisitAhead /\ Tail(todo[t]) \in Seq(VisitAhead)
  BY HeadTailProperties DEF Visit, TypeOK
<1>3. PICK v \in VisitAhead : v = Head(todo[t]) BY <1>2
<1>4. /\ v.who \in Proc /\ v.id \in Proposals /\ v.id \in Proposal
      /\ v.status \in EventStatus /\ v.version \in Version
  BY ProposalsBounded DEF VisitAhead
<1>5. todo' \in [Thread -> Seq(VisitAhead)]
  BY <1>2 DEF Visit, TypeOK
<1>6. baseline' \in [Proc -> Version]
  BY <1>3, <1>4 DEF Visit, TypeOK
<1>7. projected' \in [Proc -> [Proposal -> EventStatus \cup {"none"}]]
  BY <1>3, <1>4 DEF Visit, TypeOK
<1>8. blocks' \in [Proc -> SUBSET Proposals]
  BY <1>3, <1>4 DEF Visit, TypeOK
<1> QED
  BY <1>1, <1>5, <1>6, <1>7, <1>8 DEF Visit, TypeOK, sourceVars, ownerVars

\* TakeBack, Publish and Decide extend the ledger and put visits ahead.
LEMMA TakeBackType ==
  ASSUME TypeOK, TakeBack
  PROVE  TypeOK'
<1> DEFINE s == IF content = seen THEN "restored" ELSE "dismissed"
           e == Entry(found, s, VersionOf(found))
<1>1. found \in Proposals /\ found \in Proposal /\ s \in EventStatus
  BY ProposalsBounded DEF TakeBack, TypeOK, EventStatus, Closing
<1>2. VersionOf(found) \in Version BY <1>1, VersionKnown
<1>3. e \in LedgerEntry BY <1>1, <1>2 DEF Entry, LedgerEntry
<1>4. ledger' = Append(ledger, e) BY DEF TakeBack
<1>5. Resolution(found, s) \in Seq(VisitAhead) BY <1>1, ResolutionType
<1> HIDE DEF s, e
<1>6. todo' \in [Thread -> Seq(VisitAhead')]
  BY <1>3, <1>4, <1>5, TypesGrow DEF TakeBack, s
<1>7. /\ content' \in Version /\ writes' \in 0 .. MaxWrites /\ seen' \in Version
      /\ found' = 0 /\ known' = known /\ decisions' \in 0 .. MaxDecisions
      /\ baseline' = baseline /\ projected' = projected /\ blocks' = blocks
      /\ stage' = stage /\ pc' \in {"acting", "deciding"}
  BY DEF TakeBack, TypeOK, contextVars, ownerVars, s
<1> QED
  BY <1>3, <1>4, <1>6, <1>7, TypesGrow DEF TypeOK

LEMMA PublishType ==
  ASSUME TypeOK, Publish
  PROVE  TypeOK'
<1> DEFINE id == Cardinality(Proposals) + 1
           e == Entry(id, "awaiting_supervisor", content)
<1>1. id \in Proposal
  BY ProposalsBounded, CoordinationAssumption DEF Publish, Proposal
<1>2. e \in LedgerEntry
  BY <1>1 DEF Entry, LedgerEntry, TypeOK, EventStatus, Open
<1>3. ledger' = Append(ledger, e) BY DEF Publish
<1>4. e.id = id BY DEF Entry
<1>5. todo' = [todo EXCEPT !["source"] = Routing(id, content)] BY DEF Publish
<1> HIDE DEF id, e
<1>6. id \in Proposals' BY <1>2, <1>3, <1>4, TypesGrow
<1>7. Routing(id, content) \in Seq(VisitAhead')
  BY <1>6, RoutingType DEF TypeOK, VisitAhead
<1>8. todo' \in [Thread -> Seq(VisitAhead')]
  BY <1>2, <1>3, <1>5, <1>7, TypesGrow
<1>9. /\ content' = content /\ writes' = writes /\ seen' = seen
      /\ found' = found /\ known' = known /\ decisions' = decisions
      /\ baseline' = baseline /\ projected' = projected /\ blocks' = blocks
      /\ stage' = stage /\ pc' = "acting"
  BY DEF Publish, contextVars, ownerVars
<1> QED
  BY <1>2, <1>3, <1>8, <1>9, TypesGrow DEF TypeOK

LEMMA DecideType ==
  ASSUME TypeOK, NEW id \in Proposal, NEW s \in EventStatus, Decide(id, s)
  PROVE  TypeOK'
<1> DEFINE e == Entry(id, s, VersionOf(id))
<1>1. id \in Proposals BY DEF Decide, TypeOK
<1>2. VersionOf(id) \in Version BY <1>1, VersionKnown
<1>3. e \in LedgerEntry BY <1>2 DEF Entry, LedgerEntry
<1>4. ledger' = Append(ledger, e) BY DEF Decide
<1>5. Resolution(id, s) \in Seq(VisitAhead) BY <1>1, ResolutionType
<1> HIDE DEF e
<1>6. todo' \in [Thread -> Seq(VisitAhead')]
  BY <1>3, <1>4, <1>5, TypesGrow DEF Decide
<1>7. /\ content' = content /\ writes' = writes /\ seen' = seen
      /\ found' = found /\ known' = known
      /\ baseline' = baseline /\ projected' = projected /\ blocks' = blocks
      /\ stage' = stage /\ pc' = pc
  BY DEF Decide, sourceVars, contextVars
<1>8. decisions' \in 0 .. MaxDecisions
  BY CoordinationAssumption DEF Decide, TypeOK
<1> QED
  BY <1>3, <1>4, <1>6, <1>7, <1>8, TypesGrow DEF TypeOK

LEMMA TypeStep ==
  ASSUME TypeOK, [Next]_vars
  PROVE  TypeOK'
<1> USE DEF TypeOK, sourceVars, contextVars, ownerVars
<1>1. ASSUME NEW v \in Version, Write(v) \/ WriteUnobserved(v) PROVE TypeOK'
  <2>1. Proposals' = Proposals /\ VisitAhead' = VisitAhead
    BY <1>1, TypesSame DEF Write, WriteUnobserved
  <2>2. writes' \in 0 .. MaxWrites
    BY <1>1, CoordinationAssumption DEF Write, WriteUnobserved
  <2> QED BY <1>1, <2>1, <2>2 DEF Write, WriteUnobserved
<1>2. CASE ReadLedger
  <2>1. Proposals' = Proposals /\ VisitAhead' = VisitAhead
    BY <1>2, TypesSame DEF ReadLedger
  <2>2. Pending \subseteq Proposals /\ Pending \in SUBSET (1 .. MaxProposals)
    BY ProposalsBounded DEF Pending, Proposal
  <2>3. LatestPending \in {0} \cup Proposals
    BY <2>2, MaxElement, CoordinationAssumption DEF LatestPending
  <2> QED BY <1>2, <2>1, <2>3 DEF ReadLedger
<1>3. CASE \/ ReadContract \/ NothingNew \/ PublishFails \/ EndTurn \/ NextTurn
           \/ Abandon \/ Respond \/ VerifyOutput
  <2>1. Proposals' = Proposals /\ VisitAhead' = VisitAhead
    BY <1>3, TypesSame
    DEF ReadContract, NothingNew, PublishFails, EndTurn, NextTurn, Abandon,
        Respond, VerifyOutput
  <2>2. Source \in Proc BY DEF Proc
  <2> QED
    BY <1>3, <2>1, <2>2
    DEF ReadContract, NothingNew, PublishFails, EndTurn, NextTurn, Abandon,
        Respond, VerifyOutput
<1>4. CASE TakeBack BY <1>4, TakeBackType
<1>5. CASE Publish BY <1>5, PublishType
<1>6. ASSUME NEW d \in Dependent, Start(d) \/ VerifyInput(d) PROVE TypeOK'
  <2>1. Proposals' = Proposals /\ VisitAhead' = VisitAhead
    BY <1>6, TypesSame DEF Start, VerifyInput
  <2> QED BY <1>6, <2>1 DEF Start, VerifyInput
<1>7. CASE List
  <2>1. Proposals' = Proposals /\ VisitAhead' = VisitAhead
    BY <1>7, TypesSame DEF List
  <2>2. Pending \subseteq Proposals BY DEF Pending
  <2> QED BY <1>7, <2>1, <2>2 DEF List
<1>8. ASSUME NEW id \in Proposal, NEW s \in EventStatus, Decide(id, s)
      PROVE  TypeOK'
  BY <1>8, DecideType
<1>9. ASSUME NEW t \in Thread, Visit(t) PROVE TypeOK'
  BY <1>9, VisitType
<1>10. CASE UNCHANGED vars
  <2>1. Proposals' = Proposals /\ VisitAhead' = VisitAhead
    BY <1>10, TypesSame DEF vars
  <2> QED BY <1>10, <2>1 DEF vars
<1>11. Closing \cup {"awaiting_user", "rework_requested"} \subseteq EventStatus
  BY DEF EventStatus, Open
<1> HIDE DEF TypeOK
<1> QED
  BY <1>1, <1>2, <1>3, <1>4, <1>5, <1>6, <1>7, <1>8, <1>9, <1>10, <1>11 DEF Next

\* The types hold at the start ...
LEMMA TypeInit == Init => TypeOK
<1> SUFFICES ASSUME Init PROVE TypeOK
  OBVIOUS
<1>1. ledger = << >> /\ Proposals = {} BY DEF Init, Proposals
<1>2. << >> \in Seq(LedgerEntry) /\ << >> \in Seq(VisitAhead) BY EmptySeq
<1> QED
  BY <1>1, <1>2, CoordinationAssumption DEF Init, TypeOK

\* ... and for ever: the ledger, the contexts and the threads speak of
\* published proposals only, for any number of workers and of decisions
\* (coordination.py).
THEOREM TypeCorrect == Spec => []TypeOK
<1>1. Init => TypeOK BY TypeInit
<1>2. TypeOK /\ [Next]_vars => TypeOK' BY TypeStep
<1> QED BY <1>1, <1>2, PTL DEF Spec

-----------------------------------------------------------------------------
(***************************************************************************)
(* What the visits ahead look like.                                        *)
(***************************************************************************)

\* The fields of a round of visits.
LEMMA VisitsShape ==
  ASSUME NEW what \in {"project", "baseline", "status"}, NEW id \in Proposal,
         NEW s \in EventStatus, NEW v \in Version
  PROVE  /\ \A i \in DOMAIN Visits(what, id, s, v) :
              LET r == Visits(what, id, s, v)[i] IN
                r.what = what /\ r.id = id /\ r.status = s /\ r.version = v
         /\ \A p \in Proc : \E i \in DOMAIN Visits(what, id, s, v) :
              Visits(what, id, s, v)[i].who = p
BY EveryoneIsProc DEF Visits

\* A resolution replaces baselines only if it accepts, and blocks nobody.
LEMMA ResolutionShape ==
  ASSUME TypeOK, NEW id \in Proposals, NEW s \in EventStatus,
         NEW i \in DOMAIN Resolution(id, s), NEW r, r = Resolution(id, s)[i]
  PROVE  /\ r.what \in {"baseline", "status"} /\ r.id = id /\ r.status = s
         /\ r.what = "baseline" => s = "accepted" /\ r.version = VersionOf(id)
<1> DEFINE v == VersionOf(id)
           a == Replacing(id, s)
           b == Visits("status", id, s, v)
<1>1. v \in Version /\ id \in Proposal BY VersionKnown, ProposalsBounded
<1>2. a \in Seq(VisitAhead) /\ b \in Seq(VisitAhead)
  <2>1. Visits("baseline", id, s, v) \in Seq(VisitAhead) /\ b \in Seq(VisitAhead)
    BY <1>1, VisitsType DEF VisitAhead
  <2> QED BY <2>1 DEF Replacing
<1>3. \A j \in DOMAIN a : /\ a[j].what = "baseline" /\ s = "accepted"
                          /\ a[j].id = id /\ a[j].status = s /\ a[j].version = v
  BY <1>1, VisitsShape DEF Replacing
<1>4. \A j \in DOMAIN b : b[j].what = "status" /\ b[j].id = id /\ b[j].status = s
  BY <1>1, VisitsShape
<1>5. Resolution(id, s) = a \o b BY DEF Resolution
<1> HIDE DEF a, b, v
<1>6. \/ i \in DOMAIN a /\ r = a[i]
      \/ i - Len(a) \in DOMAIN b /\ r = b[i - Len(a)]
  <2>1. /\ a \o b \in Seq(VisitAhead) /\ Len(a \o b) = Len(a) + Len(b)
        /\ \A j \in 1 .. Len(a) + Len(b) :
             (a \o b)[j] = IF j <= Len(a) THEN a[j] ELSE b[j - Len(a)]
    BY <1>2, ConcatProperties
  <2>2. i \in 1 .. Len(a) + Len(b) BY <1>5, <2>1
  <2> QED BY <1>2, <1>5, <2>1, <2>2
<1> QED BY <1>3, <1>4, <1>6 DEF v

\* Taking the first element off a sequence.
LEMMA TailIndex ==
  ASSUME NEW S, NEW q \in Seq(S), q # << >>
  PROVE  /\ Head(q) = q[1] /\ 1 \in DOMAIN q
         /\ \A j \in DOMAIN Tail(q) : j + 1 \in DOMAIN q /\ Tail(q)[j] = q[j + 1]
         /\ \A i \in DOMAIN q :
              i # 1 => i - 1 \in DOMAIN Tail(q) /\ Tail(q)[i - 1] = q[i]
OBVIOUS

-----------------------------------------------------------------------------
(***************************************************************************)
(* What is delivered was agreed.  The invariant follows an accepted        *)
(* version on its way: ledger, visits, baselines, delivery.                *)
(***************************************************************************)
BaselinesAgreed == \A p \in Proc : baseline[p] \in Accepted \cup {Frozen}

VisitsAgreed ==
  \A t \in Thread : \A i \in DOMAIN todo[t] :
     todo[t][i].what = "baseline" => todo[t][i].version \in Accepted

AgreedInv == TypeOK /\ BaselinesAgreed /\ VisitsAgreed /\ SealedAgreed

LEMMA AgreedInit == Init => AgreedInv
BY TypeInit
   DEF Init, AgreedInv, BaselinesAgreed, VisitsAgreed, SealedAgreed, Thread

LEMMA AgreedVisit ==
  ASSUME AgreedInv, NEW t \in Thread, Visit(t)
  PROVE  BaselinesAgreed' /\ VisitsAgreed' /\ SealedAgreed'
<1> USE DEF AgreedInv
<1>1. Accepted' = Accepted BY LedgerSame DEF Visit
<1>2. /\ todo[t] \in Seq(VisitAhead) /\ todo[t] # << >>
      /\ todo' = [todo EXCEPT ![t] = Tail(todo[t])]
      /\ todo \in [Thread -> Seq(VisitAhead)]
  BY DEF Visit, TypeOK
<1>3. PICK v \in VisitAhead : v = Head(todo[t]) /\ v = todo[t][1] /\ 1 \in DOMAIN todo[t]
  BY <1>2, TailIndex, HeadTailProperties
<1>4. BaselinesAgreed'
  <2>1. v.what = "baseline" => v.version \in Accepted BY <1>3 DEF VisitsAgreed
  <2>2. baseline' = IF v.what = "baseline"
                    THEN [baseline EXCEPT ![v.who] = v.version] ELSE baseline
    BY <1>3 DEF Visit
  <2> QED BY <1>1, <2>1, <2>2 DEF BaselinesAgreed, TypeOK
<1>5. VisitsAgreed'
  <2> SUFFICES ASSUME NEW u \in Thread, NEW j \in DOMAIN todo'[u],
                      todo'[u][j].what = "baseline"
               PROVE  todo'[u][j].version \in Accepted
    BY <1>1 DEF VisitsAgreed
  <2>1. CASE u = t
    <3>1. todo'[u] = Tail(todo[t]) BY <1>2, <2>1
    <3>2. j + 1 \in DOMAIN todo[t] /\ todo'[u][j] = todo[t][j + 1]
      BY <1>2, <3>1, TailIndex
    <3> QED BY <3>2 DEF VisitsAgreed
  <2>2. CASE u # t
    <3>1. todo'[u] = todo[u] BY <1>2, <2>2
    <3> QED BY <3>1 DEF VisitsAgreed
  <2> QED BY <2>1, <2>2
<1>6. SealedAgreed'
  BY <1>1 DEF SealedAgreed, Visit, sourceVars
<1> QED BY <1>4, <1>5, <1>6

\* A thread that closes or reopens a proposal has the resolution ahead.
LEMMA AgreedResolve ==
  ASSUME AgreedInv, NEW t \in Thread, NEW id \in Proposals, NEW s \in EventStatus,
         ledger' = Append(ledger, Entry(id, s, VersionOf(id))),
         todo' = [todo EXCEPT ![t] = Resolution(id, s)],
         baseline' = baseline, content' = content, pc' = "sealed" => pc = "sealed"
  PROVE  BaselinesAgreed' /\ VisitsAgreed' /\ SealedAgreed'
<1> DEFINE e == Entry(id, s, VersionOf(id))
<1> USE DEF AgreedInv
<1>1. e \in LedgerEntry /\ e.status = s /\ e.version = VersionOf(id)
  BY VersionKnown, ProposalsBounded DEF Entry, LedgerEntry
<1>2. ledger' = Append(ledger, e) OBVIOUS
<1> HIDE DEF e
<1>3. Accepted' = Accepted \cup (IF s = "accepted" THEN {VersionOf(id)} ELSE {})
  BY <1>1, <1>2, LedgerGrows
<1>4. BaselinesAgreed' /\ SealedAgreed'
  BY <1>3 DEF BaselinesAgreed, SealedAgreed
<1>5. VisitsAgreed'
  <2> SUFFICES ASSUME NEW u \in Thread, NEW j \in DOMAIN todo'[u],
                      todo'[u][j].what = "baseline"
               PROVE  todo'[u][j].version \in Accepted'
    BY DEF VisitsAgreed
  <2>1. CASE u = t
    <3>1. todo'[u] = Resolution(id, s) BY <2>1 DEF TypeOK
    <3>2. s = "accepted" /\ todo'[u][j].version = VersionOf(id)
      BY <3>1, ResolutionShape
    <3> QED BY <1>3, <3>2
  <2>2. CASE u # t
    <3>1. todo'[u] = todo[u] BY <2>2 DEF TypeOK
    <3> QED BY <1>3, <3>1 DEF VisitsAgreed
  <2> QED BY <2>1, <2>2
<1> QED BY <1>4, <1>5

LEMMA AgreedStep ==
  ASSUME AgreedInv, [Next]_vars
  PROVE  AgreedInv'
<1> USE DEF AgreedInv
<1>0. TypeOK' BY TypeStep
<1>1. ASSUME ledger' = ledger, todo' = todo, baseline' = baseline,
             pc' = "sealed" => \/ content' = baseline[Source]
                               \/ pc = "sealed" /\ content' = content
      PROVE  BaselinesAgreed' /\ VisitsAgreed' /\ SealedAgreed'
  <2>1. Accepted' = Accepted BY <1>1, LedgerSame
  <2>2. Source \in Proc BY DEF Proc
  <2> QED BY <1>1, <2>1, <2>2 DEF BaselinesAgreed, VisitsAgreed, SealedAgreed
<1>2. ASSUME NEW v \in Version, Write(v) \/ WriteUnobserved(v)
      PROVE  BaselinesAgreed' /\ VisitsAgreed' /\ SealedAgreed'
  BY <1>1, <1>2 DEF Write, WriteUnobserved, SourceAt, contextVars
<1>3. CASE \/ ReadContract \/ ReadLedger \/ NothingNew \/ PublishFails \/ EndTurn
           \/ NextTurn \/ Abandon \/ Respond
  BY <1>0, <1>1, <1>3
  DEF ReadContract, ReadLedger, NothingNew, PublishFails, EndTurn, NextTurn,
      Abandon, Respond, SourceAt, contextVars
<1>4. CASE VerifyOutput
  BY <1>0, <1>1, <1>4 DEF VerifyOutput, Sealable, contextVars
<1>5. CASE TakeBack
  <2> DEFINE s == IF content = seen THEN "restored" ELSE "dismissed"
  <2>1. found \in Proposals /\ s \in EventStatus /\ "source" \in Thread
    BY <1>5 DEF TakeBack, TypeOK, EventStatus, Closing, Thread
  <2>2. /\ ledger' = Append(ledger, Entry(found, s, VersionOf(found)))
        /\ todo' = [todo EXCEPT !["source"] = Resolution(found, s)]
        /\ baseline' = baseline /\ content' = content /\ pc' # "sealed"
    BY <1>5 DEF TakeBack, contextVars
  <2> HIDE DEF s
  <2> QED BY <1>0, <2>1, <2>2, AgreedResolve
<1>6. CASE Publish
  <2> DEFINE id == Cardinality(Proposals) + 1
             e == Entry(id, "awaiting_supervisor", content)
  <2>1. id \in Proposal
    BY <1>6, ProposalsBounded, CoordinationAssumption DEF Publish, Proposal
  <2>2. e \in LedgerEntry /\ e.status = "awaiting_supervisor"
    BY <2>1 DEF Entry, LedgerEntry, TypeOK, EventStatus, Open
  <2>3. /\ ledger' = Append(ledger, e)
        /\ todo' = [todo EXCEPT !["source"] = Routing(id, content)]
        /\ baseline' = baseline /\ pc' = "acting"
    BY <1>6 DEF Publish, contextVars
  <2> HIDE DEF e, id
  <2>4. Accepted' = Accepted BY <2>2, <2>3, LedgerGrows
  <2>5. \A i \in DOMAIN Routing(id, content) : Routing(id, content)[i].what = "project"
    <3>1. "awaiting_supervisor" \in EventStatus /\ content \in Version
      BY DEF TypeOK, EventStatus, Open
    <3> QED BY <2>1, <3>1, VisitsShape DEF Routing
  <2>6. VisitsAgreed'
    BY <2>3, <2>4, <2>5 DEF VisitsAgreed, TypeOK
  <2> QED BY <1>0, <2>3, <2>4, <2>6 DEF BaselinesAgreed, SealedAgreed
<1>7. ASSUME NEW d \in Dependent, Start(d) \/ VerifyInput(d)
      PROVE  BaselinesAgreed' /\ VisitsAgreed' /\ SealedAgreed'
  BY <1>1, <1>7 DEF Start, VerifyInput, sourceVars, contextVars
<1>8. CASE List
  BY <1>0, <1>1, <1>8 DEF List, sourceVars, contextVars
<1>9. ASSUME NEW id \in Proposal, NEW s \in EventStatus, Decide(id, s)
      PROVE  BaselinesAgreed' /\ VisitsAgreed' /\ SealedAgreed'
  BY <1>9, AgreedResolve DEF Decide, TypeOK, Thread, sourceVars, contextVars
<1>10. ASSUME NEW t \in Thread, Visit(t)
       PROVE  BaselinesAgreed' /\ VisitsAgreed' /\ SealedAgreed'
  BY <1>10, AgreedVisit
<1>11. CASE UNCHANGED vars
  BY <1>0, <1>1, <1>11 DEF vars, sourceVars, contextVars
<1>12. Closing \cup {"awaiting_user", "rework_requested"} \subseteq EventStatus
  BY DEF EventStatus, Open
<1> QED
  BY <1>0, <1>2, <1>3, <1>4, <1>5, <1>6, <1>7, <1>8, <1>9, <1>10, <1>11, <1>12
  DEF Next

\* A source that ends successfully delivers the interface agreed at the fork or
\* a version the owner accepted (child_execution.py:438), for any history of
\* unobserved changes, replaced proposals and late decisions.
THEOREM SealedAgreedHolds == Spec => []SealedAgreed
<1>1. Init => AgreedInv BY AgreedInit
<1>2. AgreedInv /\ [Next]_vars => AgreedInv' BY AgreedStep
<1>3. AgreedInv => SealedAgreed BY DEF AgreedInv
<1> QED BY <1>1, <1>2, <1>3, PTL DEF Spec

-----------------------------------------------------------------------------
(***************************************************************************)
(* No dependent starts on a proposal that nobody has closed.  The block is *)
(* on its way, on the dependent, or ended by a closing resolution: that a  *)
(* visit never ends the block of an open proposal is the first part, that  *)
(* a block is never missing the second.                                    *)
(***************************************************************************)
EndsClosed ==
  \A t \in Thread : \A i \in DOMAIN todo[t] :
     todo[t][i].what = "status" /\ todo[t][i].status \in Closing
     => todo[t][i].id \in Closed

BlockAhead(d, id) ==
  \E i \in DOMAIN todo["source"] :
     /\ todo["source"][i].what = "project"
     /\ todo["source"][i].who = d /\ todo["source"][i].id = id

Blocked ==
  \A d \in Dependent, id \in Proposals :
     id \in Closed \/ id \in blocks[d] \/ BlockAhead(d, id)

SealedIsQuiet == pc = "sealed" => todo["source"] = << >>

StartedIsClosed ==
  \A d \in Dependent :
     stage[d] \in {"checking", "running"} => pc = "sealed" /\ Proposals \subseteq Closed

StartsInv == TypeOK /\ EndsClosed /\ Blocked /\ SealedIsQuiet /\ StartedIsClosed

LEMMA StartsInit == Init => StartsInv
BY TypeInit
   DEF Init, StartsInv, EndsClosed, Blocked, SealedIsQuiet, StartedIsClosed,
       Proposals, Thread

LEMMA StartsVisit ==
  ASSUME StartsInv, NEW t \in Thread, Visit(t)
  PROVE  EndsClosed' /\ Blocked' /\ SealedIsQuiet' /\ StartedIsClosed'
<1> USE DEF StartsInv
<1>1. Proposals' = Proposals /\ Closed' = Closed BY LedgerSame DEF Visit
<1>2. /\ todo[t] \in Seq(VisitAhead) /\ todo[t] # << >>
      /\ todo' = [todo EXCEPT ![t] = Tail(todo[t])]
      /\ todo \in [Thread -> Seq(VisitAhead)]
      /\ pc' = pc /\ stage' = stage
  BY DEF Visit, TypeOK, sourceVars
<1>3. PICK v \in VisitAhead : v = Head(todo[t]) /\ v = todo[t][1] /\ 1 \in DOMAIN todo[t]
  BY <1>2, TailIndex, HeadTailProperties
<1>4. v.who \in Proc /\ blocks \in [Proc -> SUBSET Proposals] BY DEF VisitAhead, TypeOK
<1>5. blocks' = IF v.what = "project" /\ v.who # Source
                THEN [blocks EXCEPT ![v.who] = @ \cup {v.id}]
                ELSE IF v.what = "status" /\ Frees(v.status)
                THEN [blocks EXCEPT ![v.who] = @ \ {v.id}]
                ELSE blocks
  BY <1>3 DEF Visit
<1>6. EndsClosed'
  <2> SUFFICES ASSUME NEW u \in Thread, NEW j \in DOMAIN todo'[u],
                      todo'[u][j].what = "status", todo'[u][j].status \in Closing
               PROVE  todo'[u][j].id \in Closed
    BY <1>1 DEF EndsClosed
  <2>1. CASE u = t
    <3>1. todo'[u] = Tail(todo[t]) BY <1>2, <2>1
    <3>2. j + 1 \in DOMAIN todo[t] /\ todo'[u][j] = todo[t][j + 1]
      BY <1>2, <3>1, TailIndex
    <3> QED BY <3>2 DEF EndsClosed
  <2>2. CASE u # t
    <3>1. todo'[u] = todo[u] BY <1>2, <2>2
    <3> QED BY <3>1 DEF EndsClosed
  <2> QED BY <2>1, <2>2
<1>7. Blocked'
  <2> SUFFICES ASSUME NEW d \in Dependent, NEW id \in Proposals, id \notin Closed
               PROVE  id \in blocks'[d] \/ BlockAhead(d, id)'
    BY <1>1 DEF Blocked
  <2>0. d \in Proc /\ d # Source BY CoordinationAssumption DEF Proc
  <2>1. CASE id \in blocks[d]
    \* Only a closing visit could end the block, and the proposal is not closed.
    <3>1. ~ (v.what = "status" /\ Frees(v.status) /\ v.id = id)
      BY <1>3 DEF EndsClosed, Frees
    <3> QED BY <1>4, <1>5, <2>0, <2>1, <3>1
  <2>2. CASE BlockAhead(d, id)
    <3>1. PICK i \in DOMAIN todo["source"] :
             /\ todo["source"][i].what = "project"
             /\ todo["source"][i].who = d /\ todo["source"][i].id = id
      BY <2>2 DEF BlockAhead
    <3>2. CASE t # "source"
      <4>1. todo'["source"] = todo["source"] BY <1>2, <3>2
      <4> QED BY <3>1, <4>1 DEF BlockAhead
    <3>3. CASE t = "source" /\ i # 1
      <4>1. todo'["source"] = Tail(todo["source"]) BY <1>2, <3>3 DEF Thread
      <4>2. i - 1 \in DOMAIN todo'["source"] /\ todo'["source"][i - 1] = todo["source"][i]
        BY <1>2, <3>1, <3>3, <4>1, TailIndex
      <4> QED BY <3>1, <4>2 DEF BlockAhead
    <3>4. CASE t = "source" /\ i = 1
      <4>1. v.what = "project" /\ v.who = d /\ v.id = id BY <1>3, <3>1, <3>4
      <4> QED BY <1>4, <1>5, <2>0, <4>1
    <3> QED BY <3>2, <3>3, <3>4
  <2> QED BY <2>1, <2>2 DEF Blocked
<1>8. SealedIsQuiet'
  <2>1. pc = "sealed" => t # "source" BY <1>2 DEF SealedIsQuiet
  <2> QED BY <1>2, <2>1 DEF SealedIsQuiet, Thread
<1>9. StartedIsClosed' BY <1>1, <1>2 DEF StartedIsClosed
<1> QED BY <1>6, <1>7, <1>8, <1>9

\* The source takes back, or the owner decides: no proposal is new.
LEMMA StartsResolve ==
  ASSUME StartsInv, NEW t \in Thread, NEW id \in Proposals, NEW s \in EventStatus,
         ledger' = Append(ledger, Entry(id, s, VersionOf(id))),
         todo' = [todo EXCEPT ![t] = Resolution(id, s)],
         blocks' = blocks, stage' = stage,
         t = "source" => todo["source"] = << >> /\ pc # "sealed" /\ pc' # "sealed",
         t # "source" => pc' = pc
  PROVE  EndsClosed' /\ Blocked' /\ SealedIsQuiet' /\ StartedIsClosed'
<1> DEFINE e == Entry(id, s, VersionOf(id))
<1> USE DEF StartsInv
<1>1. e \in LedgerEntry /\ e.status = s /\ e.id = id
  BY VersionKnown, ProposalsBounded DEF Entry, LedgerEntry
<1>2. ledger' = Append(ledger, e) OBVIOUS
<1> HIDE DEF e
<1>3. /\ Proposals' = Proposals
      /\ Closed' = Closed \cup (IF s \in Closing THEN {id} ELSE {})
  BY <1>1, <1>2, LedgerGrows
<1>4. EndsClosed'
  <2> SUFFICES ASSUME NEW u \in Thread, NEW j \in DOMAIN todo'[u],
                      todo'[u][j].what = "status", todo'[u][j].status \in Closing
               PROVE  todo'[u][j].id \in Closed'
    BY DEF EndsClosed
  <2>1. CASE u = t
    <3>1. todo'[u] = Resolution(id, s) BY <2>1 DEF TypeOK
    <3>2. todo'[u][j].id = id /\ todo'[u][j].status = s
      BY <3>1, ResolutionShape
    <3> QED BY <1>3, <3>2
  <2>2. CASE u # t
    <3>1. todo'[u] = todo[u] BY <2>2 DEF TypeOK
    <3> QED BY <1>3, <3>1 DEF EndsClosed
  <2> QED BY <2>1, <2>2
<1>5. Blocked'
  <2> SUFFICES ASSUME NEW d \in Dependent, NEW i \in Proposals, i \notin Closed
               PROVE  i \in blocks[d] \/ BlockAhead(d, i)'
    BY <1>3 DEF Blocked
  <2>1. CASE i \in blocks[d] BY <2>1
  <2>2. CASE BlockAhead(d, i)
    <3>1. t # "source"
      <4>1. todo["source"] # << >> BY <2>2 DEF BlockAhead
      <4> QED BY <4>1
    <3>2. todo'["source"] = todo["source"] BY <3>1 DEF TypeOK
    <3> QED BY <2>2, <3>2 DEF BlockAhead
  <2> QED BY <2>1, <2>2 DEF Blocked
<1>6. SealedIsQuiet' BY DEF SealedIsQuiet, TypeOK, Thread
<1>7. StartedIsClosed' BY <1>3 DEF StartedIsClosed
<1> QED BY <1>4, <1>5, <1>6, <1>7

LEMMA StartsPublish ==
  ASSUME StartsInv, Publish
  PROVE  EndsClosed' /\ Blocked' /\ SealedIsQuiet' /\ StartedIsClosed'
<1> DEFINE id == Cardinality(Proposals) + 1
           e == Entry(id, "awaiting_supervisor", content)
<1> USE DEF StartsInv
<1>1. id \in Proposal
  BY ProposalsBounded, CoordinationAssumption DEF Publish, Proposal
<1>2. e \in LedgerEntry /\ e.status = "awaiting_supervisor" /\ e.id = id
  BY <1>1 DEF Entry, LedgerEntry, TypeOK, EventStatus, Open
<1>3. /\ ledger' = Append(ledger, e) /\ todo["source"] = << >>
      /\ todo' = [todo EXCEPT !["source"] = Routing(id, content)]
      /\ blocks' = blocks /\ stage' = stage /\ pc = "deciding" /\ pc' = "acting"
  BY DEF Publish, SourceAt, contextVars
<1> HIDE DEF e, id
<1>4. Proposals' = Proposals \cup {id} /\ Closed' = Closed
  BY <1>2, <1>3, LedgerGrows DEF Closing
<1>5. "awaiting_supervisor" \in EventStatus /\ content \in Version
  BY DEF TypeOK, EventStatus, Open
<1>6. /\ \A i \in DOMAIN Routing(id, content) :
            Routing(id, content)[i].what = "project" /\ Routing(id, content)[i].id = id
      /\ \A p \in Proc : \E i \in DOMAIN Routing(id, content) :
            Routing(id, content)[i].who = p
  BY <1>1, <1>5, VisitsShape DEF Routing
<1>7. /\ todo'["source"] = Routing(id, content)
      /\ \A u \in Thread : u # "source" => todo'[u] = todo[u]
  BY <1>3 DEF TypeOK, Thread
<1>8. EndsClosed' BY <1>4, <1>6, <1>7 DEF EndsClosed
<1>9. Blocked'
  <2> SUFFICES ASSUME NEW d \in Dependent, NEW n \in Proposals \cup {id}, n \notin Closed
               PROVE  n \in blocks[d] \/ BlockAhead(d, n)'
    BY <1>3, <1>4 DEF Blocked
  <2>1. CASE n = id
    <3>1. d \in Proc BY DEF Proc
    <3> QED BY <1>6, <1>7, <2>1, <3>1 DEF BlockAhead
  <2>2. CASE n \in Proposals
    <3>1. ~ BlockAhead(d, n) BY <1>3 DEF BlockAhead
    <3> QED BY <2>2, <3>1 DEF Blocked
  <2> QED BY <2>1, <2>2
<1>10. SealedIsQuiet' /\ StartedIsClosed'
  BY <1>3 DEF SealedIsQuiet, StartedIsClosed
<1> QED BY <1>8, <1>9, <1>10

LEMMA StartsStep ==
  ASSUME StartsInv, [Next]_vars
  PROVE  StartsInv'
<1> USE DEF StartsInv
<1>0. TypeOK' BY TypeStep
<1>1. ASSUME ledger' = ledger, todo' = todo, blocks' = blocks,
             pc' # pc => pc # "sealed" /\ todo["source"] = << >>,
             \A d \in Dependent :
               stage'[d] # stage[d] /\ stage'[d] \in {"checking", "running"}
               => pc' = "sealed" /\ Proposals \subseteq Closed
      PROVE  EndsClosed' /\ Blocked' /\ SealedIsQuiet' /\ StartedIsClosed'
  <2>1. Proposals' = Proposals /\ Closed' = Closed BY <1>1, LedgerSame
  <2> QED
    BY <1>1, <2>1
    DEF EndsClosed, Blocked, BlockAhead, SealedIsQuiet, StartedIsClosed
<1>2. ASSUME NEW v \in Version, Write(v) \/ WriteUnobserved(v)
      PROVE  EndsClosed' /\ Blocked' /\ SealedIsQuiet' /\ StartedIsClosed'
  BY <1>1, <1>2 DEF Write, WriteUnobserved, SourceAt, contextVars
<1>3. CASE \/ ReadContract \/ ReadLedger \/ NothingNew \/ PublishFails \/ EndTurn
           \/ NextTurn \/ Abandon \/ Respond \/ VerifyOutput
  BY <1>0, <1>1, <1>3
  DEF ReadContract, ReadLedger, NothingNew, PublishFails, EndTurn, NextTurn,
      Abandon, Respond, VerifyOutput, SourceAt, contextVars
<1>4. CASE TakeBack
  <2> DEFINE s == IF content = seen THEN "restored" ELSE "dismissed"
  <2>1. found \in Proposals /\ s \in EventStatus /\ "source" \in Thread
    BY <1>4 DEF TakeBack, TypeOK, EventStatus, Closing, Thread
  <2>2. /\ ledger' = Append(ledger, Entry(found, s, VersionOf(found)))
        /\ todo' = [todo EXCEPT !["source"] = Resolution(found, s)]
        /\ blocks' = blocks /\ stage' = stage
        /\ todo["source"] = << >> /\ pc # "sealed" /\ pc' # "sealed"
    BY <1>4 DEF TakeBack, SourceAt, contextVars
  <2> HIDE DEF s
  <2> QED BY <1>0, <2>1, <2>2, StartsResolve
<1>5. CASE Publish BY <1>0, <1>5, StartsPublish
<1>6. ASSUME NEW d \in Dependent, Start(d)
      PROVE  EndsClosed' /\ Blocked' /\ SealedIsQuiet' /\ StartedIsClosed'
  \* At the barrier nothing is on its way and nothing blocks.
  <2>1. ASSUME pc = "sealed", blocks[d] = {} PROVE Proposals \subseteq Closed
    BY <2>1 DEF Blocked, BlockAhead, SealedIsQuiet
  <2>2. \A x \in Dependent :
          stage'[x] # stage[x] /\ stage'[x] \in {"checking", "running"}
          => pc = "sealed" /\ blocks[d] = {}
    BY <1>6 DEF Start, TypeOK
  <2>3. ledger' = ledger /\ todo' = todo /\ blocks' = blocks /\ pc' = pc
    BY <1>6 DEF Start, sourceVars, contextVars
  <2> QED BY <1>1, <2>1, <2>2, <2>3
<1>7. ASSUME NEW d \in Dependent, VerifyInput(d)
      PROVE  EndsClosed' /\ Blocked' /\ SealedIsQuiet' /\ StartedIsClosed'
  <2>1. \A x \in Dependent : stage'[x] # stage[x] => x = d /\ stage[d] = "checking"
    BY <1>7 DEF VerifyInput, TypeOK
  <2>2. stage[d] = "checking" => pc = "sealed" /\ Proposals \subseteq Closed
    BY DEF StartedIsClosed
  <2>3. ledger' = ledger /\ todo' = todo /\ blocks' = blocks /\ pc' = pc
    BY <1>7 DEF VerifyInput, sourceVars, contextVars
  <2> QED BY <1>1, <2>1, <2>2, <2>3
<1>8. CASE List
  BY <1>0, <1>1, <1>8 DEF List, sourceVars, contextVars
<1>9. ASSUME NEW id \in Proposal, NEW s \in EventStatus, Decide(id, s)
      PROVE  EndsClosed' /\ Blocked' /\ SealedIsQuiet' /\ StartedIsClosed'
  <2>1. /\ id \in Proposals /\ "owner" \in Thread
        /\ ledger' = Append(ledger, Entry(id, s, VersionOf(id)))
        /\ todo' = [todo EXCEPT !["owner"] = Resolution(id, s)]
        /\ blocks' = blocks /\ stage' = stage /\ pc' = pc
    BY <1>9 DEF Decide, TypeOK, Thread, sourceVars, contextVars
  <2> QED BY <2>1, StartsResolve
<1>10. ASSUME NEW t \in Thread, Visit(t)
       PROVE  EndsClosed' /\ Blocked' /\ SealedIsQuiet' /\ StartedIsClosed'
  BY <1>10, StartsVisit
<1>11. CASE UNCHANGED vars
  BY <1>0, <1>1, <1>11 DEF vars, sourceVars, contextVars
<1>12. Closing \cup {"awaiting_user", "rework_requested"} \subseteq EventStatus
  BY DEF EventStatus, Open
<1> QED
  BY <1>0, <1>2, <1>3, <1>4, <1>5, <1>6, <1>7, <1>8, <1>9, <1>10, <1>11, <1>12
  DEF Next

\* A dependent that is past its barrier (manager.py:517) has no proposal behind
\* it that nobody closed, for any number of dependents and of proposals and any
\* order of the visits of the two threads.
THEOREM StartsDecidedHolds == Spec => []StartsDecided
<1>1. Init => StartsInv BY StartsInit
<1>2. StartsInv /\ [Next]_vars => StartsInv' BY StartsStep
<1>3. StartsInv => StartsDecided BY DEF StartsInv, StartedIsClosed, StartsDecided
<1> QED BY <1>1, <1>2, <1>3, PTL DEF Spec
=============================================================================
