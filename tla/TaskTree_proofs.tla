--------------------------- MODULE TaskTree_proofs ---------------------------
(***************************************************************************)
(* The safety of a task tree, for any tree, limits, graphs and number of   *)
(* crashes.                                                                *)
(***************************************************************************)
EXTENDS TaskTree, TaskBudget_proofs

-----------------------------------------------------------------------------
(* The inductive invariant.                                                *)

\* The children that have, or had, a lease.
Given(l) == {c \in Child : l.lease[c].state # "none"}

\* No pool is committed to more than it holds, the root has a lease and each
\* child that got one sits on a slot of its own.
Sound(l) ==
  /\ Honoured(l)
  /\ l.lease[Root].state # "none"
  /\ l.agents >= 1 + Cardinality(Given(l))

Copy == {NoCopy} \cup [at : {"live", "ended", "parked", "review"},
                       ledger : Ledger, children : SUBSET Child]

Typed ==
  /\ ledger \in Ledger
  /\ proc \in [Proc -> Steps]
  /\ dag \in [rest : Seq(Child), created : SUBSET Child, checked : BOOLEAN]
  /\ cancelled \subseteq Proc
  /\ copies \in [Proc -> Copy]
  /\ crashes \in 0 .. MaxCrashes

\* So is every ledger that a checkpoint holds, since a crash may restore it.
Balanced == Sound(ledger) /\ \A p \in Rows : Sound(copies[p].ledger)

\* The checkpoints' ledgers are of one history: of any two one is later, and
\* none is later than the ledger.
Ordered ==
  /\ \A p \in Rows : Later(ledger, copies[p].ledger)
  /\ \A p, q \in Rows :
       Later(copies[p].ledger, copies[q].ledger) \/ Later(copies[q].ledger, copies[p].ledger)

\* A process has a lease as long as it is known, also in its own checkpoint.
Known ==
  /\ \A c \in Child : proc[c] \notin {"absent", "gone", "down"} => c \in Given(ledger)
  /\ \A c \in Child : proc[c] = "absent" => c \notin Given(ledger)
  /\ \A p \in Rows : copies[p].ledger.lease[p].state # "none"

\* The nodes that an admission has still to create are different and absent,
\* and the slot of the next one is taken before its lease.
Busy == proc[Root] \in {"admitting", "registering"}
Apart(d) == \A i, j \in DOMAIN d : d[i] = d[j] => i = j
Nodes ==
  /\ dag.created \subseteq Given(ledger)
  /\ Busy => Apart(dag.rest) /\ \A i \in DOMAIN dag.rest : proc[dag.rest[i]] = "absent"
  /\ proc[Root] = "registering" =>
       dag.rest # <<>> /\ ledger.agents >= 2 + Cardinality(Given(ledger))

\* What preflight_children has found room for still has room.
Room ==
  dag.checked /\ Busy =>
    /\ Fits(ledger, dag.rest, Request)
    /\ ledger.agents + Len(dag.rest)
         <= IF proc[Root] = "registering" THEN MaxAgents + 1 ELSE MaxAgents

TreeInv == Typed /\ Balanced /\ Ordered /\ Known /\ Nodes /\ Room

-----------------------------------------------------------------------------
(* Ledgers.                                                                *)

LEMMA GivenIsFinite ==
  ASSUME NEW l
  PROVE  IsFiniteSet(Given(l)) /\ Cardinality(Given(l)) \in Nat
<1>1. IsFiniteSet(Given(l))
  BY ProcAssumption, FS_Subset DEF Given
<1>. QED
  BY <1>1, FS_CardinalityType

LEMMA StaysSound ==
  ASSUME NEW l \in Ledger, NEW k \in Ledger, Sound(l), Honoured(k), k.agents = l.agents,
         \A p \in Proc : (l.lease[p].state = "none") <=> (k.lease[p].state = "none")
  PROVE  Sound(k) /\ Given(k) = Given(l)
<1>1. Given(k) = Given(l)
  BY DEF Given, Proc
<1>. QED
  BY <1>1 DEF Sound, Proc

\* A step that eases the ledger, takes no slot and gives no lease.
LEMMA EasesSound ==
  ASSUME NEW l \in Ledger, NEW k \in Ledger, Sound(l), Eases(k, l), k.agents = l.agents,
         \A p \in Proc : (l.lease[p].state = "none") <=> (k.lease[p].state = "none")
  PROVE  Sound(k)
<1>1. Honoured(k)
  BY Easing DEF Sound
<1>. QED
  BY <1>1, StaysSound

LEMMA GivenGrows ==
  ASSUME NEW l, NEW k, Later(k, l)
  PROVE  Given(l) \subseteq Given(k)
BY DEF Later, Given, Proc

LEMMA OpenedIsSound == Opened \in Ledger /\ Sound(Opened)
<1>1. Opened \in Ledger
  <2>1. Nothing \in [Resource -> Nat]
    BY DEF Nothing
  <2>2. NewLease(Nothing) \in Lease
    BY <2>1 DEF NewLease, Lease
  <2>3. Opened.spent \in [Purpose -> [Resource -> Nat]]
    BY <2>1 DEF Opened
  <2>4. Opened.lease \in [Proc -> Lease \cup {NoLease}]
    BY <2>2 DEF Opened
  <2>. QED
    BY <2>3, <2>4 DEF Opened, Ledger
<1>2. /\ Opened.lease[Root].state = "active" /\ Opened.agents = 1
      /\ \A c \in Child : Opened.lease[c].state = "none"
  BY ProcAssumption DEF Opened, Proc, NewLease, NoLease
<1>3. Given(Opened) = {}
  BY <1>2 DEF Given
<1>4. Cardinality(Given(Opened)) = 0
  BY <1>3, FS_EmptySet
<1>5. ASSUME NEW r \in Resource, NEW purpose \in Purpose
      PROVE  Committed(Opened, r, purpose) <= Ceiling(r, purpose)
  <2>1. Opened.spent[purpose][r] = 0
    BY DEF Opened, Nothing
  <2>2. \A c \in Child : Outstanding(Opened, r, c) = 0
    BY <1>1, <1>2, OutstandingIs
  <2>3. Promised(Opened, r, purpose, Root) = 0
    BY <1>1, <2>2, NothingPromised
  <2>4. Ceiling(r, purpose) \in Nat
    BY CeilingIs
  <2>. QED
    BY <2>1, <2>3, <2>4 DEF Committed
<1>6. Honoured(Opened)
  BY <1>5 DEF Honoured
<1>. QED
  BY <1>1, <1>2, <1>4, <1>6 DEF Sound

-----------------------------------------------------------------------------
(* Parts of steps.                                                         *)

LEMMA Going ==
  ASSUME Typed, NEW p \in Proc, NEW s \in Steps, Goto(p, s)
  PROVE  /\ proc' \in [Proc -> Steps] /\ proc'[p] = s
         /\ \A q \in Proc \ {p} : proc'[q] = proc[q]
BY DEF Typed, Goto

\* What a step leaves of the checkpoints: old rows and rows of this moment.
Saved ==
  /\ copies' \in [Proc -> Copy]
  /\ \A p \in Proc : copies'[p].at # "none" =>
       \/ copies'[p] = copies[p]
       \/ copies'[p].ledger = ledger' /\ ledger'.lease[p].state # "none"

LEMMA NothingSaved == Typed /\ UNCHANGED copies => Saved
BY DEF Typed, Saved

LEMMA NoGraphIs ==
  /\ NoGraph \in [rest : Seq(Child), created : SUBSET Child, checked : BOOLEAN]
  /\ NoGraph.rest = <<>> /\ NoGraph.created = {} /\ ~NoGraph.checked
<1>1. <<>> \in Seq(Child)
  OBVIOUS
<1>. QED
  BY <1>1 DEF NoGraph

LEMMA RowIs ==
  ASSUME Typed, NEW p \in Proc, NEW at \in {"live", "ended", "parked", "review"}
  PROVE  Row(p, at) \in Copy /\ Row(p, at).ledger = ledger
BY DEF Row, Copy, Typed

LEMMA KeptIs ==
  ASSUME NEW p
  PROVE  Kept(p) \in {"live", "ended", "parked", "review"}
BY DEF Kept

\* The rows of the processes in D are written, with the status that s gives.
LEMMA Saving ==
  ASSUME Typed, UNCHANGED ledger, NEW D \in SUBSET Proc,
         NEW s \in [Proc -> {"live", "ended", "parked", "review"}],
         \A p \in D : ledger.lease[p].state # "none",
         NEW rows \in [Proc -> Copy], SaveAll(rows),
         \A p \in Proc : rows[p] = IF p \in D THEN Row(p, s[p]) ELSE copies[p]
  PROVE  Saved
<1>1. \A p \in Proc : rows[p] = copies[p] \/ (rows[p].ledger = ledger /\ ledger.lease[p].state # "none")
  BY RowIs
<1>2. CASE crashes < MaxCrashes
  BY <1>1, <1>2 DEF SaveAll, Saved
<1>3. CASE ~(crashes < MaxCrashes)
  BY <1>3 DEF SaveAll, Saved, NoCopy, Copy
<1>. QED
  BY <1>2, <1>3

LEMMA SavingOne ==
  ASSUME Typed, UNCHANGED ledger, NEW p \in Proc, ledger.lease[p].state # "none",
         NEW at \in {"live", "ended", "parked", "review"}, Save(p, at)
  PROVE  Saved
<1>. DEFINE rows == [copies EXCEPT ![p] = Row(p, at)]
            s == [q \in Proc |-> at]
<1>1. Row(p, at) \in Copy
  BY RowIs
<1>2. rows \in [Proc -> Copy] /\ \A q \in Proc : rows[q] = IF q \in {p} THEN Row(q, s[q]) ELSE copies[q]
  BY <1>1 DEF Typed
<1>3. SaveAll(rows)
  BY DEF Save
<1>4. s \in [Proc -> {"live", "ended", "parked", "review"}]
  OBVIOUS
<1>. HIDE DEF rows, s
<1>5. {p} \in SUBSET Proc /\ \A q \in {p} : ledger.lease[q].state # "none"
  OBVIOUS
<1>. QED
  BY <1>2, <1>3, <1>4, <1>5, Saving

\* Under the same or a later sound ledger the checkpoints keep their order.
LEMMA RowsStay ==
  ASSUME TreeInv, Saved, ledger' \in Ledger, Sound(ledger'), Later(ledger', ledger)
  PROVE  Balanced' /\ Ordered' /\ \A p \in Rows' : copies'[p].ledger.lease[p].state # "none"
<1>1. \A p \in Rows : copies[p].ledger \in Ledger
  BY DEF TreeInv, Typed, Copy, Rows, NoCopy
<1>2. ASSUME NEW p \in Rows'
      PROVE  /\ p \in Proc
             /\ \/ p \in Rows /\ copies'[p] = copies[p]
                \/ copies'[p].ledger = ledger' /\ ledger'.lease[p].state # "none"
  BY DEF Saved, Rows
<1>3. ASSUME NEW p \in Rows PROVE Later(ledger', copies[p].ledger)
  <2>1. Later(ledger, copies[p].ledger) /\ ledger \in Ledger
    BY DEF TreeInv, Ordered, Typed
  <2>. QED
    BY <1>1, <2>1, LaterIsTransitive
<1>4. Later(ledger', ledger')
  BY LaterThanItself
<1>5. ASSUME NEW p \in Rows'
      PROVE  /\ Sound(copies'[p].ledger) /\ Later(ledger', copies'[p].ledger)
             /\ copies'[p].ledger.lease[p].state # "none"
  <2>1. CASE p \in Rows /\ copies'[p] = copies[p]
    BY <1>3, <2>1 DEF TreeInv, Balanced, Known
  <2>2. CASE copies'[p].ledger = ledger' /\ ledger'.lease[p].state # "none"
    BY <1>4, <2>2
  <2>. QED
    BY <1>2, <2>1, <2>2
<1>6. ASSUME NEW p \in Rows', NEW q \in Rows'
      PROVE  \/ Later(copies'[p].ledger, copies'[q].ledger)
             \/ Later(copies'[q].ledger, copies'[p].ledger)
  <2>1. CASE copies'[p].ledger = ledger' \/ copies'[q].ledger = ledger'
    BY <1>5, <2>1
  <2>2. CASE p \in Rows /\ copies'[p] = copies[p] /\ q \in Rows /\ copies'[q] = copies[q]
    BY <2>2 DEF TreeInv, Ordered
  <2>. QED
    BY <1>2, <2>1, <2>2
<1>. QED
  BY <1>5, <1>6 DEF Balanced, Ordered

\* A step that admits nobody.
Quiet ==
  /\ Later(ledger', ledger)
  /\ \A p \in Proc : (ledger.lease[p].state = "none") <=> (ledger'.lease[p].state = "none")
  /\ \A c \in Child :
       (proc[c] \in {"absent", "gone", "down"} \/ proc'[c] \in {"absent", "gone", "down"})
         => proc'[c] = proc[c]
  /\ dag' \in {dag, NoGraph}
  /\ Busy' => /\ proc'[Root] = proc[Root] /\ dag' = dag
              /\ ledger'.agents = ledger.agents /\ Eases(ledger', ledger)

LEMMA Quietly ==
  ASSUME TreeInv, Typed', Saved, Sound(ledger'), Quiet
  PROVE  TreeInv'
<1>1. ledger \in Ledger /\ ledger' \in Ledger /\ proc \in [Proc -> Steps]
  BY DEF TreeInv, Typed
<1>2. Balanced' /\ Ordered' /\ \A p \in Rows' : copies'[p].ledger.lease[p].state # "none"
  BY <1>1, RowsStay DEF Quiet
<1>3. Given(ledger') = Given(ledger)
  BY DEF Quiet, Given, Proc
<1>4. Known'
  <2>1. ASSUME NEW c \in Child, proc'[c] \notin {"absent", "gone", "down"} PROVE c \in Given(ledger')
    BY <1>3, <2>1 DEF Quiet, TreeInv, Known
  <2>2. ASSUME NEW c \in Child, proc'[c] = "absent" PROVE c \notin Given(ledger')
    BY <1>3, <2>2 DEF Quiet, TreeInv, Known
  <2>. QED
    BY <1>2, <2>1, <2>2 DEF Known
<1>5. Nodes'
  <2>1. dag'.created \subseteq Given(ledger')
    BY <1>3 DEF Quiet, NoGraph, TreeInv, Nodes
  <2>2. CASE Busy'
    <3>1. /\ proc'[Root] = proc[Root] /\ dag' = dag /\ ledger'.agents = ledger.agents /\ Busy
      BY <2>2 DEF Quiet, Busy
    <3>2. Apart(dag.rest) /\ \A i \in DOMAIN dag.rest : proc[dag.rest[i]] = "absent"
      BY <3>1 DEF TreeInv, Nodes
    <3>3. \A i \in DOMAIN dag.rest : dag.rest[i] \in Child
      BY DEF TreeInv, Typed
    <3>4. \A i \in DOMAIN dag'.rest : proc'[dag'.rest[i]] = "absent"
      BY <3>1, <3>2, <3>3 DEF Quiet
    <3>5. Apart(dag'.rest)
      BY <3>1, <3>2
    <3>6. proc'[Root] = "registering" =>
            dag'.rest # <<>> /\ ledger'.agents >= 2 + Cardinality(Given(ledger'))
      BY <1>3, <3>1 DEF TreeInv, Nodes
    <3>. QED
      BY <2>1, <3>4, <3>5, <3>6 DEF Nodes
  <2>3. CASE ~Busy'
    BY <2>1, <2>3 DEF Nodes, Busy
  <2>. QED
    BY <2>2, <2>3
<1>6. Room'
  <2>1. ASSUME dag'.checked, Busy'
        PROVE  /\ Fits(ledger', dag'.rest, Request)
               /\ ledger'.agents + Len(dag'.rest)
                    <= IF proc'[Root] = "registering" THEN MaxAgents + 1 ELSE MaxAgents
    <3>1. /\ proc'[Root] = proc[Root] /\ dag' = dag /\ ledger'.agents = ledger.agents
          /\ Busy /\ Eases(ledger', ledger)
      BY <2>1 DEF Quiet, Busy
    <3>2. /\ Fits(ledger, dag.rest, Request)
          /\ ledger.agents + Len(dag.rest)
               <= IF proc[Root] = "registering" THEN MaxAgents + 1 ELSE MaxAgents
      BY <2>1, <3>1 DEF TreeInv, Room
    <3>3. Fits(ledger', dag.rest, Request)
      BY <1>1, <3>1, <3>2, Easing, FitsMore
    <3>. QED
      BY <3>1, <3>2, <3>3
  <2>. QED
    BY <2>1 DEF Room
<1>. QED
  BY <1>2, <1>4, <1>5, <1>6 DEF TreeInv

\* A step on the same ledger that admits nobody.
LEMMA Standing ==
  ASSUME TreeInv, Saved, UNCHANGED ledger, NEW p \in Proc, NEW s \in Steps, Goto(p, s),
         proc[p] \notin {"absent", "gone", "down"}, s \notin {"absent", "gone", "down"},
         p = Root => s \notin {"admitting", "registering"},
         dag' = dag \/ (p = Root /\ dag' = NoGraph), cancelled' \subseteq Proc, UNCHANGED crashes
  PROVE  TreeInv'
<1>1. ledger \in Ledger /\ Sound(ledger)
  BY DEF TreeInv, Typed, Balanced
<1>2. /\ proc' \in [Proc -> Steps] /\ proc'[p] = s
      /\ \A q \in Proc \ {p} : proc'[q] = proc[q]
  BY Going DEF TreeInv
<1>3. Later(ledger, ledger) /\ Eases(ledger, ledger)
  <2>1. ledger.revision <= ledger.revision
    BY <1>1, LedgerFields
  <2>. QED
    BY <1>1, <2>1, SameLeases
<1>4. dag' \in [rest : Seq(Child), created : SUBSET Child, checked : BOOLEAN]
  BY NoGraphIs DEF TreeInv, Typed
<1>5. Typed'
  BY <1>1, <1>2, <1>4 DEF TreeInv, Typed, Saved
<1>6. Quiet
  BY <1>2, <1>3 DEF Quiet, Busy, Proc
<1>. QED
  BY <1>1, <1>5, <1>6, Quietly

-----------------------------------------------------------------------------
(* Steps of one process.                                                   *)

\* Who is known has a lease.
LEMMA KnownHasLease ==
  ASSUME TreeInv, NEW p \in Proc, proc[p] \notin {"absent", "gone", "down"} \/ p = Root
  PROVE  ledger.lease[p].state # "none"
BY DEF TreeInv, Known, Balanced, Sound, Given, Proc

LEMMA ChargeStep ==
  ASSUME TreeInv, NEW p \in Proc, NEW r \in Resource, proc[p] \in {"charge", "sent"},
         Covered(ledger, r, p, 1), ledger' = Charged(ledger, r, p, 1),
         NEW s \in {"sent"}, Goto(p, s) \/ UNCHANGED proc,
         UNCHANGED <<dag, cancelled, copies, crashes>>
  PROVE  TreeInv'
<1>1. /\ ledger \in Ledger /\ Sound(ledger) /\ proc \in [Proc -> Steps]
      /\ ledger.lease[p].state # "none"
  BY KnownHasLease DEF TreeInv, Typed, Balanced
<1>2. /\ ledger' \in Ledger /\ ledger'.agents = ledger.agents
      /\ \A q \in Proc : ledger'.lease[q].state = ledger.lease[q].state
      /\ Later(ledger', ledger)
      /\ Honoured(ledger')
      /\ p \in Child => Eases(ledger', ledger)
  BY <1>1, Charging DEF Sound
<1>3. Sound(ledger')
  BY <1>1, <1>2, StaysSound
<1>4. /\ proc' \in [Proc -> Steps] /\ proc'[p] \in {"charge", "sent"}
      /\ \A q \in Proc \ {p} : proc'[q] = proc[q]
  <2>1. s \in Steps
    BY DEF Steps
  <2>2. CASE Goto(p, s)
    BY <2>1, <2>2, Going DEF TreeInv
  <2>3. CASE UNCHANGED proc
    BY <1>1, <2>3
  <2>. QED
    BY <2>2, <2>3
<1>5. Typed' /\ Saved
  BY <1>2, <1>4, NothingSaved DEF TreeInv, Typed
<1>6. Quiet
  <2>1. Busy' => proc'[Root] = proc[Root] /\ p \in Child
    BY <1>4 DEF Busy, Proc
  <2>2. ASSUME NEW c \in Child, proc[c] \in {"absent", "gone", "down"} \/ proc'[c] \in {"absent", "gone", "down"}
        PROVE  proc'[c] = proc[c]
    BY <1>4, <2>2 DEF Proc
  <2>. QED
    BY <1>2, <2>1, <2>2 DEF Quiet
<1>. QED
  BY <1>3, <1>5, <1>6, Quietly

\* Only a process that is known takes a step of its own.
LEMMA ProcStepKeeps ==
  ASSUME TreeInv, NEW p \in Proc, ProcStep(p)
  PROVE  TreeInv'
<1>0. /\ ledger \in Ledger /\ Sound(ledger) /\ cancelled \subseteq Proc
      /\ proc \in [Proc -> Steps] /\ Typed
  BY DEF TreeInv, Typed, Balanced
<1>1. CASE StartTurn(p)
  <2>1. "charge" \in Steps /\ Saved
    BY <1>0, <1>1, NothingSaved DEF Steps, StartTurn
  <2>. QED
    BY <1>0, <1>1, <2>1, Standing DEF StartTurn
<1>2. CASE Charge(p)
  <2>1. "provider_calls" \in Resource
    BY DEF Resource
  <2>. QED
    BY <1>2, <2>1, ChargeStep DEF Charge, CallAdmitted
<1>3. CASE Refused(p)
  <2>1. "ending" \in Steps /\ Saved
    BY <1>0, <1>3, NothingSaved DEF Steps, Refused
  <2>. QED
    BY <1>0, <1>3, <2>1, Standing DEF Refused
<1>4. CASE Output(p)
  <2>1. CASE OutputAdmitted(ledger, p, 1)
    <3>1. "output_tokens" \in Resource
      BY DEF Resource
    <3>. QED
      BY <1>4, <2>1, <3>1, ChargeStep DEF Output, OutputAdmitted
  <2>2. CASE ~OutputAdmitted(ledger, p, 1)
    <3>1. "ending" \in Steps /\ Saved
      BY <1>0, <1>4, NothingSaved DEF Steps, Output
    <3>. QED
      BY <1>0, <1>4, <2>2, <3>1, Standing DEF Output
  <2>. QED
    BY <2>1, <2>2
<1>5. CASE Answered(p)
  <2>1. {"done", "charge", "ending"} \subseteq Steps /\ Saved
    BY <1>0, <1>5, NothingSaved DEF Steps, Answered
  <2>2. PICK s \in {"done", "charge", "ending"} : Goto(p, s)
    BY <1>5 DEF Answered
  <2>. QED
    BY <1>0, <1>5, <2>1, <2>2, Standing DEF Answered
<1>6. CASE Checkpoint(p)
  <2>1. ledger.lease[p].state # "none"
    BY <1>6, KnownHasLease DEF Checkpoint
  <2>2. "idle" \in Steps /\ Saved
    BY <1>0, <1>6, <2>1, SavingOne DEF Steps, Checkpoint
  <2>. QED
    BY <1>0, <1>6, <2>2, Standing DEF Checkpoint
<1>7. CASE Stop(p)
  <2>1. "ending" \in Steps /\ Saved
    BY <1>0, <1>7, NothingSaved DEF Steps, Stop
  <2>. QED
    BY <1>0, <1>7, <2>1, Standing DEF Stop
<1>8. CASE ReleaseLease(p)
  <2>1. "saving" \in Steps
    BY DEF Steps
  <2>2. /\ proc' \in [Proc -> Steps] /\ proc'[p] = "saving"
        /\ \A q \in Proc \ {p} : proc'[q] = proc[q]
    BY <1>0, <1>8, <2>1, Going DEF ReleaseLease
  <2>3. /\ ledger' \in Ledger /\ ledger'.agents = ledger.agents
        /\ \A q \in Proc : (ledger.lease[q].state = "none") <=> (ledger'.lease[q].state = "none")
        /\ Later(ledger', ledger) /\ Eases(ledger', ledger)
    <3>1. CASE p = Root
      <4>1. ledger' = ledger /\ ledger.revision <= ledger.revision
        BY <1>0, <1>8, <3>1, LedgerFields DEF ReleaseLease
      <4>. QED
        BY <1>0, <4>1, SameLeases
    <3>2. CASE p # Root
      BY <1>0, <1>8, <3>2, Releasing DEF ReleaseLease
    <3>. QED
      BY <3>1, <3>2
  <2>4. Sound(ledger')
    BY <1>0, <2>3, EasesSound
  <2>5. Typed' /\ Saved
    BY <1>0, <1>8, <2>2, <2>3, NothingSaved DEF ReleaseLease, Typed
  <2>6. Quiet
    BY <1>8, <2>2, <2>3 DEF ReleaseLease, Quiet, Busy, Proc
  <2>. QED
    BY <2>4, <2>5, <2>6, Quietly
<1>9. CASE SaveTerminal(p)
  <2>1. ledger.lease[p].state # "none"
    BY <1>9, KnownHasLease DEF SaveTerminal
  <2>2. "ended" \in Steps /\ Saved
    BY <1>0, <1>9, <2>1, SavingOne DEF Steps, SaveTerminal
  <2>. QED
    BY <1>0, <1>9, <2>2, Standing DEF SaveTerminal
<1>. QED
  BY <1>1, <1>2, <1>3, <1>4, <1>5, <1>6, <1>7, <1>8, <1>9 DEF ProcStep

LEMMA ChildStepKeeps ==
  ASSUME TreeInv, NEW c \in Child, ChildStep(c)
  PROVE  TreeInv'
<1>0. /\ ledger \in Ledger /\ Sound(ledger) /\ cancelled \subseteq Proc
      /\ proc \in [Proc -> Steps] /\ Typed /\ c \in Proc /\ c # Root /\ Root \in Proc
  BY ProcAssumption DEF TreeInv, Typed, Balanced, Proc
<1>1. CASE StartChild(c)
  <2>. DEFINE rows == [copies EXCEPT ![c] = Row(c, "live"), ![Root] = Row(Root, Kept(Root))]
              s == [p \in Proc |-> IF p = Root THEN Kept(Root) ELSE "live"]
  <2>1. ledger.lease[c].state # "none" /\ ledger.lease[Root].state # "none"
    BY <1>0, <1>1, KnownHasLease DEF StartChild
  <2>2. Row(c, "live") \in Copy /\ Row(Root, Kept(Root)) \in Copy
    BY <1>0, RowIs, KeptIs
  <2>3. rows \in [Proc -> Copy]
    BY <1>0, <2>2 DEF Typed
  <2>4. \A p \in Proc : rows[p] = IF p \in {c, Root} THEN Row(p, s[p]) ELSE copies[p]
    BY <1>0 DEF Typed
  <2>5. SaveAll(rows) /\ UNCHANGED ledger
    BY <1>1 DEF StartChild
  <2>6. s \in [Proc -> {"live", "ended", "parked", "review"}]
    BY KeptIs
  <2>. HIDE DEF rows, s
  <2>7. {c, Root} \in SUBSET Proc /\ \A p \in {c, Root} : ledger.lease[p].state # "none"
    BY <1>0, <2>1
  <2>8. Saved /\ "idle" \in Steps
    BY <1>0, <2>3, <2>4, <2>5, <2>6, <2>7, Saving DEF Steps
  <2>. QED
    BY <1>0, <1>1, <2>8, Standing DEF StartChild
<1>2. CASE Ask(c)
  <2>1. ledger.lease[c].state # "none"
    BY <1>0, <1>2, KnownHasLease DEF Ask
  <2>2. "parking" \in Steps /\ Saved
    BY <1>0, <1>2, <2>1, SavingOne DEF Steps, Ask
  <2>. QED
    BY <1>0, <1>2, <2>2, Standing DEF Ask
<1>3. CASE Parked(c)
  <2>1. ledger.lease[c].state # "none"
    BY <1>0, <1>3, KnownHasLease DEF Parked
  <2>2. {"parked", "cancelling"} \subseteq Steps /\ Saved
    BY <1>0, <1>3, <2>1, SavingOne DEF Steps, Parked
  <2>3. PICK s \in {"parked", "cancelling"} : Goto(c, s)
    BY <1>3 DEF Parked
  <2>. QED
    BY <1>0, <1>3, <2>2, <2>3, Standing DEF Parked
<1>4. CASE NotStarted(c) \/ Undecided(c)
  <2>1. "ending" \in Steps /\ Saved
    BY <1>0, <1>4, NothingSaved DEF Steps, NotStarted, Undecided
  <2>. QED
    BY <1>0, <1>4, <2>1, Standing DEF NotStarted, Undecided
<1>5. CASE Block(c) \/ Decided(c)
  <2>1. {"starting", "blocked", "idle", "deciding"} \subseteq Steps /\ Saved
    BY <1>0, <1>5, NothingSaved DEF Steps, Block, Decided
  <2>2. PICK s \in {"starting", "blocked", "idle", "deciding"} : Goto(c, s)
    BY <1>5 DEF Block, Decided
  <2>3. proc[c] \in {"starting", "blocked", "idle", "deciding"}
    BY <1>5 DEF Block, Decided
  <2>. QED
    BY <1>0, <1>5, <2>1, <2>2, <2>3, Standing DEF Block, Decided
<1>. QED
  BY <1>1, <1>2, <1>3, <1>4, <1>5 DEF ChildStep

-----------------------------------------------------------------------------
(* Kills.                                                                  *)

LEMMA Killing ==
  ASSUME Typed, NEW l \in Ledger, Sound(l), NEW targets \in SUBSET Proc, NEW next \in [Proc -> Steps],
         KillFrom(l, targets, next)
  PROVE  /\ cancelled' \subseteq Proc /\ proc' \in [Proc -> Steps]
         /\ \A p \in Proc :
              \/ proc'[p] = next[p]
              \/ proc[p] \in {"parked", "available", "review"} /\ proc'[p] = "ended"
         /\ ledger' \in Ledger /\ ledger'.agents = l.agents /\ Sound(ledger')
         /\ Later(ledger', l) /\ Eases(ledger', l)
         /\ \A p \in Proc : (l.lease[p].state = "none") <=> (ledger'.lease[p].state = "none")
<1>. DEFINE D == {p \in targets : proc[p] \in {"parked", "available", "review"}}
<1>1. ledger' = WithRefunds(l, D)
  BY Zenon DEF KillFrom, WithRefunds
<1>2. /\ cancelled' = cancelled \cup {p \in targets : proc[p] \notin Over}
      /\ proc' = [p \in Proc |-> IF p \in D THEN "ended" ELSE next[p]]
  BY Zenon DEF KillFrom
<1>3. /\ ledger' \in Ledger /\ ledger'.agents = l.agents
      /\ \A p \in Proc : (l.lease[p].state = "none") <=> (ledger'.lease[p].state = "none")
      /\ Later(ledger', l) /\ Eases(ledger', l)
  <2>1. D \in SUBSET Proc
    OBVIOUS
  <2>. HIDE DEF D
  <2>. QED
    BY <1>1, <2>1, Refund
<1>4. Sound(ledger')
  BY <1>3, EasesSound
<1>5. cancelled' \subseteq Proc
  BY <1>2 DEF Typed
<1>6. proc' \in [Proc -> Steps]
  <2>1. "ended" \in Steps
    BY DEF Steps
  <2>. QED
    BY <1>2, <2>1
<1>. QED
  BY <1>2, <1>3, <1>4, <1>5, <1>6

\* A kill that is not part of an admission.
LEMMA KillKeeps ==
  ASSUME TreeInv, NEW targets \in SUBSET Proc, KillFrom(ledger, targets, proc),
         UNCHANGED <<dag, copies, crashes>>
  PROVE  TreeInv'
<1>0. Typed /\ ledger \in Ledger /\ Sound(ledger) /\ proc \in [Proc -> Steps]
  BY DEF TreeInv, Typed, Balanced
<1>1. /\ cancelled' \subseteq Proc /\ proc' \in [Proc -> Steps]
      /\ \A p \in Proc :
           \/ proc'[p] = proc[p]
           \/ proc[p] \in {"parked", "available", "review"} /\ proc'[p] = "ended"
      /\ ledger' \in Ledger /\ ledger'.agents = ledger.agents /\ Sound(ledger')
      /\ Later(ledger', ledger) /\ Eases(ledger', ledger)
      /\ \A p \in Proc : (ledger.lease[p].state = "none") <=> (ledger'.lease[p].state = "none")
  BY <1>0, Killing
<1>2. Typed' /\ Saved
  BY <1>0, <1>1, NothingSaved DEF Typed
<1>3. Quiet
  BY <1>1 DEF Quiet, Busy, Proc
<1>. QED
  BY <1>1, <1>2, <1>3, Quietly

-----------------------------------------------------------------------------
(* Admission.                                                              *)

LEMMA TailIs ==
  ASSUME NEW s \in Seq(Child), s # <<>>
  PROVE  /\ Len(s) \in Nat /\ Head(s) \in Child /\ Head(s) = s[1] /\ 1 \in DOMAIN s
         /\ Tail(s) \in Seq(Child) /\ Len(Tail(s)) = Len(s) - 1
         /\ \A i \in DOMAIN Tail(s) : i \in Nat /\ i >= 1 /\ i + 1 \in DOMAIN s /\ Tail(s)[i] = s[i + 1]
<1>1. Len(s) \in Nat /\ Head(s) \in Child /\ Head(s) = s[1] /\ 1 \in DOMAIN s
  OBVIOUS
<1>2. Tail(s) \in Seq(Child) /\ Len(Tail(s)) = Len(s) - 1
  OBVIOUS
<1>3. ASSUME NEW i \in DOMAIN Tail(s)
      PROVE  i \in Nat /\ i >= 1 /\ i + 1 \in DOMAIN s /\ Tail(s)[i] = s[i + 1]
  OBVIOUS
<1>. QED
  BY <1>1, <1>2, <1>3

\* As many nodes as the graph is long: no node comes twice.
LEMMA GraphsAreApart ==
  ASSUME NEW d \in Graphs
  PROVE  d \in Seq(Child) /\ Apart(d)
<1>. DEFINE S == 1 .. Len(d)
            T == {d[i] : i \in DOMAIN d}
<1>1. d \in Seq(Child) /\ Len(d) = Cardinality(T)
  BY GraphsAssumption
<1>2. d \in [S -> Child] /\ DOMAIN d = S /\ Len(d) \in Nat
  <2>1. d \in Seq(Child)
    BY <1>1
  <2>. HIDE DEF T
  <2>. QED
    BY <2>1
<1>3. d \in Surjection(S, T)
  <2>1. d \in [S -> T]
    <3>1. \A i \in S : d[i] \in T
      BY <1>2
    <3>2. d = [i \in S |-> d[i]]
      BY <1>2
    <3>. HIDE DEF S, T
    <3>. QED
      BY <3>1, <3>2
  <2>2. \A t \in T : \E s \in S : d[s] = t
    BY <1>2
  <2>. QED
    BY <2>1, <2>2 DEF Surjection
<1>4. IsFiniteSet(S) /\ Cardinality(S) = Len(d)
  <2>1. \A n \in Nat : IsFiniteSet(1 .. n) /\ Cardinality(1 .. n) = n
    BY FS_Interval
  <2>. QED
    BY <1>2, <2>1, Zenon
<1>5. d \in Injection(S, T)
  <2>. HIDE DEF S, T
  <2>. QED
    BY <1>1, <1>3, <1>4, FS_Surjection
<1>6. Apart(d)
  BY <1>2, <1>5 DEF Injection, IsInjective, Apart
<1>. QED
  BY <1>1, <1>6

LEMMA SubmitKeeps ==
  ASSUME TreeInv, NEW d \in Seq(Child), Apart(d), NEW checked \in BOOLEAN, Submit(d, checked),
         checked => Fits(ledger, d, Request) /\ ledger.agents + Len(d) <= MaxAgents
  PROVE  TreeInv'
<1>0. Typed /\ ledger \in Ledger /\ Sound(ledger) /\ Root \notin Child /\ Root \in Proc
  BY ProcAssumption DEF TreeInv, Typed, Balanced, Proc
<1>1. "admitting" \in Steps /\ Saved
  BY <1>0, NothingSaved DEF Steps, Submit
<1>2. /\ proc' \in [Proc -> Steps] /\ proc'[Root] = "admitting"
      /\ \A q \in Proc \ {Root} : proc'[q] = proc[q]
  BY <1>0, <1>1, Going DEF Submit
<1>3. /\ dag'.rest = d /\ dag'.created = {} /\ dag'.checked = checked
      /\ dag' \in [rest : Seq(Child), created : SUBSET Child, checked : BOOLEAN]
  BY DEF Submit
<1>4. UNCHANGED <<ledger, cancelled, copies, crashes>>
  BY DEF Submit
<1>5. Typed'
  BY <1>0, <1>2, <1>3, <1>4 DEF Typed
<1>6. Later(ledger, ledger)
  BY <1>0, LaterThanItself
<1>7. Balanced' /\ Ordered' /\ \A p \in Rows' : copies'[p].ledger.lease[p].state # "none"
  BY <1>0, <1>1, <1>4, <1>6, RowsStay
<1>8. Known'
  BY <1>0, <1>2, <1>4, <1>7 DEF TreeInv, Known, Proc
<1>9. Nodes'
  <2>1. \A i \in DOMAIN d : d[i] \in Child /\ proc[d[i]] = "absent"
    BY DEF Submit
  <2>2. \A i \in DOMAIN d : proc'[d[i]] = "absent"
    BY <1>0, <1>2, <2>1 DEF Proc
  <2>. QED
    BY <1>2, <1>3, <2>2 DEF Nodes
<1>10. Room'
  BY <1>2, <1>3, <1>4 DEF Room
<1>. QED
  BY <1>5, <1>7, <1>8, <1>9, <1>10 DEF TreeInv

LEMMA DelegateKeeps ==
  ASSUME TreeInv, NEW c \in Child, Delegate(c)
  PROVE  TreeInv'
<1>1. <<c>> \in Seq(Child) /\ Apart(<<c>>)
  BY DEF Apart
<1>. QED
  BY <1>1, SubmitKeeps DEF Delegate

LEMMA DelegateGraphKeeps ==
  ASSUME TreeInv, NEW d \in Graphs, DelegateGraph(d)
  PROVE  TreeInv'
<1>1. d \in Seq(Child) /\ Apart(d)
  BY GraphsAreApart
<1>2. ledger \in Ledger /\ ledger.agents \in Nat /\ MaxAgents \in Nat
  BY LedgerFields, LimitAssumption DEF TreeInv, Typed
<1>3. Submit(d, TRUE) /\ Preflight(ledger, d, Request) /\ Len(d) <= MaxAgents - ledger.agents
  BY DEF DelegateGraph
<1>4. ledger.agents + Len(d) <= MaxAgents
  <2>1. Len(d) \in Nat
    BY <1>1
  <2>. QED
    BY <1>2, <1>3, <2>1
<1>5. \A i \in DOMAIN d : d[i] \in Child /\ ledger.lease[d[i]].state = "none"
  BY <1>1, <1>3 DEF Submit, TreeInv, Known, Given
<1>6. Fits(ledger, d, Request)
  BY <1>1, <1>2, <1>3, <1>5, PreflightFits, RequestAssumption DEF Apart
<1>. QED
  BY <1>1, <1>3, <1>4, <1>6, SubmitKeeps

LEMMA ReserveAgentKeeps ==
  ASSUME TreeInv, ReserveAgent
  PROVE  TreeInv'
<1>0. Typed /\ ledger \in Ledger /\ Sound(ledger) /\ Root \notin Child /\ Root \in Proc
  BY ProcAssumption DEF TreeInv, Typed, Balanced, Proc
<1>1. "registering" \in Steps /\ Saved
  BY <1>0, NothingSaved DEF Steps, ReserveAgent
<1>2. /\ proc' \in [Proc -> Steps] /\ proc'[Root] = "registering" /\ proc[Root] = "admitting"
      /\ \A q \in Proc \ {Root} : proc'[q] = proc[q]
  BY <1>0, <1>1, Going DEF ReserveAgent
<1>3. dag.rest # <<>> /\ UNCHANGED <<dag, cancelled, copies, crashes>>
  BY DEF ReserveAgent
<1>4. /\ ledger' \in Ledger /\ ledger'.agents = ledger.agents + 1 /\ ledger'.lease = ledger.lease
      /\ Later(ledger', ledger) /\ Eases(ledger', ledger)
  BY <1>0, Seating DEF ReserveAgent
<1>5. Given(ledger') = Given(ledger)
  BY <1>4 DEF Given
<1>6. PICK n \in Nat, m \in Nat : n = ledger.agents /\ m = Cardinality(Given(ledger))
  BY <1>0, LedgerFields, GivenIsFinite
<1>7. n >= 1 + m
  BY <1>0, <1>6 DEF Sound
<1>8. Sound(ledger') /\ ledger'.agents >= 2 + Cardinality(Given(ledger'))
  <2>1. Honoured(ledger')
    BY <1>0, <1>4, Easing DEF Sound
  <2>2. n + 1 >= 1 + m /\ n + 1 >= 2 + m
    BY <1>7
  <2>. QED
    BY <1>0, <1>4, <1>5, <1>6, <2>1, <2>2 DEF Sound
<1>9. Typed'
  BY <1>0, <1>2, <1>3, <1>4 DEF Typed
<1>10. Balanced' /\ Ordered' /\ \A p \in Rows' : copies'[p].ledger.lease[p].state # "none"
  BY <1>1, <1>4, <1>8, RowsStay
<1>11. Known'
  BY <1>0, <1>2, <1>5, <1>10 DEF TreeInv, Known, Proc
<1>12. Nodes'
  <2>1. \A i \in DOMAIN dag.rest : dag.rest[i] \in Child /\ proc[dag.rest[i]] = "absent"
    BY <1>0, <1>2 DEF TreeInv, Nodes, Busy, Typed
  <2>2. \A i \in DOMAIN dag.rest : proc'[dag.rest[i]] = "absent"
    BY <1>0, <1>2, <2>1 DEF Proc
  <2>3. Apart(dag.rest) /\ dag.created \subseteq Given(ledger)
    BY <1>2 DEF TreeInv, Nodes, Busy
  <2>. QED
    BY <1>2, <1>3, <1>5, <1>8, <2>2, <2>3 DEF Nodes
<1>13. Room'
  <2>1. ASSUME dag.checked
        PROVE  Fits(ledger', dag.rest, Request) /\ ledger'.agents + Len(dag.rest) <= MaxAgents + 1
    <3>1. Fits(ledger, dag.rest, Request) /\ ledger.agents + Len(dag.rest) <= MaxAgents
      BY <1>2, <2>1 DEF TreeInv, Room, Busy
    <3>2. Fits(ledger', dag.rest, Request)
      BY <1>0, <1>4, <3>1, Easing, FitsMore
    <3>3. Len(dag.rest) \in Nat /\ MaxAgents \in Nat
      BY <1>0, LimitAssumption DEF Typed
    <3>. QED
      BY <1>4, <1>6, <3>1, <3>2, <3>3
  <2>. QED
    BY <1>2, <1>3, <2>1 DEF Room
<1>. QED
  BY <1>9, <1>10, <1>11, <1>12, <1>13 DEF TreeInv

LEMMA RegisterKeeps ==
  ASSUME TreeInv, Register
  PROVE  TreeInv'
<1>. DEFINE c == Head(dag.rest)
<1>0. /\ Typed /\ ledger \in Ledger /\ Sound(ledger) /\ Root \notin Child /\ Root \in Proc
      /\ proc \in [Proc -> Steps]
  BY ProcAssumption DEF TreeInv, Typed, Balanced, Proc
<1>1. /\ proc[Root] = "registering" /\ dag.rest # <<>> /\ dag.rest \in Seq(Child)
      /\ dag.created \subseteq Given(ledger)
      /\ Apart(dag.rest) /\ \A i \in DOMAIN dag.rest : proc[dag.rest[i]] = "absent"
      /\ ledger.agents >= 2 + Cardinality(Given(ledger))
  BY <1>0 DEF TreeInv, Nodes, Busy, Register, Typed
<1>2. /\ c \in Child /\ c = dag.rest[1] /\ 1 \in DOMAIN dag.rest /\ Len(dag.rest) \in Nat
      /\ Tail(dag.rest) \in Seq(Child) /\ Len(Tail(dag.rest)) = Len(dag.rest) - 1
      /\ \A i \in DOMAIN Tail(dag.rest) :
           i \in Nat /\ i >= 1 /\ i + 1 \in DOMAIN dag.rest /\ Tail(dag.rest)[i] = dag.rest[i + 1]
  BY <1>1, TailIs
<1>3. /\ LeaseAdmitted(ledger, c, Request[c]) /\ ledger' = WithLease(ledger, c, Request[c])
      /\ proc' = [proc EXCEPT ![Root] = "admitting", ![c] = "starting"]
      /\ dag' = [dag EXCEPT !.rest = Tail(@), !.created = @ \cup {c}]
      /\ UNCHANGED <<cancelled, copies, crashes>>
  BY DEF Register
<1>4. Request[c] \in [Resource -> Nat]
  BY <1>2, RequestAssumption
<1>5. /\ dag'.rest = Tail(dag.rest) /\ dag'.created = dag.created \cup {c}
      /\ dag'.checked = dag.checked
      /\ dag' \in [rest : Seq(Child), created : SUBSET Child, checked : BOOLEAN]
  BY <1>0, <1>2, <1>3 DEF Typed
<1>6. /\ proc[c] = "absent" /\ c # Root /\ c \in Proc
      /\ \A i \in DOMAIN Tail(dag.rest) :
           Tail(dag.rest)[i] \in Child \ {c} /\ proc[Tail(dag.rest)[i]] = "absent"
  <2>1. proc[c] = "absent" /\ c # Root /\ c \in Proc
    BY <1>0, <1>1, <1>2 DEF Proc
  <2>2. ASSUME NEW i \in DOMAIN Tail(dag.rest)
        PROVE  Tail(dag.rest)[i] \in Child \ {c} /\ proc[Tail(dag.rest)[i]] = "absent"
    <3>1. i + 1 \in DOMAIN dag.rest /\ i + 1 # 1 /\ Tail(dag.rest)[i] = dag.rest[i + 1]
      BY <1>2
    <3>2. dag.rest[i + 1] # c /\ dag.rest[i + 1] \in Child
      BY <1>1, <1>2, <3>1 DEF Apart
    <3>. QED
      BY <1>1, <3>1, <3>2
  <2>. QED
    BY <2>1, <2>2
<1>. HIDE DEF c
<1>7. /\ proc' \in [Proc -> Steps] /\ proc'[Root] = "admitting" /\ proc'[c] = "starting"
      /\ \A p \in Proc \ {Root, c} : proc'[p] = proc[p]
  BY <1>0, <1>3, <1>6 DEF Steps
<1>8. c \notin Given(ledger) /\ ledger.lease[c].state = "none"
  BY <1>2, <1>6 DEF TreeInv, Known, Given
<1>9. /\ ledger' \in Ledger /\ ledger'.agents = ledger.agents
      /\ ledger'.lease[c].state = "active" /\ \A p \in Proc \ {c} : ledger'.lease[p] = ledger.lease[p]
  BY <1>0, <1>2, <1>3, <1>4, Leasing
<1>10. Honoured(ledger') /\ Later(ledger', ledger)
  <2>1. ledger.lease[c].state # "released"
    BY <1>8
  <2>. QED
    BY <1>0, <1>2, <1>3, <1>4, <2>1, LeasingHonours DEF Sound
<1>11. Given(ledger') = Given(ledger) \cup {c}
  BY <1>2, <1>9 DEF Given, Proc
<1>12. PICK n \in Nat, m \in Nat : n = ledger.agents /\ m = Cardinality(Given(ledger))
  BY <1>0, LedgerFields, GivenIsFinite
<1>13. Cardinality(Given(ledger')) = m + 1
  BY <1>8, <1>11, <1>12, GivenIsFinite, FS_AddElement
<1>14. Sound(ledger')
  <2>1. n >= 1 + (m + 1)
    BY <1>1, <1>12
  <2>2. ledger'.lease[Root].state # "none"
    BY <1>0, <1>6, <1>9 DEF Sound
  <2>. QED
    BY <1>9, <1>10, <1>12, <1>13, <2>1, <2>2 DEF Sound
<1>15. Typed' /\ Saved
  BY <1>0, <1>3, <1>5, <1>7, <1>9, NothingSaved DEF Typed
<1>16. Balanced' /\ Ordered' /\ \A p \in Rows' : copies'[p].ledger.lease[p].state # "none"
  BY <1>9, <1>10, <1>14, <1>15, RowsStay
<1>17. Known'
  <2>1. ASSUME NEW d \in Child, proc'[d] \notin {"absent", "gone", "down"} PROVE d \in Given(ledger')
    BY <1>0, <1>7, <1>11, <2>1 DEF TreeInv, Known, Proc
  <2>2. ASSUME NEW d \in Child, proc'[d] = "absent" PROVE d \notin Given(ledger')
    BY <1>0, <1>7, <1>11, <2>2 DEF TreeInv, Known, Proc
  <2>. QED
    BY <1>16, <2>1, <2>2 DEF Known
<1>18. Nodes'
  <2>1. \A i \in DOMAIN Tail(dag.rest) : proc'[Tail(dag.rest)[i]] = "absent"
    BY <1>0, <1>6, <1>7 DEF Proc
  <2>2. Apart(Tail(dag.rest))
    <3>1. ASSUME NEW i \in DOMAIN Tail(dag.rest), NEW j \in DOMAIN Tail(dag.rest),
                 Tail(dag.rest)[i] = Tail(dag.rest)[j]
          PROVE  i = j
      <4>1. i \in Nat /\ j \in Nat /\ i + 1 = j + 1
        BY <1>1, <1>2, <3>1 DEF Apart
      <4>. QED
        BY <4>1
    <3>. QED
      BY <3>1 DEF Apart
  <2>3. dag'.created \subseteq Given(ledger')
    BY <1>1, <1>5, <1>11
  <2>. QED
    BY <1>5, <1>7, <2>1, <2>2, <2>3 DEF Nodes
<1>19. Room'
  <2>1. ASSUME dag.checked
        PROVE  Fits(ledger', Tail(dag.rest), Request) /\ ledger'.agents + Len(Tail(dag.rest)) <= MaxAgents
    <3>1. Fits(ledger, dag.rest, Request) /\ ledger.agents + Len(dag.rest) <= MaxAgents + 1
      BY <1>1, <2>1 DEF TreeInv, Room, Busy
    <3>2. Fits(ledger', Tail(dag.rest), Request)
      BY <1>0, <1>1, <1>3, <3>1, FitsRest, RequestAssumption DEF c
    <3>3. n + (Len(dag.rest) - 1) <= MaxAgents
      <4>1. MaxAgents \in Nat /\ Len(dag.rest) \in Nat
        BY <1>2, LimitAssumption
      <4>. QED
        BY <1>12, <3>1, <4>1
    <3>. QED
      BY <1>2, <1>9, <1>12, <3>2, <3>3
  <2>. QED
    BY <1>5, <1>7, <2>1 DEF Room
<1>. QED
  BY <1>15, <1>16, <1>17, <1>18, <1>19 DEF TreeInv

\* A refused node: its slot is free again if it had one.
LEMMA RefuseNodeKeeps ==
  ASSUME TreeInv, RefuseNode
  PROVE  TreeInv'
<1>0. /\ Typed /\ ledger \in Ledger /\ Sound(ledger) /\ Root \notin Child /\ Root \in Proc
      /\ proc \in [Proc -> Steps] /\ dag.created \in SUBSET Proc
  BY ProcAssumption DEF TreeInv, Typed, Balanced, Proc
<1>1. PICK l : /\ \/ l = ledger
                  \/ proc[Root] = "registering" /\ l = WithoutAgent(ledger)
               /\ KillFrom(l, dag.created, [proc EXCEPT ![Root] = "done"])
  BY DEF RefuseNode
<1>2. /\ proc[Root] \in {"admitting", "registering"} /\ dag' = NoGraph
      /\ UNCHANGED <<copies, crashes>>
  BY DEF RefuseNode
<1>. DEFINE next == [proc EXCEPT ![Root] = "done"]
<1>3. next \in [Proc -> Steps] /\ next[Root] = "done" /\ \A c \in Child : next[c] = proc[c]
  BY <1>0 DEF Steps, Proc
<1>4. /\ l \in Ledger /\ Sound(l) /\ Later(l, ledger)
      /\ \A p \in Proc : l.lease[p] = ledger.lease[p]
  <2>1. CASE l = ledger
    BY <1>0, <2>1, LaterThanItself
  <2>2. CASE proc[Root] = "registering" /\ l = WithoutAgent(ledger)
    <3>1. /\ l \in Ledger /\ l.agents = (IF ledger.agents > 0 THEN ledger.agents - 1 ELSE 0)
          /\ l.lease = ledger.lease /\ Later(l, ledger) /\ Eases(l, ledger)
      BY <1>0, <2>2, Unseating
    <3>2. Given(l) = Given(ledger)
      BY <3>1 DEF Given
    <3>3. PICK n \in Nat, m \in Nat : n = ledger.agents /\ m = Cardinality(Given(ledger))
      BY <1>0, LedgerFields, GivenIsFinite
    <3>4. n >= 2 + m
      BY <2>2, <3>3 DEF TreeInv, Nodes
    <3>5. l.agents >= 1 + Cardinality(Given(l))
      BY <3>1, <3>2, <3>3, <3>4
    <3>6. Honoured(l)
      BY <1>0, <3>1, Easing DEF Sound
    <3>. QED
      BY <1>0, <3>1, <3>5, <3>6 DEF Sound
  <2>. QED
    BY <1>1, <2>1, <2>2
<1>. HIDE DEF next
<1>a. KillFrom(l, dag.created, next)
  BY <1>1 DEF next
<1>5. /\ cancelled' \subseteq Proc /\ proc' \in [Proc -> Steps]
      /\ \A p \in Proc :
           \/ proc'[p] = next[p]
           \/ proc[p] \in {"parked", "available", "review"} /\ proc'[p] = "ended"
      /\ ledger' \in Ledger /\ Sound(ledger') /\ Later(ledger', l)
      /\ \A p \in Proc : (l.lease[p].state = "none") <=> (ledger'.lease[p].state = "none")
  BY <1>0, <1>3, <1>4, <1>a, Killing
<1>6. Later(ledger', ledger)
  BY <1>0, <1>4, <1>5, LaterIsTransitive
<1>7. Typed' /\ Saved
  BY <1>0, <1>2, <1>5, NoGraphIs, NothingSaved DEF Typed
<1>8. Quiet
  <2>1. ~Busy'
    BY <1>0, <1>2, <1>3, <1>5 DEF Busy
  <2>2. \A p \in Proc : (ledger.lease[p].state = "none") <=> (ledger'.lease[p].state = "none")
    BY <1>4, <1>5
  <2>3. ASSUME NEW c \in Child, proc[c] \in {"absent", "gone", "down"} \/ proc'[c] \in {"absent", "gone", "down"}
        PROVE  proc'[c] = proc[c]
    BY <1>3, <1>5, <2>3 DEF Proc
  <2>. QED
    BY <1>2, <1>6, <2>1, <2>2, <2>3 DEF Quiet
<1>. QED
  BY <1>5, <1>7, <1>8, Quietly

LEMMA AdmittedKeeps ==
  ASSUME TreeInv, Admitted
  PROVE  TreeInv'
<1>0. /\ Typed /\ ledger \in Ledger /\ Sound(ledger) /\ Root \in Proc /\ cancelled \subseteq Proc
      /\ copies \in [Proc -> Copy] /\ dag.created \subseteq Given(ledger)
  BY DEF TreeInv, Typed, Balanced, Proc, Nodes
<1>. DEFINE D == IF dag.checked THEN {Root} \cup dag.created ELSE {}
            s == [p \in Proc |-> Kept(p)]
            rows == [p \in Proc |-> IF dag.checked /\ p \in {Root} \cup dag.created
                                      THEN Row(p, Kept(p)) ELSE copies[p]]
<1>1. D \in SUBSET Proc /\ \A p \in D : ledger.lease[p].state # "none"
  BY <1>0 DEF Given, Sound, Proc
<1>2. s \in [Proc -> {"live", "ended", "parked", "review"}]
  BY KeptIs
<1>3. \A p \in Proc : rows[p] = IF p \in D THEN Row(p, s[p]) ELSE copies[p]
  OBVIOUS
<1>4. rows \in [Proc -> Copy]
  <2>1. \A p \in Proc : Row(p, Kept(p)) \in Copy /\ copies[p] \in Copy
    BY <1>0, KeptIs, RowIs
  <2>. QED
    BY <2>1
<1>5. SaveAll(rows) /\ UNCHANGED ledger
  BY DEF Admitted
<1>. HIDE DEF D, s, rows
<1>6. Saved
  BY <1>0, <1>1, <1>2, <1>3, <1>4, <1>5, Saving
<1>7. "done" \in Steps
  BY DEF Steps
<1>. QED
  BY <1>0, <1>6, <1>7, Standing DEF Admitted

LEMMA RootStepKeeps == TreeInv /\ RootStep => TreeInv'
BY DelegateKeeps, DelegateGraphKeeps, ReserveAgentKeeps, RegisterKeeps, RefuseNodeKeeps,
   AdmittedKeeps DEF RootStep

-----------------------------------------------------------------------------
(* Restarts and the rest of the environment.                               *)

\* What a restart restores: some row's ledger, later than any other one's.
LEMMA RestoredIs ==
  ASSUME TreeInv, Root \in Rows
  PROVE  /\ Restored \in Ledger /\ Sound(Restored) /\ Later(ledger, Restored)
         /\ \A p \in Rows : Later(Restored, copies[p].ledger)
<1>. DEFINE C == {copies[p].ledger : p \in Rows}
<1>1. \A p \in Rows : copies[p].ledger \in Ledger
  BY DEF TreeInv, Typed, Copy, Rows, NoCopy
<1>2. C \subseteq Ledger /\ C # {}
  BY <1>1
<1>3. ledger.revision \in Nat
  BY LedgerFields DEF TreeInv, Typed
<1>4. \A l \in C : l.revision <= ledger.revision
  BY DEF TreeInv, Ordered, Later
<1>5. Restored = Newest(C)
  BY DEF Restored
<1>6. Restored \in C /\ \A l \in C : l.revision <= Restored.revision
  <2>. HIDE DEF C
  <2>. QED
    BY <1>2, <1>3, <1>4, <1>5, NewestIs
<1>7. PICK q \in Rows : Restored = copies[q].ledger
  BY <1>6
<1>8. ASSUME NEW p \in Rows PROVE Later(Restored, copies[p].ledger)
  <2>1. CASE Later(copies[q].ledger, copies[p].ledger)
    BY <1>7, <2>1
  <2>2. CASE Later(copies[p].ledger, copies[q].ledger)
    <3>1. copies[p].ledger.revision <= Restored.revision
      BY <1>6
    <3>2. Restored.revision <= copies[p].ledger.revision
      BY <1>7, <2>2 DEF Later
    <3>3. Restored.revision = copies[p].ledger.revision
      <4>1. Restored.revision \in Nat /\ copies[p].ledger.revision \in Nat
        BY <1>1, <1>7, LedgerFields
      <4>. QED
        BY <3>1, <3>2, <4>1
    <3>4. /\ copies[p].ledger.spent = Restored.spent
          /\ \A r \in Proc : copies[p].ledger.lease[r].state = Restored.lease[r].state
      BY <1>7, <2>2, <3>3 DEF Later
    <3>. QED
      BY <1>1, <1>7, <3>3, <3>4, LaterThanItself
  <2>. QED
    BY <2>1, <2>2 DEF TreeInv, Ordered
<1>. QED
  BY <1>1, <1>7, <1>8 DEF TreeInv, Balanced, Ordered

LEMMA CrashKeeps ==
  ASSUME TreeInv, Crash
  PROVE  TreeInv'
<1>0. /\ Typed /\ ledger \in Ledger /\ Sound(ledger) /\ Root \notin Child /\ Root \in Proc
      /\ proc \in [Proc -> Steps] /\ copies \in [Proc -> Copy] /\ crashes \in 0 .. MaxCrashes
      /\ Rows \subseteq Proc
  BY ProcAssumption DEF TreeInv, Typed, Balanced, Proc, Rows
<1>1. /\ crashes < MaxCrashes /\ Root \in Rows /\ crashes' = crashes + 1
      /\ dag' = NoGraph /\ cancelled' = {} /\ copies' = copies
  BY DEF Crash
<1>2. Rows' = Rows
  BY <1>1 DEF Rows
<1>3. /\ ledger' \in Ledger /\ Sound(ledger') /\ Later(ledger, ledger')
      /\ \A p \in Rows : Later(ledger', copies[p].ledger)
      /\ proc' \in [Proc -> Steps]
      /\ \/ proc' = [p \in Proc |-> Recovered(p)]
         \/ proc' = [p \in Proc |-> "down"]
  <2>1. CASE copies[Root].children \subseteq Rows
    <3>1. ledger' = Restored /\ proc' = [p \in Proc |-> Recovered(p)]
      BY <2>1 DEF Crash
    <3>2. \A p \in Proc : Recovered(p) \in Steps
      BY <1>0 DEF Recovered, Steps, Rows, Copy, NoCopy
    <3>. QED
      BY <1>1, <3>1, <3>2, RestoredIs
  <2>2. CASE ~(copies[Root].children \subseteq Rows)
    <3>1. ledger' = ledger /\ proc' = [p \in Proc |-> "down"]
      BY <2>2 DEF Crash
    <3>2. "down" \in Steps
      BY DEF Steps
    <3>3. \A p \in Rows : Later(ledger, copies[p].ledger)
      BY DEF TreeInv, Ordered
    <3>. QED
      BY <1>0, <3>1, <3>2, <3>3, LaterThanItself
  <2>. QED
    BY <2>1, <2>2
<1>4. Typed'
  <2>1. crashes' \in 0 .. MaxCrashes
    BY <1>0, <1>1, BoundsAssumption
  <2>2. dag' \in [rest : Seq(Child), created : SUBSET Child, checked : BOOLEAN]
    BY <1>1, NoGraphIs
  <2>. QED
    BY <1>0, <1>1, <1>3, <2>1, <2>2 DEF Typed
<1>5. Balanced'
  BY <1>1, <1>2, <1>3 DEF TreeInv, Balanced
<1>6. Ordered'
  BY <1>1, <1>2, <1>3 DEF TreeInv, Ordered
<1>7. ASSUME NEW c \in Child, proc'[c] \notin {"absent", "gone", "down"} PROVE c \in Given(ledger')
  <2>1. c \in Proc
    BY DEF Proc
  <2>2. c \in Rows
    <3>1. proc'[c] = Recovered(c)
      BY <1>3, <1>7, <2>1
    <3>2. c \notin Rows => Recovered(c) \in {"absent", "gone"}
      BY <2>1 DEF Recovered, Rows
    <3>. QED
      BY <1>7, <3>1, <3>2
  <2>3. copies[c].ledger.lease[c].state # "none"
    BY <2>2 DEF TreeInv, Known
  <2>. QED
    BY <1>3, <2>1, <2>2, <2>3 DEF Later, Given
<1>8. ASSUME NEW c \in Child, proc'[c] = "absent" PROVE c \notin Given(ledger')
  <2>1. c \in Proc
    BY DEF Proc
  <2>2. proc[c] = "absent"
    BY <1>0, <1>3, <1>8, <2>1 DEF Recovered, Rows, Copy, NoCopy
  <2>3. c \notin Given(ledger)
    BY <2>2 DEF TreeInv, Known
  <2>. QED
    BY <1>3, <2>3, GivenGrows
<1>9. Known'
  <2>1. \A p \in Rows' : copies'[p].ledger.lease[p].state # "none"
    BY <1>1, <1>2 DEF TreeInv, Known
  <2>. QED
    BY <1>7, <1>8, <2>1 DEF Known
<1>10. ~Busy'
  BY <1>0, <1>1, <1>3 DEF Recovered, Busy, Rows, Copy, NoCopy
<1>11. Nodes'
  BY <1>1, <1>10, NoGraphIs DEF Nodes, Busy
<1>12. Room'
  BY <1>10 DEF Room
<1>. QED
  BY <1>4, <1>5, <1>6, <1>9, <1>11, <1>12 DEF TreeInv

LEMMA DeadlineKeeps ==
  ASSUME TreeInv, Deadline
  PROVE  TreeInv'
<1>0. Typed /\ ledger \in Ledger /\ Sound(ledger)
  BY DEF TreeInv, Typed, Balanced
<1>1. ledger' = [ledger EXCEPT !.overdue = TRUE] /\ UNCHANGED <<proc, dag, cancelled, copies, crashes>>
  BY DEF Deadline
<1>2. /\ ledger' \in Ledger /\ ledger'.spent = ledger.spent /\ ledger'.lease = ledger.lease
      /\ ledger'.agents = ledger.agents /\ ledger'.revision = ledger.revision
  BY <1>0, <1>1 DEF Ledger
<1>3. Later(ledger', ledger) /\ Eases(ledger', ledger)
  <2>1. ledger.revision <= ledger'.revision
    BY <1>0, <1>2, LedgerFields
  <2>. QED
    BY <1>0, <1>2, <2>1, SameLeases
<1>4. Sound(ledger')
  BY <1>0, <1>2, <1>3, EasesSound
<1>5. Typed' /\ Saved
  BY <1>0, <1>1, <1>2, NothingSaved DEF Typed
<1>6. Quiet
  BY <1>1, <1>2, <1>3 DEF Quiet
<1>. QED
  BY <1>4, <1>5, <1>6, Quietly

LEMMA EnvironmentKeeps ==
  ASSUME TreeInv, Environment
  PROVE  TreeInv'
<1>1. ASSUME NEW p \in Proc, Cancel(p) PROVE TreeInv'
  <2>1. Subtree(p) \in SUBSET Proc
    BY DEF Subtree
  <2>. QED
    BY <1>1, <2>1, KillKeeps DEF Cancel
<1>2. ASSUME NEW p \in Proc, Continue(p) PROVE TreeInv'
  <2>1. {"starting", "idle"} \subseteq Steps /\ Saved /\ cancelled \subseteq Proc
    BY <1>2, NothingSaved DEF Steps, Continue, TreeInv, Typed
  <2>2. PICK s \in {"starting", "idle"} : Goto(p, s)
    BY <1>2 DEF Continue
  <2>. QED
    BY <1>2, <2>1, <2>2, Standing DEF Continue
<1>3. ASSUME NEW c \in Child, Reap(c) PROVE TreeInv'
  <2>1. {c} \in SUBSET Proc
    BY DEF Proc
  <2>. QED
    BY <1>3, <2>1, KillKeeps DEF Reap
<1>. QED
  BY <1>1, <1>2, <1>3, DeadlineKeeps, CrashKeeps DEF Environment

LEMMA Starts == Init => TreeInv
<1>. SUFFICES ASSUME Init PROVE TreeInv
  OBVIOUS
<1>0. Root \notin Child
  BY ProcAssumption
<1>1. ledger \in Ledger /\ Sound(ledger)
  BY OpenedIsSound DEF Init
<1>2. Rows = {}
  BY DEF Init, Rows, NoCopy
<1>3. Typed
  <2>1. 0 \in 0 .. MaxCrashes
    BY BoundsAssumption
  <2>2. proc \in [Proc -> Steps] /\ copies \in [Proc -> Copy] /\ cancelled \subseteq Proc
    BY DEF Init, Steps, Copy
  <2>. QED
    BY <1>1, <2>1, <2>2, NoGraphIs DEF Init, Typed
<1>4. Known
  <2>1. \A c \in Child : proc[c] = "absent" /\ ledger.lease[c].state = "none"
    BY <1>0 DEF Init, Opened, Proc, NoLease
  <2>. QED
    BY <1>2, <2>1 DEF Known, Given
<1>5. proc[Root] = "idle"
  BY DEF Init, Proc
<1>6. Nodes /\ Room
  BY <1>5, NoGraphIs DEF Init, Nodes, Room, Busy
<1>. QED
  BY <1>1, <1>2, <1>3, <1>4, <1>6 DEF TreeInv, Balanced, Ordered

LEMMA Stuttering == TreeInv /\ UNCHANGED vars => TreeInv'
<1>. SUFFICES ASSUME TreeInv, UNCHANGED vars PROVE TreeInv'
  OBVIOUS
<1>1. UNCHANGED ledger /\ UNCHANGED proc /\ UNCHANGED dag /\ UNCHANGED cancelled
      /\ UNCHANGED copies /\ UNCHANGED crashes
  BY DEF vars
<1>2. Rows' = Rows
  BY <1>1 DEF Rows
<1>. QED
  BY <1>1, <1>2 DEF TreeInv, Typed, Balanced, Ordered, Known, Nodes, Room, Busy

LEMMA Invariance == Spec => []TreeInv
<1>1. TreeInv /\ Next => TreeInv'
  BY ProcStepKeeps, ChildStepKeeps, RootStepKeeps, EnvironmentKeeps DEF Next
<1>. QED
  BY <1>1, Starts, Stuttering, PTL DEF Spec

-----------------------------------------------------------------------------
(* The theorems.                                                           *)

\* Every variable of the tree stays in its domain, through crashes too
\* (TaskTreeBudget.snapshot, from_snapshot).
THEOREM TreeIsTyped == Spec => []TypeOK
<1>1. TreeInv => TypeOK
  BY DEF TreeInv, Typed, TypeOK, Rows, Copy, NoCopy
<1>. QED
  BY <1>1, Invariance, PTL

\* Whatever the tree, its limits and the crashes: no pool is committed to
\* more than it holds (register_process, begin_provider_call,
\* consume_output_estimate, restore_incomplete_processes).
THEOREM EscrowIsHonoured == Spec => []EscrowHonoured
<1>1. TreeInv => EscrowHonoured
  BY DEF TreeInv, Balanced, Sound, Honoured, Committed, EscrowHonoured
<1>. QED
  BY <1>1, Invariance, PTL

\* A child can spend what its lease promises, provided that the reserve is
\* smaller than the limit: then the two pools add up to the limit.  A limit of
\* one call is the exception: both pools hold the one call
\* (TaskTreeBudget._pool_limit).
THEOREM EscrowIsSpendable ==
  ASSUME \A r \in Resource : Reserve[r] < Limit[r]
  PROVE  Spec => []EscrowSpendable
<1>1. TreeInv => EscrowSpendable
  BY PromiseCovers DEF TreeInv, Typed, Balanced, Sound, EscrowSpendable
<1>. QED
  BY <1>1, Invariance, PTL

\* What preflight_children accepted is admitted node by node, whatever the
\* children do in between, unless the deadline passes.
THEOREM PreflightIsKept == Spec => []PreflightHolds
<1>1. TreeInv => PreflightHolds
  <2>. SUFFICES ASSUME TreeInv, dag.checked, dag.rest # <<>>, ~ledger.overdue
                PROVE  /\ proc[Root] = "admitting" => AgentAdmitted(ledger)
                       /\ proc[Root] = "registering" =>
                            LeaseAdmitted(ledger, Head(dag.rest), Request[Head(dag.rest)])
    BY DEF PreflightHolds
  <2>1. ledger \in Ledger /\ ledger.agents \in Nat /\ dag.rest \in Seq(Child)
    BY LedgerFields DEF TreeInv, Typed
  <2>2. ASSUME proc[Root] = "admitting" PROVE AgentAdmitted(ledger)
    <3>1. ledger.agents + Len(dag.rest) <= MaxAgents
      BY <2>2 DEF TreeInv, Room, Busy
    <3>2. Len(dag.rest) \in Nat /\ Len(dag.rest) >= 1 /\ MaxAgents \in Nat
      BY <2>1, LimitAssumption
    <3>3. ledger.agents < MaxAgents
      BY <2>1, <3>1, <3>2
    <3>. QED
      BY <3>3 DEF AgentAdmitted
  <2>3. ASSUME proc[Root] = "registering"
        PROVE  LeaseAdmitted(ledger, Head(dag.rest), Request[Head(dag.rest)])
    <3>1. Fits(ledger, dag.rest, Request)
      BY <2>3 DEF TreeInv, Room, Busy
    <3>. QED
      BY <2>1, <3>1, FitsNext, RequestAssumption
  <2>. QED
    BY <2>2, <2>3
<1>. QED
  BY <1>1, Invariance, PTL

\* The ledger, also one that a restart chose, is later than the copy in any
\* checkpoint (restore_incomplete_processes).
THEOREM NothingIsForgotten == Spec => []NoResurrection
<1>1. TreeInv => NoResurrection
  <2>. SUFFICES ASSUME TreeInv, NEW p \in Rows
                PROVE  /\ \A r \in Resource, purpose \in Purpose :
                            ledger.spent[purpose][r] >= copies[p].ledger.spent[purpose][r]
                       /\ \A c \in Child : copies[p].ledger.lease[c].state = "released"
                                             => ledger.lease[c].state = "released"
    BY DEF NoResurrection
  <2>1. ledger \in Ledger /\ copies[p].ledger \in Ledger
    BY DEF TreeInv, Typed, Rows, Copy, NoCopy
  <2>2. Later(ledger, copies[p].ledger)
    BY DEF TreeInv, Ordered
  <2>3. ASSUME NEW r \in Resource, NEW purpose \in Purpose
        PROVE  ledger.spent[purpose][r] >= copies[p].ledger.spent[purpose][r]
    <3>1. ledger.spent[purpose][r] \in Nat /\ copies[p].ledger.spent[purpose][r] \in Nat
      BY <2>1, SpentIs
    <3>2. copies[p].ledger.spent[purpose][r] <= ledger.spent[purpose][r]
      BY <2>2 DEF Later
    <3>. QED
      BY <3>1, <3>2
  <2>. QED
    BY <2>2, <2>3 DEF Later, Proc
<1>. QED
  BY <1>1, Invariance, PTL

\* The slots taken cover the root and every child that is known
\* (reserve_agent, cancel_agent_reservation, from_snapshot).
THEOREM SlotsCoverChildren == Spec => []AgentsCounted
<1>1. TreeInv => AgentsCounted
  <2>. SUFFICES ASSUME TreeInv PROVE AgentsCounted
    OBVIOUS
  <2>. DEFINE S == {c \in Child : proc[c] \notin {"absent", "gone", "down"}}
  <2>1. S \subseteq Given(ledger)
    BY DEF TreeInv, Known
  <2>2. IsFiniteSet(Given(ledger)) /\ Cardinality(Given(ledger)) \in Nat
    BY GivenIsFinite
  <2>3. Cardinality(S) \in Nat /\ Cardinality(S) <= Cardinality(Given(ledger))
    <3>. HIDE DEF S
    <3>. QED
      BY <2>1, <2>2, FS_Subset, FS_CardinalityType
  <2>4. ledger.agents \in Nat /\ ledger.agents >= 1 + Cardinality(Given(ledger))
    BY LedgerFields DEF TreeInv, Typed, Balanced, Sound
  <2>5. ledger.agents >= 1 + Cardinality(S)
    <3>. HIDE DEF S
    <3>. QED
      BY <2>2, <2>3, <2>4
  <2>. QED
    BY <2>5 DEF AgentsCounted
<1>. QED
  BY <1>1, Invariance, PTL
=============================================================================
