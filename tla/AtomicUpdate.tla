---------------------------- MODULE AtomicUpdate ----------------------------
(***************************************************************************)
(* What a managed installation promises of its updates, whatever crashes,  *)
(* failing writes and recoveries happen underneath: the installed program  *)
(* and the user's data change together, in one step, and only while nobody *)
(* runs the program; apart from that only running programs change data.    *)
(***************************************************************************)
EXTENDS Naturals

CONSTANTS
  Version,   \* releases, ordered as numbers; 0 is no release
  Resource,  \* the files and databases an update may migrate
  Host,      \* the programs that may run from the installation
  Schema     \* release -> the data format it declares

VARIABLES
  installed,    \* the release a launch runs
  predecessor,  \* the release an explicit rollback returns to, or 0
  seen,         \* the newest release accepted so far
  running,      \* the hosts admitted to the installed release
  data          \* resource -> [gen, work]; gen = 0 when it does not exist

vars == <<installed, predecessor, seen, running, data>>

Absent == [gen |-> 0, work |-> 0]

Admit(h) ==
  /\ h \notin running
  /\ running' = running \union {h}
  /\ UNCHANGED <<installed, predecessor, seen, data>>

Exit(h) ==
  /\ h \in running
  /\ running' = running \ {h}
  /\ UNCHANGED <<installed, predecessor, seen, data>>

\* User work goes into the format it finds, or into the installed one.
Written(d) == [gen |-> IF d.gen = 0 THEN Schema[installed] ELSE d.gen, work |-> d.work + 1]

Write(r) ==
  /\ running # {}
  /\ data' = [data EXCEPT ![r] = Written(@)]
  /\ UNCHANGED <<installed, predecessor, seen, running>>

\* A newer release is accepted, never an older one; it ends the way back.
Accept(v) ==
  /\ v > seen
  /\ seen' = v /\ predecessor' = 0
  /\ UNCHANGED <<installed, running, data>>

\* A change of format migrates some of the data and keeps the work in it;
\* there is no way back from it.
Commit(v) ==
  /\ running = {}
  /\ v > installed /\ v = seen
  /\ installed' = v
  /\ IF Schema[v] = Schema[installed]
     THEN predecessor' = installed /\ UNCHANGED data
     ELSE /\ predecessor' = 0
          /\ \E R \in SUBSET Resource :
               data' = [r \in Resource |-> IF r \in R THEN [data[r] EXCEPT !.gen = Schema[v]]
                                                      ELSE data[r]]
  /\ UNCHANGED <<seen, running>>

Revert ==
  /\ running = {}
  /\ predecessor # 0
  /\ installed' = predecessor /\ predecessor' = 0
  /\ UNCHANGED <<seen, running, data>>

Next ==
  \/ \E h \in Host : Admit(h) \/ Exit(h)
  \/ \E r \in Resource : Write(r)
  \/ \E v \in Version : Accept(v) \/ Commit(v)
  \/ Revert

Init ==
  /\ installed = 1 /\ seen = 0 /\ predecessor = 0
  /\ running = {}
  /\ data \in [Resource -> {Absent, [gen |-> Schema[installed], work |-> 0]}]

Spec == Init /\ [][Next]_vars
=============================================================================
