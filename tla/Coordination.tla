---------------------------- MODULE Coordination ----------------------------
(***************************************************************************)
(* Decisions about a changed interface (loop/coordination.py).             *)
(*                                                                         *)
(* A worker, the source, has promised one interface to other workers, its  *)
(* dependents.  Whenever one of its tools has changed the interface, the   *)
(* source's thread appends a proposal to the ledger of the owner, the      *)
(* supervisor, and projects it into the contexts of the source and of the  *)
(* dependents, which are blocked by it.  The owner lists the proposals and *)
(* decides them, seconds later, from its own thread: an accepted version   *)
(* replaces the baseline of everybody's contract.  The source itself       *)
(* closes a proposal it has taken back or replaced by another.             *)
(*                                                                         *)
(* The ledger and each process's context have a lock, and nothing holds    *)
(* two of them: a thread appends to the ledger, then visits the contexts   *)
(* one by one.  That is what `todo' is: the visits a thread has ahead of   *)
(* it.  The owner's own projection, which only its prompt shows, the       *)
(* mailbox notices and the cap on projected events are left out.           *)
(***************************************************************************)
EXTENDS Naturals, Sequences, FiniteSets, FiniteSetsExt

CONSTANTS
  Source,         \* the worker whose output the interface is
  Affected,       \* its dependents that take the interface as an input
  Version,        \* what the interface can look like
  Frozen,         \* the version in the contract at the fork
  MaxProposals,   \* bound: proposals published
  MaxDecisions,   \* bound: decisions of the owner
  MaxWrites       \* bound: changes of the interface

Dependent == {Affected[i] : i \in DOMAIN Affected}
Everyone == <<Source>> \o Affected
Proc == {Source} \cup Dependent
Thread == {"source", "owner"}
Proposal == 1 .. MaxProposals
Closing == {"accepted", "restored", "dismissed"}
Open == {"awaiting_supervisor", "awaiting_user", "rework_requested"}

ASSUME CoordinationAssumption ==
  /\ Affected \in Seq(Dependent) /\ Source \notin Dependent
  /\ \A i, j \in DOMAIN Affected : Affected[i] = Affected[j] => i = j
  /\ Frozen \in Version
  /\ {MaxProposals, MaxDecisions, MaxWrites} \subseteq Nat

VARIABLES
  content,    \* the interface in the source's worktree
  writes,     \* how often it was changed
  ledger,     \* the owner's host_ledger: proposals and resolutions
  baseline,   \* process -> the version its task contract names
  projected,  \* process -> proposal -> the status its context shows
  blocks,     \* process -> its coordination_blocks
  pc,         \* where the source's thread is
  seen,       \* the baseline observe_interface_changes() has read
  found,      \* the pending proposal it has found, 0 for none
  stage,      \* dependent -> "waiting", "checking", "running", "failed"
  known,      \* the proposals the owner has ever listed
  decisions,  \* how many decisions it has taken
  todo        \* thread -> the contexts it still has to update, in order

sourceVars == <<content, writes, pc, seen, found>>
contextVars == <<baseline, projected, blocks>>
ownerVars == <<known, decisions>>
vars == <<sourceVars, contextVars, ownerVars, ledger, stage, todo>>

(***************************************************************************)
(* The ledger.  A proposal's status is that of its last entry, whatever    *)
(* the entries before it say.                                              *)
(***************************************************************************)
Proposals == {ledger[i].id : i \in DOMAIN ledger}

Entries(id) == {i \in DOMAIN ledger : ledger[i].id = id}

StatusOf(id) == ledger[Max(Entries(id))].status

VersionOf(id) == ledger[Min(Entries(id))].version

Pending == {id \in Proposals : StatusOf(id) \in Open}

\* Slip: the position in the ledger, where the number of the event is wanted.
LatestPendingEntry == IF Pending = {} THEN 0 ELSE Len(ledger)

\* _pending_interface_event(): the latest of the pending proposals.
LatestPending == IF Pending = {} THEN 0 ELSE Max(Pending)

Entry(id, s, v) == [id |-> id, status |-> s, version |-> v]

(***************************************************************************)
(* The visits: a new proposal is projected and blocks the dependents; a    *)
(* resolution first replaces the baselines, if it accepts, and then        *)
(* updates the projections, and closes the block if it is final.           *)
(***************************************************************************)
Visits(what, id, s, v) ==
  [i \in DOMAIN Everyone |->
     [what |-> what, who |-> Everyone[i], id |-> id, status |-> s, version |-> v]]

Routing(id, v) == Visits("project", id, "awaiting_supervisor", v)

Replacing(id, s) ==
  IF s = "accepted" THEN Visits("baseline", id, s, VersionOf(id)) ELSE << >>

\* Slip: only the source hears of a resolution.
ResolutionToSource(id, s) ==
  Replacing(id, s) \o SubSeq(Visits("status", id, s, VersionOf(id)), 1, 1)

Resolution(id, s) == Replacing(id, s) \o Visits("status", id, s, VersionOf(id))

\* Slip: a request for rework frees the dependents already.
FreesAtRework(s) == s \in Closing \cup {"rework_requested"}

Frees(s) == s \in Closing

Visit(t) ==
  /\ todo[t] # << >>
  /\ LET v == Head(todo[t]) IN
       /\ baseline' = IF v.what = "baseline"
                      THEN [baseline EXCEPT ![v.who] = v.version]
                      ELSE baseline
       /\ projected' =
            IF \/ v.what = "project"
               \/ v.what = "status" /\ projected[v.who][v.id] # "none"
            THEN [projected EXCEPT ![v.who][v.id] = v.status]
            ELSE projected
       /\ blocks' =
            IF v.what = "project" /\ v.who # Source
            THEN [blocks EXCEPT ![v.who] = @ \cup {v.id}]
            ELSE IF v.what = "status" /\ Frees(v.status)
            THEN [blocks EXCEPT ![v.who] = @ \ {v.id}]
            ELSE blocks
  /\ todo' = [todo EXCEPT ![t] = Tail(@)]
  /\ UNCHANGED <<sourceVars, ownerVars, ledger, stage>>

(***************************************************************************)
(* The source.  Its thread goes on only when its visits are done.          *)
(***************************************************************************)
SourceAt(p) == pc = p /\ todo["source"] = << >>

\* A tool changes the interface, and the change will be observed.
Write(v) ==
  /\ SourceAt("acting") /\ writes < MaxWrites
  /\ content' = v
  /\ writes' = writes + 1
  /\ pc' = "observing"
  /\ UNCHANGED <<seen, found, contextVars, ownerVars, ledger, stage, todo>>

\* A tool that reports an error has changed the interface all the same:
\* nothing is observed.
WriteUnobserved(v) ==
  /\ SourceAt("acting") /\ writes < MaxWrites
  /\ content' = v
  /\ writes' = writes + 1
  /\ UNCHANGED <<pc, seen, found, contextVars, ownerVars, ledger, stage, todo>>

\* observe_interface_changes(), first its own contract ...
ReadContract ==
  /\ SourceAt("observing")
  /\ seen' = baseline[Source]
  /\ pc' = "comparing"
  /\ UNCHANGED <<content, writes, found, contextVars, ownerVars, ledger, stage,
                 todo>>

\* ... then the ledger ...
ReadLedger ==
  /\ SourceAt("comparing")
  /\ found' = LatestPending
  /\ pc' = "deciding"
  /\ UNCHANGED <<content, writes, seen, contextVars, ownerVars, ledger, stage,
                 todo>>

\* ... then nothing, because all is as agreed or as proposed already.
NothingNew ==
  /\ SourceAt("deciding")
  /\ IF content = seen THEN found = 0
     ELSE found # 0 /\ VersionOf(found) = content
  /\ pc' = "acting"
  /\ found' = 0
  /\ UNCHANGED <<content, writes, seen, contextVars, ownerVars, ledger, stage,
                 todo>>

\* ... or it closes the proposal found: as restored when the interface is as
\* agreed again, as dismissed when another version takes its place.
TakeBack ==
  /\ SourceAt("deciding")
  /\ found # 0
  /\ content = seen \/ VersionOf(found) # content
  /\ LET s == IF content = seen THEN "restored" ELSE "dismissed" IN
       /\ ledger' = Append(ledger, Entry(found, s, VersionOf(found)))
       /\ todo' = [todo EXCEPT !["source"] = Resolution(found, s)]
       /\ pc' = IF s = "restored" THEN "acting" ELSE "deciding"
  /\ found' = 0
  /\ UNCHANGED <<content, writes, seen, contextVars, ownerVars, stage>>

\* publish_coordination_event().
Publish ==
  /\ SourceAt("deciding")
  /\ found = 0 /\ content # seen
  /\ LET id == Cardinality(Proposals) + 1 IN
       /\ id <= MaxProposals
       /\ ledger' = Append(ledger, Entry(id, "awaiting_supervisor", content))
       /\ todo' = [todo EXCEPT !["source"] = Routing(id, content)]
  /\ pc' = "acting"
  /\ UNCHANGED <<content, writes, seen, found, contextVars, ownerVars, stage>>

\* The candidate cannot be stored: the error is reported, the proposal that was
\* to be replaced stays dismissed, and the change is not pending any more.
PublishFails ==
  /\ SourceAt("deciding")
  /\ found = 0 /\ content # seen
  /\ pc' = "acting"
  /\ UNCHANGED <<content, writes, seen, found, contextVars, ownerVars, ledger,
                 stage, todo>>

\* pending_source_interface_decisions(), from the source's own context.
Undecided ==
  \E id \in Proposal :
     projected[Source][id] \in {"awaiting_supervisor", "awaiting_user"}

\* The end of a tool batch; the next turn waits for the decisions.
EndTurn ==
  /\ SourceAt("acting")
  /\ pc' = "boundary"
  /\ UNCHANGED <<content, writes, seen, found, contextVars, ownerVars, ledger,
                 stage, todo>>

NextTurn ==
  /\ SourceAt("boundary") /\ ~Undecided
  /\ pc' = "acting"
  /\ UNCHANGED <<content, writes, seen, found, contextVars, ownerVars, ledger,
                 stage, todo>>

\* The wait ends with a cancellation or the deadline of the task.
Abandon ==
  /\ SourceAt("boundary") /\ Undecided
  /\ pc' = "failed"
  /\ UNCHANGED <<content, writes, seen, found, contextVars, ownerVars, ledger,
                 stage, todo>>

\* The response that ends the work is refused while a proposal is undecided.
Respond ==
  /\ SourceAt("acting")
  /\ pc' = IF Undecided THEN "boundary" ELSE "verifying"
  /\ UNCHANGED <<content, writes, seen, found, contextVars, ownerVars, ledger,
                 stage, todo>>

\* Slip: the response is the end of it.
SealableAnyway == TRUE

Sealable == content = baseline[Source]

\* verify_output_interfaces, and the end of the source's thread.
VerifyOutput ==
  /\ SourceAt("verifying")
  /\ pc' = IF Sealable THEN "sealed" ELSE "failed"
  /\ UNCHANGED <<content, writes, seen, found, contextVars, ownerVars, ledger,
                 stage, todo>>

(***************************************************************************)
(* A dependent: _wait_for_dependencies(), then verify_input_interfaces.    *)
(***************************************************************************)
Start(d) ==
  /\ stage[d] = "waiting"
  /\ \/ pc = "sealed" /\ blocks[d] = {} /\ stage' = [stage EXCEPT ![d] = "checking"]
     \/ pc = "failed" /\ stage' = [stage EXCEPT ![d] = "failed"]
  /\ UNCHANGED <<sourceVars, contextVars, ownerVars, ledger, todo>>

VerifyInput(d) ==
  /\ stage[d] = "checking"
  /\ stage' = [stage EXCEPT ![d] = IF content = baseline[d] THEN "running"
                                   ELSE "failed"]
  /\ UNCHANGED <<sourceVars, contextVars, ownerVars, ledger, todo>>

(***************************************************************************)
(* The owner lists what is pending, and decides at some later time any     *)
(* proposal it has ever listed: resolve_coordination_event() looks the     *)
(* proposal up and does not ask for its status.                            *)
(***************************************************************************)
List ==
  /\ todo["owner"] = << >>
  /\ known' = known \cup Pending
  /\ known' # known
  /\ UNCHANGED <<sourceVars, contextVars, decisions, ledger, stage, todo>>

Decide(id, s) ==
  /\ todo["owner"] = << >>
  /\ id \in known /\ decisions < MaxDecisions
  /\ ledger' = Append(ledger, Entry(id, s, VersionOf(id)))
  /\ todo' = [todo EXCEPT !["owner"] = Resolution(id, s)]
  /\ decisions' = decisions + 1
  /\ UNCHANGED <<sourceVars, contextVars, known, stage>>

Init ==
  /\ content = Frozen /\ writes = 0 /\ pc = "acting"
  /\ seen = Frozen /\ found = 0
  /\ ledger = << >>
  /\ baseline = [p \in Proc |-> Frozen]
  /\ projected = [p \in Proc |-> [id \in Proposal |-> "none"]]
  /\ blocks = [p \in Proc |-> {}]
  /\ stage = [d \in Dependent |-> "waiting"]
  /\ known = {} /\ decisions = 0
  /\ todo = [t \in Thread |-> << >>]

Next ==
  \/ \E v \in Version : Write(v) \/ WriteUnobserved(v)
  \/ ReadContract \/ ReadLedger \/ NothingNew \/ TakeBack
  \/ Publish \/ PublishFails
  \/ EndTurn \/ NextTurn \/ Abandon \/ Respond \/ VerifyOutput
  \/ \E d \in Dependent : Start(d) \/ VerifyInput(d)
  \/ List
  \/ \E id \in Proposal :
       \E s \in Closing \cup {"awaiting_user", "rework_requested"} : Decide(id, s)
  \/ \E t \in Thread : Visit(t)

Spec == Init /\ [][Next]_vars

\* A thread that has begun its visits makes them.  Nobody has to write, to
\* list or to decide.
FairSpec == Spec /\ \A t \in Thread : WF_vars(Visit(t))

-----------------------------------------------------------------------------
\* Type correctness: the ledger, the contexts and the visits ahead speak of
\* proposals that were published (the event ids of coordination.py).
EventStatus == Closing \cup Open
LedgerEntry == [id : Proposal, status : EventStatus, version : Version]
VisitAhead == [what : {"project", "baseline", "status"}, who : Proc,
               id : Proposals, status : EventStatus, version : Version]

TypeOK ==
  /\ content \in Version /\ writes \in 0 .. MaxWrites
  /\ ledger \in Seq(LedgerEntry)
  /\ baseline \in [Proc -> Version]
  /\ projected \in [Proc -> [Proposal -> EventStatus \cup {"none"}]]
  /\ blocks \in [Proc -> SUBSET Proposals]
  /\ pc \in {"acting", "observing", "comparing", "deciding", "boundary",
              "verifying", "sealed", "failed"}
  /\ seen \in Version /\ found \in {0} \cup Proposals
  /\ stage \in [Dependent -> {"waiting", "checking", "running", "failed"}]
  /\ known \subseteq Proposals /\ decisions \in 0 .. MaxDecisions
  /\ todo \in [Thread -> Seq(VisitAhead)]

\* The proposals that have ever been closed, and the versions ever accepted.
Closed == {ledger[i].id : i \in {j \in DOMAIN ledger : ledger[j].status \in Closing}}
Accepted ==
  {ledger[i].version : i \in {j \in DOMAIN ledger : ledger[j].status = "accepted"}}

\* A dependent passes its barrier (manager.py:517) only when every proposal
\* the source ever made has been closed by somebody, whatever the owner did
\* with it on the way and in whatever order the contexts were visited.
StartsDecided ==
  \A d \in Dependent : stage[d] \in {"checking", "running"} => Proposals \subseteq Closed

\* What the source delivers is the agreed interface or a version the owner
\* accepted: also after changes nobody observed (tool_batch_runtime.py:164)
\* and decisions about proposals that had been replaced.
SealedAgreed == pc = "sealed" => content \in Accepted \cup {Frozen}

\* A proposal is being routed: the owner may know it before the dependents.
BeingRouted(id) ==
  \E i \in DOMAIN todo["source"] :
     todo["source"][i].what = "project" /\ todo["source"][i].id = id

\* Once a proposal has been routed, a decision that closes it (or the source
\* that takes it back) ends the block on every dependent, also when both close
\* it at once or the owner reopens it meanwhile.  The decision that outruns the
\* routing is the exception: the block then comes after the last visit that
\* could end it (coordination.py:321-333).
DecisionReaches ==
  \A d \in Dependent, id \in Proposal :
     [](id \in Proposals \ Closed /\ ~BeingRouted(id)
        => [](id \in Closed => <>(id \notin blocks[d])))
=============================================================================
