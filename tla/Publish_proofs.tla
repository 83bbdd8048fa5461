--------------------------- MODULE Publish_proofs ---------------------------
(***************************************************************************)
(* Theorems about Publish: what its run checks for two hosts and a few     *)
(* commands holds for any number of clients, hosts, commands and faults.   *)
(***************************************************************************)
EXTENDS Publish, TLAPS

-----------------------------------------------------------------------------
(* The item and what the commands save of it.                              *)

Evidence == [outcome : {"none", "passed", "failed"}, op : Nat]
Run == [id : Nat, state : Active \cup {"none", "blocked", "completed", "interrupted"},
        steps : StepLists, next : Nat, binding : Nat, current : BOOLEAN]
Op == [id : Nat, kind : {"none", "verify", "formal"},
       state : {"intent", "cleanup_pending", "observed"}, binding : Nat]
Item == [rev : Nat, status : {"prepared", "checking", "pausing", "paused", "executing",
                              "integrated", "failed"},
         binding : Nat, base : Int, review : {"none", "accept", "defer"},
         evidence : Evidence, run : Run, op : Op]

\* A save makes a new revision of the item it is given.
LEMMA Saved ==
  ASSUME item \in Item, NEW x \in Item, Save(x)
  PROVE  /\ item' \in Item /\ item'.rev = item.rev + 1
         /\ item'.status = x.status /\ item'.binding = x.binding /\ item'.base = x.base
         /\ item'.review = x.review /\ item'.evidence = x.evidence
         /\ item'.run = x.run /\ item'.op = x.op
BY DEF Save, Item

\* No evidence is evidence of nothing.
LEMMA NothingShown ==
  NoEvidence \in Evidence /\ NoEvidence.outcome = "none" /\ NoEvidence.op = 0
BY DEF NoEvidence, Evidence

\* What the item is after each of the commands that save it, field by field.
LEMMA PauseSaves ==
  ASSUME item \in Item, NEW c, Pause(c)
  PROVE  /\ item' \in Item /\ item'.rev = item.rev + 1
         /\ item'.status = CASE item.status = "prepared" -> "paused"
                             [] item.status = "checking" -> "pausing"
                             [] OTHER -> item.status
         /\ item'.run = [item.run EXCEPT !.state = IF @ \in Active THEN "stopping" ELSE @]
         /\ item'.binding = item.binding /\ item'.base = item.base
         /\ item'.review = item.review /\ item'.evidence = item.evidence /\ item'.op = item.op
<1>. DEFINE s == CASE item.status = "prepared" -> "paused"
                   [] item.status = "checking" -> "pausing"
                   [] OTHER -> item.status
            r == [item.run EXCEPT !.state = IF @ \in Active THEN "stopping" ELSE @]
            x == [item EXCEPT !.status = s, !.run = r]
<1>1. s \in {"prepared", "checking", "pausing", "paused", "executing", "integrated", "failed"}
  BY DEF Item
<1>2. r \in Run
  BY DEF Item, Run, Active
<1>3. Save([item EXCEPT !.status = s, !.run.state = IF @ \in Active THEN "stopping" ELSE @])
  BY DEF Pause
<1>4. [item EXCEPT !.status = s, !.run.state = IF @ \in Active THEN "stopping" ELSE @] = x
  BY DEF Item
<1>. HIDE DEF s, r
<1>5. x \in Item /\ x.status = s /\ x.run = r /\ x.binding = item.binding /\ x.base = item.base
      /\ x.review = item.review /\ x.evidence = item.evidence /\ x.op = item.op
  BY <1>1, <1>2 DEF Item
<1>6. Save(x)
  BY <1>3, <1>4
<1>. HIDE DEF x
<1>. QED
  BY <1>5, <1>6, Saved DEF s, r

\* A resumption.
LEMMA ResumeSaves ==
  ASSUME item \in Item, NEW c, Resume(c)
  PROVE  /\ item' \in Item /\ item'.rev = item.rev + 1
         /\ item'.status = "prepared"
         /\ item'.binding = item.binding /\ item'.base = item.base
         /\ item'.evidence = item.evidence /\ item'.run = item.run /\ item'.op = item.op
<1>. DEFINE x == [item EXCEPT !.status = "prepared"]
<1>1. x \in Item
  BY DEF Item
<1>2. /\ x.status = "prepared"
      /\ x.binding = item.binding /\ x.base = item.base
      /\ x.evidence = item.evidence /\ x.run = item.run /\ x.op = item.op
  BY DEF Item
<1>3. Save(x)
  BY DEF Resume
<1>. HIDE DEF x
<1>. QED
  BY <1>1, <1>2, <1>3, Saved

\* A new plan: another version, and nothing is known of it.
LEMMA ReviseSaves ==
  ASSUME item \in Item, target \in Int, NEW c, Revise(c)
  PROVE  /\ item' \in Item /\ item'.rev = item.rev + 1
         /\ item'.status = "prepared" /\ item'.binding = item.rev + 1
         /\ item'.evidence = NoEvidence
         /\ item'.run = item.run /\ item'.op = item.op
<1>0. PICK e \in Evidence, n \in Nat : e = NoEvidence /\ n = item.rev + 1
  BY NothingShown DEF Item
<1>. DEFINE x == [item EXCEPT !.status = "prepared", !.binding = n, !.base = target,
                              !.evidence = e, !.review = "none"]
<1>1. x \in Item
  BY DEF Item
<1>2. /\ x.status = "prepared" /\ x.binding = n
      /\ x.evidence = e
      /\ x.run = item.run /\ x.op = item.op
  BY DEF Item
<1>3. Save(x)
  BY <1>0 DEF Revise
<1>. HIDE DEF x
<1>. QED
  BY <1>0, <1>1, <1>2, <1>3, Saved

\* A decision of the review.
LEMMA DecideSaves ==
  ASSUME item \in Item, NEW c, Decide(c)
  PROVE  /\ item' \in Item /\ item'.rev = item.rev + 1 /\ item'.status = item.status
         /\ item'.binding = item.binding /\ item'.base = item.base
         /\ item'.evidence = item.evidence /\ item'.run = item.run /\ item'.op = item.op
<1>1. PICK decision \in {"accept", "defer"} : Save([item EXCEPT !.review = decision])
  BY DEF Decide
<1>. DEFINE x == [item EXCEPT !.review = decision]
<1>2. x \in Item
  BY DEF Item
<1>3. /\ x.status = item.status /\ x.binding = item.binding /\ x.base = item.base
      /\ x.evidence = item.evidence /\ x.run = item.run /\ x.op = item.op
  BY DEF Item
<1>. HIDE DEF x
<1>. QED
  BY <1>1, <1>2, <1>3, Saved DEF x

\* The admission of a run.
LEMMA AdmitSaves ==
  ASSUME item \in Item, NEW c, Admit(c)
  PROVE  /\ item' \in Item /\ item'.rev = item.rev + 1 /\ item'.status = item.status
         /\ item'.binding = item.binding /\ item'.base = item.base
         /\ item'.evidence = item.evidence /\ item'.op = item.op
         /\ item'.run.id = item.rev + 1 /\ item'.run.state = "queued" /\ item'.run.next = 0
         /\ item'.run.binding = item.binding /\ ~item'.run.current
<1>. DEFINE r(s) == [id |-> item.rev + 1, state |-> "queued", steps |-> s, next |-> 0,
                     binding |-> item.binding, current |-> FALSE]
            x(s) == [item EXCEPT !.run = r(s)]
<1>1. PICK steps \in StepLists : Save(x(steps))
  BY DEF Admit
<1>2. r(steps) \in Run
  BY DEF Item, Run, Active
<1>3. /\ r(steps).id = item.rev + 1 /\ r(steps).state = "queued" /\ r(steps).next = 0
      /\ r(steps).binding = item.binding /\ r(steps).current = FALSE
  OBVIOUS
<1>. HIDE DEF r
<1>4. x(steps) \in Item
  BY <1>2 DEF Item
<1>5. /\ x(steps).run = r(steps) /\ x(steps).status = item.status
      /\ x(steps).binding = item.binding /\ x(steps).base = item.base
      /\ x(steps).evidence = item.evidence /\ x(steps).op = item.op
  BY DEF Item
<1>. HIDE DEF x
<1>. QED
  BY <1>1, <1>3, <1>4, <1>5, Saved

\* The intent of a check.
LEMMA VerifySaves ==
  ASSUME item \in Item, NEW t, Verify(t)
  PROVE  /\ item' \in Item /\ item'.rev = item.rev + 1 /\ item'.status = "checking"
         /\ item'.binding = item.binding /\ item'.base = item.base
         /\ item'.evidence = item.evidence /\ item'.run = item.run
         /\ item'.op.id = item.rev + 1 /\ item'.op.kind = "verify"
         /\ item'.op.binding = item.binding
<1>. DEFINE o == [id |-> item.rev + 1, kind |-> "verify", state |-> "intent",
                  binding |-> item.binding]
            x == [item EXCEPT !.status = "checking", !.op = o]
<1>1. Save(x)
  BY DEF Verify
<1>2. o \in Op
  BY DEF Item, Op
<1>3. o.id = item.rev + 1 /\ o.kind = "verify" /\ o.binding = item.binding
  OBVIOUS
<1>. HIDE DEF o
<1>4. x \in Item
  BY <1>2 DEF Item
<1>5. /\ x.status = "checking" /\ x.op = o /\ x.binding = item.binding /\ x.base = item.base
      /\ x.evidence = item.evidence /\ x.run = item.run
  BY DEF Item
<1>. HIDE DEF x
<1>. QED
  BY <1>1, <1>3, <1>4, <1>5, Saved

\* The intent of a move of the branch.
LEMMA ExecuteSaves ==
  ASSUME item \in Item, NEW t, Execute(t)
  PROVE  /\ item' \in Item /\ item'.rev = item.rev + 1 /\ item'.status = "executing"
         /\ item'.binding = item.binding /\ item'.base = item.base
         /\ item'.evidence = item.evidence /\ item'.run = item.run
         /\ item'.op.id = item.rev + 1 /\ item'.op.kind = "formal"
         /\ item'.op.binding = item.binding
<1>. DEFINE o == [id |-> item.rev + 1, kind |-> "formal", state |-> "intent",
                  binding |-> item.binding]
            x == [item EXCEPT !.status = "executing", !.op = o]
<1>1. Save(x)
  BY DEF Execute
<1>2. o \in Op
  BY DEF Item, Op
<1>3. o.id = item.rev + 1 /\ o.kind = "formal" /\ o.binding = item.binding
  OBVIOUS
<1>. HIDE DEF o
<1>4. x \in Item
  BY <1>2 DEF Item
<1>5. /\ x.status = "executing" /\ x.op = o /\ x.binding = item.binding /\ x.base = item.base
      /\ x.evidence = item.evidence /\ x.run = item.run
  BY DEF Item
<1>. HIDE DEF x
<1>. QED
  BY <1>1, <1>3, <1>4, <1>5, Saved

\* The result of a check; a paused one has not passed.
LEMMA RecordSaves ==
  ASSUME item \in Item, NEW outcome \in {"passed", "failed"}, Record(outcome)
  PROVE  /\ item' \in Item /\ item'.rev = item.rev + 1
         /\ item'.status = IF item.status = "pausing" THEN "paused" ELSE "prepared"
         /\ item'.binding = item.binding /\ item'.base = item.base /\ item'.run = item.run
         /\ item'.evidence.op = item.op.id
         /\ item'.evidence.outcome = IF item.status = "pausing" THEN "failed" ELSE outcome
         /\ item'.op.id = item.op.id /\ item'.op.kind = item.op.kind
         /\ item'.op.binding = item.op.binding
<1>. DEFINE s == IF item.status = "pausing" THEN "paused" ELSE "prepared"
            e == [outcome |-> IF item.status = "pausing" THEN "failed" ELSE outcome,
                  op |-> item.op.id]
            o == [item.op EXCEPT !.state = "observed"]
            x == [item EXCEPT !.status = s, !.evidence = e, !.op = o]
<1>1. e \in Evidence /\ o \in Op
  BY DEF Item, Evidence, Op
<1>2. /\ e.op = item.op.id /\ e.outcome = IF item.status = "pausing" THEN "failed" ELSE outcome
      /\ o.id = item.op.id /\ o.kind = item.op.kind /\ o.binding = item.op.binding
  BY DEF Item, Op
<1>3. [item EXCEPT !.status = s, !.evidence = e, !.op.state = "observed"] = x
  BY DEF Item
<1>4. Save(x)
  BY <1>3 DEF Record
<1>. HIDE DEF e, o
<1>5. x \in Item
  BY <1>1 DEF Item
<1>6. /\ x.status = s /\ x.evidence = e /\ x.op = o /\ x.binding = item.binding
      /\ x.base = item.base /\ x.run = item.run
  BY DEF Item
<1>. HIDE DEF x
<1>. QED
  BY <1>2, <1>4, <1>5, <1>6, Saved

\* The rest save the state of the operation or of the run.
LEMMA OperationSaves ==
  ASSUME item \in Item, NEW s \in {"cleanup_pending", "observed"},
         Save([item EXCEPT !.op.state = s])
  PROVE  /\ item' \in Item /\ item'.rev = item.rev + 1 /\ item'.status = item.status
         /\ item'.binding = item.binding /\ item'.base = item.base
         /\ item'.evidence = item.evidence /\ item'.run = item.run
         /\ item'.op.id = item.op.id /\ item'.op.kind = item.op.kind
         /\ item'.op.binding = item.op.binding
<1>. DEFINE o == [item.op EXCEPT !.state = s]
            x == [item EXCEPT !.op = o]
<1>1. o \in Op /\ o.id = item.op.id /\ o.kind = item.op.kind /\ o.binding = item.op.binding
  BY DEF Item, Op
<1>2. [item EXCEPT !.op.state = s] = x
  BY DEF Item
<1>3. Save(x)
  BY <1>2
<1>. HIDE DEF o
<1>4. x \in Item
  BY <1>1 DEF Item
<1>5. /\ x.op = o /\ x.status = item.status /\ x.binding = item.binding /\ x.base = item.base
      /\ x.evidence = item.evidence /\ x.run = item.run
  BY DEF Item
<1>. HIDE DEF x
<1>. QED
  BY <1>1, <1>3, <1>4, <1>5, Saved

\* The move of the branch, once seen.
LEMMA EffectSaves ==
  ASSUME item \in Item, Save([item EXCEPT !.status = "integrated", !.op.state = "observed"])
  PROVE  /\ item' \in Item /\ item'.rev = item.rev + 1 /\ item'.status = "integrated"
         /\ item'.binding = item.binding /\ item'.evidence = item.evidence
         /\ item'.run = item.run /\ item'.op.id = item.op.id /\ item'.op.kind = item.op.kind
         /\ item'.op.binding = item.op.binding
<1>. DEFINE o == [item.op EXCEPT !.state = "observed"]
            x == [item EXCEPT !.status = "integrated", !.op = o]
<1>1. o \in Op /\ o.id = item.op.id /\ o.kind = item.op.kind /\ o.binding = item.op.binding
  BY DEF Item, Op
<1>2. [item EXCEPT !.status = "integrated", !.op.state = "observed"] = x
  BY DEF Item
<1>3. Save(x)
  BY <1>2
<1>. HIDE DEF o
<1>4. x \in Item
  BY <1>1 DEF Item
<1>5. /\ x.op = o /\ x.status = "integrated" /\ x.binding = item.binding
      /\ x.evidence = item.evidence /\ x.run = item.run
  BY DEF Item
<1>. HIDE DEF x
<1>. QED
  BY <1>1, <1>3, <1>4, <1>5, Saved

\* Its refusal, which makes a new version.
LEMMA RefusalSaves ==
  ASSUME item \in Item,
         Save([item EXCEPT !.status = "failed", !.op.state = "observed",
                           !.binding = item.rev + 1, !.evidence = NoEvidence,
                           !.review = "none"])
  PROVE  /\ item' \in Item /\ item'.rev = item.rev + 1 /\ item'.status = "failed"
         /\ item'.binding = item.rev + 1 /\ item'.evidence = NoEvidence
         /\ item'.run = item.run /\ item'.op.id = item.op.id /\ item'.op.kind = item.op.kind
         /\ item'.op.binding = item.op.binding
<1>0. PICK e \in Evidence, n \in Nat : e = NoEvidence /\ n = item.rev + 1
  BY NothingShown DEF Item
<1>. DEFINE o == [item.op EXCEPT !.state = "observed"]
            x == [item EXCEPT !.status = "failed", !.op = o, !.binding = n,
                              !.evidence = e, !.review = "none"]
<1>1. o \in Op /\ o.id = item.op.id /\ o.kind = item.op.kind /\ o.binding = item.op.binding
  BY DEF Item, Op
<1>2. [item EXCEPT !.status = "failed", !.op.state = "observed", !.binding = n,
                   !.evidence = e, !.review = "none"] = x
  BY DEF Item
<1>3. Save(x)
  BY <1>0, <1>2
<1>. HIDE DEF o
<1>4. x \in Item
  BY <1>1 DEF Item
<1>5. /\ x.op = o /\ x.status = "failed" /\ x.binding = n
      /\ x.evidence = e /\ x.run = item.run
  BY DEF Item
<1>. HIDE DEF x
<1>. QED
  BY <1>0, <1>1, <1>3, <1>4, <1>5, Saved

\* Another run, or the same in another state.
LEMMA RunSaves ==
  ASSUME item \in Item, NEW r \in Run, Save([item EXCEPT !.run = r])
  PROVE  /\ item' \in Item /\ item'.rev = item.rev + 1 /\ item'.status = item.status
         /\ item'.binding = item.binding /\ item'.base = item.base
         /\ item'.evidence = item.evidence /\ item'.op = item.op /\ item'.run = r
<1>. DEFINE x == [item EXCEPT !.run = r]
<1>1. x \in Item
  BY DEF Item
<1>2. /\ x.status = item.status /\ x.binding = item.binding /\ x.base = item.base
      /\ x.evidence = item.evidence /\ x.op = item.op /\ x.run = r
  BY DEF Item
<1>. HIDE DEF x
<1>. QED
  BY <1>1, <1>2, Saved DEF x

\* The item with another state of its run, current step and number of steps taken.
RunTo(s, b, n) == [item EXCEPT !.run.state = s, !.run.current = b, !.run.next = n]

\* The fields a save of the run may change: its state, its current step and
\* the number of steps taken.
LEMMA RunFields ==
  ASSUME item \in Item, NEW s \in Active \cup {"none", "blocked", "completed", "interrupted"},
         NEW b \in BOOLEAN, NEW n \in Nat,
         Save(RunTo(s, b, n))
  PROVE  /\ item' \in Item /\ item'.rev = item.rev + 1 /\ item'.status = item.status
         /\ item'.binding = item.binding /\ item'.base = item.base
         /\ item'.evidence = item.evidence /\ item'.op = item.op
         /\ item'.run.id = item.run.id /\ item'.run.binding = item.run.binding
         /\ item'.run.steps = item.run.steps /\ item'.run.state = s
         /\ item'.run.current = b /\ item'.run.next = n
<1>. DEFINE r == [item.run EXCEPT !.state = s, !.current = b, !.next = n]
<1>1. /\ r \in Run /\ r.id = item.run.id /\ r.binding = item.run.binding
      /\ r.steps = item.run.steps /\ r.state = s /\ r.current = b /\ r.next = n
  BY DEF Item, Run
<1>2. RunTo(s, b, n) = [item EXCEPT !.run = r]
  BY DEF RunTo, Item, Run
<1>. HIDE DEF r
<1>. QED
  BY <1>1, <1>2, RunSaves

\* The end of a run nobody drives.
LEMMA InterruptSaves ==
  ASSUME item \in Item, NEW c, Interrupt(c), item' # item
  PROVE  /\ item' \in Item /\ item'.rev = item.rev + 1 /\ item'.status = item.status
         /\ item'.binding = item.binding /\ item'.base = item.base
         /\ item'.evidence = item.evidence /\ item'.op = item.op
         /\ item'.run.id = item.run.id /\ item'.run.binding = item.run.binding
         /\ item'.run.steps = item.run.steps /\ item'.run.state = "interrupted"
         /\ ~item'.run.current /\ item'.run.next = item.run.next
<1>0. PICK b \in BOOLEAN : b = FALSE
  OBVIOUS
<1>1. Save([item EXCEPT !.run.state = "interrupted", !.run.current = b])
  BY <1>0 DEF Interrupt
<1>2. [item EXCEPT !.run.state = "interrupted", !.run.current = b]
        = RunTo("interrupted", b, item.run.next)
  BY DEF RunTo, Item, Run
<1>3. item.run.next \in Nat
  BY DEF Item, Run
<1>. QED
  BY <1>0, <1>1, <1>2, <1>3, RunFields

\* The beginning of a step.
LEMMA BeginSaves ==
  ASSUME item \in Item, NEW h, Begin(h), item' # item
  PROVE  /\ item' \in Item /\ item'.rev = item.rev + 1 /\ item'.status = item.status
         /\ item'.binding = item.binding /\ item'.base = item.base
         /\ item'.evidence = item.evidence /\ item'.op = item.op
         /\ item'.run.id = item.run.id /\ item'.run.binding = item.run.binding
         /\ item'.run.steps = item.run.steps /\ item'.run.state = "running"
         /\ item'.run.current /\ item'.run.next = item.run.next
<1>0. PICK b \in BOOLEAN : b = TRUE
  OBVIOUS
<1>1. Save([item EXCEPT !.run.state = "running", !.run.current = b])
  BY <1>0 DEF Begin
<1>2. [item EXCEPT !.run.state = "running", !.run.current = b]
        = RunTo("running", b, item.run.next)
  BY DEF RunTo, Item, Run
<1>3. item.run.next \in Nat /\ "running" \in Active
  BY DEF Item, Run, Active
<1>4. /\ item' \in Item /\ item'.rev = item.rev + 1 /\ item'.status = item.status
      /\ item'.binding = item.binding /\ item'.base = item.base
      /\ item'.evidence = item.evidence /\ item'.op = item.op
      /\ item'.run.id = item.run.id /\ item'.run.binding = item.run.binding
      /\ item'.run.steps = item.run.steps /\ item'.run.state = "running"
      /\ item'.run.current = b /\ item'.run.next = item.run.next
  BY <1>1, <1>2, <1>3, RunFields
<1>. QED
  BY <1>0, <1>4

\* The end of a run.
LEMMA FinishSaves ==
  ASSUME item \in Item, NEW h, Finish(h)
  PROVE  /\ item' \in Item /\ item'.rev = item.rev + 1 /\ item'.status = item.status
         /\ item'.binding = item.binding /\ item'.base = item.base
         /\ item'.evidence = item.evidence /\ item'.op = item.op
         /\ item'.run.id = item.run.id /\ item'.run.binding = item.run.binding
         /\ item'.run.steps = item.run.steps
         /\ item'.run.state = IF pc[h] = "block" THEN "blocked" ELSE "completed"
         /\ item'.run.current = item.run.current /\ item'.run.next = item.run.next
<1>. DEFINE s == IF pc[h] = "block" THEN "blocked" ELSE "completed"
<1>1. Save([item EXCEPT !.run.state = s])
  BY DEF Finish
<1>2. s \in {"blocked", "completed"}
  OBVIOUS
<1>. HIDE DEF s
<1>3. [item EXCEPT !.run.state = s]
        = RunTo(s, item.run.current, item.run.next)
  BY DEF RunTo, Item, Run
<1>4. item.run.next \in Nat /\ item.run.current \in BOOLEAN
  BY DEF Item, Run
<1>5. /\ item' \in Item /\ item'.rev = item.rev + 1 /\ item'.status = item.status
      /\ item'.binding = item.binding /\ item'.base = item.base
      /\ item'.evidence = item.evidence /\ item'.op = item.op
      /\ item'.run.id = item.run.id /\ item'.run.binding = item.run.binding
      /\ item'.run.steps = item.run.steps /\ item'.run.state = s
      /\ item'.run.current = item.run.current /\ item'.run.next = item.run.next
  BY <1>1, <1>2, <1>3, <1>4, RunFields
<1>. QED
  BY <1>5 DEF s

\* The end of a step.
LEMMA EndStepSaves ==
  ASSUME item \in Item, NEW h, EndStep(h)
  PROVE  /\ item' \in Item /\ item'.rev = item.rev + 1 /\ item'.status = item.status
         /\ item'.binding = item.binding /\ item'.base = item.base
         /\ item'.evidence = item.evidence /\ item'.op = item.op
         /\ item'.run.id = item.run.id /\ item'.run.binding = item.run.binding
         /\ item'.run.steps = item.run.steps /\ item'.run.state = item.run.state
         /\ reply[h] = "ambiguous" => item'.run = item.run
         /\ reply[h] # "ambiguous" => /\ ~item'.run.current
                                      /\ item'.run.next = item.run.next + 1
<1>1. CASE reply[h] = "ambiguous"
  <2>1. Save([item EXCEPT !.run = item.run])
    BY <1>1 DEF EndStep, Item, Save
  <2>2. item.run \in Run
    BY DEF Item
  <2>. QED
    BY <1>1, <2>1, <2>2, RunSaves
<1>2. CASE reply[h] # "ambiguous"
  <2>0. PICK b \in BOOLEAN : b = FALSE
    OBVIOUS
  <2>1. Save([item EXCEPT !.run.current = b, !.run.next = @ + 1])
    BY <1>2, <2>0 DEF EndStep
  <2>2. [item EXCEPT !.run.current = b, !.run.next = @ + 1]
          = RunTo(item.run.state, b, item.run.next + 1)
    BY DEF RunTo, Item, Run
  <2>3. /\ item.run.next + 1 \in Nat
        /\ item.run.state \in Active \cup {"none", "blocked", "completed", "interrupted"}
    BY DEF Item, Run
  <2>. QED
    BY <1>2, <2>0, <2>1, <2>2, <2>3, RunFields
<1>. QED
  BY <1>1, <1>2

-----------------------------------------------------------------------------
(* The types, but for the bound of the steps a run has taken.              *)

Label == {"idle", "submit", "testing", "recording", "writing", "updating", "refusing",
          "observing", "observed", "reconciling", "recovering", "interrupt",
          "interrupting", "drive", "begin", "step", "stepped", "block", "complete"}

Shape ==
  /\ item \in Item
  /\ target \in Int
  /\ check \in [op : Nat, state : {"none", "prepared", "running", "finished"},
                result : {"passed", "failed", "cleanup"}, live : BOOLEAN]
  /\ pc \in [Thread -> Label]
  /\ loaded \in [Thread -> Nat]
  /\ reply \in [Host -> {"committed", "refused", "not_committed", "ambiguous"}]
  /\ drv \in [Host -> Nat]
  /\ queue \in [Host -> Seq(Nat)]
  /\ closed \in [Host -> BOOLEAN]
  /\ itemLease \in Thread \cup {None} /\ runLease \in Thread \cup {None}
  /\ asked \in 0 .. MaxCommands /\ faults \in 0 .. MaxFaults
  /\ writes \subseteq [op : Nat, binding : Nat, from : Int, planned : Int]
  /\ lent \subseteq [op : Nat, binding : Nat] /\ passed \subseteq [op : Nat, binding : Nat]
  /\ paused \subseteq Nat

\* The types hold at first ...
LEMMA ShapeInit == Init => Shape
<1>. SUFFICES ASSUME Init PROVE Shape
  OBVIOUS
<1>1. NoRun \in Run /\ NoOp \in Op /\ NoEvidence \in Evidence
  BY DEF NoRun, NoOp, NoEvidence, Run, Op, Evidence, StepLists, Active
<1>2. item \in Item
  BY <1>1 DEF Init, Item, Initial
<1>3. check \in [op : Nat, state : {"none", "prepared", "running", "finished"},
                 result : {"passed", "failed", "cleanup"}, live : BOOLEAN]
  BY DEF Init, NoCheck
<1>. QED
  BY <1>2, <1>3, PublishAssumption DEF Shape, Init, Label, Initial

\* The threads that take a step, and where they go.
LEMMA Goes ==
  ASSUME Shape, NEW t \in Thread, NEW label \in Label, Goto(t, label)
  PROVE  pc' \in [Thread -> Label]
BY DEF Shape, Goto

\* Where a command leaves them.
LEMMA Leaves ==
  ASSUME Shape, NEW t \in Thread, NEW result \in {"committed", "refused", "not_committed", "ambiguous"},
         Leave(t, result)
  PROVE  /\ pc' \in [Thread -> Label]
         /\ reply' \in [Host -> {"committed", "refused", "not_committed", "ambiguous"}]
         /\ itemLease' \in Thread \cup {None} /\ runLease' \in Thread \cup {None}
BY DEF Shape, Leave, Goto, Label

\* ... and every step keeps them.
LEMMA ShapeStep == Shape /\ [Next]_vars => Shape'
<1>. SUFFICES ASSUME Shape, [Next]_vars PROVE Shape'
  OBVIOUS
<1>0. /\ \A c \in Client : c \in Thread /\ HostOf[c] \in Host
      /\ \A h \in Host : h \in Thread
      /\ MaxCommands \in Nat /\ MaxFaults \in Nat
  BY PublishAssumption DEF Thread
<1>. USE DEF threadVars, leaseVars, hostVars, boundVars, historyVars
<1>1. ASSUME NEW c \in Client, Pause(c) PROVE Shape'
  <2>1. item' \in Item
    BY <1>1, PauseSaves DEF Shape
  <2>2. paused' \subseteq Nat
    BY <1>1 DEF Pause, Shape, Item, Op
  <2>. QED
    BY <1>0, <1>1, <2>1, <2>2 DEF Pause, Command, Issue, Shape
<1>2. ASSUME NEW c \in Client, Resume(c) PROVE Shape'
  <2>1. item' \in Item
    BY <1>2, ResumeSaves DEF Shape
  <2>. QED
    BY <1>0, <1>2, <2>1 DEF Resume, Command, Issue, Shape
<1>3. ASSUME NEW c \in Client, Revise(c) PROVE Shape'
  <2>1. item' \in Item
    BY <1>3, ReviseSaves DEF Shape
  <2>. QED
    BY <1>0, <1>3, <2>1 DEF Revise, Command, Issue, Shape
<1>4. ASSUME NEW c \in Client, Decide(c) PROVE Shape'
  <2>1. item' \in Item
    BY <1>4, DecideSaves DEF Shape
  <2>. QED
    BY <1>0, <1>4, <2>1 DEF Decide, Command, Issue, Shape
<1>5. ASSUME NEW c \in Client, Admit(c) PROVE Shape'
  <2>1. item' \in Item
    BY <1>5, AdmitSaves DEF Shape
  <2>0. PICK n \in Nat : n = item.rev + 1
    BY DEF Shape, Item
  <2>2. loaded' \in [Thread -> Nat]
    BY <1>5, <2>0 DEF Admit, Shape
  <2>3. pc' \in [Thread -> Label]
    BY <1>0, <1>5, Goes DEF Admit, Label
  <2>4. Command(c) /\ UNCHANGED paused
    BY <1>5 DEF Admit
  <2>. QED
    BY <1>0, <2>1, <2>2, <2>3, <2>4 DEF Command, Issue, Shape
<1>6. ASSUME NEW c \in Client, Submit(c) PROVE Shape'
  <2>1. queue' \in [Host -> Seq(Nat)]
    BY <1>0, <1>6 DEF Submit, Shape
  <2>. QED
    BY <1>0, <1>6, <2>1 DEF Submit, Shape, Goto, Label
<1>7. ASSUME NEW t \in Thread, Verify(t) PROVE Shape'
  <2>1. item' \in Item
    BY <1>7, VerifySaves DEF Shape
  <2>2. check' \in [op : Nat, state : {"none", "prepared", "running", "finished"},
                    result : {"passed", "failed", "cleanup"}, live : BOOLEAN]
    BY <1>7 DEF Verify, Shape, Item
  <2>. QED
    BY <1>0, <1>7, <2>1, <2>2 DEF Verify, Enter, Issue, Shape, Goto, Label
<1>8. ASSUME NEW t \in Thread, Execute(t) PROVE Shape'
  <2>1. item' \in Item
    BY <1>8, ExecuteSaves DEF Shape
  <2>. QED
    BY <1>0, <1>8, <2>1 DEF Execute, Enter, Issue, Shape, Goto, Label
<1>9. ASSUME NEW t \in Thread, StartTest(t) PROVE Shape'
  BY <1>9 DEF StartTest, Shape
<1>10. ASSUME NEW t \in Thread, FinishTest(t) PROVE Shape'
  <2>1. PICK result \in {"passed", "failed", "cleanup"} :
          /\ check' = [check EXCEPT !.state = "finished", !.result = result, !.live = result = "cleanup"]
          /\ passed' = IF result = "passed"
                       THEN passed \cup {[op |-> check.op, binding |-> item.op.binding]}
                       ELSE passed
    BY <1>10 DEF FinishTest
  <2>2. passed' \subseteq [op : Nat, binding : Nat]
    BY <2>1 DEF Shape, Item, Op
  <2>3. (result = "cleanup") \in BOOLEAN
    OBVIOUS
  <2>4. check' \in [op : Nat, state : {"none", "prepared", "running", "finished"},
                    result : {"passed", "failed", "cleanup"}, live : BOOLEAN]
    BY <2>1, <2>3 DEF Shape
  <2>. QED
    BY <1>10, <2>2, <2>4 DEF FinishTest, Shape, Goto, Label
<1>11. ASSUME NEW t \in Thread, RecordCheck(t) PROVE Shape'
  <2>1. item' \in Item
    BY <1>11, OperationSaves, RecordSaves DEF RecordCheck, Shape
  <2>2. Leave(t, "ambiguous") \/ Leave(t, "committed")
    BY <1>11 DEF RecordCheck
  <2>3. /\ pc' \in [Thread -> Label]
        /\ reply' \in [Host -> {"committed", "refused", "not_committed", "ambiguous"}]
        /\ itemLease' \in Thread \cup {None} /\ runLease' \in Thread \cup {None}
    BY <2>2, Leaves
  <2>. QED
    BY <1>11, <2>1, <2>3 DEF RecordCheck, Shape
<1>12. ASSUME NEW t \in Thread, EnterTransaction(t) \/ RefuseWrite(t) PROVE Shape'
  <2>1. loaded' \in [Thread -> Nat]
    BY <1>12 DEF EnterTransaction, RefuseWrite, Shape, Item
  <2>. QED
    BY <1>12, <2>1 DEF EnterTransaction, RefuseWrite, Shape, Goto, Label
<1>13. ASSUME NEW t \in Thread, UpdateRef(t) PROVE Shape'
  <2>1. target' \in Int
    BY <1>13 DEF UpdateRef, Shape, Item, Op
  <2>2. writes' \subseteq [op : Nat, binding : Nat, from : Int, planned : Int]
    BY <1>13 DEF UpdateRef, Shape, Item, Op
  <2>3. /\ pc' \in [Thread -> Label]
        /\ reply' \in [Host -> {"committed", "refused", "not_committed", "ambiguous"}]
        /\ itemLease' \in Thread \cup {None} /\ runLease' \in Thread \cup {None}
    <3>1. CASE Goto(t, "observing") /\ UNCHANGED <<leaseVars, reply>>
      BY <3>1, Goes DEF Label, Shape
    <3>2. CASE Leave(t, "ambiguous")
      BY <3>2, Leaves
    <3>. QED
      BY <1>13, <3>1, <3>2 DEF UpdateRef
  <2>. QED
    BY <1>13, <2>1, <2>2, <2>3 DEF UpdateRef, Shape
<1>14. ASSUME NEW t \in Thread, Observe(t) PROVE Shape'
  <2>1. loaded' \in [Thread -> Nat]
    BY <1>14 DEF Observe, Shape, Item
  <2>2. /\ pc' \in [Thread -> Label]
        /\ reply' \in [Host -> {"committed", "refused", "not_committed", "ambiguous"}]
        /\ itemLease' \in Thread \cup {None} /\ runLease' \in Thread \cup {None}
    <3>1. CASE Goto(t, "observed") /\ UNCHANGED <<leaseVars, reply>>
      BY <3>1, Goes DEF Label, Shape
    <3>2. CASE Leave(t, "ambiguous")
      BY <3>2, Leaves
    <3>. QED
      BY <1>14, <3>1, <3>2 DEF Observe
  <2>. QED
    BY <1>14, <2>1, <2>2 DEF Observe, Shape
<1>15. ASSUME NEW t \in Thread, RecordEffect(t) \/ RecordRefusal(t) PROVE Shape'
  <2>1. item' \in Item
    BY <1>15, EffectSaves, RefusalSaves DEF RecordEffect, RecordRefusal, Shape
  <2>2. /\ pc' \in [Thread -> Label]
        /\ reply' \in [Host -> {"committed", "refused", "not_committed", "ambiguous"}]
        /\ itemLease' \in Thread \cup {None} /\ runLease' \in Thread \cup {None}
    <3>1. CASE Goto(t, "interrupt") /\ UNCHANGED <<leaseVars, reply>>
      BY <3>1, Goes DEF Label, Shape
    <3>2. CASE Leave(t, "ambiguous") \/ Leave(t, "committed") \/ Leave(t, "refused")
      BY <3>2, Leaves
    <3>. QED
      BY <1>15, <3>1, <3>2 DEF RecordEffect, RecordRefusal
  <2>3. UNCHANGED <<target, check, loaded, drv, hostVars, boundVars, historyVars>>
    BY <1>15 DEF RecordEffect, RecordRefusal
  <2>. QED
    BY <2>1, <2>2, <2>3 DEF Shape
<1>16. ASSUME NEW c \in Client, Reconcile(c) PROVE Shape'
  <2>1. loaded' \in [Thread -> Nat]
    BY <1>16 DEF Reconcile, Shape, Item
  <2>. QED
    BY <1>0, <1>16, <2>1 DEF Reconcile, Issue, Shape, Goto, Label
<1>17. ASSUME NEW c \in Client, GiveUp(c) PROVE Shape'
  <2>1. /\ pc' \in [Thread -> Label]
        /\ reply' \in [Host -> {"committed", "refused", "not_committed", "ambiguous"}]
        /\ itemLease' \in Thread \cup {None} /\ runLease' \in Thread \cup {None}
    BY <1>0, <1>17, Leaves DEF GiveUp
  <2>. QED
    BY <1>17, <2>1 DEF GiveUp, Shape
<1>18. ASSUME NEW c \in Client, RetireTester(c) PROVE Shape'
  BY <1>0, <1>18 DEF RetireTester, Shape, Goto, Label
<1>19. ASSUME NEW c \in Client, RecoverCheck(c) PROVE Shape'
  <2>1. item' \in Item
    <3>1. PICK outcome \in {"passed", "failed"} : Record(outcome)
      BY <1>19 DEF RecoverCheck, Shape
    <3>. QED
      BY <3>1, RecordSaves DEF Shape
  <2>2. /\ pc' \in [Thread -> Label]
        /\ reply' \in [Host -> {"committed", "refused", "not_committed", "ambiguous"}]
        /\ itemLease' \in Thread \cup {None} /\ runLease' \in Thread \cup {None}
    <3>1. CASE Goto(c, "interrupt") /\ UNCHANGED <<leaseVars, reply>>
      BY <1>0, <3>1, Goes DEF Label, Shape
    <3>2. CASE Leave(c, "committed")
      BY <1>0, <3>2, Leaves
    <3>. QED
      BY <1>19, <3>1, <3>2 DEF RecoverCheck
  <2>. QED
    BY <1>19, <2>1, <2>2 DEF RecoverCheck, Shape
<1>20. ASSUME NEW c \in Client, ObserveAgain(c) \/ LoadAgain(c) PROVE Shape'
  <2>1. loaded' \in [Thread -> Nat]
    BY <1>20 DEF ObserveAgain, LoadAgain, Shape, Item
  <2>. QED
    BY <1>0, <1>20, <2>1 DEF ObserveAgain, LoadAgain, Shape, Goto, Label
<1>21. ASSUME NEW c \in Client, Interrupt(c) PROVE Shape'
  <2>1. item' \in Item
    BY <1>21, InterruptSaves DEF Shape
  <2>2. /\ pc' \in [Thread -> Label]
        /\ reply' \in [Host -> {"committed", "refused", "not_committed", "ambiguous"}]
        /\ itemLease' \in Thread \cup {None} /\ runLease' \in Thread \cup {None}
    BY <1>0, <1>21, Leaves DEF Interrupt
  <2>. QED
    BY <1>21, <2>1, <2>2 DEF Interrupt, Shape
<1>22. ASSUME NEW h \in Host, Drive(h) PROVE Shape'
  <2>1. Head(queue[h]) \in Nat /\ Tail(queue[h]) \in Seq(Nat)
    BY <1>22 DEF Drive, Shape
  <2>2. queue' \in [Host -> Seq(Nat)] /\ drv' \in [Host -> Nat]
    BY <1>22, <2>1 DEF Drive, Shape
  <2>. QED
    BY <1>0, <1>22, <2>2 DEF Drive, Shape, Goto, Label
<1>23. ASSUME NEW h \in Host, Look(h) PROVE Shape'
  <2>1. loaded' \in [Thread -> Nat]
    BY <1>0, <1>23 DEF Look, Shape, Item
  <2>2. \E label \in {"idle", "block", "complete", "begin"} : Goto(h, label)
    BY <1>23 DEF Look
  <2>3. pc' \in [Thread -> Label]
    BY <1>0, <2>2, Goes DEF Label
  <2>4. runLease' \in Thread \cup {None}
    BY <1>23 DEF Look, Shape
  <2>. QED
    BY <1>23, <2>1, <2>3, <2>4 DEF Look, Shape
<1>24. ASSUME NEW h \in Host, Begin(h) PROVE Shape'
  <2>1. item' \in Item
    BY <1>24, BeginSaves DEF Shape
  <2>0. PICK n \in Nat : n = item.rev + 1
    BY DEF Shape, Item
  <2>2. loaded' \in [Thread -> Nat]
    BY <1>0, <1>24, <2>0 DEF Begin, Shape
  <2>3. pc' \in [Thread -> Label]
    BY <1>0, <1>24, Goes DEF Begin, Label
  <2>. QED
    BY <1>24, <2>1, <2>2, <2>3 DEF Begin, Shape
<1>25. ASSUME NEW h \in Host, RefuseStep(h) \/ LoseReply(h) PROVE Shape'
  <2>1. pc' \in [Thread -> Label]
    BY <1>0, <1>25, Goes DEF RefuseStep, LoseReply, Label
  <2>2. reply' \in [Host -> {"committed", "refused", "not_committed", "ambiguous"}]
    BY <1>25 DEF RefuseStep, LoseReply, Shape
  <2>. QED
    BY <1>25, <2>1, <2>2 DEF RefuseStep, LoseReply, Shape
<1>26. ASSUME NEW h \in Host, EndStep(h) PROVE Shape'
  <2>1. item' \in Item
    BY <1>26, EndStepSaves DEF Shape
  <2>2. \E label \in {"drive", "block"} : Goto(h, label)
    BY <1>26 DEF EndStep
  <2>3. pc' \in [Thread -> Label]
    BY <1>0, <2>2, Goes DEF Label
  <2>. QED
    BY <1>26, <2>1, <2>3 DEF EndStep, Shape
<1>27. ASSUME NEW h \in Host, Finish(h) PROVE Shape'
  <2>1. item' \in Item
    BY <1>27, FinishSaves DEF Shape
  <2>2. pc' \in [Thread -> Label]
    BY <1>0, <1>27, Goes DEF Finish, Label
  <2>. QED
    BY <1>27, <2>1, <2>2 DEF Finish, Shape
<1>28. CASE Move
  <2>1. /\ faults' \in 0 .. MaxFaults /\ asked' = asked
        /\ UNCHANGED <<item, check, threadVars, leaseVars, hostVars, writes, passed, paused>>
    BY <1>0, <1>28 DEF Move, Fault, Shape
  <2>2. target' \in Int /\ lent' \subseteq [op : Nat, binding : Nat]
    BY <1>28 DEF Move, Shape, Item, Op, Initial, Theirs
  <2>. QED
    BY <2>1, <2>2 DEF Shape
<1>29. ASSUME NEW h \in Host, Close(h) \/ Restart(h) PROVE Shape'
  <2>1. faults' \in 0 .. MaxFaults /\ asked' = asked
    BY <1>0, <1>29 DEF Close, Restart, Fault, Shape
  <2>2. closed' \in [Host -> BOOLEAN]
    BY <1>29 DEF Close, Restart, Shape
  <2>3. UNCHANGED <<item, target, check, threadVars, leaseVars, queue, historyVars>>
    BY <1>29 DEF Close, Restart
  <2>. QED
    BY <2>1, <2>2, <2>3 DEF Shape
<1>30. ASSUME NEW h \in Host, Crash(h) PROVE Shape'
  <2>1. faults' \in 0 .. MaxFaults /\ asked' = asked
    BY <1>0, <1>30 DEF Crash, Fault, Shape
  <2>2. pc' \in [Thread -> Label]
    BY <1>30 DEF Crash, Shape, Label
  <2>3. itemLease' \in Thread \cup {None} /\ runLease' \in Thread \cup {None}
    BY <1>30 DEF Crash, Shape
  <2>4. queue' \in [Host -> Seq(Nat)] /\ closed' \in [Host -> BOOLEAN]
    BY <1>30 DEF Crash, Shape
  <2>5. check' \in [op : Nat, state : {"none", "prepared", "running", "finished"},
                    result : {"passed", "failed", "cleanup"}, live : BOOLEAN]
    BY <1>30 DEF Crash, Shape
  <2>. QED
    BY <1>30, <2>1, <2>2, <2>3, <2>4, <2>5 DEF Crash, Shape
<1>31. CASE UNCHANGED vars
  BY <1>31 DEF vars, Shape
<1>. QED
  BY <1>0, <1>1, <1>2, <1>3, <1>4, <1>5, <1>6, <1>7, <1>8, <1>9, <1>10, <1>11, <1>12, <1>13,
     <1>14, <1>15, <1>16, <1>17, <1>18, <1>19, <1>20, <1>21, <1>22, <1>23, <1>24, <1>25,
     <1>26, <1>27, <1>28, <1>29, <1>30, <1>31
     DEF Next, ClientCommand, ClientStep, WorkerStep, CommandStep, ReconcileStep

-----------------------------------------------------------------------------
(* Who holds which lease where.                                            *)

CheckPoint == {"testing", "recording", "recovering"}
BranchPoint == {"writing", "updating", "refusing"}   \* the branch has not been moved yet
EffectPoint == {"observing", "observed"}
ClosePoint == {"reconciling", "interrupt", "interrupting"}
ItemPoint == CheckPoint \cup BranchPoint \cup EffectPoint \cup ClosePoint
WorkerPoint == {"drive", "begin", "step", "stepped", "block", "complete"}

\* A command that has begun holds the item, a worker its run, a reconcile both.
ItemLeased == \A t \in Thread : pc[t] \in ItemPoint => itemLease = t
RunLeased == \A h \in Host : pc[h] # "idle" => runLease = h
ReconcileLeased == \A c \in Client : pc[c] \in ClosePoint \cup {"recovering"} => runLease = c
Places ==
  /\ \A h \in Host : pc[h] \notin ClosePoint \cup {"submit", "recovering"}
  /\ \A c \in Client : pc[c] \notin WorkerPoint

Leases == ItemLeased /\ RunLeased /\ ReconcileLeased /\ Places

\* Clients, workers and nobody are apart.
LEMMA Threads ==
  /\ \A c \in Client : c \in Thread /\ c \notin Host /\ HostOf[c] \in Host
  /\ \A h \in Host : h \in Thread /\ h \notin Client
  /\ \A t \in Thread : (t \in Client \/ t \in Host) /\ t # None
BY PublishAssumption DEF Thread

\* The thread that moves is the only one, ...
LEMMA Went ==
  ASSUME Shape, NEW t \in Thread, NEW label, Goto(t, label)
  PROVE  \A u \in Thread : pc'[u] = IF u = t THEN label ELSE pc[u]
BY DEF Shape, Goto

\* ... also at the end of its command.
LEMMA Left ==
  ASSUME Shape, NEW t \in Thread, NEW result, Leave(t, result)
  PROVE  /\ itemLease' = None
         /\ \A u \in Thread : u # t => pc'[u] = pc[u]
         /\ t \in Host => pc'[t] = "stepped" /\ reply'[t] = result /\ runLease' = runLease
         /\ t \notin Host => /\ pc'[t] = "idle" /\ reply' = reply
                             /\ runLease' = IF runLease = t THEN None ELSE runLease
BY Went DEF Shape, Leave, Goto

\* Nobody holds a lease at first ...
LEMMA LeasesInit == Init => Leases
BY Threads DEF Init, Leases, ItemLeased, RunLeased, ReconcileLeased, Places, ItemPoint,
   CheckPoint, BranchPoint, EffectPoint, ClosePoint, WorkerPoint

\* ... and every step keeps the leases with who is at work.
LEMMA LeasesStep == Shape /\ Leases /\ [Next]_vars => Leases'
<1>. SUFFICES ASSUME Shape, Leases, [Next]_vars PROVE Leases'
  OBVIOUS
<1>. USE Threads DEF Leases, ItemLeased, RunLeased, ReconcileLeased, Places, ItemPoint,
         CheckPoint, BranchPoint, EffectPoint, ClosePoint, WorkerPoint
<1>1. ASSUME UNCHANGED <<pc, itemLease, runLease>> PROVE Leases'
  BY <1>1
<1>2. ASSUME NEW c \in Client, Pause(c) \/ Resume(c) \/ Revise(c) \/ Decide(c) PROVE Leases'
  BY <1>1, <1>2 DEF Pause, Resume, Revise, Decide, Command, leaseVars
<1>3. ASSUME NEW c \in Client, Admit(c) PROVE Leases'
  <2>1. Goto(c, "submit") /\ UNCHANGED leaseVars
    BY <1>3 DEF Admit, Command
  <2>. QED
    BY <2>1, Went DEF leaseVars
<1>4. ASSUME NEW c \in Client, Submit(c) PROVE Leases'
  BY <1>4, Went DEF Submit, leaseVars
<1>5. ASSUME NEW t \in Thread, NEW kind, NEW label \in CheckPoint \cup BranchPoint,
             label # "recovering", Enter(t, kind), Goto(t, label), UNCHANGED runLease
      PROVE  Leases'
  <2>1. /\ pc[t] = IF t \in Host THEN "step" ELSE "idle"
        /\ itemLease = None /\ itemLease' = t
    BY <1>5 DEF Enter, Issue
  <2>. QED
    BY <1>5, <2>1, Went
<1>6. ASSUME NEW t \in Thread, Verify(t) \/ Execute(t) PROVE Leases'
  BY <1>5, <1>6 DEF Verify, Execute
<1>7. ASSUME NEW t \in Thread, StartTest(t) PROVE Leases'
  BY <1>1, <1>7 DEF StartTest, threadVars, leaseVars
\* From one point under the item's lease to another.
<1>8. ASSUME NEW t \in Thread, NEW label \in CheckPoint \cup BranchPoint \cup EffectPoint,
             pc[t] \in CheckPoint \cup BranchPoint \cup EffectPoint,
             label # "recovering", Goto(t, label), UNCHANGED leaseVars
      PROVE  Leases'
  BY <1>8, Went DEF leaseVars
<1>9. ASSUME NEW t \in Thread, FinishTest(t) \/ EnterTransaction(t) \/ RefuseWrite(t) PROVE Leases'
  <2>1. PICK label \in CheckPoint \cup BranchPoint : label # "recovering" /\ Goto(t, label)
    BY <1>9 DEF FinishTest, EnterTransaction, RefuseWrite
  <2>2. pc[t] \in CheckPoint \cup BranchPoint /\ UNCHANGED leaseVars
    BY <1>9 DEF FinishTest, EnterTransaction, RefuseWrite
  <2>. QED
    BY <1>8, <2>1, <2>2
\* The end of a command, wherever it is.
<1>10. ASSUME NEW t \in Thread, NEW result, Leave(t, result), pc[t] \in ItemPoint PROVE Leases'
  BY <1>10, Left
<1>11. ASSUME NEW t \in Thread, RecordCheck(t) \/ RecordRefusal(t) PROVE Leases'
  <2>1. pc[t] \in ItemPoint /\ \E result : Leave(t, result)
    BY <1>11 DEF RecordCheck, RecordRefusal
  <2>. QED
    BY <1>10, <2>1
<1>12. ASSUME NEW t \in Thread, UpdateRef(t) PROVE Leases'
  BY <1>8, <1>10, <1>12 DEF UpdateRef
<1>13. ASSUME NEW t \in Thread, Observe(t) PROVE Leases'
  BY <1>8, <1>10, <1>13 DEF Observe
\* Through a reconcile, which holds both leases.
<1>14. ASSUME NEW c \in Client, NEW label \in ItemPoint,
              pc[c] \in ClosePoint \cup {"recovering"} \/ (runLease = c /\ pc[c] \in ItemPoint),
              Goto(c, label), UNCHANGED leaseVars
       PROVE  Leases'
  BY <1>14, Went DEF leaseVars
<1>15. ASSUME NEW t \in Thread, RecordEffect(t) PROVE Leases'
  <2>1. pc[t] \in ItemPoint
    BY <1>15 DEF RecordEffect
  <2>2. \/ t \in Client /\ runLease = t /\ Goto(t, "interrupt") /\ UNCHANGED leaseVars
        \/ \E result : Leave(t, result)
    BY <1>15 DEF RecordEffect
  <2>. QED
    BY <1>10, <1>14, <2>1, <2>2
<1>16. ASSUME NEW c \in Client, Reconcile(c) PROVE Leases'
  BY <1>16, Went DEF Reconcile, Issue
<1>17. ASSUME NEW c \in Client, GiveUp(c) PROVE Leases'
  BY <1>10, <1>17 DEF GiveUp
<1>18. ASSUME NEW c \in Client, RetireTester(c) \/ ObserveAgain(c) \/ LoadAgain(c) PROVE Leases'
  <2>1. \E label \in ItemPoint : Goto(c, label)
    BY <1>18 DEF RetireTester, ObserveAgain, LoadAgain
  <2>2. pc[c] \in ClosePoint /\ UNCHANGED leaseVars
    BY <1>18 DEF RetireTester, ObserveAgain, LoadAgain
  <2>. QED
    BY <1>14, <2>1, <2>2
<1>19. ASSUME NEW c \in Client, RecoverCheck(c) PROVE Leases'
  BY <1>10, <1>14, <1>19 DEF RecoverCheck
<1>20. ASSUME NEW c \in Client, Interrupt(c) PROVE Leases'
  BY <1>10, <1>20 DEF Interrupt
<1>21. ASSUME NEW h \in Host, Drive(h) PROVE Leases'
  BY <1>21, Went DEF Drive
<1>22. ASSUME NEW h \in Host, Look(h) PROVE Leases'
  <2>1. PICK label \in WorkerPoint \cup {"idle"} :
          Goto(h, label) /\ (label = "idle" <=> ~Driven(h))
    BY <1>22 DEF Look
  <2>2. pc[h] = "drive" /\ itemLease' = itemLease
        /\ runLease' = IF Driven(h) THEN runLease ELSE None
    BY <1>22 DEF Look
  <2>. QED
    BY <2>1, <2>2, Went
\* Through the points of a worker, which holds its run.
<1>23. ASSUME NEW h \in Host, NEW label \in WorkerPoint,
              pc[h] \in WorkerPoint, Goto(h, label), UNCHANGED leaseVars
       PROVE  Leases'
  BY <1>23, Went DEF leaseVars
<1>24. ASSUME NEW h \in Host, Begin(h) \/ RefuseStep(h) \/ LoseReply(h) \/ EndStep(h) PROVE Leases'
  <2>1. \E label \in WorkerPoint : Goto(h, label)
    BY <1>24 DEF Begin, RefuseStep, LoseReply, EndStep
  <2>2. pc[h] \in WorkerPoint /\ UNCHANGED leaseVars
    BY <1>24 DEF Begin, RefuseStep, LoseReply, EndStep
  <2>. QED
    BY <1>23, <2>1, <2>2
<1>25. ASSUME NEW h \in Host, Finish(h) PROVE Leases'
  BY <1>25, Went DEF Finish
<1>26. ASSUME NEW h \in Host, Close(h) \/ Restart(h) PROVE Leases'
  BY <1>1, <1>26 DEF Close, Restart, threadVars, leaseVars
<1>27. ASSUME NEW h \in Host, Crash(h) PROVE Leases'
  <2>. DEFINE dead == {h} \cup {c \in Client : HostOf[c] = h}
  <2>1. /\ \A t \in Thread : pc'[t] = IF t \in dead THEN "idle" ELSE pc[t]
        /\ itemLease' = IF itemLease \in dead THEN None ELSE itemLease
        /\ runLease' = IF runLease \in dead THEN None ELSE runLease
    BY <1>27 DEF Crash
  <2>. HIDE DEF dead
  <2>. QED
    BY <2>1
<1>28. CASE Move \/ UNCHANGED vars
  BY <1>1, <1>28 DEF Move, vars, threadVars, leaseVars
<1>. QED
  BY <1>2, <1>3, <1>4, <1>6, <1>7, <1>9, <1>11, <1>12, <1>13, <1>15, <1>16, <1>17, <1>18, <1>19,
     <1>20, <1>21, <1>22, <1>24, <1>25, <1>26, <1>27, <1>28
     DEF Next, ClientCommand, ClientStep, WorkerStep, CommandStep, ReconcileStep

-----------------------------------------------------------------------------
(* Most steps leave the operation, and what it has done, as it is.         *)

Quiet ==
  /\ item' \in Item /\ item.rev <= item'.rev
  /\ item'.status = item.status /\ item'.binding = item.binding
  /\ item'.evidence = item.evidence
  /\ item'.op.id = item.op.id /\ item'.op.kind = item.op.kind
  /\ item'.op.binding = item.op.binding
  /\ item'.run.id \in {item.run.id, item'.rev}
  /\ target' \in {target, Initial, Theirs}
  /\ check'.op = check.op /\ check'.state = check.state /\ check'.result = check.result
  /\ check'.live => check.live
  /\ \A t \in Thread : pc'[t] \in CheckPoint \cup BranchPoint \cup EffectPoint =>
       pc'[t] = pc[t] \/ {pc[t], pc'[t]} \subseteq BranchPoint
  /\ UNCHANGED historyVars

\* Somebody else brings the branch to the result of an operation.
Lending ==
  /\ item.op.kind = "formal" /\ target' = item.op.id
  /\ lent' = lent \cup {[op |-> item.op.id, binding |-> item.op.binding]}
  /\ UNCHANGED <<item, check, pc, writes, passed, paused>>

\* The others are these.
Telling ==
  \/ Lending
  \/ \E c \in Client : \/ Pause(c) \/ Resume(c) \/ Revise(c)
                       \/ RetireTester(c) \/ RecoverCheck(c) \/ ObserveAgain(c)
  \/ \E t \in Thread : \/ Verify(t) \/ StartTest(t) \/ FinishTest(t) \/ RecordCheck(t)
                       \/ Execute(t) \/ UpdateRef(t) \/ Observe(t)
                       \/ RecordEffect(t) \/ RecordRefusal(t)

\* What does not save keeps the item.
LEMMA ItemKept ==
  ASSUME item \in Item, item' = item
  PROVE  /\ item' \in Item /\ item.rev <= item'.rev
         /\ item'.status = item.status /\ item'.binding = item.binding
         /\ item'.evidence = item.evidence /\ item'.op = item.op /\ item'.run = item.run
BY DEF Item

\* There is no other step than these.
LEMMA QuietOrTelling ==
  ASSUME Shape, [Next]_vars
  PROVE  Quiet \/ Telling
<1>. USE Threads DEF CheckPoint, BranchPoint, EffectPoint
<1>0. item \in Item /\ item.rev \in Nat
  BY DEF Shape, Item
\* Saves of the run alone, and steps that save nothing.
<1>1. ASSUME /\ item' \in Item /\ item.rev <= item'.rev
             /\ item'.status = item.status /\ item'.binding = item.binding
             /\ item'.evidence = item.evidence /\ item'.op = item.op
             /\ item'.run.id \in {item.run.id, item'.rev},
             target' \in {target, Initial, Theirs}, UNCHANGED <<check, historyVars>>,
             \A t \in Thread : pc'[t] \in CheckPoint \cup BranchPoint \cup EffectPoint =>
               pc'[t] = pc[t] \/ {pc[t], pc'[t]} \subseteq BranchPoint
      PROVE  Quiet
  BY <1>1 DEF Quiet
<1>2. ASSUME NEW c \in Client, Decide(c) PROVE Quiet
  <2>1. UNCHANGED <<target, check, historyVars, pc>>
    BY <1>2 DEF Decide, Command, historyVars
  <2>. QED
    BY <1>0, <1>1, <1>2, <2>1, DecideSaves
<1>3. ASSUME NEW c \in Client, Admit(c) PROVE Quiet
  <2>1. UNCHANGED <<target, check, historyVars>> /\ Goto(c, "submit")
    BY <1>3 DEF Admit, Command, historyVars
  <2>2. item'.run.id = item'.rev /\ item.rev <= item'.rev /\ item'.op = item.op
        /\ item'.evidence = item.evidence /\ item'.status = item.status
        /\ item'.binding = item.binding /\ item' \in Item
    BY <1>0, <1>3, AdmitSaves
  <2>. QED
    BY <1>1, <2>1, <2>2, Went
<1>4. ASSUME NEW c \in Client, Submit(c) PROVE Quiet
  BY <1>0, <1>1, <1>4, ItemKept, Went DEF Submit, historyVars
<1>5. ASSUME NEW t \in Thread, EnterTransaction(t) \/ RefuseWrite(t) PROVE Quiet
  BY <1>0, <1>1, <1>5, ItemKept, Went DEF EnterTransaction, RefuseWrite, historyVars
<1>6. ASSUME NEW c \in Client, Reconcile(c) \/ LoadAgain(c) PROVE Quiet
  BY <1>0, <1>1, <1>6, ItemKept, Went DEF Reconcile, LoadAgain, historyVars
<1>7. ASSUME NEW c \in Client, GiveUp(c) PROVE Quiet
  BY <1>0, <1>1, <1>7, ItemKept, Left DEF GiveUp, historyVars
<1>8. ASSUME NEW c \in Client, Interrupt(c) PROVE Quiet
  <2>1. UNCHANGED <<target, check, historyVars>> /\ Leave(c, "committed")
    BY <1>8 DEF Interrupt
  <2>2. /\ item' \in Item /\ item.rev <= item'.rev
        /\ item'.status = item.status /\ item'.binding = item.binding
        /\ item'.evidence = item.evidence /\ item'.op = item.op /\ item'.run.id = item.run.id
    BY <1>0, <1>8, ItemKept, InterruptSaves
  <2>. QED
    BY <1>1, <2>1, <2>2, Left
<1>9. ASSUME NEW h \in Host, Drive(h) \/ Look(h) \/ RefuseStep(h) \/ LoseReply(h) PROVE Quiet
  <2>1. UNCHANGED <<item, target, check, historyVars>>
    BY <1>9 DEF Drive, Look, RefuseStep, LoseReply, historyVars
  <2>2. UNCHANGED pc \/ \E label \in {"idle", "drive", "begin", "stepped", "block", "complete"} :
                          Goto(h, label)
    BY <1>9 DEF Drive, Look, RefuseStep, LoseReply
  <2>. QED
    BY <1>0, <1>1, <2>1, <2>2, ItemKept, Went
<1>10. ASSUME NEW h \in Host, Begin(h) \/ EndStep(h) \/ Finish(h) PROVE Quiet
  <2>1. UNCHANGED <<target, check, historyVars>>
    BY <1>10 DEF Begin, EndStep, Finish, historyVars
  <2>2. \E label \in {"idle", "drive", "step", "block"} : Goto(h, label)
    BY <1>10 DEF Begin, EndStep, Finish
  <2>3. /\ item' \in Item /\ item.rev <= item'.rev
        /\ item'.status = item.status /\ item'.binding = item.binding
        /\ item'.evidence = item.evidence /\ item'.op = item.op /\ item'.run.id = item.run.id
    BY <1>0, <1>10, ItemKept, BeginSaves, EndStepSaves, FinishSaves
  <2>. QED
    BY <1>1, <2>1, <2>2, <2>3, Went
<1>11. CASE Move
  <2>1. CASE target' \in {Initial, Theirs} /\ UNCHANGED lent
    <3>1. UNCHANGED <<item, check, pc, historyVars>>
      BY <1>11, <2>1 DEF Move, threadVars, historyVars
    <3>. QED
      BY <1>0, <1>1, <2>1, <3>1, ItemKept
  <2>2. CASE ~(target' \in {Initial, Theirs} /\ UNCHANGED lent)
    BY <1>11, <2>2 DEF Move, Lending, Telling, threadVars
  <2>. QED
    BY <2>1, <2>2
<1>12. ASSUME NEW h \in Host, Close(h) \/ Restart(h) PROVE Quiet
  BY <1>0, <1>1, <1>12, ItemKept DEF Close, Restart, threadVars, historyVars
<1>13. ASSUME NEW h \in Host, Crash(h) PROVE Quiet
  <2>1. UNCHANGED <<item, target, historyVars>>
    BY <1>13 DEF Crash
  <2>2. check'.op = check.op /\ check'.state = check.state /\ check'.result = check.result
        /\ (check'.live => check.live)
    BY <1>13 DEF Crash, Shape
  <2>3. \A t \in Thread : pc'[t] \in {pc[t], "idle"}
    BY <1>13 DEF Crash
  <2>. QED
    BY <1>0, <2>1, <2>2, <2>3, ItemKept DEF Quiet
<1>14. CASE UNCHANGED vars
  BY <1>0, <1>1, <1>14, ItemKept DEF vars, threadVars
<1>. QED
  BY <1>2, <1>3, <1>4, <1>5, <1>6, <1>7, <1>8, <1>9, <1>10, <1>11, <1>12, <1>13, <1>14
     DEF Telling, Next, ClientCommand, ClientStep, WorkerStep, CommandStep, ReconcileStep

-----------------------------------------------------------------------------
(* The operation in progress.                                              *)

Checking == item.status \in {"checking", "pausing"}
Executing == item.status = "executing"

Numbered ==
  /\ item.op.id <= item.rev /\ item.evidence.op <= item.rev
  /\ item.binding <= item.rev /\ item.run.id <= item.rev
\* What the item shows as begun is for the plan it has now.
OperationFits ==
  /\ Checking => item.op.kind = "verify" /\ check.op = item.op.id
  /\ Executing => item.op.kind = "formal" /\ item.evidence.outcome = "passed"
  /\ Checking \/ Executing => /\ item.op.binding = item.binding
                              /\ item.evidence.op < item.op.id
PointsFit ==
  \A t \in Thread : /\ pc[t] \in CheckPoint => Checking
                    /\ pc[t] \in BranchPoint \cup EffectPoint => Executing
\* Who is about to record a check knows of the tester that is left.
TesterKnown ==
  \A t \in Thread :
    /\ pc[t] = "recording" => check.state = "finished" /\ (check.live => check.result = "cleanup")
    /\ pc[t] = "recovering" => ~check.live

Operations == Numbered /\ OperationFits /\ PointsFit /\ TesterKnown /\ TesterContained

\* Whoever is in the middle of a command is alone there.
LEMMA Alone ==
  ASSUME Leases, NEW t \in Thread, pc[t] \in ItemPoint
  PROVE  \A u \in Thread : u # t => pc[u] \notin ItemPoint
BY DEF Leases, ItemLeased

\* An item whose lease is free is in the middle of no command.
LEMMA Free ==
  ASSUME Leases, itemLease = None
  PROVE  \A u \in Thread : pc[u] \notin ItemPoint
BY Threads DEF Leases, ItemLeased

\* No operation is in progress at first ...
LEMMA OperationsInit == Init => Operations
<1>. SUFFICES ASSUME Init PROVE Operations
  OBVIOUS
<1>1. /\ item.rev = 1 /\ item.status = "prepared" /\ item.binding = 1
      /\ item.evidence = NoEvidence /\ item.run = NoRun /\ item.op = NoOp
  BY DEF Init
<1>. QED
  BY <1>1 DEF Init, Operations, Numbered, OperationFits, PointsFit, TesterKnown, TesterContained,
     Checking, Executing, NoEvidence, NoRun, NoOp, NoCheck, CheckPoint, BranchPoint, EffectPoint

\* ... and every step keeps the operation, its check and its tester together.
LEMMA OperationsStep == Shape /\ Leases /\ Operations /\ [Next]_vars => Operations'
<1>. SUFFICES ASSUME Shape, Leases, Operations, [Next]_vars PROVE Operations'
  OBVIOUS
<1>. USE Threads DEF Operations, Numbered, OperationFits, PointsFit, TesterKnown, TesterContained,
         Checking, Executing, CheckPoint, BranchPoint, EffectPoint
<1>0. item \in Item /\ item.rev \in Nat /\ item.op.id \in Nat /\ item.evidence.op \in Nat
      /\ item.binding \in Nat /\ item.run.id \in Nat
  BY DEF Shape, Item, Op, Evidence, Run
<1>1. CASE Quiet
  <2>1. item'.rev \in Nat
    BY <1>1 DEF Quiet, Item
  <2>. QED
    BY <1>0, <1>1, <2>1 DEF Quiet
<1>2. ASSUME NEW c \in Client, Pause(c) PROVE Operations'
  <2>1. UNCHANGED <<check, pc>>
    BY <1>2 DEF Pause, Command
  <2>2. /\ item'.rev = item.rev + 1 /\ item'.run.id = item.run.id
        /\ item'.binding = item.binding /\ item'.evidence = item.evidence /\ item'.op = item.op
        /\ item'.status = CASE item.status = "prepared" -> "paused"
                            [] item.status = "checking" -> "pausing"
                            [] OTHER -> item.status
    BY <1>0, <1>2, PauseSaves DEF Run, Item
  <2>. QED
    BY <1>0, <2>1, <2>2
<1>3. ASSUME NEW c \in Client, Resume(c) PROVE Operations'
  <2>1. UNCHANGED <<check, pc>> /\ item.status = "paused"
    BY <1>3 DEF Resume, Command
  <2>. QED
    BY <1>0, <1>3, <2>1, ResumeSaves
<1>4. ASSUME NEW c \in Client, Revise(c) PROVE Operations'
  <2>1. UNCHANGED <<check, pc>> /\ target \in Int
        /\ item.status \notin {"executing", "checking", "pausing", "paused"}
    BY <1>4 DEF Revise, Command, Shape
  <2>. QED
    BY <1>0, <1>4, <2>1, ReviseSaves, NothingShown
<1>5. ASSUME NEW t \in Thread, Verify(t) PROVE Operations'
  <2>1. /\ check'.op = item.rev + 1 /\ ~check'.live /\ Goto(t, "testing")
        /\ itemLease = None
    BY <1>5 DEF Verify, Enter
  <2>2. \A u \in Thread : pc[u] \notin ItemPoint
    BY <2>1, Free
  <2>. QED
    BY <1>0, <1>5, <2>1, <2>2, VerifySaves, Went DEF ItemPoint
<1>6. ASSUME NEW t \in Thread, Execute(t) PROVE Operations'
  <2>1. /\ check' = check /\ Goto(t, "writing") /\ itemLease = None
        /\ item.status = "prepared" /\ item.evidence.outcome = "passed"
    BY <1>6 DEF Execute, Enter, Ready
  <2>2. \A u \in Thread : pc[u] \notin ItemPoint
    BY <2>1, Free
  <2>. QED
    BY <1>0, <1>6, <2>1, <2>2, ExecuteSaves, Went DEF ItemPoint
<1>7. ASSUME NEW t \in Thread, StartTest(t) PROVE Operations'
  <2>1. /\ UNCHANGED <<item, pc>> /\ pc[t] = "testing"
        /\ check'.op = check.op
    BY <1>7 DEF StartTest, threadVars, Shape
  <2>2. \A u \in Thread : u # t => pc[u] \notin ItemPoint
    BY <2>1, Alone DEF ItemPoint
  <2>. QED
    BY <1>0, <2>1, <2>2 DEF ItemPoint
<1>8. ASSUME NEW t \in Thread, FinishTest(t) PROVE Operations'
  <2>0. PICK result \in {"passed", "failed", "cleanup"}, b \in BOOLEAN :
          /\ b => result = "cleanup"
          /\ check' = [check EXCEPT !.state = "finished", !.result = result, !.live = b]
    <3>1. PICK result \in {"passed", "failed", "cleanup"} :
            check' = [check EXCEPT !.state = "finished", !.result = result,
                                   !.live = result = "cleanup"]
      BY <1>8 DEF FinishTest
    <3>2. PICK b \in BOOLEAN : b = (result = "cleanup")
      OBVIOUS
    <3>. QED
      BY <3>1, <3>2
  <2>1. /\ UNCHANGED item /\ pc[t] = "testing" /\ Goto(t, "recording")
        /\ check'.op = check.op /\ check'.state = "finished"
        /\ (check'.live => check'.result = "cleanup")
    <3>1. check'.op = check.op /\ check'.state = "finished" /\ check'.result = result
          /\ check'.live = b
      BY <2>0 DEF Shape
    <3>. QED
      BY <1>8, <2>0, <3>1 DEF FinishTest
  <2>2. \A u \in Thread : u # t => pc[u] \notin ItemPoint
    BY <2>1, Alone DEF ItemPoint
  <2>. QED
    BY <1>0, <2>1, <2>2, Went DEF ItemPoint
\* A check is recorded when its tester is gone.
<1>9. ASSUME NEW t \in Thread, NEW outcome \in {"passed", "failed"},
             Record(outcome), pc[t] \in CheckPoint, ~check.live, check' = check,
             \A u \in Thread : u # t => pc'[u] = pc[u],
             pc'[t] \notin CheckPoint \cup BranchPoint \cup EffectPoint
      PROVE  Operations'
  <2>1. \A u \in Thread : u # t => pc[u] \notin ItemPoint
    BY <1>9, Alone DEF ItemPoint
  <2>2. /\ item'.rev = item.rev + 1 /\ item'.run = item.run /\ item'.binding = item.binding
        /\ item'.evidence.op = item.op.id /\ item'.op.id = item.op.id
        /\ item'.status \in {"paused", "prepared"}
    BY <1>0, <1>9, RecordSaves
  <2>. QED
    BY <1>0, <1>9, <2>1, <2>2 DEF ItemPoint
<1>10. ASSUME NEW t \in Thread, RecordCheck(t) PROVE Operations'
  <2>1. /\ pc[t] = "recording" /\ check' = check
        /\ \E result : Leave(t, result)
    BY <1>10 DEF RecordCheck
  <2>2. /\ \A u \in Thread : u # t => pc'[u] = pc[u]
        /\ pc'[t] \in {"stepped", "idle"}
    BY <2>1, Left
  <2>3. CASE check.result = "cleanup"
    <3>1. item'.rev = item.rev + 1 /\ item'.status = item.status
          /\ item'.binding = item.binding /\ item'.evidence = item.evidence
          /\ item'.run = item.run /\ item'.op.id = item.op.id /\ item'.op.kind = item.op.kind
          /\ item'.op.binding = item.op.binding
      BY <1>0, <1>10, <2>3, OperationSaves DEF RecordCheck
    <3>. QED
      BY <1>0, <2>1, <2>2, <3>1
  <2>4. CASE check.result # "cleanup"
    <3>1. check.result \in {"passed", "failed"} /\ Record(check.result)
      BY <1>10, <2>4 DEF RecordCheck, Shape
    <3>. QED
      BY <1>9, <2>1, <2>2, <2>4, <3>1
  <2>. QED
    BY <2>3, <2>4
<1>11. ASSUME NEW c \in Client, RecoverCheck(c) PROVE Operations'
  <2>1. /\ pc[c] = "recovering" /\ check' = check
        /\ \/ Leave(c, "committed")
           \/ Goto(c, "interrupt")
    BY <1>11 DEF RecoverCheck
  <2>2. /\ \A u \in Thread : u # c => pc'[u] = pc[u]
        /\ pc'[c] \in {"idle", "interrupt"}
    BY <2>1, Left, Went
  <2>3. PICK outcome \in {"passed", "failed"} : Record(outcome)
    BY <1>11 DEF RecoverCheck, Shape
  <2>. QED
    BY <1>9, <2>1, <2>2, <2>3
<1>12. ASSUME NEW c \in Client, RetireTester(c) PROVE Operations'
  <2>1. /\ UNCHANGED item /\ item.status \in {"checking", "pausing"}
        /\ check'.op = check.op /\ ~check'.live /\ pc[c] = "reconciling" /\ Goto(c, "recovering")
    BY <1>12 DEF RetireTester, Shape
  <2>2. \A u \in Thread : u # c => pc[u] \notin ItemPoint
    BY <2>1, Alone DEF ItemPoint, ClosePoint
  <2>. QED
    BY <1>0, <2>1, <2>2, Went DEF ItemPoint
<1>13. ASSUME NEW t \in Thread, UpdateRef(t) \/ Observe(t) \/ ObserveAgain(t) PROVE Operations'
  <2>1. UNCHANGED <<item, check>>
    BY <1>13 DEF UpdateRef, Observe, ObserveAgain
  <2>2. Executing /\ (Goto(t, "observing") \/ Goto(t, "observed") \/ Leave(t, "ambiguous"))
    BY <1>13 DEF UpdateRef, Observe, ObserveAgain
  <2>3. /\ \A u \in Thread : u # t => pc'[u] = pc[u]
        /\ pc'[t] \in {"observing", "observed", "stepped", "idle"}
    BY <2>2, Left, Went
  <2>. QED
    BY <1>0, <2>1, <2>2, <2>3
<1>14. ASSUME NEW t \in Thread, RecordEffect(t) \/ RecordRefusal(t) PROVE Operations'
  <2>1. /\ pc[t] \in {"observed", "refusing"} /\ check' = check
        /\ Goto(t, "interrupt") \/ \E result : Leave(t, result)
    BY <1>14 DEF RecordEffect, RecordRefusal
  <2>2. /\ \A u \in Thread : u # t => pc'[u] = pc[u] /\ pc[u] \notin ItemPoint
        /\ pc'[t] \in {"stepped", "idle", "interrupt"}
    BY <2>1, Left, Went, Alone DEF ItemPoint
  <2>3. CASE UNCHANGED item
    BY <1>0, <2>1, <2>2, <2>3
  <2>4. CASE ~ UNCHANGED item
    <3>1. /\ item'.rev = item.rev + 1 /\ item'.status \in {"integrated", "failed"}
          /\ item'.binding \in {item.binding, item.rev + 1}
          /\ item'.evidence.op \in {item.evidence.op, 0} /\ item'.op.id = item.op.id
          /\ item'.run = item.run
      BY <1>0, <1>14, <2>4, EffectSaves, RefusalSaves, NothingShown
         DEF RecordEffect, RecordRefusal
    <3>. QED
      BY <1>0, <2>1, <2>2, <3>1 DEF ItemPoint
  <2>. QED
    BY <2>3, <2>4
<1>15. CASE Lending
  BY <1>0, <1>15 DEF Lending
<1>. QED
  BY QuietOrTelling, <1>1, <1>2, <1>3, <1>4, <1>5, <1>6, <1>7, <1>8, <1>10, <1>11, <1>12, <1>13,
     <1>14, <1>15 DEF Telling

-----------------------------------------------------------------------------
(* What the history has to do with the item.                               *)

Written(o) == \E w \in writes : w.op = o
Reached(o) == Written(o) \/ \E l \in lent : l.op = o
WrittenFor(b) == \E w \in writes : w.binding = b
ReachedFor(b) == \E m \in writes \cup lent : m.binding = b
EarnedBefore(b, o) == \E p \in passed : p.binding = b /\ p.op \notin paused /\ p.op < o

PausedNumbered == \A n \in paused : n <= item.op.id
\* A result that is still to be recorded has been found, and a check whose
\* item shows no pause was not paused.
CheckPassed ==
  /\ Checking /\ check.state = "finished" /\ check.result = "passed" =>
       [op |-> item.op.id, binding |-> item.binding] \in passed
  /\ item.status = "checking" => item.op.id \notin paused
EvidenceEarned ==
  item.evidence.outcome = "passed" =>
    /\ [op |-> item.evidence.op, binding |-> item.binding] \in passed
    /\ item.evidence.op \notin paused
WritesEarned ==
  \A w \in writes : /\ w.from = w.planned /\ w.op <= item.op.id /\ w.binding <= item.rev
                    /\ EarnedBefore(w.binding, w.op)
                    /\ w.op = item.op.id => item.op.kind = "formal" /\ w.binding = item.op.binding
                    /\ \A v \in writes : v.binding = w.binding => v = w
TargetReached == target \in {Initial, Theirs} \/ Reached(target)
\* A version of the plan that an operation may still be begun for has moved nothing.
Unwritten ==
  \/ item.status \in {"prepared", "checking", "pausing", "paused", "failed"}
  \/ \E t \in Thread : pc[t] \in BranchPoint
  => ~WrittenFor(item.binding)
Outcomes ==
  /\ item.status = "integrated" \/ (\E t \in Thread : pc[t] = "observed") =>
       item.op.kind = "formal" /\ Reached(item.op.id)
  /\ item.status = "failed" => ~Written(item.op.id)
OpPositive == Executing => item.op.id > 0

History ==
  /\ PausedNumbered /\ CheckPassed /\ EvidenceEarned /\ WritesEarned
  /\ TargetReached /\ Unwritten /\ Outcomes /\ OpPositive

\* Nothing has been done at first ...
LEMMA HistoryInit == Init => History
<1>. SUFFICES ASSUME Init PROVE History
  OBVIOUS
<1>1. /\ item.rev = 1 /\ item.status = "prepared" /\ item.evidence = NoEvidence
      /\ writes = {} /\ lent = {} /\ passed = {} /\ paused = {} /\ target = Initial
      /\ \A t \in Thread : pc[t] = "idle"
  BY DEF Init
<1>. QED
  BY <1>1, NothingShown
     DEF History, PausedNumbered, CheckPassed, EvidenceEarned, WritesEarned, TargetReached,
         Unwritten, Outcomes, OpPositive, Written, Reached, WrittenFor, Checking, Executing, BranchPoint

\* ... and what every step does, it has earned.
LEMMA HistoryStep == Shape /\ Leases /\ Operations /\ History /\ [Next]_vars => History'
<1>. SUFFICES ASSUME Shape, Leases, Operations, History, [Next]_vars PROVE History'
  OBVIOUS
<1>. USE Threads DEF History, PausedNumbered, CheckPassed, EvidenceEarned, WritesEarned,
         TargetReached, Unwritten, Outcomes, OpPositive, Written, Reached, WrittenFor,
         EarnedBefore, Checking, Executing
<1>0. /\ item \in Item /\ item.rev \in Nat /\ item.op.id \in Nat /\ item.evidence.op \in Nat
      /\ item.binding \in Nat /\ item.op.binding \in Nat
      /\ \A w \in writes : w.op \in Nat /\ w.binding \in Nat
      /\ \A p \in passed : p.op \in Nat
      /\ paused \subseteq Nat
  BY DEF Shape, Item, Op, Evidence
<1>n. item.op.id <= item.rev /\ item.evidence.op <= item.rev /\ item.binding <= item.rev
  BY DEF Operations, Numbered
<1>f. /\ Checking => item.op.kind = "verify" /\ check.op = item.op.id
      /\ Executing => item.op.kind = "formal" /\ item.evidence.outcome = "passed"
      /\ Checking \/ Executing => /\ item.op.binding = item.binding
                                  /\ item.evidence.op < item.op.id
  BY DEF Operations, OperationFits
<1>p. \A t \in Thread : /\ pc[t] \in CheckPoint => Checking
                        /\ pc[t] \in BranchPoint \cup EffectPoint => Executing
  BY DEF Operations, PointsFit
<1>1. CASE Quiet
  <2>1. item'.rev \in Nat
    BY <1>1 DEF Quiet, Item
  <2>2. UNCHANGED <<writes, lent, passed, paused>>
    BY <1>1 DEF Quiet, historyVars
  <2>3. \A t \in Thread : /\ pc'[t] \in BranchPoint => pc[t] \in BranchPoint
                          /\ pc'[t] = "observed" => pc[t] = "observed"
    BY <1>1 DEF Quiet, EffectPoint, BranchPoint
  <2>4. PausedNumbered' /\ CheckPassed' /\ EvidenceEarned' /\ OpPositive' /\ TargetReached'
    BY <1>1, <2>2 DEF Quiet
  <2>5. WritesEarned'
    BY <1>0, <1>1, <2>1, <2>2 DEF Quiet
  <2>6. Unwritten' /\ Outcomes'
    BY <1>1, <2>2, <2>3 DEF Quiet
  <2>. QED
    BY <2>4, <2>5, <2>6
<1>2. ASSUME NEW c \in Client, Pause(c) PROVE History'
  <2>1. /\ UNCHANGED <<target, check, pc, writes, lent, passed>>
        /\ paused' = paused \cup (IF item.status = "checking" THEN {item.op.id} ELSE {})
    BY <1>2 DEF Pause, Command
  <2>2. /\ item'.rev = item.rev + 1
        /\ item'.binding = item.binding /\ item'.evidence = item.evidence /\ item'.op = item.op
        /\ item'.status = CASE item.status = "prepared" -> "paused"
                            [] item.status = "checking" -> "pausing"
                            [] OTHER -> item.status
    BY <1>0, <1>2, PauseSaves
  <2>3. EvidenceEarned'
    BY <1>0, <1>f, <2>1, <2>2
  <2>4. WritesEarned'
    BY <1>0, <2>1, <2>2
  <2>5. PausedNumbered' /\ CheckPassed' /\ TargetReached' /\ Unwritten' /\ Outcomes' /\ OpPositive'
    BY <1>0, <2>1, <2>2
  <2>. QED
    BY <2>3, <2>4, <2>5
<1>3. ASSUME NEW c \in Client, Resume(c) PROVE History'
  <2>1. UNCHANGED <<target, check, pc, writes, lent, passed, paused>> /\ item.status = "paused"
    BY <1>3 DEF Resume, Command
  <2>. QED
    BY <1>0, <1>3, <2>1, ResumeSaves
<1>4. ASSUME NEW c \in Client, Revise(c) PROVE History'
  <2>1. UNCHANGED <<target, check, pc, writes, lent, passed, paused>> /\ target \in Int
        /\ item.status \notin {"executing", "checking", "pausing", "paused"}
    BY <1>4 DEF Revise, Command, Shape
  <2>. QED
    BY <1>0, <1>n, <1>4, <2>1, ReviseSaves, NothingShown
<1>5. ASSUME NEW t \in Thread, Verify(t) PROVE History'
  <2>1. /\ UNCHANGED <<target, writes, lent, passed, paused>> /\ item.status = "prepared"
        /\ check'.state = "prepared" /\ Goto(t, "testing") /\ itemLease = None
    BY <1>5 DEF Verify, Enter, historyVars
  <2>2. \A u \in Thread : pc'[u] # "observed" /\ pc'[u] \notin BranchPoint
    BY <2>1, Free, Went DEF ItemPoint, BranchPoint, EffectPoint
  <2>. QED
    BY <1>0, <1>n, <1>5, <2>1, <2>2, VerifySaves
<1>6. ASSUME NEW t \in Thread, Execute(t) PROVE History'
  <2>1. /\ UNCHANGED <<target, check, writes, lent, passed, paused>> /\ item.status = "prepared"
        /\ Goto(t, "writing") /\ itemLease = None
    BY <1>6 DEF Execute, Enter, historyVars
  <2>2. \A u \in Thread : pc'[u] # "observed"
    BY <2>1, Free, Went DEF ItemPoint, EffectPoint
  <2>. QED
    BY <1>0, <1>n, <1>6, <2>1, <2>2, ExecuteSaves
<1>7. ASSUME NEW t \in Thread, StartTest(t) PROVE History'
  <2>1. UNCHANGED <<item, target, pc, writes, lent, passed, paused>> /\ check'.state = "running"
    BY <1>7 DEF StartTest, threadVars, historyVars, Shape
  <2>. QED
    BY <2>1
<1>8. ASSUME NEW t \in Thread, FinishTest(t) PROVE History'
  <2>1. PICK result \in {"passed", "failed", "cleanup"} :
          /\ check'.op = check.op /\ check'.state = "finished" /\ check'.result = result
          /\ passed' = IF result = "passed"
                       THEN passed \cup {[op |-> check.op, binding |-> item.op.binding]}
                       ELSE passed
    BY <1>8 DEF FinishTest, Shape
  <2>2. UNCHANGED <<item, target, writes, lent, paused>> /\ pc[t] = "testing" /\ Goto(t, "recording")
    BY <1>8 DEF FinishTest
  <2>3. check.op = item.op.id /\ item.op.binding = item.binding
    BY <1>f, <1>p, <2>2 DEF CheckPoint
  <2>4. \A u \in Thread : /\ pc'[u] \in BranchPoint => pc[u] \in BranchPoint
                          /\ pc'[u] = "observed" => pc[u] = "observed"
    BY <2>2, Went DEF BranchPoint
  <2>5. passed \subseteq passed'
    BY <2>1
  <2>6. EvidenceEarned' /\ WritesEarned'
    BY <2>2, <2>5
  <2>7. CheckPassed'
    BY <2>1, <2>2, <2>3
  <2>8. PausedNumbered' /\ TargetReached' /\ Unwritten' /\ Outcomes' /\ OpPositive'
    BY <2>2, <2>4
  <2>. QED
    BY <2>6, <2>7, <2>8
\* What is recorded as passed was found by the check of this plan.
<1>9. ASSUME NEW t \in Thread, NEW outcome \in {"passed", "failed"},
             Record(outcome), pc[t] \in CheckPoint,
             outcome = "passed" => check.state = "finished" /\ check.result = "passed",
             UNCHANGED <<target, check, writes, lent, passed, paused>>,
             \A u \in Thread : u # t => pc'[u] = pc[u],
             pc'[t] \notin BranchPoint \cup EffectPoint
      PROVE  History'
  <2>1. \A u \in Thread : pc'[u] \notin BranchPoint \cup EffectPoint
    BY <1>9, Alone DEF ItemPoint
  <2>2. /\ item'.rev = item.rev + 1 /\ item'.binding = item.binding
        /\ item'.status = IF item.status = "pausing" THEN "paused" ELSE "prepared"
        /\ item'.evidence.op = item.op.id
        /\ item'.evidence.outcome = IF item.status = "pausing" THEN "failed" ELSE outcome
        /\ item'.op.id = item.op.id /\ item'.op.kind = item.op.kind
        /\ item'.op.binding = item.op.binding
    BY <1>0, <1>9, RecordSaves
  <2>3. Checking
    BY <1>9, <1>p
  <2>4. EvidenceEarned'
    BY <1>9, <2>2, <2>3
  <2>5. WritesEarned'
    BY <1>0, <1>9, <2>2
  <2>6. PausedNumbered' /\ CheckPassed' /\ TargetReached' /\ OpPositive'
    BY <1>9, <2>2
  <2>7. Unwritten' /\ Outcomes'
    BY <1>9, <2>1, <2>2, <2>3 DEF EffectPoint
  <2>. QED
    BY <2>4, <2>5, <2>6, <2>7
<1>10. ASSUME NEW t \in Thread, RecordCheck(t) PROVE History'
  <2>1. /\ pc[t] = "recording" /\ UNCHANGED <<target, check, writes, lent, passed, paused>>
        /\ \E result : Leave(t, result)
    BY <1>10 DEF RecordCheck, historyVars
  <2>2. /\ \A u \in Thread : u # t => pc'[u] = pc[u]
        /\ pc'[t] \in {"stepped", "idle"}
    BY <2>1, Left
  <2>3. CASE check.result = "cleanup"
    <3>1. item'.rev = item.rev + 1 /\ item'.status = item.status
          /\ item'.binding = item.binding /\ item'.evidence = item.evidence
          /\ item'.op.id = item.op.id /\ item'.op.kind = item.op.kind
          /\ item'.op.binding = item.op.binding
      BY <1>0, <1>10, <2>3, OperationSaves DEF RecordCheck
    <3>2. \A u \in Thread : /\ pc'[u] \in BranchPoint => pc[u] \in BranchPoint
                            /\ pc'[u] = "observed" => pc[u] = "observed"
      BY <2>2 DEF BranchPoint
    <3>3. WritesEarned'
      BY <1>0, <2>1, <3>1
    <3>4. /\ PausedNumbered' /\ CheckPassed' /\ EvidenceEarned'
          /\ TargetReached' /\ Unwritten' /\ Outcomes' /\ OpPositive'
      BY <2>1, <3>1, <3>2
    <3>. QED
      BY <3>3, <3>4
  <2>4. CASE check.result # "cleanup"
    <3>1. /\ check.result \in {"passed", "failed"} /\ Record(check.result)
          /\ check.state = "finished"
      BY <1>10, <2>1, <2>4 DEF RecordCheck, Shape, Operations, TesterKnown
    <3>. QED
      BY <1>9, <2>1, <2>2, <3>1 DEF CheckPoint, BranchPoint, EffectPoint
  <2>. QED
    BY <2>3, <2>4
<1>11. ASSUME NEW c \in Client, RecoverCheck(c) PROVE History'
  <2>1. /\ pc[c] = "recovering" /\ UNCHANGED <<target, check, writes, lent, passed, paused>>
        /\ Leave(c, "committed") \/ Goto(c, "interrupt")
    BY <1>11 DEF RecoverCheck, historyVars
  <2>2. /\ \A u \in Thread : u # c => pc'[u] = pc[u]
        /\ pc'[c] \in {"idle", "interrupt"}
    BY <2>1, Left, Went
  <2>3. PICK outcome \in {"passed", "failed"} :
          /\ Record(outcome)
          /\ outcome = "passed" => check.state = "finished" /\ check.result = "passed"
    BY <1>11 DEF RecoverCheck, Shape
  <2>. QED
    BY <1>9, <2>1, <2>2, <2>3 DEF CheckPoint, BranchPoint, EffectPoint
<1>12. ASSUME NEW c \in Client, RetireTester(c) PROVE History'
  <2>1. /\ UNCHANGED <<item, target, writes, lent, passed, paused>> /\ Goto(c, "recovering")
        /\ check'.state = check.state /\ check'.result = check.result
    BY <1>12 DEF RetireTester, Shape, historyVars
  <2>2. \A u \in Thread : /\ pc'[u] \in BranchPoint => pc[u] \in BranchPoint
                          /\ pc'[u] = "observed" => pc[u] = "observed"
    BY <2>1, Went DEF BranchPoint
  <2>. QED
    BY <2>1, <2>2
\* The branch is moved for a version of the plan that has moved nothing before.
<1>13. ASSUME NEW t \in Thread, UpdateRef(t) PROVE History'
  <2>1. /\ pc[t] = "updating" /\ UNCHANGED <<item, check, lent, passed, paused>>
        /\ Goto(t, "observing") \/ Leave(t, "ambiguous")
    BY <1>13 DEF UpdateRef
  <2>2. \A u \in Thread : pc'[u] # "observed" /\ pc'[u] \notin BranchPoint
    BY <2>1, Left, Went, Alone DEF ItemPoint, BranchPoint, EffectPoint
  <2>3. /\ item.status = "executing" /\ ~WrittenFor(item.binding)
        /\ item.op.kind = "formal" /\ item.op.binding = item.binding
    BY <1>f, <1>p, <2>1 DEF BranchPoint
  <2>4. EarnedBefore(item.binding, item.op.id)
    <3>1. /\ [op |-> item.evidence.op, binding |-> item.binding] \in passed
          /\ item.evidence.op \notin paused /\ item.evidence.op < item.op.id
      BY <1>f, <2>3
    <3>. QED
      BY <3>1
  <2>5. PausedNumbered' /\ CheckPassed' /\ EvidenceEarned' /\ Unwritten' /\ Outcomes' /\ OpPositive'
    BY <2>1, <2>2, <2>3
  <2>6. CASE UNCHANGED <<target, writes>>
    <3>1. WritesEarned' /\ TargetReached'
      BY <2>1, <2>6
    <3>. QED
      BY <2>5, <3>1
  <2>7. CASE ~ UNCHANGED <<target, writes>>
    <3>. DEFINE move == [op |-> item.op.id, binding |-> item.binding,
                         from |-> target, planned |-> item.base]
    <3>1. /\ target = item.base /\ target' = item.op.id
          /\ writes' = writes \cup {move}
      BY <1>13, <2>3, <2>7 DEF UpdateRef
    <3>2. /\ move.op = item.op.id /\ move.binding = item.binding
          /\ move.from = move.planned
      BY <3>1
    <3>. HIDE DEF move
    <3>3. WritesEarned'
      BY <1>0, <1>n, <2>1, <2>3, <2>4, <3>1, <3>2
    <3>4. TargetReached'
      BY <2>1, <3>1, <3>2
    <3>. QED
      BY <2>5, <3>3, <3>4
  <2>. QED
    BY <2>6, <2>7
\* The branch at this very commit shows that it was brought there.
<1>14. ASSUME NEW t \in Thread, Observe(t) PROVE History'
  <2>1. /\ pc[t] = "observing" /\ UNCHANGED <<item, target, check, writes, lent, passed, paused>>
        /\ (Goto(t, "observed") /\ target = item.op.id) \/ Leave(t, "ambiguous")
    BY <1>14 DEF Observe, historyVars
  <2>2. Executing
    BY <1>p, <2>1 DEF EffectPoint
  <2>3. \A u \in Thread : /\ pc'[u] \in BranchPoint => pc[u] \in BranchPoint
                          /\ pc'[u] = "observed" => pc[u] = "observed" \/ target = item.op.id
    BY <2>1, Went, Left DEF BranchPoint
  <2>4. target = item.op.id => Reached(item.op.id)
    BY <1>0, <2>2 DEF Initial, Theirs
  <2>5. Outcomes' /\ Unwritten'
    BY <1>f, <2>1, <2>2, <2>3, <2>4
  <2>. QED
    BY <2>1, <2>5
<1>15. ASSUME NEW c \in Client, ObserveAgain(c) PROVE History'
  <2>1. /\ UNCHANGED <<item, target, check, writes, lent, passed, paused>> /\ Goto(c, "observing")
    BY <1>15 DEF ObserveAgain, historyVars
  <2>2. \A u \in Thread : /\ pc'[u] \in BranchPoint => pc[u] \in BranchPoint
                          /\ pc'[u] = "observed" => pc[u] = "observed"
    BY <2>1, Went DEF BranchPoint
  <2>. QED
    BY <2>1, <2>2
<1>16. ASSUME NEW t \in Thread, RecordEffect(t) \/ RecordRefusal(t) PROVE History'
  <2>1. /\ pc[t] \in {"observed", "refusing"}
        /\ UNCHANGED <<target, check, writes, lent, passed, paused>>
        /\ Goto(t, "interrupt") \/ \E result : Leave(t, result)
    BY <1>16 DEF RecordEffect, RecordRefusal, historyVars
  <2>2. \A u \in Thread : pc'[u] # "observed" /\ pc'[u] \notin BranchPoint
    BY <2>1, Left, Went, Alone DEF ItemPoint, BranchPoint, EffectPoint
  <2>3. Executing
    BY <1>p, <2>1 DEF BranchPoint, EffectPoint
  <2>4. CASE UNCHANGED item
    BY <2>1, <2>2, <2>3, <2>4
  <2>5. CASE RecordEffect(t) /\ ~ UNCHANGED item
    <3>1. /\ item'.rev = item.rev + 1 /\ item'.status = "integrated"
          /\ item'.binding = item.binding /\ item'.evidence = item.evidence
          /\ item'.op.id = item.op.id /\ item'.op.kind = item.op.kind
          /\ item'.op.binding = item.op.binding
      BY <1>0, <2>5, EffectSaves DEF RecordEffect
    <3>2. pc[t] = "observed"
      BY <2>5 DEF RecordEffect
    <3>3. WritesEarned'
      BY <1>0, <2>1, <3>1
    <3>4. Outcomes' /\ Unwritten'
      BY <2>1, <2>2, <3>1, <3>2
    <3>. QED
      BY <2>1, <2>3, <3>1, <3>3, <3>4
  <2>6. CASE RecordRefusal(t) /\ ~ UNCHANGED item
    <3>1. /\ item'.rev = item.rev + 1 /\ item'.status = "failed"
          /\ item'.binding = item.rev + 1 /\ item'.evidence = NoEvidence
          /\ item'.op.id = item.op.id /\ item'.op.kind = item.op.kind
          /\ item'.op.binding = item.op.binding
      BY <1>0, <2>6, RefusalSaves DEF RecordRefusal
    <3>2. pc[t] = "refusing"
      BY <2>6 DEF RecordRefusal
    <3>3. ~Written(item.op.id)
      BY <1>f, <2>3, <3>2 DEF BranchPoint
    <3>4. WritesEarned'
      BY <1>0, <2>1, <3>1
    <3>5. Outcomes' /\ Unwritten'
      BY <1>0, <1>n, <2>1, <2>2, <3>1, <3>3
    <3>. QED
      BY <2>1, <3>1, <3>4, <3>5, NothingShown
  <2>. QED
    BY <1>16, <2>4, <2>5, <2>6
<1>17. CASE Lending
  <2>1. UNCHANGED <<item, check, pc, writes, passed, paused>>
    BY <1>17 DEF Lending
  <2>2. lent \subseteq lent' /\ target' = item.op.id /\ \E l \in lent' : l.op = item.op.id
    <3>. DEFINE move == [op |-> item.op.id, binding |-> item.op.binding]
    <3>1. /\ move.op = item.op.id
          /\ target' = item.op.id /\ lent' = lent \cup {move}
      BY <1>17 DEF Lending
    <3>. HIDE DEF move
    <3>. QED
      BY <3>1
  <2>. QED
    BY <2>1, <2>2
<1>. QED
  BY QuietOrTelling, <1>1, <1>2, <1>3, <1>4, <1>5, <1>6, <1>7, <1>8, <1>10, <1>11, <1>12, <1>13,
     <1>14, <1>15, <1>16, <1>17 DEF Telling

\* Whoever brings the branch to a result does so for the plan of that operation.
LentFits ==
  \A l \in lent : /\ l.op <= item.op.id
                  /\ l.op = item.op.id => item.op.kind = "formal" /\ l.binding = item.op.binding

\* An operation is never made anew under its number.
LEMMA LentStep ==
  ASSUME Shape, Operations, LentFits, [Next]_vars
  PROVE  LentFits'
<1>0. /\ item \in Item /\ item.rev \in Nat /\ item.op.id \in Nat /\ item.op.id <= item.rev
      /\ \A l \in lent : l.op \in Nat
  BY DEF Shape, Item, Op, Operations, Numbered
<1>1. ASSUME UNCHANGED lent, item'.op.id = item.op.id, item'.op.kind = item.op.kind,
             item'.op.binding = item.op.binding
      PROVE  LentFits'
  BY <1>1 DEF LentFits
<1>2. ASSUME UNCHANGED lent, item'.op.id = item.rev + 1 PROVE LentFits'
  BY <1>0, <1>2 DEF LentFits
<1>3. CASE Quiet
  BY <1>1, <1>3 DEF Quiet, historyVars
<1>4. CASE Lending
  <2>1. UNCHANGED item
    BY <1>4 DEF Lending
  <2>. QED
    BY <1>0, <1>4, <2>1 DEF Lending, LentFits
<1>5. ASSUME NEW t \in Thread, Verify(t) \/ Execute(t) PROVE LentFits'
  <2>1. UNCHANGED lent
    BY <1>5 DEF Verify, Execute, historyVars
  <2>. QED
    BY <1>0, <1>2, <1>5, <2>1, VerifySaves, ExecuteSaves
<1>6. ASSUME NEW c \in Client, Pause(c) \/ Resume(c) \/ Revise(c) PROVE LentFits'
  <2>1. UNCHANGED lent
    BY <1>6 DEF Pause, Resume, Revise, Command
  <2>2. item'.op = item.op
    BY <1>0, <1>6, PauseSaves, ResumeSaves, ReviseSaves DEF Shape
  <2>. QED
    BY <1>1, <2>1, <2>2
<1>7. ASSUME NEW t \in Thread,
             StartTest(t) \/ FinishTest(t) \/ UpdateRef(t) \/ Observe(t) \/ RetireTester(t) \/ ObserveAgain(t)
      PROVE  LentFits'
  <2>1. UNCHANGED <<item, lent>>
    BY <1>7 DEF StartTest, FinishTest, UpdateRef, Observe, RetireTester, ObserveAgain, historyVars
  <2>. QED
    BY <1>1, <2>1
<1>8. ASSUME NEW t \in Thread, RecordCheck(t) \/ RecoverCheck(t) \/ RecordEffect(t) \/ RecordRefusal(t)
      PROVE  LentFits'
  <2>1. UNCHANGED lent
    BY <1>8 DEF RecordCheck, RecoverCheck, RecordEffect, RecordRefusal, historyVars
  <2>2. CASE UNCHANGED item
    BY <1>1, <2>1, <2>2
  <2>3. CASE \E outcome \in {"passed", "failed"} : Record(outcome)
    BY <1>0, <1>1, <2>1, <2>3, RecordSaves
  <2>4. CASE ~ UNCHANGED item /\ ~ \E outcome \in {"passed", "failed"} : Record(outcome)
    <3>1. item'.op.id = item.op.id /\ item'.op.kind = item.op.kind /\ item'.op.binding = item.op.binding
      BY <1>0, <1>8, <2>4, OperationSaves, EffectSaves, RefusalSaves
         DEF RecordCheck, RecoverCheck, RecordEffect, RecordRefusal, Shape
    <3>. QED
      BY <1>1, <2>1, <3>1
  <2>. QED
    BY <2>2, <2>3, <2>4
<1>. QED
  BY QuietOrTelling, <1>3, <1>4, <1>5, <1>6, <1>7, <1>8, Threads DEF Telling

-----------------------------------------------------------------------------
(* Runs.                                                                   *)

Queued(n) == \E h \in Host : \E i \in 1 .. Len(queue[h]) : queue[h][i] = n
Submitted(n) == \E c \in Client : pc[c] = "submit" /\ loaded[c] = n

RunNumbered ==
  /\ \A t \in Thread : loaded[t] <= item.rev
  /\ \A h \in Host : drv[h] <= item.rev /\ \A i \in 1 .. Len(queue[h]) : queue[h][i] <= item.rev
\* A run is taken from a queue once, by one worker.
LaunchedOnce ==
  /\ \A c, d \in Client : pc[c] = "submit" /\ pc[d] = "submit" /\ loaded[c] = loaded[d] => c = d
  /\ \A c \in Client : pc[c] = "submit" => ~Queued(loaded[c])
  /\ \A g, h \in Host : \A i \in 1 .. Len(queue[g]), j \in 1 .. Len(queue[h]) :
       queue[g][i] = queue[h][j] => g = h /\ i = j
  /\ \A h \in Host : pc[h] # "idle" => ~Queued(drv[h]) /\ ~Submitted(drv[h])
NotBegun == Queued(item.run.id) \/ Submitted(item.run.id) => item.run.next = 0

NextStep == item.run.steps[item.run.next + 1]
ToExecute == item.run.steps # <<"verify">>
RunReached == ReachedFor(item.run.binding)

\* A worker that has looked drives the run the item has, ...
Driving(h) ==
  /\ pc[h] \notin {"idle", "drive"} => item.run.id = drv[h] /\ item.run.state \in Active
  /\ pc[h] \notin {"idle", "drive", "block", "complete"} => item.run.next < Len(item.run.steps)
\* ... is in the command of the step that is next, ...
StepFits(h) ==
  /\ pc[h] \in CheckPoint => NextStep = "verify"
  /\ pc[h] \in BranchPoint \cup EffectPoint =>
       NextStep = "execute" /\ item.binding = item.run.binding
\* ... begins it only if nothing has come in between, ...
AsSeen(h) ==
  pc[h] \in {"begin", "step"} /\ loaded[h] = item.rev =>
    item.status = "prepared" /\ item.binding = item.run.binding /\ item.run.state # "stopping"
\* ... and takes for done what was done.
Reported(h) ==
  /\ pc[h] = "stepped" /\ reply[h] = "committed" /\ NextStep = "execute" => RunReached
  /\ ToExecute =>
       /\ pc[h] = "complete" => RunReached
       /\ pc[h] = "drive" /\ item.run.id = drv[h] /\ item.run.next = Len(item.run.steps)
            => RunReached
WorkerFits(h) == Driving(h) /\ StepFits(h) /\ AsSeen(h) /\ Reported(h)

StepsLeft == item.run.next <= Len(item.run.steps)
Completed == item.run.state = "completed" /\ ToExecute => RunReached

Runs ==
  /\ RunNumbered /\ LaunchedOnce /\ NotBegun /\ StepsLeft /\ Completed
  /\ \A h \in Host : WorkerFits(h)

\* A run of more than a check ends with the move of the branch.
LEMMA Steps ==
  \A s \in StepLists : Len(s) \in 1 .. 2 /\ (s # <<"verify">> => s[Len(s)] = "execute")
BY DEF StepLists

\* One worker at a time is at work.
LEMMA Sole ==
  ASSUME Leases, NEW h \in Host, pc[h] # "idle"
  PROVE  \A g \in Host : g # h => pc[g] = "idle"
BY DEF Leases, RunLeased

\* There is no run at first.
LEMMA RunsInit == Init => Runs
<1>. SUFFICES ASSUME Init PROVE Runs
  OBVIOUS
<1>1. /\ item.rev = 1 /\ item.run = NoRun
      /\ \A t \in Thread : pc[t] = "idle" /\ loaded[t] = 0
      /\ \A h \in Host : drv[h] = 0 /\ queue[h] = <<>>
  BY DEF Init
<1>2. item.run.id = 0 /\ item.run.next = 0 /\ item.run.state = "none" /\ item.run.steps \in StepLists
  BY <1>1 DEF NoRun, StepLists
<1>3. \A h \in Host : Len(queue[h]) = 0
  BY <1>1
<1>4. RunNumbered /\ LaunchedOnce /\ NotBegun
  BY <1>1, <1>2, <1>3, Threads DEF RunNumbered, LaunchedOnce, NotBegun, Queued, Submitted
<1>5. StepsLeft /\ Completed
  BY <1>2, Steps DEF StepsLeft, Completed
<1>6. ASSUME NEW h \in Host PROVE WorkerFits(h)
  BY <1>1, Threads DEF WorkerFits, Driving, StepFits, AsSeen, Reported, CheckPoint, BranchPoint, EffectPoint
<1>. QED
  BY <1>4, <1>5, <1>6 DEF Runs

\* A step that halts the run or leaves it as it is.
Calm ==
  /\ item' \in Item /\ (item' = item \/ item.rev < item'.rev)
  /\ item'.run.id = item.run.id /\ item'.run.steps = item.run.steps
  /\ item'.run.next = item.run.next /\ item'.run.binding = item.run.binding
  /\ item'.run.state = item.run.state \/ {item.run.state, item'.run.state} \subseteq Active
  /\ \A h \in Host : pc'[h] \in BranchPoint \cup EffectPoint => item'.binding = item.binding
  /\ writes \subseteq writes' /\ lent \subseteq lent'
  /\ UNCHANGED <<queue, drv>>

\* It keeps what was written for the run, and its next step.
LEMMA CalmNumbers ==
  ASSUME Shape, Calm
  PROVE  /\ item.rev \in Nat /\ item'.rev \in Nat /\ item.rev <= item'.rev
         /\ RunReached => RunReached'
         /\ NextStep' = NextStep /\ ToExecute' = ToExecute
BY DEF Shape, Calm, Item, RunReached, ReachedFor, NextStep, ToExecute

\* Under it a worker that does not move is as it was.
LEMMA WorkerKept ==
  ASSUME Shape, Calm, NEW h \in Host, WorkerFits(h), loaded[h] <= item.rev,
         pc'[h] = pc[h], loaded'[h] = loaded[h], reply'[h] = reply[h]
  PROVE  WorkerFits(h)'
<1>1. h \in Thread /\ loaded[h] \in Nat
  BY Threads DEF Shape
<1>2. Driving(h)'
  BY DEF WorkerFits, Driving, Calm
<1>3. StepFits(h)'
  BY CalmNumbers DEF WorkerFits, StepFits, Calm
<1>4. AsSeen(h)'
  BY <1>1, CalmNumbers DEF WorkerFits, AsSeen, Calm
<1>5. Reported(h)'
  BY CalmNumbers DEF WorkerFits, Reported, Calm
<1>. QED
  BY <1>2, <1>3, <1>4, <1>5 DEF WorkerFits

\* A calm step of one thread, of which only a worker has anything to show.
LEMMA CalmStep ==
  ASSUME Shape, Runs, Calm, NEW t \in Thread,
         \A u \in Thread : u # t => pc'[u] = pc[u] /\ loaded'[u] = loaded[u],
         \A g \in Host : g # t => reply'[g] = reply[g],
         loaded'[t] = loaded[t] \/ loaded'[t] = item'.rev,
         t \in Client => pc[t] # "submit" /\ pc'[t] # "submit",
         t \in Host => /\ pc[t] = "idle" => pc'[t] = "idle"
                       /\ WorkerFits(t)'
  PROVE  Runs'
<1>1. /\ item.rev \in Nat /\ item'.rev \in Nat /\ item.rev <= item'.rev
      /\ RunReached => RunReached'
      /\ ToExecute' = ToExecute
  BY CalmNumbers
<1>2. /\ \A u \in Thread : loaded[u] \in Nat /\ loaded[u] <= item.rev
      /\ \A h \in Host : /\ drv[h] \in Nat /\ drv[h] <= item.rev
                         /\ \A i \in 1 .. Len(queue[h]) : queue[h][i] \in Nat /\ queue[h][i] <= item.rev
  BY DEF Shape, Runs, RunNumbered
<1>3. UNCHANGED <<queue, drv>>
  BY DEF Calm
<1>4. RunNumbered'
  BY <1>1, <1>2, <1>3 DEF RunNumbered
<1>5. \A c \in Client : pc'[c] = "submit" => pc[c] = "submit" /\ loaded'[c] = loaded[c]
  BY Threads
<1>6. \A n : /\ Queued(n)' => Queued(n)
             /\ Submitted(n)' => Submitted(n)
  BY <1>3, <1>5 DEF Queued, Submitted
<1>7. LaunchedOnce'
  <2>1. \A h \in Host : pc'[h] # "idle" => pc[h] # "idle"
    BY Threads
  <2>2. \A h \in Host : pc'[h] # "idle" => ~Queued(drv[h])' /\ ~Submitted(drv[h])'
    BY <1>3, <1>6, <2>1 DEF Runs, LaunchedOnce
  <2>3. \A c \in Client : pc'[c] = "submit" => ~Queued(loaded[c])'
    BY <1>5, <1>6 DEF Runs, LaunchedOnce
  <2>. QED
    BY <1>3, <1>5, <2>2, <2>3 DEF Runs, LaunchedOnce
<1>8. NotBegun'
  BY <1>6 DEF Runs, NotBegun, Calm
<1>9. StepsLeft' /\ Completed'
  BY <1>1 DEF Runs, StepsLeft, Completed, Calm, Active
<1>10. ASSUME NEW h \in Host PROVE WorkerFits(h)'
  BY <1>2, WorkerKept, Threads DEF Runs
<1>. QED
  BY <1>4, <1>7, <1>8, <1>9, <1>10 DEF Runs

\* A worker that goes on within its command, or comes back from it.
LEMMA WorkerMoves ==
  ASSUME Shape, Calm, NEW h \in Host, WorkerFits(h),
         pc[h] \in CheckPoint \cup BranchPoint \cup EffectPoint,
         \/ {pc[h], pc'[h]} \subseteq CheckPoint
         \/ {pc[h], pc'[h]} \subseteq BranchPoint \cup EffectPoint
         \/ pc'[h] = "stepped" /\ (reply'[h] = "committed" /\ NextStep = "execute" => RunReached')
  PROVE  WorkerFits(h)'
<1>1. Driving(h)'
  BY DEF WorkerFits, Driving, Calm, CheckPoint, BranchPoint, EffectPoint
<1>2. StepFits(h)'
  BY CalmNumbers DEF WorkerFits, StepFits, Calm, CheckPoint, BranchPoint, EffectPoint
<1>3. AsSeen(h)' /\ Reported(h)'
  BY CalmNumbers DEF AsSeen, Reported, CheckPoint, BranchPoint, EffectPoint
<1>. QED
  BY <1>1, <1>2, <1>3 DEF WorkerFits

\* A calm step within a command, or out of it.
LEMMA CommandMoves ==
  ASSUME Shape, Leases, Runs, Calm, NEW t \in Thread,
         \A u \in Thread : u # t => pc'[u] = pc[u] /\ loaded'[u] = loaded[u],
         \A g \in Host : g # t => reply'[g] = reply[g],
         loaded'[t] = loaded[t] \/ loaded'[t] = item'.rev,
         pc[t] \in ItemPoint, pc'[t] # "submit",
         t \in Host =>
           \/ {pc[t], pc'[t]} \subseteq CheckPoint
           \/ {pc[t], pc'[t]} \subseteq BranchPoint \cup EffectPoint
           \/ pc'[t] = "stepped" /\ (reply'[t] = "committed" /\ NextStep = "execute" => RunReached')
  PROVE  Runs'
<1>1. pc[t] # "submit" /\ pc[t] # "idle"
  BY DEF ItemPoint, CheckPoint, BranchPoint, EffectPoint, ClosePoint
<1>2. ASSUME t \in Host PROVE WorkerFits(t)'
  BY <1>2, WorkerMoves DEF Runs, Leases, Places, ItemPoint
<1>. QED
  BY <1>1, <1>2, CalmStep

\* The others keep their replies.
LEMMA LeftOthers ==
  ASSUME Shape, NEW t \in Thread, NEW result, Leave(t, result)
  PROVE  \A g \in Host : g # t => reply'[g] = reply[g]
BY DEF Shape, Leave

\* Steps that save nothing of the run, or nothing at all, are calm.
LEMMA StillIsCalm ==
  ASSUME Shape, item' = item, writes \subseteq writes', lent \subseteq lent',
         UNCHANGED <<queue, drv>>
  PROVE  Calm
BY DEF Shape, Calm

\* So is a save of anything else of the item.
LEMMA SaveIsCalm ==
  ASSUME Shape, item' \in Item, item'.rev = item.rev + 1, item'.run = item.run,
         item'.binding = item.binding \/ \A h \in Host : pc'[h] \notin BranchPoint \cup EffectPoint,
         UNCHANGED <<writes, lent, queue, drv>>
  PROVE  Calm
BY DEF Shape, Calm, Item

\* The steps of a command: a worker is told `committed' only of what is written.
LEMMA CommandStepRuns ==
  ASSUME Shape, Leases, Operations, History, LentFits, Runs, NEW t \in Thread, CommandStep(t)
  PROVE  Runs'
<1>. USE Threads DEF CheckPoint, BranchPoint, EffectPoint
<1>0. item \in Item /\ \A h \in Host : WorkerFits(h)
  BY DEF Shape, Runs
<1>1. CASE StartTest(t) \/ FinishTest(t) \/ EnterTransaction(t) \/ RefuseWrite(t)
  <2>1. UNCHANGED <<item, queue, drv, writes, lent, reply>>
    BY <1>1 DEF StartTest, FinishTest, EnterTransaction, RefuseWrite, threadVars, hostVars, historyVars
  <2>2. \/ {pc[t], pc'[t]} \subseteq CheckPoint
        \/ {pc[t], pc'[t]} \subseteq BranchPoint \cup EffectPoint
    BY <1>1, Went DEF StartTest, FinishTest, EnterTransaction, RefuseWrite, threadVars
  <2>3. \A u \in Thread : u # t => pc'[u] = pc[u] /\ loaded'[u] = loaded[u]
    <3>1. UNCHANGED pc \/ \E label : Goto(t, label)
      BY <1>1 DEF StartTest, FinishTest, EnterTransaction, RefuseWrite, threadVars
    <3>2. UNCHANGED loaded \/ loaded' = [loaded EXCEPT ![t] = item.rev]
      BY <1>1 DEF StartTest, FinishTest, EnterTransaction, RefuseWrite, threadVars
    <3>. QED
      BY <3>1, <3>2, Went DEF Shape
  <2>4. loaded'[t] = loaded[t] \/ loaded'[t] = item'.rev
    BY <1>1, <2>1 DEF StartTest, FinishTest, EnterTransaction, RefuseWrite, threadVars, Shape
  <2>5. Calm
    BY <2>1, StillIsCalm
  <2>. QED
    BY <2>1, <2>2, <2>3, <2>4, <2>5, CommandMoves DEF ItemPoint
<1>2. CASE RecordCheck(t)
  <2>1. /\ pc[t] = "recording" /\ UNCHANGED <<queue, drv, writes, lent, loaded>>
        /\ \E result : Leave(t, result)
    BY <1>2 DEF RecordCheck, hostVars, historyVars
  <2>2. /\ \A u \in Thread : u # t => pc'[u] = pc[u]
        /\ \A g \in Host : g # t => reply'[g] = reply[g]
        /\ pc'[t] = IF t \in Host THEN "stepped" ELSE "idle"
    BY <2>1, Left, LeftOthers
  <2>3. /\ item' \in Item /\ item'.rev = item.rev + 1 /\ item'.run = item.run
        /\ item'.binding = item.binding
    <3>1. CASE check.result = "cleanup"
      BY <1>0, <1>2, <3>1, OperationSaves DEF RecordCheck
    <3>2. CASE check.result # "cleanup"
      <4>1. check.result \in {"passed", "failed"} /\ Record(check.result)
        BY <1>2, <3>2 DEF RecordCheck, Shape
      <4>. QED
        BY <1>0, <4>1, RecordSaves
    <3>. QED
      BY <3>1, <3>2
  <2>4. t \in Host => NextStep = "verify"
    BY <1>0, <2>1 DEF WorkerFits, StepFits
  <2>5. Calm
    BY <2>1, <2>3, SaveIsCalm
  <2>. QED
    BY <2>1, <2>2, <2>4, <2>5, CommandMoves DEF ItemPoint
<1>3. CASE UpdateRef(t) \/ Observe(t)
  <2>1. /\ pc[t] \in {"updating", "observing"}
        /\ UNCHANGED <<item, queue, drv, lent>> /\ writes \subseteq writes'
    BY <1>3 DEF UpdateRef, Observe, hostVars, historyVars
  <2>2. CASE Leave(t, "ambiguous") /\ UNCHANGED loaded
    <3>1. /\ \A u \in Thread : u # t => pc'[u] = pc[u]
          /\ \A g \in Host : g # t => reply'[g] = reply[g]
          /\ t \in Host => pc'[t] = "stepped" /\ reply'[t] = "ambiguous"
          /\ pc'[t] # "submit"
      BY <2>2, Left, LeftOthers
    <3>2. Calm
      BY <2>1, StillIsCalm
    <3>. QED
      BY <2>1, <2>2, <3>1, <3>2, CommandMoves DEF ItemPoint
  <2>3. CASE \E label \in EffectPoint : Goto(t, label) /\ UNCHANGED reply
    <3>1. /\ \A u \in Thread : u # t => pc'[u] = pc[u]
          /\ pc'[t] \in EffectPoint
      BY <2>3, Went
    <3>2. /\ \A u \in Thread : u # t => loaded'[u] = loaded[u]
          /\ loaded'[t] = loaded[t] \/ loaded'[t] = item'.rev
      BY <1>3, <2>1 DEF UpdateRef, Observe, Shape
    <3>3. Calm
      BY <2>1, StillIsCalm
    <3>. QED
      BY <2>1, <2>3, <3>1, <3>2, <3>3, CommandMoves DEF ItemPoint
  <2>. QED
    BY <1>3, <2>2, <2>3 DEF UpdateRef, Observe
<1>4. CASE RecordEffect(t) \/ RecordRefusal(t)
  <2>1. /\ pc[t] \in {"observed", "refusing"} /\ UNCHANGED <<queue, drv, writes, lent, loaded>>
    BY <1>4 DEF RecordEffect, RecordRefusal, hostVars, historyVars
  <2>2. /\ \A u \in Thread : u # t => pc'[u] = pc[u]
        /\ \A g \in Host : g # t => reply'[g] = reply[g]
        /\ pc'[t] \in {"stepped", "idle", "interrupt"}
        /\ t \in Host => /\ pc'[t] = "stepped"
                         /\ reply'[t] = "committed" => pc[t] = "observed"
    <3>1. CASE t \in Client /\ Goto(t, "interrupt") /\ UNCHANGED reply
      BY <3>1, Went
    <3>2. CASE \E result : Leave(t, result) /\ (result = "committed" => pc[t] = "observed")
      BY <3>2, Left, LeftOthers
    <3>. QED
      BY <1>4, <3>1, <3>2 DEF RecordEffect, RecordRefusal
  <2>3. \A u \in Thread : pc'[u] \notin BranchPoint \cup EffectPoint
    BY <2>1, <2>2, Alone DEF ItemPoint
  <2>4. Calm
    <3>1. CASE UNCHANGED item
      BY <2>1, <3>1, StillIsCalm
    <3>2. CASE ~ UNCHANGED item
      <4>1. item' \in Item /\ item'.rev = item.rev + 1 /\ item'.run = item.run
        BY <1>0, <1>4, <3>2, EffectSaves, RefusalSaves DEF RecordEffect, RecordRefusal
      <4>. QED
        BY <2>1, <2>3, <4>1, SaveIsCalm
    <3>. QED
      BY <3>1, <3>2
  <2>5. pc[t] = "observed" /\ t \in Host => RunReached'
    <3>. SUFFICES ASSUME pc[t] = "observed", t \in Host PROVE RunReached
      BY <2>4, CalmNumbers
    <3>1. Reached(item.op.id) /\ item.op.binding = item.binding
      BY DEF History, Outcomes, Operations, OperationFits, PointsFit
    <3>2. ReachedFor(item.binding)
      BY <3>1 DEF History, WritesEarned, LentFits, Written, Reached, ReachedFor
    <3>3. item.binding = item.run.binding
      BY <1>0 DEF WorkerFits, StepFits
    <3>. QED
      BY <3>2, <3>3 DEF RunReached
  <2>. QED
    BY <2>1, <2>2, <2>4, <2>5, CommandMoves DEF ItemPoint
<1>. QED
  BY <1>1, <1>2, <1>3, <1>4 DEF CommandStep

\* The steps of a reconcile.
LEMMA ReconcileStepRuns ==
  ASSUME Shape, Leases, Operations, History, Runs, NEW c \in Client, ReconcileStep(c)
  PROVE  Runs'
<1>. USE Threads DEF CheckPoint, BranchPoint, EffectPoint, ClosePoint
<1>0. item \in Item /\ item.rev \in Nat /\ c \in Thread /\ c \notin Host
  BY DEF Shape, Item
<1>1. CASE GiveUp(c) \/ RetireTester(c) \/ ObserveAgain(c) \/ LoadAgain(c)
  <2>1. UNCHANGED <<item, queue, drv, writes, lent>> /\ pc[c] \in ClosePoint
    BY <1>1 DEF GiveUp, RetireTester, ObserveAgain, LoadAgain, hostVars, historyVars
  <2>2. /\ \A u \in Thread : u # c => pc'[u] = pc[u]
        /\ \A g \in Host : reply'[g] = reply[g]
        /\ pc'[c] # "submit"
    <3>1. CASE Leave(c, "not_committed")
      BY <1>0, <3>1, Left, LeftOthers
    <3>2. CASE \E label \in ItemPoint : Goto(c, label) /\ UNCHANGED reply
      BY <1>0, <3>2, Went DEF ItemPoint
    <3>. QED
      BY <1>1, <3>1, <3>2 DEF GiveUp, RetireTester, ObserveAgain, LoadAgain, ItemPoint
  <2>3. UNCHANGED loaded \/ loaded' = [loaded EXCEPT ![c] = item.rev]
    BY <1>1 DEF GiveUp, RetireTester, ObserveAgain, LoadAgain
  <2>4. /\ \A u \in Thread : u # c => loaded'[u] = loaded[u]
        /\ loaded'[c] = loaded[c] \/ loaded'[c] = item'.rev
    BY <2>1, <2>3 DEF Shape
  <2>5. Calm
    BY <2>1, StillIsCalm
  <2>. QED
    BY <1>0, <2>1, <2>2, <2>4, <2>5, CommandMoves DEF ItemPoint
<1>2. CASE RecoverCheck(c)
  <2>1. /\ pc[c] = "recovering" /\ UNCHANGED <<queue, drv, writes, lent, loaded>>
        /\ Leave(c, "committed") \/ (Goto(c, "interrupt") /\ UNCHANGED reply)
    BY <1>2 DEF RecoverCheck, hostVars, historyVars
  <2>2. /\ \A u \in Thread : u # c => pc'[u] = pc[u]
        /\ \A g \in Host : reply'[g] = reply[g]
        /\ pc'[c] # "submit"
    BY <1>0, <2>1, Left, LeftOthers, Went
  <2>3. /\ item' \in Item /\ item'.rev = item.rev + 1 /\ item'.run = item.run
        /\ item'.binding = item.binding
    <3>1. PICK outcome \in {"passed", "failed"} : Record(outcome)
      BY <1>2 DEF RecoverCheck, Shape
    <3>. QED
      BY <1>0, <3>1, RecordSaves
  <2>4. Calm
    BY <2>1, <2>3, SaveIsCalm
  <2>. QED
    BY <1>0, <2>1, <2>2, <2>4, CommandMoves DEF ItemPoint
\* Nobody drives the run that is closed.
<1>3. CASE Interrupt(c)
  <2>1. /\ pc[c] \in ClosePoint /\ Leave(c, "committed")
        /\ UNCHANGED <<queue, drv, writes, lent, loaded>>
    BY <1>3 DEF Interrupt, hostVars, historyVars
  <2>2. /\ \A u \in Thread : u # c => pc'[u] = pc[u]
        /\ \A g \in Host : reply'[g] = reply[g]
        /\ pc'[c] = "idle"
    BY <1>0, <2>1, Left, LeftOthers
  <2>3. CASE UNCHANGED item
    <3>1. Calm
      BY <2>1, <2>3, StillIsCalm
    <3>. QED
      BY <1>0, <2>1, <2>2, <3>1, CommandMoves DEF ItemPoint
  <2>4. CASE ~ UNCHANGED item
    <3>1. /\ item'.rev = item.rev + 1 /\ item'.run.id = item.run.id
          /\ item'.run.steps = item.run.steps /\ item'.run.state = "interrupted"
          /\ item'.run.next = item.run.next
      BY <1>0, <1>3, <2>4, InterruptSaves
    <3>2. runLease = c
      BY <2>1 DEF Leases, ReconcileLeased
    <3>3. \A h \in Host : pc'[h] = "idle"
      BY <1>0, <2>2, <3>2 DEF Leases, RunLeased
    <3>4. \A h \in Host : WorkerFits(h)'
      BY <3>3 DEF WorkerFits, Driving, StepFits, AsSeen, Reported
    <3>5. RunNumbered'
      <4>1. /\ \A u \in Thread : loaded[u] \in Nat
            /\ \A h \in Host : drv[h] \in Nat /\ \A i \in 1 .. Len(queue[h]) : queue[h][i] \in Nat
        BY DEF Shape
      <4>. QED
        BY <1>0, <2>1, <3>1, <4>1 DEF Runs, RunNumbered
    <3>6. \A d \in Client : pc'[d] = "submit" => pc[d] = "submit"
      BY <2>2
    <3>7. \A n : (Queued(n)' => Queued(n)) /\ (Submitted(n)' => Submitted(n))
      BY <2>1, <3>6 DEF Queued, Submitted
    <3>8. LaunchedOnce'
      BY <2>1, <3>3, <3>6, <3>7 DEF Runs, LaunchedOnce
    <3>9. NotBegun' /\ StepsLeft' /\ Completed'
      BY <3>1, <3>7 DEF Runs, NotBegun, StepsLeft, Completed
    <3>. QED
      BY <3>4, <3>5, <3>8, <3>9 DEF Runs
  <2>. QED
    BY <2>3, <2>4
<1>. QED
  BY <1>1, <1>2, <1>3 DEF ReconcileStep

\* A worker begins the command of its next step, for the plan of its run.
LEMMA BeginCommandRuns ==
  ASSUME Shape, Leases, Operations, Runs, NEW t \in Thread, Verify(t) \/ Execute(t)
  PROVE  Runs'
<1>. USE Threads DEF CheckPoint, BranchPoint, EffectPoint
<1>0. item \in Item
  BY DEF Shape
<1>1. /\ pc[t] = IF t \in Host THEN "step" ELSE "idle"
      /\ t \in Host => loaded[t] = item.rev
      /\ UNCHANGED <<loaded, reply, queue, drv, writes, lent>>
      /\ itemLease = None
  BY DEF Verify, Execute, Enter, Issue, Unchanged, hostVars, historyVars
<1>2. item' \in Item /\ item'.rev = item.rev + 1 /\ item'.run = item.run /\ item'.binding = item.binding
  BY <1>0, VerifySaves, ExecuteSaves
<1>3. Calm
  BY <1>1, <1>2, SaveIsCalm
<1>4. PICK label \in {"testing", "writing"} :
        /\ Goto(t, label)
        /\ t \in Host => NextStep = IF label = "testing" THEN "verify" ELSE "execute"
  BY DEF Verify, Execute, Enter, NextStep
<1>5. /\ pc'[t] = label
      /\ \A u \in Thread : u # t => pc'[u] = pc[u]
  BY <1>4, Went
<1>6. ASSUME t \in Host PROVE WorkerFits(t)'
  <2>1. WorkerFits(t) /\ pc[t] = "step"
    BY <1>1, <1>6 DEF Runs
  <2>2. Driving(t)'
    BY <1>3, <2>1 DEF WorkerFits, Driving, Calm
  <2>3. item.binding = item.run.binding
    BY <1>1, <1>6, <2>1 DEF WorkerFits, AsSeen
  <2>4. StepFits(t)'
    BY <1>2, <1>3, <1>4, <1>5, <1>6, <2>3, CalmNumbers DEF StepFits
  <2>5. AsSeen(t)' /\ Reported(t)'
    BY <1>5 DEF AsSeen, Reported
  <2>. QED
    BY <2>2, <2>4, <2>5 DEF WorkerFits
<1>. QED
  BY <1>1, <1>3, <1>5, <1>6, CalmStep

\* A new run has a number no queue, client or worker knows of.
LEMMA AdmitRuns ==
  ASSUME Shape, Runs, NEW c \in Client, Admit(c)
  PROVE  Runs'
<1>0. /\ item \in Item /\ item.rev \in Nat /\ c \in Thread
      /\ \A u \in Thread : loaded[u] \in Nat /\ loaded[u] <= item.rev
      /\ \A h \in Host : /\ drv[h] \in Nat /\ drv[h] <= item.rev
                         /\ \A i \in 1 .. Len(queue[h]) : queue[h][i] \in Nat /\ queue[h][i] <= item.rev
  BY Threads DEF Shape, Item, Runs, RunNumbered
<1>1. Command(c) /\ ~Busy /\ Goto(c, "submit")
  BY DEF Admit
<1>2. pc[c] = "idle" /\ UNCHANGED <<reply, queue, drv>>
  BY <1>1 DEF Command, Issue, hostVars
<1>3. PICK n \in Nat : n = item.rev + 1
  BY <1>0
<1>4. loaded' = [loaded EXCEPT ![c] = n]
  BY <1>3 DEF Admit
<1>5. /\ loaded'[c] = n
      /\ \A u \in Thread : u # c => loaded'[u] = loaded[u]
  BY <1>0, <1>4 DEF Shape
<1>6. /\ pc'[c] = "submit"
      /\ \A u \in Thread : u # c => pc'[u] = pc[u]
  BY <1>0, <1>1, Went
<1>7. /\ item'.rev = n /\ item' \in Item /\ item'.run.id = n
      /\ item'.run.state = "queued" /\ item'.run.next = 0
  BY <1>0, <1>3, AdmitSaves
<1>8. RunNumbered'
  BY <1>0, <1>2, <1>3, <1>5, <1>7 DEF RunNumbered
<1>9. /\ \A m : Queued(m)' => Queued(m) /\ m # n
      /\ \A m : Submitted(m)' => Submitted(m) \/ m = n
  BY <1>0, <1>2, <1>3, <1>5, <1>6, Threads DEF Queued, Submitted
<1>10. LaunchedOnce'
  <2>1. \A d, e \in Client : pc'[d] = "submit" /\ pc'[e] = "submit" /\ loaded'[d] = loaded'[e] => d = e
    BY <1>0, <1>3, <1>5, <1>6, Threads DEF Runs, LaunchedOnce
  <2>2. \A d \in Client : pc'[d] = "submit" => ~Queued(loaded[d])'
    BY <1>5, <1>6, <1>9, Threads DEF Runs, LaunchedOnce
  <2>3. \A h \in Host : pc'[h] # "idle" => ~Queued(drv[h])' /\ ~Submitted(drv[h])'
    BY <1>0, <1>2, <1>3, <1>6, <1>9, Threads DEF Runs, LaunchedOnce
  <2>. QED
    BY <1>2, <2>1, <2>2, <2>3 DEF Runs, LaunchedOnce
<1>11. NotBegun' /\ Completed'
  BY <1>7 DEF NotBegun, Completed
<1>12. StepsLeft'
  BY <1>7, Steps DEF StepsLeft, Item, Run
<1>13. ASSUME NEW h \in Host PROVE WorkerFits(h)'
  <2>1. pc'[h] \in {"idle", "drive"} /\ drv'[h] # item'.run.id
    BY <1>0, <1>1, <1>2, <1>3, <1>6, <1>7, Threads DEF Runs, WorkerFits, Driving, Busy
  <2>. QED
    BY <2>1 DEF WorkerFits, Driving, StepFits, AsSeen, Reported, CheckPoint, BranchPoint, EffectPoint
<1>. QED
  BY <1>8, <1>10, <1>11, <1>12, <1>13 DEF Runs

\* The worker takes its next run, or drops it.
LEMMA DriveRuns ==
  ASSUME Shape, Leases, Runs, NEW h \in Host, Drive(h)
  PROVE  Runs'
<1>0. /\ item.run.steps \in StepLists /\ h \in Thread
      /\ queue[h] \in Seq(Nat) /\ queue[h] # <<>>
  BY Threads DEF Shape, Item, Run, Drive
<1>1. /\ pc[h] = "idle" /\ UNCHANGED <<item, loaded, reply, writes, lent>>
      /\ queue' = [queue EXCEPT ![h] = Tail(queue[h])]
      /\ drv' = [drv EXCEPT ![h] = Head(queue[h])]
      /\ (runLease = None /\ Goto(h, "drive")) \/ UNCHANGED pc
  BY DEF Drive, historyVars
<1>2. /\ Len(Tail(queue[h])) = Len(queue[h]) - 1 /\ Len(queue[h]) \in Nat \ {0}
      /\ \A i \in 1 .. Len(Tail(queue[h])) : Tail(queue[h])[i] = queue[h][i + 1]
      /\ Head(queue[h]) = queue[h][1]
  BY <1>0
<1>3. /\ queue'[h] = Tail(queue[h]) /\ drv'[h] = queue[h][1]
      /\ \A g \in Host : g # h => queue'[g] = queue[g] /\ drv'[g] = drv[g]
  BY <1>1, <1>2 DEF Shape
<1>4. /\ \A u \in Thread : u # h => pc'[u] = pc[u]
      /\ pc'[h] \in {"idle", "drive"}
  BY <1>0, <1>1, Went
\* What is left in the queues was there before, at another place.
<1>5. /\ Queued(drv'[h])
      /\ \A g \in Host : \A i \in 1 .. Len(queue'[g]) :
           /\ g # h => i \in 1 .. Len(queue[g]) /\ queue'[g][i] = queue[g][i]
           /\ g = h => i + 1 \in 2 .. Len(queue[h]) /\ queue'[h][i] = queue[h][i + 1]
  <2>1. 1 \in 1 .. Len(queue[h]) /\ queue[h][1] = drv'[h]
    BY <1>2, <1>3
  <2>2. Queued(drv'[h])
    BY <2>1 DEF Queued
  <2>3. \A i \in 1 .. Len(queue'[h]) :
          i + 1 \in 2 .. Len(queue[h]) /\ queue'[h][i] = queue[h][i + 1]
    BY <1>2, <1>3
  <2>4. \A g \in Host : g # h => queue'[g] = queue[g]
    BY <1>3
  <2>. QED
    BY <2>2, <2>3, <2>4
<1>6. /\ \A n : Queued(n)' => Queued(n)
      /\ \A n : Submitted(n)' => Submitted(n)
      /\ ~Queued(drv[h])'
  <2>1. \A n : Queued(n)' => Queued(n)
    <3>. SUFFICES ASSUME NEW n, NEW g \in Host, NEW i \in 1 .. Len(queue'[g]), queue'[g][i] = n
                  PROVE Queued(n)
      BY DEF Queued
    <3>1. CASE g # h
      BY <1>5, <3>1 DEF Queued
    <3>2. CASE g = h
      <4>1. i + 1 \in 1 .. Len(queue[h]) /\ queue[h][i + 1] = n
        BY <1>2, <1>5, <3>2
      <4>. QED
        BY <4>1 DEF Queued
    <3>. QED
      BY <3>1, <3>2
  <2>2. \A n : Submitted(n)' => Submitted(n)
    BY <1>1, <1>4, Threads DEF Submitted
  <2>3. ~Queued(drv[h])'
    <3>. SUFFICES ASSUME NEW g \in Host, NEW i \in 1 .. Len(queue'[g]), queue'[g][i] = drv'[h]
                  PROVE FALSE
      BY DEF Queued
    <3>0. 1 \in 1 .. Len(queue[h]) /\ queue[h][1] = drv'[h]
      BY <1>2, <1>3
    <3>1. CASE g # h
      BY <1>5, <3>0, <3>1 DEF Runs, LaunchedOnce
    <3>2. CASE g = h
      <4>1. i + 1 \in 1 .. Len(queue[h]) /\ queue[h][i + 1] = queue[h][1] /\ i + 1 # 1
        BY <1>2, <1>5, <3>0, <3>2
      <4>. QED
        BY <3>0, <4>1 DEF Runs, LaunchedOnce
    <3>. QED
      BY <3>1, <3>2
  <2>. QED
    BY <2>1, <2>2, <2>3
<1>7. ~Submitted(drv[h])'
  <2>1. \A c \in Client : pc[c] = "submit" => loaded[c] # drv'[h]
    BY <1>5 DEF Runs, LaunchedOnce
  <2>. QED
    BY <1>1, <1>4, <2>1, Threads DEF Submitted
<1>8. RunNumbered'
  <2>1. \A g \in Host : \A i \in 1 .. Len(queue'[g]) : queue'[g][i] <= item.rev
    BY <1>2, <1>5 DEF Runs, RunNumbered
  <2>2. \A g \in Host : drv'[g] <= item.rev
    BY <1>2, <1>3 DEF Runs, RunNumbered
  <2>. QED
    BY <1>1, <2>1, <2>2 DEF Runs, RunNumbered
<1>9. LaunchedOnce'
  <2>1. \A c, d \in Client : pc'[c] = "submit" /\ pc'[d] = "submit" /\ loaded'[c] = loaded'[d] => c = d
    BY <1>1, <1>4, Threads DEF Runs, LaunchedOnce
  <2>2. \A c \in Client : pc'[c] = "submit" => ~Queued(loaded[c])'
    BY <1>1, <1>4, <1>6, Threads DEF Runs, LaunchedOnce
  <2>3. \A f, g \in Host : \A i \in 1 .. Len(queue'[f]), j \in 1 .. Len(queue'[g]) :
          queue'[f][i] = queue'[g][j] => f = g /\ i = j
    <3>. SUFFICES ASSUME NEW f \in Host, NEW g \in Host,
                         NEW i \in 1 .. Len(queue'[f]), NEW j \in 1 .. Len(queue'[g]),
                         queue'[f][i] = queue'[g][j]
                  PROVE f = g /\ i = j
      OBVIOUS
    <3>. DEFINE a == IF f = h THEN i + 1 ELSE i
                b == IF g = h THEN j + 1 ELSE j
    <3>1. /\ a \in 1 .. Len(queue[f]) /\ queue[f][a] = queue'[f][i]
          /\ b \in 1 .. Len(queue[g]) /\ queue[g][b] = queue'[g][j]
      BY <1>2, <1>5
    <3>2. f = g /\ a = b
      BY <3>1 DEF Runs, LaunchedOnce
    <3>. QED
      BY <3>2
  <2>4. \A g \in Host : pc'[g] # "idle" => ~Queued(drv[g])' /\ ~Submitted(drv[g])'
    BY <1>3, <1>4, <1>6, <1>7, Threads DEF Runs, LaunchedOnce
  <2>. QED
    BY <2>1, <2>2, <2>3, <2>4 DEF LaunchedOnce
<1>10. NotBegun' /\ StepsLeft' /\ Completed'
  <2>1. RunReached' = RunReached /\ ToExecute' = ToExecute
    BY <1>1 DEF RunReached, ReachedFor, ToExecute
  <2>. QED
    BY <1>1, <1>6, <2>1 DEF Runs, NotBegun, StepsLeft, Completed
\* A run just taken has not begun.
<1>11. ASSUME pc'[h] = "drive", item.run.id = drv'[h] PROVE item.run.next # Len(item.run.steps)
  <2>1. Queued(item.run.id)
    BY <1>5, <1>11
  <2>2. item.run.next = 0
    BY <2>1 DEF Runs, NotBegun
  <2>3. Len(item.run.steps) \in 1 .. 2
    BY <1>0, Steps
  <2>4. Len(item.run.steps) # 0
    BY <2>3
  <2>. QED
    BY <2>2, <2>4, Zenon
<1>12. WorkerFits(h)'
  BY <1>1, <1>4, <1>11
     DEF WorkerFits, Driving, StepFits, AsSeen, Reported, CheckPoint, BranchPoint, EffectPoint
<1>13. ASSUME NEW g \in Host, g # h PROVE WorkerFits(g)'
  <2>1. /\ WorkerFits(g) /\ pc'[g] = pc[g] /\ drv'[g] = drv[g] /\ UNCHANGED <<item, loaded, reply>>
        /\ RunReached' = RunReached /\ ToExecute' = ToExecute /\ NextStep' = NextStep
    BY <1>1, <1>3, <1>4, <1>13, Threads DEF Runs, RunReached, ReachedFor, ToExecute, NextStep
  <2>. QED
    BY <2>1 DEF WorkerFits, Driving, StepFits, AsSeen, Reported
<1>. QED
  BY <1>8, <1>9, <1>10, <1>12, <1>13 DEF Runs

\* The client launches the run it has submitted.
LEMMA SubmitRuns ==
  ASSUME Shape, Runs, NEW c \in Client, Submit(c)
  PROVE  Runs'
<1>. DEFINE host == HostOf[c]
<1>0. /\ host \in Host /\ c \in Thread /\ c \notin Host
      /\ queue[host] \in Seq(Nat) /\ loaded[c] \in Nat
      /\ \A g \in Host : Len(queue[g]) \in Nat
  BY Threads DEF Shape
<1>1. /\ pc[c] = "submit" /\ UNCHANGED <<item, loaded, reply, drv, writes, lent>>
      /\ UNCHANGED queue \/ queue' = [queue EXCEPT ![host] = Append(queue[host], loaded[c])]
  BY DEF Submit, historyVars
<1>. HIDE DEF host
<1>2. /\ \A u \in Thread : u # c => pc'[u] = pc[u]
      /\ pc'[c] = "idle"
  BY <1>0, Went DEF Submit
\* The places of the queues are the old ones and, maybe, one that holds the run.
<1>3. \A g \in Host : \A i \in 1 .. Len(queue'[g]) :
        \/ i \in 1 .. Len(queue[g]) /\ queue'[g][i] = queue[g][i]
        \/ g = host /\ i = Len(queue[host]) + 1 /\ queue'[g][i] = loaded[c]
  <2>1. CASE UNCHANGED queue
    BY <2>1
  <2>2. CASE queue' = [queue EXCEPT ![host] = Append(queue[host], loaded[c])]
    <3>1. /\ queue'[host] = Append(queue[host], loaded[c])
          /\ \A g \in Host : g # host => queue'[g] = queue[g]
      BY <1>0, <2>2 DEF Shape
    <3>2. /\ Len(queue'[host]) = Len(queue[host]) + 1
          /\ \A i \in 1 .. Len(queue[host]) : queue'[host][i] = queue[host][i]
          /\ queue'[host][Len(queue[host]) + 1] = loaded[c]
      BY <1>0, <3>1
    <3>3. ASSUME NEW i \in 1 .. Len(queue'[host])
          PROVE  \/ i \in 1 .. Len(queue[host]) /\ queue'[host][i] = queue[host][i]
                 \/ i = Len(queue[host]) + 1 /\ queue'[host][i] = loaded[c]
      <4>1. i \in 1 .. Len(queue[host]) \/ i = Len(queue[host]) + 1
        BY <1>0, <3>2
      <4>. QED
        BY <3>2, <4>1
    <3>. QED
      BY <3>1, <3>3
  <2>. QED
    BY <1>1, <2>1, <2>2
<1>4. ~Queued(loaded[c])
  BY <1>1 DEF Runs, LaunchedOnce
<1>5. \A n : Queued(n)' => Queued(n) \/ n = loaded[c]
  BY <1>3 DEF Queued
<1>6. \A n : Submitted(n)' => Submitted(n) /\ n # loaded[c]
  BY <1>1, <1>2, Threads DEF Submitted, Runs, LaunchedOnce
<1>7. RunNumbered'
  BY <1>0, <1>1, <1>3 DEF Runs, RunNumbered
<1>8. LaunchedOnce'
  <2>1. \A d, e \in Client : pc'[d] = "submit" /\ pc'[e] = "submit" /\ loaded'[d] = loaded'[e] => d = e
    BY <1>1, <1>2, Threads DEF Runs, LaunchedOnce
  <2>2. \A d \in Client : pc'[d] = "submit" => ~Queued(loaded[d])'
    BY <1>1, <1>2, <1>5, Threads DEF Runs, LaunchedOnce
  <2>3. \A f, g \in Host : \A i \in 1 .. Len(queue'[f]), j \in 1 .. Len(queue'[g]) :
          queue'[f][i] = queue'[g][j] => f = g /\ i = j
    <3>. SUFFICES ASSUME NEW f \in Host, NEW g \in Host,
                         NEW i \in 1 .. Len(queue'[f]), NEW j \in 1 .. Len(queue'[g]),
                         queue'[f][i] = queue'[g][j]
                  PROVE f = g /\ i = j
      OBVIOUS
    <3>1. CASE queue'[f][i] = loaded[c]
      <4>1. f = host /\ i = Len(queue[host]) + 1
        BY <1>3, <1>4, <3>1 DEF Queued
      <4>2. g = host /\ j = Len(queue[host]) + 1
        BY <1>3, <1>4, <3>1 DEF Queued
      <4>. QED
        BY <4>1, <4>2
    <3>2. CASE queue'[f][i] # loaded[c]
      <4>1. /\ i \in 1 .. Len(queue[f]) /\ queue[f][i] = queue'[f][i]
            /\ j \in 1 .. Len(queue[g]) /\ queue[g][j] = queue'[g][j]
        BY <1>3, <3>2
      <4>. QED
        BY <4>1 DEF Runs, LaunchedOnce
    <3>. QED
      BY <3>1, <3>2
  <2>4. \A h \in Host : pc'[h] # "idle" => ~Queued(drv[h])' /\ ~Submitted(drv[h])'
    <3>. SUFFICES ASSUME NEW h \in Host, pc'[h] # "idle"
                  PROVE ~Queued(drv[h])' /\ ~Submitted(drv[h])'
      OBVIOUS
    <3>1. ~Queued(drv[h]) /\ ~Submitted(drv[h]) /\ drv'[h] = drv[h]
      BY <1>0, <1>1, <1>2, Threads DEF Runs, LaunchedOnce
    <3>2. drv[h] # loaded[c]
      BY <1>1, <3>1 DEF Submitted
    <3>. QED
      BY <1>5, <1>6, <3>1, <3>2
  <2>. QED
    BY <2>1, <2>2, <2>3, <2>4 DEF LaunchedOnce
<1>9. NotBegun'
  <2>1. Submitted(loaded[c])
    BY <1>1 DEF Submitted
  <2>. QED
    BY <1>1, <1>5, <1>6, <2>1 DEF Runs, NotBegun
<1>10. RunReached' = RunReached /\ ToExecute' = ToExecute /\ NextStep' = NextStep
  BY <1>1 DEF RunReached, ReachedFor, ToExecute, NextStep
<1>11. StepsLeft' /\ Completed'
  BY <1>1, <1>10 DEF Runs, StepsLeft, Completed
<1>12. ASSUME NEW h \in Host PROVE WorkerFits(h)'
  <2>1. WorkerFits(h) /\ pc'[h] = pc[h] /\ UNCHANGED <<item, loaded, reply, drv>>
    BY <1>0, <1>1, <1>2, Threads DEF Runs
  <2>. QED
    BY <1>10, <2>1 DEF WorkerFits, Driving, StepFits, AsSeen, Reported
<1>. QED
  BY <1>7, <1>8, <1>9, <1>11, <1>12 DEF Runs

\* What a worker has to show nothing of once it is idle.
LEMMA IdleFits ==
  ASSUME NEW h \in Host, pc'[h] = "idle"
  PROVE  WorkerFits(h)'
BY DEF WorkerFits, Driving, StepFits, AsSeen, Reported, CheckPoint, BranchPoint, EffectPoint

\* A step of a worker that holds its run: nobody else drives one.
LEMMA WorkerStepRuns ==
  ASSUME Shape, Leases, Runs, NEW h \in Host, pc[h] # "idle",
         \A u \in Thread : u # h => pc'[u] = pc[u] /\ loaded'[u] = loaded[u],
         loaded'[h] = loaded[h] \/ loaded'[h] = item'.rev,
         item' \in Item, item.rev <= item'.rev, item'.run.id = item.run.id,
         UNCHANGED <<queue, drv>>,
         StepsLeft', Completed', WorkerFits(h)',
         item'.run.next = item.run.next \/ item.run.id = drv[h]
  PROVE  Runs'
<1>0. item'.rev \in Nat
  BY DEF Item
<1>1. /\ item.rev \in Nat /\ h \in Thread
      /\ \A u \in Thread : loaded[u] \in Nat /\ loaded[u] <= item.rev
      /\ \A g \in Host : /\ drv[g] \in Nat /\ drv[g] <= item.rev
                         /\ \A i \in 1 .. Len(queue[g]) : queue[g][i] \in Nat /\ queue[g][i] <= item.rev
  <2>1. item.rev \in Nat /\ h \in Thread
    BY Threads DEF Shape, Item
  <2>2. /\ \A u \in Thread : loaded[u] \in Nat
        /\ \A g \in Host : drv[g] \in Nat /\ \A i \in 1 .. Len(queue[g]) : queue[g][i] \in Nat
    BY DEF Shape
  <2>. QED
    BY <2>1, <2>2 DEF Runs, RunNumbered
<1>2. RunNumbered'
  BY <1>0, <1>1 DEF RunNumbered
<1>3. \A n : (Queued(n)' => Queued(n)) /\ (Submitted(n)' => Submitted(n))
  BY Threads DEF Queued, Submitted
<1>4. \A g \in Host : pc'[g] # "idle" => pc[g] # "idle"
  BY Threads
<1>5. LaunchedOnce'
  <2>1. \A c \in Client : pc'[c] = pc[c] /\ loaded'[c] = loaded[c]
    BY Threads
  <2>2. \A c \in Client : pc'[c] = "submit" => ~Queued(loaded[c])'
    BY <1>3, <2>1 DEF Runs, LaunchedOnce
  <2>3. \A g \in Host : pc'[g] # "idle" => ~Queued(drv[g])' /\ ~Submitted(drv[g])'
    BY <1>3, <1>4 DEF Runs, LaunchedOnce
  <2>. QED
    BY <2>1, <2>2, <2>3 DEF Runs, LaunchedOnce
<1>6. NotBegun'
  BY <1>3 DEF Runs, NotBegun, LaunchedOnce
<1>7. ASSUME NEW g \in Host PROVE WorkerFits(g)'
  BY IdleFits, Sole, Threads
<1>. QED
  BY <1>2, <1>5, <1>6, <1>7 DEF Runs

\* The worker looks at the item.
LEMMA LookRuns ==
  ASSUME Shape, Leases, Runs, NEW h \in Host, Look(h)
  PROVE  Runs'
<1>0. /\ item \in Item /\ h \in Thread /\ WorkerFits(h) /\ StepsLeft /\ item.run.steps \in StepLists
      /\ item.run.next \in Nat /\ Len(item.run.steps) \in Nat
  BY Threads, Steps DEF Shape, Runs, Item, Run
<1>1. /\ pc[h] = "drive" /\ loaded' = [loaded EXCEPT ![h] = item.rev]
      /\ UNCHANGED <<item, reply, drv, queue, writes, lent>>
  BY DEF Look, hostVars, historyVars
<1>2. PICK label : /\ Goto(h, label)
                   /\ \/ label = "idle"
                      \/ label = "block" /\ Driven(h)
                      \/ label = "complete" /\ Driven(h) /\ item.run.next = Len(item.run.steps)
                      \/ label = "begin" /\ Driven(h) /\ ~Blocked(h)
                         /\ item.run.next # Len(item.run.steps) /\ item.status = "prepared"
  BY DEF Look
<1>3. /\ pc'[h] = label /\ \A u \in Thread : u # h => pc'[u] = pc[u]
      /\ loaded'[h] = item.rev /\ \A u \in Thread : u # h => loaded'[u] = loaded[u]
  BY <1>0, <1>1, <1>2, Went DEF Shape
<1>4. /\ RunReached' = RunReached /\ ToExecute' = ToExecute /\ NextStep' = NextStep
  BY <1>1 DEF RunReached, ReachedFor, ToExecute, NextStep
<1>5. WorkerFits(h)'
  <2>1. CASE label = "idle"
    BY <1>3, <2>1, IdleFits
  <2>2. CASE label = "block" /\ Driven(h)
    BY <1>1, <1>3, <2>2
       DEF Driven, WorkerFits, Driving, StepFits, AsSeen, Reported, CheckPoint, BranchPoint, EffectPoint
  <2>3. CASE label = "complete" /\ Driven(h) /\ item.run.next = Len(item.run.steps)
    <3>1. ToExecute => RunReached
      BY <1>0, <1>1, <2>3 DEF Driven, WorkerFits, Reported
    <3>. QED
      BY <1>1, <1>3, <1>4, <2>3, <3>1
         DEF Driven, WorkerFits, Driving, StepFits, AsSeen, Reported, CheckPoint, BranchPoint, EffectPoint
  <2>4. CASE label = "begin" /\ Driven(h) /\ ~Blocked(h)
             /\ item.run.next # Len(item.run.steps) /\ item.status = "prepared"
    <3>1. item.run.next < Len(item.run.steps)
      BY <1>0, <2>4 DEF StepsLeft
    <3>. QED
      BY <1>1, <1>3, <2>4, <3>1
         DEF Driven, Blocked, WorkerFits, Driving, StepFits, AsSeen, Reported, CheckPoint, BranchPoint,
             EffectPoint
  <2>. QED
    BY <1>2, <2>1, <2>2, <2>3, <2>4
<1>6. StepsLeft' /\ Completed'
  BY <1>1, <1>4 DEF Runs, StepsLeft, Completed
<1>. QED
  BY <1>0, <1>1, <1>3, <1>5, <1>6, ItemKept, WorkerStepRuns

\* The worker begins a step, on the item it has seen, or gives up.
LEMMA BeginRuns ==
  ASSUME Shape, Leases, Runs, NEW h \in Host, Begin(h)
  PROVE  Runs'
<1>0. /\ item \in Item /\ item.rev \in Nat /\ h \in Thread /\ WorkerFits(h)
  BY Threads DEF Shape, Runs, Item
<1>1. pc[h] = "begin" /\ UNCHANGED <<reply, drv, queue, writes, lent>>
  BY DEF Begin, hostVars, historyVars
<1>2. CASE Goto(h, "block") /\ UNCHANGED <<item, loaded>>
  <2>1. Calm
    BY <1>1, <1>2, StillIsCalm
  <2>2. /\ pc'[h] = "block" /\ \A u \in Thread : u # h => pc'[u] = pc[u]
    BY <1>0, <1>2, Went
  <2>3. WorkerFits(h)'
    BY <1>0, <1>1, <1>2, <2>2
       DEF WorkerFits, Driving, StepFits, AsSeen, Reported, CheckPoint, BranchPoint, EffectPoint
  <2>. QED
    BY <1>0, <1>1, <1>2, <2>1, <2>2, <2>3, CalmStep, Threads
<1>3. CASE ~(Goto(h, "block") /\ UNCHANGED <<item, loaded>>)
  <2>0. PICK n \in Nat : n = item.rev + 1
    BY <1>0
  <2>1. /\ loaded[h] = item.rev /\ item.run.state \in {"queued", "running"}
        /\ Goto(h, "step") /\ loaded' = [loaded EXCEPT ![h] = n]
        /\ item'.rev = n
    BY <1>3, <2>0, <1>0 DEF Begin, Unchanged, Save, Item
  <2>2. item' # item
    BY <1>0, <2>0, <2>1
  <2>3. /\ item' \in Item /\ item'.rev = n /\ item'.status = item.status
        /\ item'.binding = item.binding
        /\ item'.run.id = item.run.id /\ item'.run.binding = item.run.binding
        /\ item'.run.steps = item.run.steps /\ item'.run.state = "running"
        /\ item'.run.next = item.run.next
    BY <1>0, <2>0, <2>2, BeginSaves
  <2>4. Calm
    BY <1>0, <1>1, <2>0, <2>1, <2>3 DEF Calm, Active
  <2>5. /\ pc'[h] = "step" /\ \A u \in Thread : u # h => pc'[u] = pc[u]
        /\ loaded'[h] = n /\ \A u \in Thread : u # h => loaded'[u] = loaded[u]
    BY <1>0, <2>1, Went DEF Shape
  <2>6. WorkerFits(h)'
    <3>1. Driving(h)'
      BY <1>0, <1>1, <2>3, <1>1 DEF WorkerFits, Driving, Active
    <3>2. AsSeen(h)'
      BY <1>0, <1>1, <2>1, <2>3 DEF WorkerFits, AsSeen
    <3>3. StepFits(h)' /\ Reported(h)'
      BY <2>5 DEF StepFits, Reported, CheckPoint, BranchPoint, EffectPoint
    <3>. QED
      BY <3>1, <3>2, <3>3 DEF WorkerFits
  <2>. QED
    BY <1>0, <1>1, <2>3, <2>4, <2>5, <2>6, CalmStep, Threads
<1>. QED
  BY <1>2, <1>3

\* A step that was refused, and a reply that was lost.
LEMMA ReplyRuns ==
  ASSUME Shape, Leases, Runs, NEW h \in Host, RefuseStep(h) \/ LoseReply(h)
  PROVE  Runs'
<1>0. /\ item \in Item /\ h \in Thread /\ WorkerFits(h)
  BY Threads DEF Shape, Runs
<1>1. /\ UNCHANGED <<item, loaded, drv, queue, writes, lent>>
      /\ \/ /\ pc[h] = "step" /\ Goto(h, "stepped")
            /\ \E result \in {"not_committed", "ambiguous"} : reply' = [reply EXCEPT ![h] = result]
         \/ pc[h] = "stepped" /\ Goto(h, "block") /\ UNCHANGED reply
  BY DEF RefuseStep, LoseReply, hostVars, historyVars
<1>2. \A u \in Thread : u # h => pc'[u] = pc[u]
  BY <1>0, <1>1, Went
<1>3. \/ pc[h] = "step" /\ pc'[h] = "stepped" /\ reply'[h] # "committed"
      \/ pc[h] = "stepped" /\ pc'[h] = "block"
  BY <1>0, <1>1, Went DEF Shape
<1>4. WorkerFits(h)'
  BY <1>0, <1>1, <1>3
     DEF WorkerFits, Driving, StepFits, AsSeen, Reported, CheckPoint, BranchPoint, EffectPoint
<1>5. Calm
  BY <1>1, StillIsCalm
<1>6. \A g \in Host : g # h => reply'[g] = reply[g]
  BY <1>1 DEF Shape
<1>. QED
  BY <1>0, <1>1, <1>2, <1>3, <1>4, <1>5, <1>6, CalmStep, Threads

\* A step is taken for done when its command has said so.
LEMMA EndStepRuns ==
  ASSUME Shape, Leases, Runs, NEW h \in Host, EndStep(h)
  PROVE  Runs'
<1>0. /\ item \in Item /\ item.rev \in Nat /\ h \in Thread /\ WorkerFits(h)
      /\ item.run.steps \in StepLists
      /\ item.run.next \in Nat /\ Len(item.run.steps) \in Nat
  BY Threads, Steps DEF Shape, Runs, Item, Run
<1>1. /\ pc[h] = "stepped" /\ UNCHANGED <<loaded, reply, drv, queue, writes, lent>>
  BY DEF EndStep, hostVars, historyVars
<1>2. PICK label : /\ Goto(h, label)
                   /\ label = "block" \/ (label = "drive" /\ reply[h] = "committed")
  BY DEF EndStep
<1>3. pc'[h] = label /\ \A u \in Thread : u # h => pc'[u] = pc[u]
  BY <1>0, <1>2, Went
<1>4. /\ item' \in Item /\ item'.rev = item.rev + 1
      /\ item'.run.id = item.run.id /\ item'.run.binding = item.run.binding
      /\ item'.run.steps = item.run.steps /\ item'.run.state = item.run.state
      /\ item'.run.next = IF reply[h] = "ambiguous" THEN item.run.next ELSE item.run.next + 1
  BY <1>0, EndStepSaves
<1>5. /\ item.run.id = drv[h] /\ item.run.state \in Active
      /\ item.run.next < Len(item.run.steps)
  BY <1>0, <1>1 DEF WorkerFits, Driving
<1>6. /\ RunReached' = RunReached /\ ToExecute' = ToExecute
  BY <1>1, <1>4 DEF RunReached, ReachedFor, ToExecute
<1>7. StepsLeft' /\ Completed'
  BY <1>0, <1>4, <1>5 DEF StepsLeft, Completed, Active
\* The last step of a run that is to move the branch is the one that does.
<1>8. ASSUME ToExecute, label = "drive", item'.run.next = Len(item.run.steps)
      PROVE  RunReached
  <2>1. item.run.next + 1 = Len(item.run.steps)
    BY <1>2, <1>4, <1>8
  <2>2. item.run.steps[Len(item.run.steps)] = "execute"
    BY <1>0, <1>8, Steps DEF ToExecute
  <2>3. NextStep = "execute"
    BY <2>1, <2>2 DEF NextStep
  <2>. QED
    BY <1>0, <1>1, <1>2, <1>8, <2>3 DEF WorkerFits, Reported
<1>9. WorkerFits(h)'
  <2>1. CASE label = "block"
    BY <1>1, <1>3, <1>4, <1>5, <2>1
       DEF WorkerFits, Driving, StepFits, AsSeen, Reported, CheckPoint, BranchPoint, EffectPoint
  <2>2. CASE label = "drive"
    <3>1. Reported(h)'
      BY <1>3, <1>4, <1>6, <1>8, <2>2 DEF Reported
    <3>. QED
      BY <1>3, <2>2, <3>1
         DEF WorkerFits, Driving, StepFits, AsSeen, CheckPoint, BranchPoint, EffectPoint
  <2>. QED
    BY <1>2, <2>1, <2>2
<1>10. item.rev <= item'.rev
  BY <1>0, <1>4
<1>. QED
  BY <1>0, <1>1, <1>3, <1>4, <1>5, <1>7, <1>9, <1>10, WorkerStepRuns

\* A run is completed when its steps were taken.
LEMMA FinishRuns ==
  ASSUME Shape, Leases, Runs, NEW h \in Host, Finish(h)
  PROVE  Runs'
<1>0. /\ item \in Item /\ item.rev \in Nat /\ h \in Thread /\ WorkerFits(h)
  BY Threads DEF Shape, Runs, Item
<1>1. /\ pc[h] \in {"block", "complete"} /\ Goto(h, "idle")
      /\ UNCHANGED <<loaded, drv, queue, writes, lent>>
  BY DEF Finish, hostVars, historyVars
<1>2. /\ item' \in Item /\ item'.rev = item.rev + 1
      /\ item'.run.id = item.run.id /\ item'.run.binding = item.run.binding
      /\ item'.run.steps = item.run.steps /\ item'.run.next = item.run.next
      /\ item'.run.state = IF pc[h] = "block" THEN "blocked" ELSE "completed"
  BY <1>0, FinishSaves
<1>3. pc'[h] = "idle" /\ \A u \in Thread : u # h => pc'[u] = pc[u]
  BY <1>0, <1>1, Went
<1>4. RunReached' = RunReached /\ ToExecute' = ToExecute
  BY <1>1, <1>2 DEF RunReached, ReachedFor, ToExecute
<1>5. StepsLeft' /\ Completed'
  BY <1>0, <1>1, <1>2, <1>4 DEF Runs, StepsLeft, Completed, WorkerFits, Reported
<1>6. WorkerFits(h)'
  BY <1>3, IdleFits
<1>7. item.rev <= item'.rev /\ pc[h] # "idle"
  BY <1>0, <1>1, <1>2
<1>. QED
  BY <1>0, <1>1, <1>2, <1>3, <1>5, <1>6, <1>7, WorkerStepRuns

\* A host that dies takes its queue and its worker with it.
LEMMA CrashRuns ==
  ASSUME Shape, Runs, NEW h \in Host, Crash(h)
  PROVE  Runs'
<1>1. /\ UNCHANGED <<item, loaded, reply, drv, writes, lent>>
      /\ \A u \in Thread : pc'[u] \in {pc[u], "idle"}
      /\ queue' = [queue EXCEPT ![h] = <<>>]
  BY DEF Crash, historyVars
<1>2. /\ queue'[h] = <<>> /\ \A g \in Host : g # h => queue'[g] = queue[g]
  BY <1>1 DEF Shape
<1>3. Len(queue'[h]) = 0
  BY <1>2
<1>4. \A g \in Host : \A i \in 1 .. Len(queue'[g]) : g # h /\ queue'[g] = queue[g]
  BY <1>2, <1>3
<1>5. \A n : (Queued(n)' => Queued(n)) /\ (Submitted(n)' => Submitted(n))
  BY <1>1, <1>4, Threads DEF Queued, Submitted
<1>6. RunNumbered'
  BY <1>1, <1>4 DEF Runs, RunNumbered
<1>7. LaunchedOnce'
  <2>1. \A c \in Client : pc'[c] = "submit" => pc[c] = "submit" /\ ~Queued(loaded[c])'
    BY <1>1, <1>5, Threads DEF Runs, LaunchedOnce
  <2>2. \A g \in Host : pc'[g] # "idle" => ~Queued(drv[g])' /\ ~Submitted(drv[g])'
    BY <1>1, <1>5, Threads DEF Runs, LaunchedOnce
  <2>3. \A f, g \in Host : \A i \in 1 .. Len(queue'[f]), j \in 1 .. Len(queue'[g]) :
          queue'[f][i] = queue'[g][j] => f = g /\ i = j
    BY <1>4 DEF Runs, LaunchedOnce
  <2>. QED
    BY <1>1, <2>1, <2>2, <2>3 DEF Runs, LaunchedOnce
<1>8. RunReached' = RunReached /\ ToExecute' = ToExecute /\ NextStep' = NextStep
  BY <1>1 DEF RunReached, ReachedFor, ToExecute, NextStep
<1>9. NotBegun' /\ StepsLeft' /\ Completed'
  BY <1>1, <1>5, <1>8 DEF Runs, NotBegun, StepsLeft, Completed
<1>10. ASSUME NEW g \in Host PROVE WorkerFits(g)'
  <2>1. CASE pc'[g] = "idle"
    BY <2>1, IdleFits
  <2>2. CASE pc'[g] = pc[g]
    <3>1. WorkerFits(g) /\ UNCHANGED <<item, loaded, reply, drv>>
      BY <1>1 DEF Runs
    <3>. QED
      BY <1>8, <2>2, <3>1 DEF WorkerFits, Driving, StepFits, AsSeen, Reported
  <2>. QED
    BY <1>1, <2>1, <2>2, Threads
<1>. QED
  BY <1>6, <1>7, <1>9, <1>10 DEF Runs

\* Every step keeps the runs and their workers together.
LEMMA RunsStep == Shape /\ Leases /\ Operations /\ History /\ LentFits /\ Runs /\ [Next]_vars => Runs'
<1>. SUFFICES ASSUME Shape, Leases, Operations, History, LentFits, Runs, [Next]_vars PROVE Runs'
  OBVIOUS
<1>0. item \in Item /\ item.rev \in Nat
  BY DEF Shape, Item
\* Commands of one save, by clients.
<1>1. ASSUME NEW c \in Client, Pause(c) \/ Resume(c) \/ Revise(c) \/ Decide(c) PROVE Runs'
  <2>1. Command(c) /\ UNCHANGED <<pc, loaded>>
    BY <1>1 DEF Pause, Resume, Revise, Decide
  <2>2. pc[c] = "idle" /\ UNCHANGED <<pc, loaded, reply, queue, drv, writes, lent>>
    BY <2>1 DEF Command, Issue, hostVars
  <2>3. Calm
    <3>1. CASE Pause(c)
      <4>. DEFINE r == [item.run EXCEPT !.state = IF @ \in Active THEN "stopping" ELSE @]
      <4>1. /\ r.id = item.run.id /\ r.steps = item.run.steps /\ r.next = item.run.next
            /\ r.binding = item.run.binding
            /\ r.state = item.run.state \/ {item.run.state, r.state} \subseteq Active
        BY <1>0 DEF Item, Run, Active
      <4>2. item' \in Item /\ item'.rev = item.rev + 1 /\ item'.run = r /\ item'.binding = item.binding
        BY <1>0, <3>1, PauseSaves
      <4>. HIDE DEF r
      <4>. QED
        BY <1>0, <2>2, <4>1, <4>2 DEF Calm
    <3>2. CASE Resume(c) \/ Decide(c)
      <4>1. item' \in Item /\ item'.rev = item.rev + 1 /\ item'.run = item.run /\ item'.binding = item.binding
        BY <1>0, <3>2, ResumeSaves, DecideSaves
      <4>. QED
        BY <2>2, <4>1, SaveIsCalm
    <3>3. CASE Revise(c)
      <4>1. item' \in Item /\ item'.rev = item.rev + 1 /\ item'.run = item.run
        BY <1>0, <3>3, ReviseSaves DEF Shape
      <4>2. item.status # "executing"
        BY <3>3 DEF Revise
      <4>3. \A h \in Host : pc'[h] \notin BranchPoint \cup EffectPoint
        BY <2>2, <4>2, Threads DEF Operations, PointsFit, Executing
      <4>. QED
        BY <2>2, <4>1, <4>3, SaveIsCalm
    <3>. QED
      BY <1>1, <3>1, <3>2, <3>3
  <2>. QED
    BY <2>2, <2>3, CalmStep, Threads
<1>2. ASSUME NEW c \in Client, Reconcile(c) PROVE Runs'
  <2>1. /\ pc[c] = "idle" /\ Goto(c, "reconciling")
        /\ UNCHANGED <<item, reply, queue, drv, writes, lent>>
        /\ loaded' = [loaded EXCEPT ![c] = item.rev]
    BY <1>2 DEF Reconcile, Issue, hostVars, historyVars
  <2>2. Calm
    BY <2>1, StillIsCalm
  <2>3. /\ c \in Thread /\ c \notin Host
        /\ pc'[c] = "reconciling" /\ \A u \in Thread : u # c => pc'[u] = pc[u]
    BY <2>1, Went, Threads
  <2>4. /\ loaded'[c] = item'.rev /\ \A u \in Thread : u # c => loaded'[u] = loaded[u]
    BY <2>1, <2>3 DEF Shape
  <2>. QED
    BY <2>1, <2>2, <2>3, <2>4, CalmStep
<1>3. ASSUME UNCHANGED <<item, pc, loaded, reply, drv, queue, writes, lent>> PROVE Runs'
  BY <1>3 DEF Runs, RunNumbered, LaunchedOnce, NotBegun, StepsLeft, Completed, WorkerFits, Driving,
     StepFits, AsSeen, Reported, Queued, Submitted, RunReached, ReachedFor, ToExecute, NextStep
<1>4. ASSUME NEW h \in Host, Close(h) \/ Restart(h) PROVE Runs'
  BY <1>3, <1>4 DEF Close, Restart, threadVars, historyVars
<1>5. CASE Move
  <2>1. /\ UNCHANGED <<item, pc, loaded, reply, drv, queue, writes>> /\ lent \subseteq lent'
    BY <1>5 DEF Move, threadVars, hostVars
  <2>2. Calm
    BY <2>1, StillIsCalm
  <2>3. ASSUME NEW h \in Host PROVE WorkerFits(h)'
    BY <2>1, <2>2, WorkerKept, Threads DEF Runs, RunNumbered
  <2>. QED
    BY <2>1, <2>2, <2>3, CalmNumbers
       DEF Runs, RunNumbered, LaunchedOnce, NotBegun, StepsLeft, Completed, Queued, Submitted
<1>8. CASE UNCHANGED vars
  BY <1>3, <1>8 DEF vars, threadVars, hostVars, historyVars
<1>6. ASSUME NEW c \in Client, ClientCommand(c) \/ ClientStep(c) PROVE Runs'
  BY <1>1, <1>2, <1>6, AdmitRuns, BeginCommandRuns, SubmitRuns, CommandStepRuns, ReconcileStepRuns, Threads
     DEF ClientCommand, ClientStep
<1>7. ASSUME NEW h \in Host, WorkerStep(h) PROVE Runs'
  BY <1>7, DriveRuns, LookRuns, BeginRuns, BeginCommandRuns, ReplyRuns, CommandStepRuns, EndStepRuns,
     FinishRuns, Threads DEF WorkerStep
<1>. QED
  BY <1>4, <1>5, <1>6, <1>7, <1>8, CrashRuns DEF Next

-----------------------------------------------------------------------------
(* What follows for the ledger.                                            *)

Inv == Shape /\ Leases /\ Operations /\ History /\ LentFits /\ Runs

\* The invariant, part after part: each is kept by the steps that keep the ones before it.
LEMMA Invariance == Spec => []Inv
<1>1. Init => Inv
  BY ShapeInit, LeasesInit, OperationsInit, HistoryInit, RunsInit DEF Inv, Init, LentFits
<1>2. Inv /\ [Next]_vars => Inv'
  BY ShapeStep, LeasesStep, OperationsStep, HistoryStep, LentStep, RunsStep DEF Inv
<1>. QED
  BY <1>1, <1>2, PTL DEF Spec

\* A run never takes more steps than it has, and every variable has its type.
THEOREM Typed == Spec => []TypeOK
<1>1. Inv => TypeOK
  <2>. SUFFICES ASSUME Inv PROVE TypeOK
    OBVIOUS
  <2>1. item \in Item /\ item.run \in Run /\ item.evidence \in Evidence /\ item.op \in Op
    BY DEF Inv, Shape, Item
  <2>2. item.run.next \in 0 .. 2
    <3>1. item.run.steps \in StepLists /\ item.run.next \in Nat
      BY <2>1 DEF Run
    <3>2. Len(item.run.steps) \in 1 .. 2
      BY <3>1, Steps
    <3>3. PICK n \in Nat, k \in 1 .. 2 : n = item.run.next /\ k = Len(item.run.steps)
      BY <3>1, <3>2
    <3>4. n <= k
      BY <3>3 DEF Inv, Runs, StepsLeft
    <3>5. n \in 0 .. 2
      BY <3>4
    <3>. QED
      BY <3>3, <3>5, Zenon
  <2>3. item.run \in [id : Nat, state : Active \cup {"none", "blocked", "completed", "interrupted"},
                      steps : StepLists, next : 0 .. 2, binding : Nat, current : BOOLEAN]
    BY <2>1, <2>2 DEF Run
  <2>4. item \in [rev : Nat, status : {"prepared", "checking", "pausing", "paused", "executing",
                                       "integrated", "failed"},
                  binding : Nat, base : Int, review : {"none", "accept", "defer"},
                  evidence : [outcome : {"none", "passed", "failed"}, op : Nat],
                  run : [id : Nat, state : Active \cup {"none", "blocked", "completed", "interrupted"},
                         steps : StepLists, next : 0 .. 2, binding : Nat, current : BOOLEAN],
                  op : [id : Nat, kind : {"none", "verify", "formal"},
                        state : {"intent", "cleanup_pending", "observed"}, binding : Nat]]
    BY <2>1, <2>3 DEF Item, Evidence, Op
  <2>. QED
    BY <2>4 DEF Inv, Shape, TypeOK, Label
<1>. QED
  BY <1>1, Invariance, PTL

\* A tester runs only under the check it was started for, and nobody gets the
\* item back before it is gone, also after a crash (recover_check).
THEOREM TesterIsContained == Spec => []TesterContained
<1>1. Inv => TesterContained
  BY DEF Inv, Operations
<1>. QED
  BY <1>1, Invariance, PTL

\* Publish moves the branch at most once for a version of the plan, from the
\* commit the plan names, and only if the tests of this version have passed
\* and were not paused; what an item shows as passed is such a result too
\* (_execute, _record_check, integrate), whoever crashed or interfered.
THEOREM IntegrationIsEarned == Spec => []IntegrationEarned
<1>1. Inv => IntegrationEarned
  <2>. SUFFICES ASSUME Inv PROVE IntegrationEarned
    OBVIOUS
  <2>1. item.evidence.outcome = "passed" =>
          \E p \in passed : p.binding = item.binding /\ p.op \notin paused
    <3>. SUFFICES ASSUME item.evidence.outcome = "passed"
         PROVE \E p \in passed : p.binding = item.binding /\ p.op \notin paused
      OBVIOUS
    <3>1. /\ [op |-> item.evidence.op, binding |-> item.binding] \in passed
          /\ item.evidence.op \notin paused
      BY DEF Inv, History, EvidenceEarned
    <3>. QED
      BY <3>1
  <2>2. \A w \in writes : /\ w.from = w.planned
                          /\ \E p \in passed : p.binding = w.binding /\ p.op \notin paused
                          /\ \A v \in writes : v.binding = w.binding => v = w
    BY DEF Inv, History, WritesEarned, EarnedBefore
  <2>. QED
    BY <2>1, <2>2 DEF IntegrationEarned
<1>. QED
  BY <1>1, Invariance, PTL

\* What the ledger reports has happened: the branch was at the result of an
\* integrated item's operation and of the operation of a completed run that
\* ends in `execute', moved there by Publish or by somebody else; Publish did
\* not move it for a refused one (_observe, _refused, drive).
THEOREM OutcomesAreTrue == Spec => []OutcomesTrue
<1>1. Inv => OutcomesTrue
  BY DEF Inv, History, Outcomes, Runs, Completed, ToExecute, RunReached, Written, Reached,
     ReachedFor, OutcomesTrue
<1>. QED
  BY <1>1, Invariance, PTL

\* From a pause that was accepted to the resumption, nothing is begun: no
\* operation and no step of a run, although the worker may have decided
\* before to take the next one (drive, _pause).
THEOREM PauseIsKept == Spec => PauseHolds
<1>. DEFINE Kept == Halted => /\ item'.op.id = item.op.id
                              /\ item'.run.current => item.run.current
<1>1. Inv /\ [Next]_vars => Kept
  <2>. SUFFICES ASSUME Inv, [Next]_vars, Halted PROVE Kept
    OBVIOUS
  <2>0. /\ Shape /\ Leases /\ Runs /\ item \in Item /\ item.rev \in Nat
        /\ \A h \in Host : AsSeen(h)
    BY DEF Inv, Shape, Runs, WorkerFits, Item
  \* Whoever begins something has seen the item prepared and its run not stopping.
  <2>1. ASSUME NEW t \in Thread, Verify(t) \/ Execute(t) PROVE FALSE
    <3>1. /\ item.status = "prepared"
          /\ t \in Host => pc[t] = "step" /\ loaded[t] = item.rev
          /\ t \notin Host => ~Busy
      BY <2>1 DEF Verify, Execute, Enter, Unchanged
    <3>2. item.run.state # "stopping"
      BY <2>0, <3>1 DEF AsSeen, Busy, Active
    <3>. QED
      BY <3>1, <3>2 DEF Halted
  <2>2. ASSUME NEW h \in Host, Begin(h), item' # item PROVE FALSE
    <3>1. pc[h] = "begin" /\ loaded[h] = item.rev
      BY <2>2 DEF Begin, Unchanged
    <3>. QED
      BY <2>0, <3>1 DEF AsSeen, Halted
  <2>3. ASSUME NEW c \in Client, Admit(c) PROVE Kept
    BY <2>0, <2>3, AdmitSaves
  <2>4. ASSUME item'.op.id = item.op.id, item'.run.current => item.run.current PROVE Kept
    BY <2>4
  <2>. HIDE DEF Kept
  <2>5. ASSUME item'.op.id = item.op.id, item'.run = item.run PROVE Kept
    BY <2>4, <2>5
  <2>6. ASSUME UNCHANGED item PROVE Kept
    BY <2>5, <2>6
  <2>7. ASSUME NEW c \in Client, Pause(c) PROVE Kept
    <3>. DEFINE r == [item.run EXCEPT !.state = IF @ \in Active THEN "stopping" ELSE @]
    <3>1. r.current = item.run.current
      BY <2>0 DEF Item, Run
    <3>2. item'.op = item.op /\ item'.run = r
      BY <2>0, <2>7, PauseSaves
    <3>. HIDE DEF r
    <3>. QED
      BY <2>4, <3>1, <3>2
  <2>8. ASSUME NEW c \in Client, Resume(c) \/ Revise(c) \/ Decide(c) PROVE Kept
    BY <2>0, <2>5, <2>8, ResumeSaves, ReviseSaves, DecideSaves DEF Shape
  <2>9. ASSUME NEW c \in Client, Submit(c) \/ Reconcile(c) PROVE Kept
    BY <2>6, <2>9 DEF Submit, Reconcile
  <2>10. ASSUME NEW t \in Thread, CommandStep(t) PROVE Kept
    <3>1. CASE UNCHANGED item
      BY <2>6, <3>1
    <3>2. CASE RecordCheck(t)
      <4>1. CASE check.result = "cleanup"
        BY <2>0, <2>5, <3>2, <4>1, OperationSaves DEF RecordCheck
      <4>2. CASE check.result # "cleanup"
        <5>1. check.result \in {"passed", "failed"} /\ Record(check.result)
          BY <2>0, <3>2, <4>2 DEF RecordCheck, Shape
        <5>. QED
          BY <2>0, <2>5, <5>1, RecordSaves
      <4>. QED
        BY <4>1, <4>2
    <3>3. CASE (RecordEffect(t) \/ RecordRefusal(t)) /\ ~ UNCHANGED item
      BY <2>0, <2>5, <3>3, EffectSaves, RefusalSaves DEF RecordEffect, RecordRefusal
    <3>. QED
      BY <2>10, <3>1, <3>2, <3>3
         DEF CommandStep, StartTest, FinishTest, EnterTransaction, RefuseWrite, UpdateRef, Observe
  <2>11. ASSUME NEW c \in Client, ReconcileStep(c) PROVE Kept
    <3>1. CASE UNCHANGED item
      BY <2>6, <3>1
    <3>2. CASE RecoverCheck(c)
      <4>1. PICK outcome \in {"passed", "failed"} : Record(outcome)
        BY <2>0, <3>2 DEF RecoverCheck, Shape
      <4>. QED
        BY <2>0, <2>5, <4>1, RecordSaves
    <3>3. CASE Interrupt(c) /\ ~ UNCHANGED item
      BY <2>0, <2>4, <3>3, InterruptSaves
    <3>. QED
      BY <2>11, <3>1, <3>2, <3>3
         DEF ReconcileStep, GiveUp, RetireTester, ObserveAgain, LoadAgain
  <2>12. ASSUME NEW h \in Host, WorkerStep(h) PROVE Kept
    <3>1. CASE UNCHANGED item
      BY <2>6, <3>1
    <3>2. CASE EndStep(h)
      <4>1. /\ item'.op = item.op
            /\ reply[h] = "ambiguous" => item'.run = item.run
            /\ reply[h] # "ambiguous" => ~item'.run.current
        BY <2>0, <3>2, EndStepSaves
      <4>. QED
        BY <2>4, <4>1
    <3>3. CASE Finish(h)
      BY <2>0, <2>4, <3>3, FinishSaves
    <3>4. CASE Begin(h) /\ ~ UNCHANGED item
      BY <2>2, <3>4
    <3>. QED
      BY <2>1, <2>10, <2>12, <3>1, <3>2, <3>3, <3>4, Threads
         DEF WorkerStep, Drive, Look, RefuseStep, LoseReply
  <2>13. ASSUME Move \/ UNCHANGED vars \/ \E h \in Host : Close(h) \/ Restart(h) \/ Crash(h)
         PROVE Kept
    BY <2>6, <2>13 DEF Move, Close, Restart, Crash, vars
  <2>. QED
    BY <2>1, <2>3, <2>7, <2>8, <2>9, <2>10, <2>11, <2>12, <2>13, Threads
       DEF Next, ClientCommand, ClientStep
<1>2. Inv /\ [Next]_vars => [Kept]_vars
  BY <1>1
<1>. QED
  BY <1>2, Invariance, PTL DEF Spec, PauseHolds
=============================================================================
