--------------------------- MODULE PlannerProofs ---------------------------
(***************************************************************************)
(* Proofs about Planner for every plan that validate_plan accepts, every   *)
(* budget and every behaviour of the checks.                               *)
(***************************************************************************)
EXTENDS Planner, SequenceTheorems, TLAPS

At == {"visit", "run", "got"}          \* places where a step is being visited

(* The retry loop: a check is run again only within its declared retries.  *)
LoopOK ==
  /\ pc = "run" => attempts <= Retries[step]
  /\ pc = "got" => attempts \in 1 .. 1 + Retries[step]

----------------------------------------------------------------------------
(* What an item and its steps are, from validate_plan.                     *)
LEMMA PlanFacts ==
  ASSUME NEW i \in DOMAIN Plan
  PROVE  /\ Plan[i] \in Item
         /\ Plan[i].each \in BOOLEAN /\ Plan[i].source \in Step
         /\ Plan[i].steps \in Seq(Step)
         /\ Len(Plan[i].steps) \in Nat \ {0}
         /\ DOMAIN Plan[i].steps = 1 .. Len(Plan[i].steps)
         /\ \A k \in DOMAIN Plan[i].steps : Plan[i].steps[k] \in Step
         /\ ~Plan[i].each => Len(Plan[i].steps) = 1
<1>1. Plan \in Seq(Item) /\ Plan[i].steps # << >> /\ (~Plan[i].each => Len(Plan[i].steps) = 1)
  BY PlanAssumption
<1>2. Plan[i] \in Item
  BY <1>1, ElementOfSeq, LenProperties
<1>3. Plan[i].each \in BOOLEAN /\ Plan[i].source \in Step /\ Plan[i].steps \in Seq(Step)
  BY <1>2 DEF Item
<1>4. /\ Len(Plan[i].steps) \in Nat /\ DOMAIN Plan[i].steps = 1 .. Len(Plan[i].steps)
      /\ \A k \in DOMAIN Plan[i].steps : Plan[i].steps[k] \in Step
  BY <1>3, ElementOfSeq, LenProperties
<1>5. Len(Plan[i].steps) # 0
  BY <1>1, <1>3, EmptySeq
<1> QED
  BY <1>1, <1>2, <1>3, <1>4, <1>5

LEMMA PlanLength == Len(Plan) \in Nat /\ DOMAIN Plan = 1 .. Len(Plan)
BY PlanAssumption, LenProperties

LEMMA ItemFacts ==
  ASSUME pos \in DOMAIN Plan
  PROVE  /\ item.each \in BOOLEAN
         /\ Len(item.steps) \in Nat \ {0} /\ DOMAIN item.steps = 1 .. Len(item.steps)
         /\ 1 \in DOMAIN item.steps
<1>1. item.each \in BOOLEAN /\ Len(item.steps) \in Nat \ {0} /\ DOMAIN item.steps = 1 .. Len(item.steps)
  BY PlanFacts DEF item
<1>2. 1 \in 1 .. Len(item.steps)
  BY <1>1
<1> QED
  BY <1>1, <1>2

(* A visited step is a step of the plan, and its instance an instance.     *)
LEMMA HereFacts ==
  ASSUME PlaceOK, pc \in At
  PROVE  /\ pos \in DOMAIN Plan /\ idx \in DOMAIN item.steps
         /\ step \in Step /\ here \in Instance
         /\ Retries[step] \in {0, 1}
         /\ Check[here] \in CheckKey
<1>1. pos \in DOMAIN Plan /\ idx \in DOMAIN item.steps /\ subject \in Scope
  BY DEF PlaceOK, At
<1>2. step \in Step
  BY <1>1, PlanFacts DEF step, item
<1>3. here \in Instance
  BY <1>1, <1>2 DEF here, Instance
<1>4. Retries[step] \in {0, 1} /\ Check[here] \in CheckKey
  BY <1>2, <1>3, PlanAssumption DEF MAX_RETRIES
<1> QED
  BY <1>1, <1>2, <1>3, <1>4

(* Advance leads to a place that exists.                                   *)
LEMMA AdvancePlace ==
  ASSUME PlaceOK, pc \in At, Advance
  PROVE  PlaceOK'
<1>1. /\ pos \in DOMAIN Plan /\ pos \in 1 .. Len(Plan) /\ idx \in 1 .. Len(item.steps)
      /\ Len(item.steps) \in Nat /\ DOMAIN item.steps = 1 .. Len(item.steps) /\ subject' \in Scope
  BY HereFacts, PlanFacts, PlanLength DEF item, PlaceOK, Advance
<1>2. CASE idx < Len(item.steps) /\ idx' = idx + 1 /\ pc' = "visit" /\ UNCHANGED pos
  BY <1>1, <1>2, PlanLength DEF PlaceOK, item
<1>3. CASE idx = Len(item.steps) /\ item.each /\ pc' = "subject" /\ UNCHANGED <<pos, idx>>
  BY <1>1, <1>3, PlanLength DEF PlaceOK, item
<1>4. CASE idx = Len(item.steps) /\ ~item.each /\ pc' = "open" /\ pos' = pos + 1 /\ UNCHANGED idx
  BY <1>1, <1>4, PlanLength DEF PlaceOK, item
<1> QED
  BY <1>2, <1>3, <1>4 DEF Advance

(* A skip writes a well-formed record and nothing else but the place.      *)
LEMMA SkipRecordType ==
  ASSUME NEW kind \in SkipKind, NEW by \in Instance \cup {Nobody}, NEW n \in 0 .. 1 + MAX_RETRIES
  PROVE  SkipRecord(kind, by, n) \in Record
BY DEF SkipRecord, Unvisited, Record, Outcome, SkipKind, Status, NoListing, Listing

LEMMA SkippedType ==
  ASSUME PlaceOK, records \in [Instance -> Record], pc \in At,
         NEW kind \in SkipKind, NEW by \in Instance \cup {Nobody}, Skipped(kind, by)
  PROVE  PlaceOK' /\ records' \in [Instance -> Record]
         /\ UNCHANGED <<executed, attempts, result, subject, left, subject_start, enumerations>>
<1>1. PlaceOK'
  BY AdvancePlace DEF Skipped
<1>2. SkipRecord(kind, by, 0) \in Record
  BY SkipRecordType DEF MAX_RETRIES
<1>3. records' \in [Instance -> Record]
  BY <1>2, HereFacts DEF Skipped
<1> QED
  BY <1>1, <1>3 DEF Skipped, Advance

----------------------------------------------------------------------------
(* Type correctness.                                                       *)
IType == TypeOK /\ LoopOK

LEMMA TypeInit == Init => IType
<1> SUFFICES ASSUME Init PROVE IType
  OBVIOUS
<1>1. PlaceOK
  <2>1. pc = "open" /\ pos = 1 /\ idx = 1 /\ subject = Whole
    BY DEF Init
  <2> QED
    BY <2>1, PlanLength DEF PlaceOK, Scope
<1>2. Unvisited \in Record
  BY DEF Unvisited, Record, NoListing, Listing, Nobody, Instance, SkipKind, Status, MAX_RETRIES
<1>3. MemoryOK
  <2>1. records \in [Instance -> Record]
    BY <1>2 DEF Init
  <2>2. cache \in [CheckKey -> Status]
    BY DEF Init, Status
  <2>3. enumerations \in [DOMAIN Plan -> [status : EnumStatus, subjects : SUBSET Subject,
                                          unfinished : SUBSET Scope]]
    BY DEF Init, EnumStatus
  <2>4. /\ executed = 0 /\ clock = 0 /\ runs = 0 /\ attempts = 0 /\ stop_reason = "none" /\ result = "none"
        /\ left = {} /\ unfinished = {} /\ subject_start = 0 /\ subject_stop = "none"
    BY DEF Init
  <2>5. 0 \in 0 .. 1 + MAX_RETRIES /\ "none" \in StopReason /\ "none" \in Status
    BY DEF MAX_RETRIES, StopReason, Status
  <2> QED
    BY <2>1, <2>2, <2>3, <2>4, <2>5 DEF MemoryOK
<1>4. LoopOK
  BY DEF Init, LoopOK
<1> QED
  BY <1>1, <1>3, <1>4 DEF IType, TypeOK

(* The record of an enumeration: kept subjects are subjects.               *)
LEMMA SubjectsType ==
  ASSUME MemoryOK, NEW i \in DOMAIN Plan
  PROVE  Subjects(i) \in [status : EnumStatus, subjects : SUBSET Subject, unfinished : SUBSET Scope]
<1> DEFINE src == records[<<Plan[i].source, Whole>>]
<1>1. <<Plan[i].source, Whole>> \in Instance
  BY PlanFacts DEF Instance, Scope, Whole
<1>2. src.listing.names \subseteq Subject
  BY <1>1 DEF MemoryOK, Record, Listing
<1>3. Least(src.listing.names, Plan[i].max_instances) \subseteq Subject
  BY <1>2 DEF Least
<1> QED
  BY <1>3 DEF Subjects, EnumStatus

LEMMA WalkType ==
  ASSUME IType, Walk
  PROVE  IType'
<1> USE DEF IType, TypeOK
<1>1. CASE OpenStep
  <2>1. pos \in DOMAIN Plan /\ 1 \in DOMAIN item.steps
    BY <1>1, ItemFacts DEF OpenStep
  <2>2. PlaceOK'
    BY <1>1, <2>1, PlanLength DEF OpenStep, PlaceOK, Scope, item
  <2>3. MemoryOK' /\ LoopOK'
    BY <1>1 DEF OpenStep, MemoryOK, LoopOK, runner, template
  <2> QED
    BY <2>2, <2>3
<1>2. CASE OpenTemplate
  <2>1. pos \in DOMAIN Plan /\ item.each
    BY <1>2 DEF OpenTemplate
  <2>2. Subjects(pos) \in [status : EnumStatus, subjects : SUBSET Subject, unfinished : SUBSET Scope]
    BY <2>1, SubjectsType
  <2>3. PlaceOK'
    BY <1>2, <2>1 DEF OpenTemplate, PlaceOK, item
  <2>4. MemoryOK' /\ LoopOK'
    BY <1>2, <2>1, <2>2 DEF OpenTemplate, MemoryOK, LoopOK, runner
  <2> QED
    BY <2>3, <2>4
<1>3. CASE StartSubject
  <2>1. pos \in DOMAIN Plan /\ 1 \in DOMAIN item.steps
    BY <1>3, ItemFacts DEF StartSubject, PlaceOK
  <2>2. subject' \in Scope /\ left' \subseteq Subject
    BY <1>3 DEF StartSubject, MemoryOK, Scope
  <2>3. PlaceOK'
    BY <1>3, <2>1, <2>2, PlanLength DEF StartSubject, PlaceOK, item
  <2>4. MemoryOK' /\ LoopOK'
    BY <1>3, <2>2 DEF StartSubject, MemoryOK, LoopOK, runner
  <2> QED
    BY <2>3, <2>4
<1>4. CASE CloseTemplate
  <2>1. PlaceOK'
    BY <1>4, PlanLength DEF CloseTemplate, PlaceOK, item
  <2>2. enumerations' \in [DOMAIN Plan -> [status : EnumStatus, subjects : SUBSET Subject,
                                           unfinished : SUBSET Scope]]
    BY <1>4 DEF CloseTemplate, MemoryOK, EnumStatus
  <2>3. MemoryOK' /\ LoopOK'
    BY <1>4, <2>2 DEF CloseTemplate, MemoryOK, LoopOK, runner
  <2> QED
    BY <2>1, <2>3
<1>5. CASE Finish
  BY <1>5 DEF Finish, PlaceOK, MemoryOK, LoopOK, runner, template, item
<1> QED
  BY <1>1, <1>2, <1>3, <1>4, <1>5 DEF Walk

LEMMA SkipType ==
  ASSUME IType, Skip
  PROVE  IType'
<1> USE DEF IType, TypeOK
<1>1. pc = "visit" /\ pc \in At /\ records \in [Instance -> Record]
  BY DEF Skip, SliceUsedUp, SubjectStopped, RunStopped, SkipBlocked, SkipNotApplicable, SkipNotNeeded,
         SkipPrivilege, StepBudgetUsedUp, TimeBudgetUsedUp, SkipNoValue, Visiting, Relevant, Permitted,
         WithinBudget, At, MemoryOK
<1>2. \E kind \in SkipKind, by \in Instance \cup {Nobody} : Skipped(kind, by)
  <2>1. CASE SkipBlocked
    <3>1. PICK k \in DOMAIN Requires[step] : Skipped("blocked", Key(step, Requires[step][k].step, subject))
      BY <2>1 DEF SkipBlocked
    <3>2. step \in Step /\ subject \in Scope
      BY <1>1, HereFacts DEF PlaceOK
    <3>3. Requires[step] \in Seq(Req)
      BY <3>2, PlanAssumption
    <3>4. Requires[step][k] \in Req
      BY <3>1, <3>3, ElementOfSeq, LenProperties
    <3>5. Key(step, Requires[step][k].step, subject) \in Instance
      BY <3>2, <3>4 DEF Key, Instance, Req, Scope
    <3> QED
      BY <3>1, <3>5 DEF SkipKind
  <2> QED
    BY <2>1 DEF Skip, SliceUsedUp, SubjectStopped, RunStopped, SkipNotApplicable, SkipNotNeeded,
         SkipPrivilege, StepBudgetUsedUp, TimeBudgetUsedUp, SkipNoValue, SkipKind
<1>3. PlaceOK' /\ records' \in [Instance -> Record]
      /\ UNCHANGED <<executed, attempts, result, subject, left, subject_start, enumerations>>
      /\ pc' \notin {"run", "got"}
  <2> PICK kind \in SkipKind, by \in Instance \cup {Nobody} : Skipped(kind, by)
    BY <1>2
  <2>1. pc' \notin {"run", "got"}
    BY DEF Skipped, Advance
  <2> QED
    BY <1>1, <2>1, SkippedType
<1>4. subject \in Scope
  BY DEF PlaceOK
<1>5. /\ UNCHANGED runner /\ stop_reason' \in StopReason
      /\ unfinished' \subseteq Scope /\ subject_stop' \in {"none", "slice", "hook"}
  BY <1>4 DEF Skip, SliceUsedUp, SubjectStopped, RunStopped, SkipBlocked, SkipNotApplicable, SkipNotNeeded,
         SkipPrivilege, StepBudgetUsedUp, TimeBudgetUsedUp, SkipNoValue, Unfinish, MemoryOK, StopReason
<1>6. MemoryOK' /\ LoopOK'
  BY <1>3, <1>5 DEF MemoryOK, LoopOK, runner
<1> QED
  BY <1>3, <1>6

LEMMA RunCheckType ==
  ASSUME IType, RunCheck
  PROVE  IType'
<1> USE DEF IType, TypeOK
<1>1. pc \in At
  BY DEF RunCheck, Start, UseCached, Execute, Interrupted, Retry, Conclude, MustExecute, At,
         WithinBudget, Permitted, Relevant, Visiting
<1>2. step \in Step /\ here \in Instance /\ Retries[step] \in {0, 1} /\ Check[here] \in CheckKey
      /\ subject \in Scope
  BY <1>1, HereFacts DEF PlaceOK
<1>a. /\ attempts \in {0, 1, 2} /\ clock \in Nat /\ runs \in Nat /\ executed \in Nat
      /\ result \in Status /\ cache \in [CheckKey -> Status] /\ unfinished \subseteq Scope
      /\ pc = "run" => attempts \in {0, 1} /\ attempts <= Retries[step]
  BY <1>2 DEF MemoryOK, LoopOK, MAX_RETRIES
<1>b. \A d \in 0 .. CheckTimeout : clock + d \in Nat
  BY <1>a, BudgetAssumption
<1>3. CASE Start
  <2>1. PlaceOK'
    BY <1>1, <1>3, HereFacts DEF Start, PlaceOK, item
  <2>2. MemoryOK' /\ LoopOK'
    BY <1>2, <1>3 DEF Start, MemoryOK, LoopOK, runner, template, MAX_RETRIES, Status, step, item
  <2> QED
    BY <2>1, <2>2
<1>4. CASE UseCached
  <2>1. PlaceOK'
    BY <1>1, <1>4, HereFacts DEF UseCached, PlaceOK, item
  <2>2. MemoryOK' /\ LoopOK'
    BY <1>2, <1>4 DEF UseCached, MemoryOK, LoopOK, runner, template, MAX_RETRIES, step, item
  <2> QED
    BY <2>1, <2>2
<1>5. CASE Execute
  <2>1. PlaceOK'
    BY <1>1, <1>5, HereFacts DEF Execute, MustExecute, PlaceOK, item
  <2>2. attempts' \in 1 .. 1 + Retries[step] /\ runs' \in Nat
    BY <1>2, <1>a, <1>5 DEF Execute, MustExecute
  <2>3. clock' \in Nat /\ result' \in Status /\ cache' \in [CheckKey -> Status]
    BY <1>2, <1>a, <1>b, <1>5 DEF Execute, Status
  <2>4. MemoryOK' /\ LoopOK'
    BY <1>2, <1>5, <2>2, <2>3 DEF Execute, MemoryOK, LoopOK, template, MAX_RETRIES, step, item
  <2> QED
    BY <2>1, <2>4
<1>6. CASE Interrupted
  <2>1. PlaceOK' /\ pc' \notin {"run", "got"}
    BY <1>1, <1>6, AdvancePlace DEF Interrupted, Advance
  <2>2. attempts + 1 \in 0 .. 1 + MAX_RETRIES
    BY <1>a, <1>6 DEF Interrupted, MustExecute, MAX_RETRIES
  <2>3. SkipRecord("stopped", Nobody, attempts + 1) \in Record
    BY <2>2, SkipRecordType DEF SkipKind
  <2>4. records' \in [Instance -> Record]
    BY <1>2, <1>6, <2>3 DEF Interrupted, MemoryOK
  <2>5. clock' \in Nat /\ runs' \in Nat /\ cache' = cache /\ unfinished' \subseteq Scope
    BY <1>2, <1>a, <1>b, <1>6 DEF Interrupted, Unfinish
  <2>6. MemoryOK' /\ LoopOK'
    BY <1>6, <2>1, <2>4, <2>5 DEF Interrupted, Advance, MemoryOK, LoopOK, StopReason
  <2> QED
    BY <2>1, <2>6
<1>7. CASE Retry
  <2>1. PlaceOK'
    BY <1>1, <1>7, HereFacts DEF Retry, PlaceOK, item
  <2>2. MemoryOK' /\ LoopOK'
    BY <1>2, <1>7 DEF Retry, MayRetry, MemoryOK, LoopOK, runner, template, step, item
  <2> QED
    BY <2>1, <2>2
<1>8. CASE Conclude
  <2>1. PlaceOK' /\ pc' \notin {"run", "got"}
    BY <1>1, <1>8, AdvancePlace DEF Conclude, Advance
  <2>2. PICK o \in Outcome, f \in BOOLEAN, l \in Listing :
          records' = [records EXCEPT ![here] =
                        [outcome |-> o, skip |-> "none", blocked_by |-> Nobody, status |-> result,
                         attempts |-> attempts, fact |-> f, listing |-> l]]
    <3>1. Answers[step] \subseteq Outcome /\ NoListing \in Listing
      BY <1>2, PlanAssumption DEF Outcome, NoListing, Listing
    <3> QED
      BY <1>8, <3>1 DEF Conclude, Outcome
  <2>3. records' \in [Instance -> Record]
    BY <1>2, <2>2 DEF MemoryOK, Record, SkipKind
  <2>4. stop_reason' \in StopReason /\ subject_stop' \in {"none", "slice", "hook"}
    BY <1>8 DEF Conclude, MemoryOK, StopReason
  <2>5. MemoryOK' /\ LoopOK'
    BY <1>8, <2>1, <2>3, <2>4 DEF Conclude, Advance, MemoryOK, LoopOK, runner
  <2> QED
    BY <2>1, <2>5
<1> QED
  BY <1>3, <1>4, <1>5, <1>6, <1>7, <1>8 DEF RunCheck

LEMMA TypeStep == IType /\ [Next]_vars => IType'
<1> SUFFICES ASSUME IType, [Next]_vars PROVE IType'
  OBVIOUS
<1>1. CASE UNCHANGED vars
  BY <1>1 DEF IType, TypeOK, PlaceOK, MemoryOK, LoopOK, vars, place, runner, template, item, step
<1> QED
  BY <1>1, WalkType, SkipType, RunCheckType DEF Next

(* Every run keeps every variable in its type, and never retries beyond    *)
(* the declared retries (_Run, run_plan).                                  *)
THEOREM TypeCorrect == Spec => [](TypeOK /\ LoopOK)
<1>1. Spec => []IType
  BY TypeInit, TypeStep, PTL DEF Spec
<1> QED
  BY <1>1, PTL DEF IType

----------------------------------------------------------------------------
(* The inductive invariants behind the safety properties.                  *)

(* While a check runs, what it already spent is bounded by its attempts.   *)
Spending ==
  /\ executed <= MaxSteps
  /\ pc \in {"run", "got"} => /\ executed >= 1
                              /\ runs <= 2 * executed - 2 + attempts
                              /\ attempts = 0 => clock <= MaxSeconds
                              /\ attempts = 1 => clock <= MaxSeconds + CheckTimeout
  /\ runs <= 2 * executed
  /\ clock <= MaxSeconds + 2 * CheckTimeout

(* Nothing starts once the run has stopped.                                *)
NoneAfterStop == stop_reason # "none" => pc \notin {"run", "got"}

(* Only what the walk has passed is decided: no instance is visited twice. *)
Passed(s, x) ==
  \/ s \in Earlier(pos)
  \/ /\ pc \in {"subject"} \cup At
     /\ item.each /\ s \in StepsOf(pos) /\ x \notin left
     /\ pc \in At /\ x = subject => \E l \in 1 .. idx - 1 : s = item.steps[l]
Fresh ==
  /\ \A s \in Step, x \in Scope : Decided(<<s, x>>) => Passed(s, x)
  /\ pc \in At /\ item.each => subject \notin left

(* The check that is running still stands on its evidence.                 *)
Standing ==
  /\ NeverOnAGuess
  /\ pc \in {"run", "got"} => ~Blocked(step, subject) /\ ~Unresolved(step, subject)

(* The cache holds every answer that was reported and is not a timeout.    *)
Remembered ==
  /\ \A i \in Instance : Ran(i) /\ records[i].status # "TIMED_OUT" =>
       records[i].status = cache[Check[i]] /\ records[i].status # "none"
  /\ pc = "got" => cache[Check[here]] = result /\ result # "none"
  /\ pc = "run" /\ attempts > 0 => cache[Check[here]] = "TIMED_OUT"


----------------------------------------------------------------------------
(* The shape of the three kinds of step.                                   *)
Writes(r) == pc \in At /\ Advance /\ records' = [records EXCEPT ![here] = r]

LEMMA WalkShape ==
  ASSUME Walk
  PROVE  /\ pc \notin At /\ pc' \notin {"run", "got"}
         /\ UNCHANGED <<records, executed, stop_reason, attempts, result, cache, runs, clock>>
BY DEF Walk, OpenStep, OpenTemplate, StartSubject, CloseTemplate, Finish, At, runner

LEMMA SkipShape ==
  ASSUME Skip
  PROVE  /\ pc = "visit" /\ pc' \notin {"run", "got"}
         /\ UNCHANGED <<executed, attempts, result, cache, runs, clock>>
         /\ stop_reason # "none" => UNCHANGED stop_reason
         /\ \E kind \in SkipKind : \E by : Writes(SkipRecord(kind, by, 0))
<1>1. /\ pc = "visit" /\ UNCHANGED <<cache, runs, clock>>
      /\ stop_reason # "none" => UNCHANGED stop_reason
      /\ \E kind \in SkipKind : \E by : Skipped(kind, by)
  BY DEF Skip, SliceUsedUp, SubjectStopped, RunStopped, SkipBlocked, SkipNotApplicable, SkipNotNeeded,
         SkipPrivilege, StepBudgetUsedUp, TimeBudgetUsedUp, SkipNoValue, Visiting, Relevant, Permitted,
         WithinBudget, runner, SkipKind
<1> QED
  BY <1>1 DEF Skipped, Advance, Writes, At

LEMMA InterruptedShape ==
  ASSUME Interrupted
  PROVE  /\ pc = "run" /\ pc' \notin {"run", "got"} /\ Writes(SkipRecord("stopped", Nobody, attempts + 1))
         /\ UNCHANGED <<executed, cache>>
BY DEF Interrupted, MustExecute, Writes, Advance, At

ConcludedRecord(o, f, l) ==
  [outcome |-> o, skip |-> "none", blocked_by |-> Nobody, status |-> result,
   attempts |-> attempts, fact |-> f, listing |-> l]

LEMMA ConcludeShape ==
  ASSUME Conclude
  PROVE  /\ pc = "got" /\ pc' \notin {"run", "got"}
         /\ UNCHANGED <<executed, cache, runs, clock>>
         /\ ~(result = "TIMED_OUT" /\ attempts <= Retries[step])
         /\ \E o, f, l : /\ Writes(ConcludedRecord(o, f, l))
                         /\ o # "UNKNOWN" => result = "OK"
<1>1. /\ pc = "got" /\ pc' \notin {"run", "got"} /\ Advance
      /\ UNCHANGED <<executed, cache, runs, clock>>
      /\ ~(result = "TIMED_OUT" /\ attempts <= Retries[step])
  BY DEF Conclude, MayRetry, Advance, runner
<1>2. \E o, f, l : /\ records' = [records EXCEPT ![here] = ConcludedRecord(o, f, l)]
                   /\ o # "UNKNOWN" => result = "OK"
  BY DEF Conclude, ConcludedRecord
<1> QED
  BY <1>1, <1>2 DEF Writes, At

LEMMA SkipRecordFields ==
  ASSUME NEW kind, NEW by, NEW n
  PROVE  SkipRecord(kind, by, n).outcome = "SKIPPED"
BY DEF SkipRecord, Unvisited

----------------------------------------------------------------------------
(* Budgets.                                                                *)
LEMMA SpendingStep ==
  ASSUME IType, Spending, [Next]_vars
  PROVE  Spending'
<1> USE BudgetAssumption
<1>1. /\ executed \in Nat /\ clock \in Nat /\ runs \in Nat /\ attempts \in {0, 1, 2}
      /\ pc = "run" => attempts \in {0, 1}
  <2>1. executed \in Nat /\ clock \in Nat /\ runs \in Nat /\ attempts \in {0, 1, 2}
    BY DEF IType, TypeOK, MemoryOK, MAX_RETRIES
  <2>2. pc = "run" => Retries[step] \in {0, 1} /\ attempts <= Retries[step]
    BY HereFacts DEF IType, TypeOK, LoopOK, At
  <2> QED
    BY <2>1, <2>2
<1>2. CASE UNCHANGED vars
  BY <1>2 DEF vars, place, runner, Spending
<1>3. CASE Walk
  BY <1>1, <1>3, WalkShape DEF Spending, At
<1>4. CASE Skip
  BY <1>1, <1>4, SkipShape DEF Spending
<1>5. CASE Start
  <2>1. /\ executed < MaxSteps /\ clock <= MaxSeconds /\ pc = "visit"
        /\ executed' = executed + 1 /\ attempts' = 0 /\ pc' = "run" /\ UNCHANGED <<runs, clock>>
    BY <1>5 DEF Start, WithinBudget, Permitted, Relevant, Visiting, runner
  <2> QED
    BY <1>1, <2>1 DEF Spending
<1>6. CASE UseCached
  <2>1. pc = "run" /\ attempts = 0 /\ attempts' = 1 /\ pc' = "got" /\ UNCHANGED <<executed, runs, clock>>
    BY <1>6 DEF UseCached, runner
  <2> QED
    BY <1>1, <2>1 DEF Spending
<1>7. CASE Execute
  <2>1. PICK d \in 0 .. CheckTimeout : clock' = clock + d
    BY <1>7 DEF Execute
  <2>2. pc = "run" /\ attempts' = attempts + 1 /\ pc' = "got" /\ runs' = runs + 1 /\ executed' = executed
    BY <1>7 DEF Execute, MustExecute
  <2> QED
    BY <1>1, <2>1, <2>2 DEF Spending
<1>8. CASE Interrupted
  <2>1. PICK d \in 0 .. CheckTimeout : clock' = clock + d
    BY <1>8 DEF Interrupted
  <2>2. pc = "run" /\ pc' \notin {"run", "got"} /\ runs' = runs + 1 /\ executed' = executed
    BY <1>8, InterruptedShape DEF Interrupted
  <2> QED
    BY <1>1, <2>1, <2>2 DEF Spending
<1>9. CASE Retry
  <2>1. pc = "got" /\ pc' = "run" /\ UNCHANGED <<attempts, executed, runs, clock>>
    BY <1>9 DEF Retry, runner
  <2> QED
    BY <1>1, <2>1 DEF Spending
<1>10. CASE Conclude
  <2>1. pc = "got" /\ pc' \notin {"run", "got"} /\ UNCHANGED <<executed, runs, clock>>
    BY <1>10, ConcludeShape
  <2> QED
    BY <1>1, <2>1 DEF Spending
<1> QED
  BY <1>2, <1>3, <1>4, <1>5, <1>6, <1>7, <1>8, <1>9, <1>10 DEF Next, RunCheck

LEMMA NoneAfterStopStep ==
  ASSUME NoneAfterStop, [Next]_vars
  PROVE  NoneAfterStop'
<1>1. CASE UNCHANGED vars
  BY <1>1 DEF vars, place, NoneAfterStop
<1>2. CASE Walk
  BY <1>2, WalkShape DEF NoneAfterStop
<1>3. CASE Skip
  BY <1>3, SkipShape DEF NoneAfterStop
<1>4. CASE Start
  BY <1>4 DEF NoneAfterStop, Start, WithinBudget, Permitted, Relevant
<1>5. CASE UseCached \/ Execute \/ Retry
  BY <1>5 DEF NoneAfterStop, UseCached, Execute, MustExecute, Retry
<1>6. CASE Interrupted \/ Conclude
  BY <1>6, InterruptedShape, ConcludeShape DEF NoneAfterStop
<1> QED
  BY <1>1, <1>2, <1>3, <1>4, <1>5, <1>6 DEF Next, RunCheck

(* The budgets hold for every plan and every number of steps and seconds:  *)
(* what the two tests before a check let through, and no more (visit()).   *)
THEOREM BudgetsCorrect == Spec => []BudgetsHold
<1>1. Init => Spending
  BY BudgetAssumption DEF Init, Spending
<1>2. IType /\ Spending /\ [Next]_vars => Spending'
  BY SpendingStep
<1>3. IType /\ Spending => BudgetsHold
  <2> SUFFICES ASSUME IType, Spending PROVE BudgetsHold
    OBVIOUS
  <2>1. executed \in Nat /\ runs \in Nat
    BY DEF IType, TypeOK, MemoryOK
  <2> QED
    BY <2>1, BudgetAssumption DEF Spending, BudgetsHold, MAX_RETRIES
<1>4. Spec => [](IType /\ Spending)
  BY <1>1, <1>2, TypeInit, TypeStep, PTL DEF Spec
<1> QED
  BY <1>3, <1>4, PTL

(* A stop is final: neither a check nor another reason follows it (the     *)
(* first test of visit()).                                                 *)
THEOREM StopCorrect == Spec => StopIsFinal
<1>1. Init => NoneAfterStop
  BY DEF Init, NoneAfterStop
<1>2. NoneAfterStop /\ [Next]_vars => NoneAfterStop'
  BY NoneAfterStopStep
<1>3. NoneAfterStop /\ [Next]_vars =>
        [stop_reason # "none" => UNCHANGED <<stop_reason, executed, runs, cache, clock>>]_vars
  <2> SUFFICES ASSUME NoneAfterStop, [Next]_vars, stop_reason # "none"
               PROVE  UNCHANGED <<stop_reason, executed, runs, cache, clock>>
    OBVIOUS
  <2>1. ~RunCheck
    BY DEF NoneAfterStop, RunCheck, Start, UseCached, Execute, Interrupted, Retry, Conclude, MustExecute,
           WithinBudget, Permitted, Relevant
  <2>2. CASE UNCHANGED vars
    BY <2>2 DEF vars, runner
  <2> QED
    BY <2>1, <2>2, WalkShape, SkipShape DEF Next
<1> QED
  BY <1>1, <1>2, <1>3, PTL DEF Spec, StopIsFinal

----------------------------------------------------------------------------
(* No instance is visited twice.                                           *)

LEMMA EarlierNext ==
  ASSUME NEW i \in Nat
  PROVE  Earlier(i + 1) = Earlier(i) \cup (IF i >= 1 THEN StepsOf(i) ELSE {})
BY DEF Earlier

(* Step ids are distinct, within an item and between items.                *)
LEMMA DistinctSteps ==
  ASSUME NEW i \in DOMAIN Plan
  PROVE  /\ StepsOf(i) \cap Earlier(i) = {}
         /\ \A k, l \in DOMAIN Plan[i].steps : Plan[i].steps[k] = Plan[i].steps[l] => k = l
BY PlanAssumption

(* The visited instance has no record yet.                                 *)
LEMMA HereUndecided ==
  ASSUME IType, Fresh, pc \in At
  PROVE  ~Decided(here)
<1>1. /\ pos \in DOMAIN Plan /\ idx \in DOMAIN item.steps /\ step \in Step /\ subject \in Scope
      /\ DOMAIN item.steps = 1 .. Len(item.steps) /\ Len(item.steps) \in Nat
  BY HereFacts, ItemFacts DEF IType, TypeOK, PlaceOK
<1>2. step \in StepsOf(pos) /\ step \notin Earlier(pos)
  BY <1>1, DistinctSteps DEF StepsOf, step, item
<1>3. ~\E l \in 1 .. idx - 1 : step = item.steps[l]
  BY <1>1, DistinctSteps DEF step, item
<1>4. ~Passed(step, subject)
  BY <1>2, <1>3 DEF Passed
<1> QED
  BY <1>1, <1>4 DEF Fresh, here

(* Recording the visited instance and advancing keeps Fresh.               *)
LEMMA FreshAdvance ==
  ASSUME IType, Fresh, NEW r, Writes(r)
  PROVE  Fresh'
<1>1. /\ pc \in At /\ pos \in DOMAIN Plan /\ pos \in Nat \ {0} /\ idx \in DOMAIN item.steps /\ idx \in Nat
      /\ step \in Step /\ subject \in Scope /\ item.each \in BOOLEAN
      /\ DOMAIN item.steps = 1 .. Len(item.steps) /\ Len(item.steps) \in Nat
      /\ records \in [Instance -> Record] /\ here \in Instance
  BY HereFacts, ItemFacts, PlanLength DEF IType, TypeOK, PlaceOK, MemoryOK, Writes
<1>2. step \in StepsOf(pos)
  BY <1>1 DEF StepsOf, step, item
<1>3. ASSUME NEW s \in Step, NEW x \in Scope, Decided(<<s, x>>)'
      PROVE  <<s, x>> = here \/ Passed(s, x)
  <2>1. CASE <<s, x>> # here
    <3>1. <<s, x>> \in Instance
      BY DEF Instance
    <3>2. Decided(<<s, x>>)
      BY <1>1, <1>3, <2>1, <3>1 DEF Writes, Decided
    <3> QED
      BY <3>2 DEF Fresh
  <2> QED
    BY <2>1
<1>4. ASSUME NEW s \in Step, NEW x \in Scope, Decided(<<s, x>>)'
      PROVE  Passed(s, x)'
  <2>1. s \in StepsOf(pos) \/ s \in Earlier(pos)
    BY <1>2, <1>3, <1>4 DEF Passed, here
  <2>2. CASE ~item.each /\ idx = Len(item.steps) /\ pc' = "open" /\ pos' = pos + 1
    BY <1>1, <2>1, <2>2, EarlierNext DEF Passed
  <2>3. CASE /\ pos' = pos /\ UNCHANGED <<subject, left>>
             /\ \/ idx < Len(item.steps) /\ idx' = idx + 1 /\ pc' = "visit"
                \/ idx = Len(item.steps) /\ item.each /\ pc' = "subject" /\ idx' = idx
    <3>1. item.each
      <4>1. CASE idx < Len(item.steps)
        BY <1>1, <4>1, PlanFacts DEF item
      <4> QED
        BY <2>3, <4>1
    <3>2. CASE s \in Earlier(pos)
      BY <2>3, <3>2 DEF Passed
    <3>3. CASE s \notin Earlier(pos)
      <4>1. s \in StepsOf(pos) /\ x \notin left
        BY <1>1, <1>3, <1>4, <2>1, <3>1, <3>3 DEF Passed, here, Fresh
      <4>2. idx' = idx + 1 /\ pc' = "visit" /\ x = subject => \E l \in 1 .. idx : s = item.steps[l]
        <5>1. CASE s = step
          BY <1>1, <5>1 DEF step
        <5>2. CASE s # step
          BY <1>1, <1>3, <1>4, <3>3, <5>2 DEF Passed, here
        <5> QED
          BY <5>1, <5>2
      <4>3. (item.steps)' = item.steps /\ StepsOf(pos)' = StepsOf(pos) /\ item.each'
        BY <2>3, <3>1 DEF item, StepsOf
      <4> QED
        BY <1>1, <2>3, <4>1, <4>2, <4>3 DEF Passed, At, item
    <3> QED
      BY <3>2, <3>3
  <2> QED
    BY <2>2, <2>3 DEF Writes, Advance
<1>5. pc' \in At /\ item'.each => subject' \notin left'
  BY <1>1 DEF Writes, Advance, Fresh, At, item
<1> QED
  BY <1>4, <1>5 DEF Fresh

LEMMA FreshStep ==
  ASSUME IType, Fresh, [Next]_vars
  PROVE  Fresh'
<1>1. pos \in Nat /\ (pc \in At \cup {"subject"} => pos \in DOMAIN Plan)
  BY PlanLength DEF IType, TypeOK, PlaceOK, At
<1>2. CASE UNCHANGED vars
  BY <1>2 DEF vars, place, template, Fresh, Passed, Decided, item
<1>3. CASE OpenStep
  <2>1. ~item.each /\ pos' = pos /\ records' = records /\ pc' = "visit"
    BY <1>3 DEF OpenStep
  <2>2. pc = "open"
    BY <1>3 DEF OpenStep
  <2> QED
    BY <2>1, <2>2 DEF Fresh, Passed, Decided, At, item
<1>4. CASE OpenTemplate
  <2>1. pc = "open" /\ pos' = pos /\ records' = records /\ pc' = "subject"
    BY <1>4 DEF OpenTemplate
  <2> QED
    BY <2>1 DEF Fresh, Passed, Decided, At, item
<1>5. CASE StartSubject
  <2>1. /\ pc = "subject" /\ pos' = pos /\ records' = records /\ pc' = "visit"
        /\ subject' \in left /\ left' = left \ {subject'} /\ item.each
    BY <1>5 DEF StartSubject, IType, TypeOK, PlaceOK
  <2> QED
    BY <2>1 DEF Fresh, Passed, Decided, At, item
<1>6. CASE CloseTemplate
  <2>1. pc = "subject" /\ pos' = pos + 1 /\ records' = records /\ pc' = "open" /\ pos \in Nat /\ pos >= 1
    BY <1>1, <1>6, PlanLength DEF CloseTemplate
  <2>2. Earlier(pos') = Earlier(pos) \cup StepsOf(pos)
    BY <2>1, EarlierNext
  <2>3. Earlier(pos)' = Earlier(pos')
    BY DEF Earlier
  <2> QED
    BY <2>1, <2>2, <2>3 DEF Fresh, Passed, Decided, At, item
<1>7. CASE Finish
  BY <1>7 DEF Finish, Fresh, Passed, Decided, At, item
<1>8. CASE Skip
  BY <1>8, SkipShape, FreshAdvance
<1>9. CASE Interrupted
  BY <1>9, InterruptedShape, FreshAdvance
<1>10. CASE Conclude
  BY <1>10, ConcludeShape, FreshAdvance
<1>11. CASE Start \/ UseCached \/ Execute \/ Retry
  <2>1. UNCHANGED <<pos, idx, subject, records, left>> /\ pc \in At /\ pc' \in At
    BY <1>11 DEF Start, UseCached, Execute, Retry, MustExecute, WithinBudget, Permitted, Relevant,
                 Visiting, At, template
  <2> QED
    BY <2>1 DEF Fresh, Passed, Decided, At, item
<1> QED
  BY <1>2, <1>3, <1>4, <1>5, <1>6, <1>7, <1>8, <1>9, <1>10, <1>11 DEF Next, Walk, RunCheck

LEMMA FreshInit == Init => Fresh
BY DEF Init, Fresh, Decided, Unvisited, Instance, At

LEMMA FreshCorrect == Spec => [](IType /\ Fresh)
<1>1. IType /\ Fresh /\ [Next]_vars => Fresh'
  BY FreshStep
<1> QED
  BY <1>1, FreshInit, TypeInit, TypeStep, PTL DEF Spec

(* Every step either leaves the records alone or decides the instance that *)
(* is visited, which had no record.                                        *)
LEMMA RecordsShape ==
  ASSUME IType, Fresh, [Next]_vars
  PROVE  records' = records \/ (pc \in At /\ \E r : records' = [records EXCEPT ![here] = r])
<1>1. CASE UNCHANGED vars
  BY <1>1 DEF vars
<1>2. CASE Walk
  BY <1>2, WalkShape
<1>3. CASE Skip \/ Interrupted \/ Conclude
  BY <1>3, SkipShape, InterruptedShape, ConcludeShape DEF Writes
<1>4. CASE Start \/ UseCached \/ Execute \/ Retry
  BY <1>4 DEF Start, UseCached, Execute, Retry
<1> QED
  BY <1>1, <1>2, <1>3, <1>4 DEF Next, RunCheck

LEMMA DecidedStays ==
  ASSUME IType, Fresh, [Next]_vars, NEW i \in Instance, Decided(i)
  PROVE  records'[i] = records[i]
<1>1. CASE records' = records
  BY <1>1
<1>2. CASE pc \in At /\ \E r : records' = [records EXCEPT ![here] = r]
  <2>1. i # here
    BY <1>2, HereUndecided
  <2> QED
    BY <1>2, <2>1 DEF IType, TypeOK, MemoryOK
<1> QED
  BY <1>1, <1>2, RecordsShape

(* What was recorded is never revised: the walk meets every instance at    *)
(* most once, whatever the plan repeats, skips or stops (run_plan).        *)
THEOREM RecordsCorrect == Spec => RecordsStand
<1>1. IType /\ Fresh /\ [Next]_vars =>
        [\A i \in Instance : Decided(i) => records'[i] = records[i]]_vars
  BY DecidedStays
<1> QED
  BY <1>1, FreshCorrect, PTL DEF Spec, RecordsStand

----------------------------------------------------------------------------
(* Evidence that stood when a check started stands for ever.               *)
LEMMA KeyType ==
  ASSUME NEW s \in Step, NEW d \in Step, NEW x \in Scope
  PROVE  Key(s, d, x) \in Instance
BY DEF Key, Instance, Scope

LEMMA EvidenceStays ==
  ASSUME IType, Fresh, [Next]_vars, NEW s \in Step, NEW x \in Scope,
         ~Blocked(s, x), ~Unresolved(s, x)
  PROVE  ~Blocked(s, x)' /\ ~Unresolved(s, x)'
<1>1. ASSUME NEW i \in Instance, Decided(i)
      PROVE  records'[i] = records[i]
  <2>1. CASE pc \in At /\ \E r : records' = [records EXCEPT ![here] = r]
    <3>1. i # here
      BY <1>1, <2>1, HereUndecided
    <3> QED
      BY <2>1, <3>1 DEF IType, TypeOK, MemoryOK
  <2> QED
    BY <2>1, RecordsShape
<1>2. Requires[s] \in Seq(Req) /\ Reads[s] \subseteq Step
  BY PlanAssumption
<1>3. ASSUME NEW k \in DOMAIN Requires[s]
      PROVE  ~Refused(s, x, k)'
  <2>1. Requires[s][k].step \in Step /\ "NONE" \notin Requires[s][k].accept
    <3>1. Requires[s][k] \in Req
      BY <1>2, ElementOfSeq, LenProperties
    <3> QED
      BY <3>1 DEF Req, Outcome
  <2>2. ~Refused(s, x, k)
    BY DEF Blocked
  <2>3. Decided(Key(s, Requires[s][k].step, x))
    BY <2>1, <2>2 DEF Refused, outcome, Decided
  <2>4. records'[Key(s, Requires[s][k].step, x)] = records[Key(s, Requires[s][k].step, x)]
    BY <1>1, <2>1, <2>3, KeyType
  <2> QED
    BY <2>2, <2>4 DEF Refused, outcome, Key
<1>4. ASSUME NEW d \in Reads[s]
      PROVE  HasValue(s, d, x)'
  <2>1. HasValue(s, d, x)
    BY DEF Unresolved
  <2>2. records'[Key(s, d, x)] = records[Key(s, d, x)]
    BY <1>1, <1>2, <2>1, KeyType DEF HasValue, Decided
  <2> QED
    BY <2>1, <2>2 DEF HasValue, Key
<1> QED
  BY <1>3, <1>4 DEF Blocked, Unresolved

(* The parts of a step that matter to what ran: at most the visited        *)
(* instance changes, and it becomes "ran" only when a check concludes.     *)
LEMMA RanShape ==
  ASSUME IType, Fresh, [Next]_vars
  PROVE  \A i \in Instance : Ran(i)' =>
           \/ Ran(i) /\ records'[i] = records[i]
           \/ i = here /\ Conclude
<1> SUFFICES ASSUME NEW i \in Instance, Ran(i)', ~(i = here /\ Conclude)
             PROVE  Ran(i) /\ records'[i] = records[i]
  OBVIOUS
<1>0. records \in [Instance -> Record]
  BY DEF IType, TypeOK, MemoryOK
<1>1. CASE records' = records
  BY <1>1 DEF Ran
<1>2. CASE i # here /\ pc \in At /\ \E r : records' = [records EXCEPT ![here] = r]
  BY <1>0, <1>2 DEF Ran
<1>3. CASE i = here /\ (Skip \/ Interrupted)
  <2>1. PICK kind, by, n : Writes(SkipRecord(kind, by, n))
    BY <1>3, SkipShape, InterruptedShape
  <2>2. records'[here].outcome = "SKIPPED"
    BY <1>0, <1>3, <2>1, SkipRecordFields DEF Writes
  <2> QED
    BY <1>3, <2>2 DEF Ran
<1>4. CASE i = here /\ (UNCHANGED vars \/ Walk \/ Start \/ UseCached \/ Execute \/ Retry)
  <2>1. records' = records
    BY <1>4, WalkShape DEF vars, Start, UseCached, Execute, Retry
  <2> QED
    BY <1>1, <2>1
<1> QED
  BY <1>1, <1>2, <1>3, <1>4, RecordsShape DEF Next, RunCheck

LEMMA StandingStep ==
  ASSUME IType, Fresh, Standing, [Next]_vars
  PROVE  Standing'
<1>1. ASSUME NEW s \in Step, NEW x \in Scope, Ran(<<s, x>>)'
      PROVE  ~Blocked(s, x)' /\ ~Unresolved(s, x)'
  <2>1. <<s, x>> \in Instance
    BY DEF Instance
  <2>2. CASE Ran(<<s, x>>)
    BY <2>2, EvidenceStays DEF Standing, NeverOnAGuess
  <2>3. CASE <<s, x>> = here /\ Conclude
    <3>1. pc = "got" /\ s = step /\ x = subject
      BY <2>3, ConcludeShape DEF here
    <3> QED
      BY <3>1, EvidenceStays DEF Standing
  <2> QED
    BY <1>1, <2>1, <2>2, <2>3, RanShape
<1>2. ASSUME pc' \in {"run", "got"}
      PROVE  ~Blocked(step, subject)' /\ ~Unresolved(step, subject)'
  <2>1. ~Walk /\ ~Skip /\ ~Interrupted /\ ~Conclude
    BY <1>2, WalkShape, SkipShape, InterruptedShape, ConcludeShape
  <2>2. /\ UNCHANGED <<pos, idx, subject, records>>
        /\ ~Blocked(step, subject) /\ ~Unresolved(step, subject)
    <3>1. CASE Start
      BY <3>1 DEF Start, WithinBudget, Permitted, Relevant
    <3>2. CASE UseCached \/ Execute \/ Retry
      BY <3>2 DEF UseCached, Execute, Retry, MustExecute, Standing
    <3>3. CASE UNCHANGED vars
      BY <1>2, <3>3 DEF vars, place, Standing
    <3> QED
      BY <2>1, <3>1, <3>2, <3>3 DEF Next, RunCheck
  <2>3. step' = step
    BY <2>2 DEF step, item
  <2> QED
    BY <2>2, <2>3 DEF Blocked, Refused, outcome, Unresolved, HasValue, Key
<1> QED
  BY <1>1, <1>2 DEF Standing, NeverOnAGuess

(* No check ever runs on a guess, and the evidence it ran on is never      *)
(* taken back: for every plan, the requirements of whatever ran are still  *)
(* met and its parameters still have values (visit()).                     *)
THEOREM NeverOnAGuessCorrect == Spec => []NeverOnAGuess
<1>1. Init => Standing
  <2> SUFFICES ASSUME Init PROVE Standing
    OBVIOUS
  <2>1. \A i \in Instance : ~Ran(i)
    BY DEF Init, Ran, Unvisited
  <2>2. \A s \in Step, x \in Scope : <<s, x>> \in Instance
    BY DEF Instance
  <2>3. pc = "open"
    BY DEF Init
  <2> QED
    BY <2>1, <2>2, <2>3 DEF Standing, NeverOnAGuess
<1>2. IType /\ Fresh /\ Standing /\ [Next]_vars => Standing'
  BY StandingStep
<1>3. Standing => NeverOnAGuess
  BY DEF Standing
<1> QED
  BY <1>1, <1>2, <1>3, FreshCorrect, PTL DEF Spec

----------------------------------------------------------------------------
(* The retry loop and the cache.                                           *)
LEMMA ConcludedFields ==
  ASSUME IType, Conclude
  PROVE  /\ pc = "got" /\ pc' \notin {"run", "got"} /\ here \in Instance /\ step \in Step
         /\ records'[here].status = result /\ records'[here].attempts = attempts
         /\ records'[here].outcome # "UNKNOWN" => result = "OK"
         /\ result = "TIMED_OUT" => attempts > Retries[step]
         /\ UNCHANGED cache
<1>1. pc = "got" /\ here \in Instance /\ step \in Step /\ Retries[step] \in {0, 1} /\ attempts \in {0, 1, 2}
      /\ records \in [Instance -> Record]
  BY ConcludeShape, HereFacts DEF IType, TypeOK, At, MemoryOK, MAX_RETRIES
<1>2. PICK o, f, l : Writes(ConcludedRecord(o, f, l)) /\ (o # "UNKNOWN" => result = "OK")
  BY ConcludeShape
<1>3. records'[here] = ConcludedRecord(o, f, l)
  BY <1>1, <1>2 DEF Writes
<1> QED
  BY <1>1, <1>2, <1>3, ConcludeShape DEF ConcludedRecord

LEMMA TimeoutRetriedStep ==
  ASSUME IType, Fresh, TimeoutRetried, [Next]_vars
  PROVE  TimeoutRetried'
<1> SUFFICES ASSUME NEW s \in Step, NEW x \in Scope, Ran(<<s, x>>)'
             PROVE  /\ records'[<<s, x>>].status = "TIMED_OUT" =>
                         records'[<<s, x>>].attempts = 1 + Retries[s]
                    /\ records'[<<s, x>>].outcome # "UNKNOWN" => records'[<<s, x>>].status = "OK"
  BY DEF TimeoutRetried
<1>1. <<s, x>> \in Instance
  BY DEF Instance
<1>2. CASE Ran(<<s, x>>) /\ records'[<<s, x>>] = records[<<s, x>>]
  BY <1>2 DEF TimeoutRetried
<1>3. CASE <<s, x>> = here /\ Conclude
  <2>1. s = step /\ pc = "got" /\ attempts \in 1 .. 1 + Retries[step] /\ Retries[step] \in {0, 1}
    BY <1>3, ConcludedFields, HereFacts DEF here, IType, TypeOK, LoopOK, At
  <2> QED
    BY <1>3, <2>1, ConcludedFields
<1> QED
  BY <1>1, <1>2, <1>3, RanShape

(* A timeout is recorded only after the declared retry, also when it came  *)
(* from the cache, and only an answer is classified (visit()).             *)
THEOREM TimeoutRetriedCorrect == Spec => []TimeoutRetried
<1>1. Init => TimeoutRetried
  BY DEF Init, TimeoutRetried, Ran, Unvisited, Instance
<1>2. IType /\ Fresh /\ TimeoutRetried /\ [Next]_vars => TimeoutRetried'
  BY TimeoutRetriedStep
<1> QED
  BY <1>1, <1>2, FreshCorrect, PTL DEF Spec

LEMMA RememberedStep ==
  ASSUME IType, Fresh, Remembered, [Next]_vars
  PROVE  Remembered'
<1> USE DEF Remembered
<1>1. CASE UNCHANGED vars \/ Walk \/ Skip \/ Interrupted
  <2>1. /\ cache' = cache
        /\ pc' \in {"run", "got"} => UNCHANGED <<pc, result, attempts, here>>
    BY <1>1, WalkShape, SkipShape, InterruptedShape DEF vars, place, runner, here, step, item
  <2>2. ~Conclude \/ UNCHANGED vars
    BY <1>1, WalkShape, SkipShape, InterruptedShape, ConcludeShape DEF At
  <2>3. \A i \in Instance : Ran(i)' => Ran(i) /\ records'[i] = records[i]
    BY <1>1, <2>2, RanShape DEF vars, Ran
  <2> QED
    BY <2>1, <2>3
<1>2. CASE Start
  <2>1. pc' = "run" /\ attempts' = 0 /\ UNCHANGED <<records, cache>>
    BY <1>2 DEF Start, runner
  <2> QED
    BY <2>1 DEF Ran
<1>3. CASE UseCached
  <2>1. /\ pc' = "got" /\ UNCHANGED <<records, cache, pos, idx, subject>>
        /\ result' = cache[Check[here]] /\ result' # "none"
    BY <1>3 DEF UseCached, runner
  <2>2. here' = here
    BY <2>1 DEF here, step, item
  <2> QED
    BY <2>1, <2>2 DEF Ran
<1>4. CASE Execute
  <2>1. /\ pc = "run" /\ pc' = "got" /\ UNCHANGED <<records, pos, idx, subject>>
        /\ cache' = [cache EXCEPT ![Check[here]] = result'] /\ result' # "none"
        /\ attempts > 0 \/ cache[Check[here]] = "none"
    BY <1>4 DEF Execute, MustExecute
  <2>2. here' = here /\ Check[here] \in CheckKey /\ cache \in [CheckKey -> Status] /\ attempts \in Nat
    BY <2>1, HereFacts DEF here, step, item, IType, TypeOK, At, MemoryOK, MAX_RETRIES
  <2>3. cache[Check[here]] \in {"none", "TIMED_OUT"}
    BY <2>1, <2>2
  <2>4. \A i \in Instance : Ran(i) /\ records[i].status # "TIMED_OUT" => Check[i] # Check[here]
    BY <2>3
  <2>5. \A i \in Instance : Ran(i) /\ records[i].status # "TIMED_OUT" =>
          records[i].status = cache'[Check[i]] /\ records[i].status # "none"
    <3>1. \A i \in Instance : Check[i] \in CheckKey
      BY PlanAssumption
    <3> QED
      BY <2>1, <2>2, <2>4, <3>1
  <2> QED
    BY <2>1, <2>2, <2>5 DEF Ran
<1>5. CASE Retry
  <2>1. /\ pc = "got" /\ pc' = "run" /\ result = "TIMED_OUT"
        /\ UNCHANGED <<records, cache, pos, idx, subject>>
    BY <1>5 DEF Retry, MayRetry, runner
  <2>2. here' = here
    BY <2>1 DEF here, step, item
  <2> QED
    BY <2>1, <2>2 DEF Ran
<1>6. CASE Conclude
  <2>1. \A i \in Instance : Ran(i)' => \/ Ran(i) /\ records'[i] = records[i]
                                       \/ i = here
    BY RanShape
  <2>2. records'[here].status = cache[Check[here]] /\ records'[here].status # "none"
    BY <1>6, ConcludedFields
  <2> QED
    BY <1>6, <2>1, <2>2, ConcludedFields
<1> QED
  BY <1>1, <1>2, <1>3, <1>4, <1>5, <1>6 DEF Next, RunCheck

(* Two steps that ask the same question report the same answer, although a *)
(* timeout is asked again and overwrites the cache (Runner.run).           *)
THEOREM OneAnswerCorrect == Spec => []OneAnswerPerQuestion
<1>1. Init => Remembered
  <2> SUFFICES ASSUME Init PROVE Remembered
    OBVIOUS
  <2>1. \A i \in Instance : ~Ran(i)
    BY DEF Init, Ran, Unvisited
  <2>2. pc = "open"
    BY DEF Init
  <2> QED
    BY <2>1, <2>2 DEF Remembered
<1>2. IType /\ Fresh /\ Remembered /\ [Next]_vars => Remembered'
  BY RememberedStep
<1>3. Remembered => OneAnswerPerQuestion
  BY DEF Remembered, OneAnswerPerQuestion
<1> QED
  BY <1>1, <1>2, <1>3, FreshCorrect, PTL DEF Spec

----------------------------------------------------------------------------
(* Of an item that was walked, every step of every subject has a record.   *)
ItemCovered(i) ==
  \A s \in StepsOf(i) : IF Plan[i].each THEN \A x \in enumerations[i].subjects : Decided(<<s, x>>)
                        ELSE Decided(<<s, Whole>>)
InTemplate == pc \in {"subject"} \cup At /\ item.each
Covered ==
  /\ \A i \in DOMAIN Plan : i < pos => ItemCovered(i)
  /\ pc = "done" => pos \notin DOMAIN Plan
  /\ pc \in At /\ ~item.each => idx = 1 /\ subject = Whole
  /\ InTemplate =>
       \A x \in enumerations[pos].subjects \ left, k \in DOMAIN item.steps :
         (pc \in At /\ x = subject => k < idx) => Decided(<<item.steps[k], x>>)

(* A COMPLETE enumeration has every name its source listed, and no subject *)
(* of it was cut short: the template being walked notes those itself.      *)
EnumerationSound(i) ==
  LET src == records[<<Plan[i].source, Whole>>] IN
  enumerations[i].status = "COMPLETE" =>
    /\ src.outcome \in {"PASS", "WARN"} /\ ~src.listing.rejected
    /\ Plan[i].complete_fact => src.listing.whole
    /\ enumerations[i].subjects = src.listing.names
Unstopped(i) == \A s \in StepsOf(i), x \in Subject : records[<<s, x>>].skip # "stopped"
ListsSound ==
  /\ \A y \in Instance : ~Decided(y) => records[y].skip = "none"
  /\ \A i \in DOMAIN Plan : Plan[i].each => EnumerationSound(i)
  /\ InTemplate => \A s \in StepsOf(pos), x \in Subject : records[<<s, x>>].skip = "stopped" => x \in unfinished
  /\ \A i \in DOMAIN Plan : i < pos /\ Plan[i].each /\ enumerations[i].status = "COMPLETE" => Unstopped(i)

(* A subject's stop, and the time it has used, stem from a check of its own. *)
AnyRan(x) == \E t \in StepsOf(pos) : Ran(<<t, x>>)
Earned    == stop_reason # "none" \/ AnyRan(subject)
Isolated ==
  /\ SubjectIsolation
  /\ pc \in At /\ item.each =>
       /\ subject_stop = "hook" => AnyRan(subject)
       /\ subject_stop = "slice" => subject \in unfinished /\ Earned
       /\ pc = "visit" /\ clock > subject_start => Earned

----------------------------------------------------------------------------
(* Positions and steps.                                                    *)
LEMMA OneItem ==
  ASSUME NEW i \in DOMAIN Plan, NEW j \in DOMAIN Plan, NEW s \in StepsOf(i), s \in StepsOf(j)
  PROVE  i = j
<1>1. i \in Nat \ {0} /\ j \in Nat \ {0}
  BY PlanLength
<1>2. \A k, l \in DOMAIN Plan : k < l => StepsOf(k) \subseteq Earlier(l)
  BY PlanLength DEF Earlier
<1> QED
  BY <1>1, <1>2, DistinctSteps

LEMMA StepsType ==
  ASSUME NEW i \in DOMAIN Plan
  PROVE  StepsOf(i) \subseteq Step /\ \A x \in Scope, s \in StepsOf(i) : <<s, x>> \in Instance
BY PlanFacts DEF StepsOf, Instance

(* What a visit records.                                                   *)
LEMMA WriteShape ==
  ASSUME IType, Skip \/ Interrupted \/ Conclude
  PROVE  \E r : /\ Writes(r) /\ r.outcome # "NONE"
                /\ r.skip = "none" <=> r.outcome # "SKIPPED"
                /\ unfinished \subseteq unfinished'
                /\ item.each /\ r.skip = "stopped" => subject \in unfinished'
<1>1. CASE Skip
  <2>1. unfinished \subseteq unfinished'
    BY <1>1 DEF Skip, SliceUsedUp, SubjectStopped, RunStopped, SkipBlocked, SkipNotApplicable, SkipNotNeeded,
         SkipPrivilege, StepBudgetUsedUp, TimeBudgetUsedUp, SkipNoValue, Unfinish
  <2>2. PICK kind, by : /\ Skipped(kind, by) /\ kind # "none"
                        /\ item.each /\ kind = "stopped" => subject \in unfinished'
    BY <1>1 DEF Skip, SliceUsedUp, SubjectStopped, RunStopped, SkipBlocked, SkipNotApplicable, SkipNotNeeded,
         SkipPrivilege, StepBudgetUsedUp, TimeBudgetUsedUp, SkipNoValue, Unfinish
  <2>3. Writes(SkipRecord(kind, by, 0))
    BY <1>1, <2>2, SkipShape DEF Writes, Skipped, At
  <2>4. SkipRecord(kind, by, 0).outcome = "SKIPPED" /\ SkipRecord(kind, by, 0).skip = kind
    BY DEF SkipRecord, Unvisited
  <2> QED
    BY <2>1, <2>2, <2>3, <2>4
<1>2. CASE Interrupted
  <2>1. Writes(SkipRecord("stopped", Nobody, attempts + 1))
    BY <1>2, InterruptedShape
  <2>2. /\ SkipRecord("stopped", Nobody, attempts + 1).outcome = "SKIPPED"
        /\ SkipRecord("stopped", Nobody, attempts + 1).skip = "stopped"
    BY DEF SkipRecord, Unvisited
  <2>3. unfinished \subseteq unfinished' /\ (item.each => subject \in unfinished')
    BY <1>2 DEF Interrupted, Unfinish
  <2> QED
    BY <2>1, <2>2, <2>3
<1>3. CASE Conclude
  <2>1. pc \in At /\ step \in Step
    BY <1>3, HereFacts DEF Conclude, At, IType, TypeOK
  <2>2. PICK o \in Answers[step] \cup {"UNKNOWN"} : \E f, l : records' = [records EXCEPT ![here] = ConcludedRecord(o, f, l)]
    BY <1>3 DEF Conclude, ConcludedRecord
  <2>3. PICK f, l : records' = [records EXCEPT ![here] = ConcludedRecord(o, f, l)]
    BY <2>2
  <2>4. o \notin {"NONE", "SKIPPED"}
    BY <2>1, <2>2, PlanAssumption
  <2>5. Writes(ConcludedRecord(o, f, l)) /\ unfinished' = unfinished
    BY <1>3, <2>1, <2>3 DEF Conclude, Writes
  <2>6. ConcludedRecord(o, f, l).outcome = o /\ ConcludedRecord(o, f, l).skip = "none"
    BY DEF ConcludedRecord
  <2> QED
    BY <2>4, <2>5, <2>6
<1> QED
  BY <1>1, <1>2, <1>3

(* Everything else a check does leaves the walk and the records alone.     *)
LEMMA CheckShape ==
  ASSUME Start \/ UseCached \/ Execute \/ Retry
  PROVE  /\ pc \in At /\ pc' \in {"run", "got"}
         /\ UNCHANGED <<pos, idx, subject, records, stop_reason, template, subject_stop>>
BY DEF Start, UseCached, Execute, Retry, MustExecute, WithinBudget, Permitted, Relevant, Visiting, At

LEMMA StaysDecided ==
  ASSUME IType, Fresh, [Next]_vars, NEW i \in Instance, Decided(i)
  PROVE  Decided(i)' /\ records'[i] = records[i]
BY DecidedStays DEF Decided

----------------------------------------------------------------------------
(* Nothing is omitted.                                                     *)

(* Recording the visited instance and advancing.                           *)
LEMMA CoveredAdvance ==
  ASSUME IType, Fresh, Covered, [Next]_vars, NEW r, Writes(r), r.outcome # "NONE"
  PROVE  Covered'
<1>1. /\ pc \in At /\ pos \in DOMAIN Plan /\ pos \in Nat \ {0} /\ idx \in DOMAIN item.steps /\ idx \in Nat \ {0}
      /\ step \in Step /\ subject \in Scope /\ item.each \in BOOLEAN
      /\ DOMAIN item.steps = 1 .. Len(item.steps) /\ Len(item.steps) \in Nat
      /\ records \in [Instance -> Record] /\ here \in Instance
      /\ enumerations \in [DOMAIN Plan -> [status : EnumStatus, subjects : SUBSET Subject, unfinished : SUBSET Scope]]
  BY HereFacts, ItemFacts, PlanLength DEF IType, TypeOK, PlaceOK, MemoryOK, Writes
<1>2. records'[here].outcome # "NONE" /\ enumerations' = enumerations /\ left' = left /\ subject' = subject /\ pc' # "done"
  BY <1>1 DEF Writes, Advance
<1>3. \A i \in Instance : Decided(i) => Decided(i)'
  BY StaysDecided
<1>4. \A i \in DOMAIN Plan : ItemCovered(i) => ItemCovered(i)'
  <2> SUFFICES ASSUME NEW i \in DOMAIN Plan, ItemCovered(i) PROVE ItemCovered(i)'
    OBVIOUS
  <2>1. enumerations[i].subjects \subseteq Scope /\ Whole \in Scope
    BY <1>1 DEF Scope
  <2> QED
    BY <1>2, <1>3, <2>1, StepsType DEF ItemCovered
<1>5. CASE idx < Len(item.steps) /\ idx' = idx + 1 /\ pc' = "visit" /\ UNCHANGED pos
  <2>1. item.each
    BY <1>1, <1>5, PlanFacts DEF item
  <2>2. item' = item
    BY <1>5 DEF item
  <2>3. ASSUME NEW x \in enumerations[pos].subjects \ left, NEW k \in DOMAIN item.steps, x = subject => k < idx + 1
        PROVE  records'[<<item.steps[k], x>>].outcome # "NONE"
    <3>1. CASE x = subject /\ k = idx
      BY <1>2, <3>1 DEF here, step
    <3>2. CASE ~(x = subject /\ k = idx)
      <4>1. x = subject => k < idx
        BY <1>1, <2>3, <3>2
      <4>2. Decided(<<item.steps[k], x>>)
        BY <1>1, <2>1, <4>1 DEF Covered, InTemplate
      <4>3. <<item.steps[k], x>> \in Instance
        BY <1>1, PlanFacts DEF item, Instance, Scope
      <4> QED
        BY <1>3, <4>2, <4>3 DEF Decided
    <3> QED
      BY <3>1, <3>2
  <2> QED
    BY <1>2, <1>4, <1>5, <2>1, <2>2, <2>3 DEF Covered, Decided, At
<1>6. CASE idx = Len(item.steps) /\ item.each /\ pc' = "subject" /\ UNCHANGED <<pos, idx>>
  <2>1. item' = item
    BY <1>6 DEF item
  <2>2. ASSUME NEW x \in enumerations[pos].subjects \ left, NEW k \in DOMAIN item.steps
        PROVE  records'[<<item.steps[k], x>>].outcome # "NONE"
    <3>1. CASE x = subject /\ k = idx
      BY <1>2, <3>1 DEF here, step
    <3>2. CASE ~(x = subject /\ k = idx)
      <4>1. x = subject => k < idx
        BY <1>1, <1>6, <3>2
      <4>2. Decided(<<item.steps[k], x>>)
        BY <1>1, <1>6, <4>1 DEF Covered, InTemplate
      <4>3. <<item.steps[k], x>> \in Instance
        BY <1>1, PlanFacts DEF item, Instance, Scope
      <4> QED
        BY <1>3, <4>2, <4>3 DEF Decided
    <3> QED
      BY <3>1, <3>2
  <2> QED
    BY <1>2, <1>4, <1>6, <2>1, <2>2 DEF Covered, Decided, At
<1>7. CASE idx = Len(item.steps) /\ ~item.each /\ pc' = "open" /\ pos' = pos + 1 /\ UNCHANGED idx
  <2>1. idx = 1 /\ subject = Whole
    BY <1>1, <1>7 DEF Covered
  <2>2. \A s \in StepsOf(pos) : s = step
    BY <1>1, <1>7, <2>1 DEF StepsOf, step, item
  <2>3. ASSUME NEW i \in DOMAIN Plan, i = pos PROVE ItemCovered(i)'
    BY <1>2, <1>7, <2>1, <2>2, <2>3 DEF ItemCovered, Decided, here, item
  <2>4. \A i \in DOMAIN Plan : i < pos + 1 => i < pos \/ i = pos
    BY <1>1, PlanLength
  <2>5. \A i \in DOMAIN Plan : i < pos' => ItemCovered(i)'
    BY <1>4, <1>7, <2>3, <2>4 DEF Covered
  <2> QED
    BY <1>7, <2>5 DEF Covered, At, InTemplate
<1> QED
  BY <1>5, <1>6, <1>7 DEF Writes, Advance

LEMMA CoveredStep ==
  ASSUME IType, Fresh, Covered, [Next]_vars
  PROVE  Covered'
<1>1. /\ pos \in 1 .. Len(Plan) + 1 /\ pos \in Nat /\ (pc \in At \cup {"subject"} => pos \in DOMAIN Plan)
      /\ enumerations \in [DOMAIN Plan -> [status : EnumStatus, subjects : SUBSET Subject, unfinished : SUBSET Scope]]
  BY PlanLength DEF IType, TypeOK, PlaceOK, MemoryOK, At
<1>2. CASE UNCHANGED vars
  BY <1>2 DEF vars, place, template, Covered, ItemCovered, Decided, InTemplate, item
<1>3. CASE OpenStep
  <2>1. /\ ~item.each /\ pc' = "visit" /\ idx' = 1 /\ subject' = Whole /\ UNCHANGED <<pos, records, enumerations>>
    BY <1>3 DEF OpenStep, template
  <2> QED
    BY <2>1 DEF Covered, ItemCovered, Decided, InTemplate, item, At
<1>4. CASE OpenTemplate
  <2>1. /\ pc' = "subject" /\ UNCHANGED <<pos, records>> /\ pos \in DOMAIN Plan
        /\ enumerations' = [enumerations EXCEPT ![pos] = Subjects(pos)] /\ left' = Subjects(pos).subjects
    BY <1>4 DEF OpenTemplate
  <2>2. \A i \in DOMAIN Plan : i < pos => enumerations'[i] = enumerations[i]
    BY <1>1, <2>1, PlanLength
  <2>3. enumerations'[pos'].subjects \ left' = {}
    BY <1>1, <2>1
  <2> QED
    BY <2>1, <2>2, <2>3 DEF Covered, ItemCovered, Decided, InTemplate, At
<1>5. CASE StartSubject
  <2>1. /\ pc = "subject" /\ pc' = "visit" /\ idx' = 1 /\ UNCHANGED <<pos, records, enumerations>> /\ item.each
        /\ subject' \in left /\ left' = left \ {subject'}
    BY <1>5 DEF StartSubject, IType, TypeOK, PlaceOK
  <2>2. DOMAIN item.steps \subseteq Nat \ {0}
    BY <1>1, <2>1, ItemFacts
  <2>3. \A k \in DOMAIN item.steps : ~(k < idx')
    BY <2>1, <2>2
  <2> QED
    BY <2>1, <2>3 DEF Covered, ItemCovered, Decided, InTemplate, item, At
<1>6. CASE CloseTemplate
  <2>1. /\ pc = "subject" /\ left = {} /\ pc' = "open" /\ pos' = pos + 1 /\ UNCHANGED records /\ item.each
        /\ \A i \in DOMAIN Plan : enumerations'[i].subjects = enumerations[i].subjects
    BY <1>1, <1>6 DEF CloseTemplate, IType, TypeOK, PlaceOK
  <2>2. ItemCovered(pos)
    BY <2>1 DEF Covered, ItemCovered, InTemplate, StepsOf, item, At
  <2>3. \A i \in DOMAIN Plan : i < pos + 1 => i < pos \/ i = pos
    BY <1>1, PlanLength
  <2> QED
    BY <2>1, <2>2, <2>3 DEF Covered, ItemCovered, Decided, InTemplate, At
<1>7. CASE Finish
  BY <1>7 DEF Finish, template, Covered, ItemCovered, Decided, InTemplate, At
<1>8. CASE Skip \/ Interrupted \/ Conclude
  BY <1>8, WriteShape, CoveredAdvance
<1>9. CASE Start \/ UseCached \/ Execute \/ Retry
  BY <1>9, CheckShape DEF template, Covered, ItemCovered, Decided, InTemplate, item, At
<1> QED
  BY <1>2, <1>3, <1>4, <1>5, <1>6, <1>7, <1>8, <1>9 DEF Next, Walk, RunCheck

LEMMA CoveredCorrect == Spec => [](IType /\ Fresh /\ Covered)
<1>1. Init => Covered
  BY PlanLength DEF Init, Covered, InTemplate, At
<1>2. IType /\ Fresh /\ Covered /\ [Next]_vars => Covered'
  BY CoveredStep
<1> QED
  BY <1>1, <1>2, FreshCorrect, PTL DEF Spec

(* An omission is always visible: when the run is over, every step of the  *)
(* plan and of every investigated subject has a record (run_plan's walk).  *)
THEOREM NothingOmittedCorrect == Spec => []NothingOmitted
<1>1. IType /\ Covered => NothingOmitted
  <2> SUFFICES ASSUME IType, Covered, pc = "done", NEW i \in DOMAIN Plan PROVE ItemCovered(i)
    BY DEF NothingOmitted, ItemCovered
  <2>1. pos \notin DOMAIN Plan /\ pos \in 1 .. Len(Plan) + 1
    BY DEF Covered, IType, TypeOK, PlaceOK
  <2>2. i < pos
    BY <2>1, PlanLength
  <2> QED
    BY <2>2 DEF Covered
<1> QED
  BY <1>1, CoveredCorrect, PTL

----------------------------------------------------------------------------
(* What COMPLETE means.                                                    *)

LEMMA CompleteStep ==
  ASSUME IType, Fresh, ListsSound, [Next]_vars
  PROVE  ListsSound'
<1>1. /\ pos \in Nat /\ (pc \in At \cup {"subject"} => pos \in DOMAIN Plan)
      /\ records \in [Instance -> Record] /\ records' \in [Instance -> Record]
      /\ enumerations \in [DOMAIN Plan -> [status : EnumStatus, subjects : SUBSET Subject, unfinished : SUBSET Scope]]
  BY PlanLength, TypeStep DEF IType, TypeOK, PlaceOK, MemoryOK, At
<1>2. \A i \in DOMAIN Plan : <<Plan[i].source, Whole>> \in Instance
  BY PlanFacts DEF Instance, Scope
<1>3. \A i \in DOMAIN Plan : /\ enumerations'[i] = enumerations[i] \/ enumerations'[i].status # "COMPLETE"
                             /\ Plan[i].each
                           => EnumerationSound(i)'
  <2> SUFFICES ASSUME NEW i \in DOMAIN Plan, Plan[i].each, enumerations'[i] = enumerations[i],
                      enumerations[i].status = "COMPLETE"
               PROVE  EnumerationSound(i)'
    BY DEF EnumerationSound
  <2>1. EnumerationSound(i)
    BY DEF ListsSound
  <2>2. Decided(<<Plan[i].source, Whole>>)
    BY <2>1 DEF EnumerationSound, Decided
  <2>3. records'[<<Plan[i].source, Whole>>] = records[<<Plan[i].source, Whole>>]
    BY <1>2, <2>2, StaysDecided
  <2> QED
    BY <2>1, <2>3 DEF EnumerationSound
<1>4. CASE records' = records /\ UNCHANGED <<pos, enumerations>> /\ (InTemplate' => InTemplate /\ unfinished' = unfinished)
  BY <1>3, <1>4 DEF ListsSound, Unstopped, Decided
<1>5. CASE OpenTemplate
  <2>1. /\ pc = "open" /\ pos \in DOMAIN Plan /\ item.each /\ pc' = "subject" /\ UNCHANGED <<pos, records>>
        /\ enumerations' = [enumerations EXCEPT ![pos] = Subjects(pos)]
    BY <1>5 DEF OpenTemplate
  <2>2. \A s \in StepsOf(pos), x \in Subject : records[<<s, x>>].skip = "none"
    <3> SUFFICES ASSUME NEW s \in StepsOf(pos), NEW x \in Subject PROVE records[<<s, x>>].skip = "none"
      OBVIOUS
    <3>1. s \in Step /\ x \in Scope /\ s \notin Earlier(pos) /\ <<s, x>> \in Instance
      BY <2>1, StepsType, DistinctSteps DEF Scope
    <3>2. ~Decided(<<s, x>>)
      BY <2>1, <3>1 DEF Fresh, Passed, At
    <3> QED
      BY <3>1, <3>2 DEF ListsSound
  <2>3. EnumerationSound(pos)'
    <3> SUFFICES ASSUME Subjects(pos).status = "COMPLETE" PROVE EnumerationSound(pos)'
      BY <1>1, <2>1 DEF EnumerationSound
    <3>1. LET src == records[<<Plan[pos].source, Whole>>] IN
          /\ src.outcome \in {"PASS", "WARN"} /\ ~src.listing.rejected
          /\ Plan[pos].complete_fact => src.listing.whole
          /\ Subjects(pos).subjects = src.listing.names
      BY DEF Subjects
    <3> QED
      BY <1>1, <2>1, <3>1 DEF EnumerationSound
  <2>4. \A i \in DOMAIN Plan : i # pos => enumerations'[i] = enumerations[i]
    BY <1>1, <2>1
  <2>5. \A i \in DOMAIN Plan : Plan[i].each => EnumerationSound(i)'
    BY <1>3, <2>1, <2>3, <2>4
  <2>6. \A i \in DOMAIN Plan : i < pos => enumerations'[i] = enumerations[i]
    BY <1>1, <2>4, PlanLength
  <2>7. \A s \in StepsOf(pos'), x \in Subject : records'[<<s, x>>].skip # "stopped"
    BY <2>1, <2>2
  <2>8. \A i \in DOMAIN Plan : i < pos' /\ Plan[i].each /\ enumerations'[i].status = "COMPLETE" => Unstopped(i)'
    BY <2>1, <2>6 DEF ListsSound, Unstopped
  <2> QED
    BY <2>1, <2>5, <2>7, <2>8 DEF ListsSound, Decided
<1>6. CASE CloseTemplate
  <2>1. /\ pc = "subject" /\ pos \in DOMAIN Plan /\ pc' = "open" /\ pos' = pos + 1 /\ item.each /\ UNCHANGED records
        /\ enumerations' = IF unfinished = {} THEN enumerations
             ELSE [enumerations EXCEPT ![pos].status = "PARTIAL", ![pos].unfinished = unfinished]
    BY <1>1, <1>6 DEF CloseTemplate, IType, TypeOK, PlaceOK
  <2>2. \A i \in DOMAIN Plan : i # pos \/ unfinished = {} => enumerations'[i] = enumerations[i]
    BY <1>1, <2>1
  <2>3. unfinished # {} => enumerations'[pos].status = "PARTIAL"
    BY <1>1, <2>1
  <2>4. \A i \in DOMAIN Plan : Plan[i].each => EnumerationSound(i)'
    BY <1>3, <2>2, <2>3
  <2>5. ASSUME NEW i \in DOMAIN Plan, i < pos', Plan[i].each, enumerations'[i].status = "COMPLETE"
        PROVE  Unstopped(i)'
    <3>1. CASE i = pos
      <4>1. unfinished = {} /\ InTemplate
        BY <2>1, <2>3, <2>5, <3>1 DEF InTemplate
      <4> QED
        BY <2>1, <3>1, <4>1 DEF ListsSound, Unstopped
    <3>2. CASE i # pos
      <4>1. i < pos /\ enumerations'[i] = enumerations[i]
        BY <1>1, <2>1, <2>2, <2>5, <3>2, PlanLength
      <4> QED
        BY <2>1, <2>5, <4>1 DEF ListsSound, Unstopped
    <3> QED
      BY <3>1, <3>2
  <2> QED
    BY <2>1, <2>4, <2>5 DEF ListsSound, Decided, InTemplate, At
<1>7. CASE Skip \/ Interrupted \/ Conclude
  <2>1. PICK r : /\ Writes(r) /\ r.outcome # "NONE"
                 /\ unfinished \subseteq unfinished'
                 /\ item.each /\ r.skip = "stopped" => subject \in unfinished'
    BY <1>7, WriteShape
  <2>2. /\ pc \in At /\ pos \in DOMAIN Plan /\ step \in StepsOf(pos) /\ here \in Instance
    BY <2>1, HereFacts DEF Writes, StepsOf, step, item, IType, TypeOK, PlaceOK
  <2>3. /\ enumerations' = enumerations /\ records'[here] = r
        /\ \A y \in Instance : y # here => records'[y] = records[y]
        /\ \/ pos' = pos /\ pc' \in {"visit", "subject"}
           \/ pos' = pos + 1 /\ pc' = "open" /\ ~item.each
    BY <1>1, <2>1, <2>2 DEF Writes, Advance
  <2>4. \A y \in Instance : ~Decided(y)' => records'[y].skip = "none"
    BY <2>1, <2>3 DEF ListsSound, Decided
  <2>5. \A i \in DOMAIN Plan : Plan[i].each => EnumerationSound(i)'
    BY <1>3, <2>3
  <2>6. ASSUME InTemplate', NEW s \in StepsOf(pos), NEW x \in Subject, records'[<<s, x>>].skip = "stopped"
        PROVE  x \in unfinished'
    <3>1. pos' = pos /\ item.each
      BY <2>3, <2>6 DEF InTemplate, At, item
    <3>2. <<s, x>> \in Instance
      BY <2>2, StepsType DEF Scope
    <3>3. CASE <<s, x>> = here
      BY <2>1, <2>3, <2>6, <3>1, <3>3 DEF here
    <3>4. CASE <<s, x>> # here
      BY <2>1, <2>2, <2>3, <2>6, <3>1, <3>2, <3>4 DEF ListsSound, InTemplate
    <3> QED
      BY <3>3, <3>4
  <2>7. InTemplate' => pos' = pos
    BY <2>3 DEF InTemplate, At
  <2>8. ASSUME NEW i \in DOMAIN Plan, i < pos', Plan[i].each, enumerations[i].status = "COMPLETE"
        PROVE  Unstopped(i)'
    <3>1. i < pos
      BY <1>1, <2>3, <2>8, PlanLength DEF item
    <3>2. Unstopped(i)
      BY <2>8, <3>1 DEF ListsSound
    <3>3. ASSUME NEW s \in StepsOf(i), NEW x \in Subject PROVE records'[<<s, x>>] = records[<<s, x>>]
      <4>1. <<s, x>> \in Instance
        BY StepsType DEF Scope
      <4>2. s # step
        BY <1>1, <2>2, <3>1, <3>3, OneItem, PlanLength
      <4> QED
        BY <2>3, <4>1, <4>2 DEF here
    <3> QED
      BY <3>2, <3>3 DEF Unstopped
  <2>9. InTemplate' => \A s \in StepsOf(pos'), x \in Subject : records'[<<s, x>>].skip = "stopped" => x \in unfinished'
    BY <2>6, <2>7
  <2> QED
    BY <2>3, <2>4, <2>5, <2>8, <2>9 DEF ListsSound
<1>8. CASE UNCHANGED vars \/ OpenStep \/ StartSubject \/ Finish \/ Start \/ UseCached \/ Execute \/ Retry
  <2>1. UNCHANGED <<pos, records, enumerations>>
    BY <1>8, CheckShape DEF vars, place, template, OpenStep, StartSubject, Finish
  <2>2. item' = item
    BY <2>1 DEF item
  <2>3. InTemplate' => InTemplate /\ unfinished' = unfinished
    BY <1>8, <2>2, CheckShape DEF vars, place, template, OpenStep, StartSubject, Finish, InTemplate, At
  <2> QED
    BY <1>4, <2>1, <2>3
<1> QED
  BY <1>5, <1>6, <1>7, <1>8 DEF Next, Walk, RunCheck

LEMMA ListsCorrect == Spec => [](IType /\ Fresh /\ Covered /\ ListsSound)
<1>1. Init => ListsSound
  <2> SUFFICES ASSUME Init PROVE ListsSound
    OBVIOUS
  <2>1. pos = 1 /\ pc = "open" /\ \A y \in Instance : records[y].skip = "none"
    BY DEF Init, Unvisited
  <2>2. \A i \in DOMAIN Plan : enumerations[i].status = "none"
    BY DEF Init
  <2> QED
    BY <2>1, <2>2 DEF ListsSound, InTemplate, At, EnumerationSound
<1>2. IType /\ Fresh /\ ListsSound /\ [Next]_vars => ListsSound'
  BY CompleteStep
<1> QED
  BY <1>1, <1>2, CoveredCorrect, PTL DEF Spec

(* An enumeration that is still COMPLETE when its template is over means   *)
(* that every listed name was valid, within the budget, and had each of    *)
(* its steps decided without a stop (_subjects, run_plan's unfinished).    *)
THEOREM CompleteCorrect == Spec => []CompleteMeansAll
<1>1. Covered /\ ListsSound /\ IType => CompleteMeansAll
  <2> SUFFICES ASSUME Covered, ListsSound, IType, NEW i \in DOMAIN Plan,
                      i < pos, Plan[i].each, enumerations[i].status = "COMPLETE"
               PROVE  LET src == records[<<Plan[i].source, Whole>>] IN
                      /\ src.outcome \in {"PASS", "WARN"} /\ ~src.listing.rejected
                      /\ Plan[i].complete_fact => src.listing.whole
                      /\ \A x \in src.listing.names, s \in StepsOf(i) :
                           Decided(<<s, x>>) /\ records[<<s, x>>].skip # "stopped"
    BY DEF CompleteMeansAll
  <2>1. EnumerationSound(i) /\ Unstopped(i) /\ ItemCovered(i)
    BY DEF ListsSound, Covered
  <2>2. enumerations[i].subjects \subseteq Subject
    BY DEF IType, TypeOK, MemoryOK
  <2> QED
    BY <2>1, <2>2 DEF EnumerationSound, Unstopped, ItemCovered
<1> QED
  BY <1>1, ListsCorrect, PTL

----------------------------------------------------------------------------
(* One subject never ends another's investigation.                         *)

LEMMA StoppedStays ==
  ASSUME [Next]_vars, stop_reason # "none"
  PROVE  stop_reason' # "none"
<1>1. CASE UNCHANGED vars \/ Start \/ UseCached \/ Execute \/ Retry
  BY <1>1, CheckShape DEF vars
<1>2. CASE Walk \/ Skip
  BY <1>2, WalkShape, SkipShape
<1>3. CASE Interrupted \/ Conclude
  BY <1>3 DEF Interrupted, Conclude
<1> QED
  BY <1>1, <1>2, <1>3 DEF Next, RunCheck

(* What a visit records of a subject it cuts short, and what it leaves.    *)
LEMMA VisitEarned ==
  ASSUME IType, Isolated, item.each, Skip \/ Interrupted \/ Conclude
  PROVE  \E r :
           /\ Writes(r)
           /\ r.outcome \in {"NONE", "SKIPPED"} =>
                /\ r.skip = "stopped" => Earned \/ stop_reason' # "none"
                /\ r.skip = "not_needed" => "when" \in Gates[step] \/ AnyRan(subject)
                /\ subject_stop' = "hook" => AnyRan(subject)
                /\ subject_stop' = "slice" => Earned \/ stop_reason' # "none"
                /\ clock' > subject_start => Earned \/ stop_reason' # "none"
           /\ r.outcome \notin {"NONE", "SKIPPED"} => r.skip = "none"
           /\ subject_stop' = "slice" => subject \in unfinished'
<1>0. clock \in Nat /\ subject_start \in Nat /\ item.subject_seconds \in Nat
  <2>1. pos \in DOMAIN Plan
    BY DEF Skip, SliceUsedUp, SubjectStopped, RunStopped, SkipBlocked, SkipNotApplicable, SkipNotNeeded,
         SkipPrivilege, StepBudgetUsedUp, TimeBudgetUsedUp, SkipNoValue, Visiting, Relevant, Permitted,
         WithinBudget, Interrupted, MustExecute, Conclude, IType, TypeOK, PlaceOK
  <2> QED
    BY <2>1, PlanFacts DEF IType, TypeOK, MemoryOK, item, Item
<1>1. CASE Skip
  <2>1. pc = "visit" /\ UNCHANGED clock /\ item.each
    BY <1>1, SkipShape
  <2>2. /\ unfinished \subseteq unfinished'
        /\ subject_stop' = "hook" => subject_stop = "hook"
        /\ subject_stop' = "slice" => subject_stop = "slice" \/ SliceUsedUp
    BY <1>1 DEF Skip, SliceUsedUp, SubjectStopped, RunStopped, SkipBlocked, SkipNotApplicable, SkipNotNeeded,
         SkipPrivilege, StepBudgetUsedUp, TimeBudgetUsedUp, SkipNoValue, Unfinish
  <2>3. SliceUsedUp => Earned /\ subject \in unfinished'
    BY <1>0, <2>1 DEF SliceUsedUp, SliceExpired, Unfinish, Isolated, At
  <2>4. SubjectStopped => subject_stop \in {"hook", "slice"}
    BY DEF SubjectStopped, IType, TypeOK, MemoryOK
  <2>5. PICK kind, by : /\ Skipped(kind, by)
                        /\ kind = "stopped" => Earned \/ stop_reason' # "none"
                        /\ kind = "not_needed" => "when" \in Gates[step] \/ AnyRan(subject)
    <3>1. CASE SliceUsedUp
      BY <2>3, <3>1 DEF SliceUsedUp
    <3>2. CASE SubjectStopped
      BY <2>1, <2>4, <3>2 DEF SubjectStopped, Isolated, Earned, At
    <3>3. CASE RunStopped
      BY <3>3 DEF RunStopped, Earned
    <3>4. CASE SkipBlocked \/ SkipNotApplicable \/ SkipNotNeeded \/ SkipPrivilege \/ SkipNoValue
      BY <3>4 DEF SkipBlocked, SkipNotApplicable, SkipNotNeeded, SkipPrivilege, SkipNoValue
    <3>5. CASE StepBudgetUsedUp \/ TimeBudgetUsedUp
      BY <3>5 DEF StepBudgetUsedUp, TimeBudgetUsedUp
    <3> QED
      BY <1>1, <3>1, <3>2, <3>3, <3>4, <3>5 DEF Skip
  <2>6. Writes(SkipRecord(kind, by, 0)) /\ SkipRecord(kind, by, 0).skip = kind /\ SkipRecord(kind, by, 0).outcome = "SKIPPED"
    BY <2>1, <2>5 DEF Writes, Skipped, SkipRecord, Unvisited, At
  <2> QED
    BY <2>1, <2>2, <2>3, <2>5, <2>6 DEF Isolated, At
<1>2. CASE Interrupted
  <2>1. Writes(SkipRecord("stopped", Nobody, attempts + 1)) /\ pc = "run"
    BY <1>2, InterruptedShape
  <2>2. /\ SkipRecord("stopped", Nobody, attempts + 1).outcome = "SKIPPED"
        /\ SkipRecord("stopped", Nobody, attempts + 1).skip = "stopped"
    BY DEF SkipRecord, Unvisited
  <2>3. stop_reason' # "none" /\ UNCHANGED subject_stop /\ unfinished \subseteq unfinished'
    BY <1>2 DEF Interrupted, Unfinish
  <2> QED
    BY <2>1, <2>2, <2>3 DEF Isolated, At
<1>3. CASE Conclude
  <2>1. pc = "got" /\ step \in Step
    BY <1>3, HereFacts DEF Conclude, At, IType, TypeOK
  <2>2. PICK o \in Answers[step] \cup {"UNKNOWN"} : \E f, l : records' = [records EXCEPT ![here] = ConcludedRecord(o, f, l)]
    BY <1>3 DEF Conclude, ConcludedRecord
  <2>3. PICK f, l : records' = [records EXCEPT ![here] = ConcludedRecord(o, f, l)]
    BY <2>2
  <2>4. o \notin {"NONE", "SKIPPED"}
    BY <2>1, <2>2, PlanAssumption
  <2>5. Writes(ConcludedRecord(o, f, l)) /\ unfinished' = unfinished /\ (subject_stop' = "slice" => subject_stop = "slice")
    BY <1>3, <2>1, <2>3 DEF Conclude, Writes, At
  <2>6. ConcludedRecord(o, f, l).outcome = o /\ ConcludedRecord(o, f, l).skip = "none"
    BY DEF ConcludedRecord
  <2> QED
    BY <2>1, <2>4, <2>5, <2>6 DEF Isolated, At
<1> QED
  BY <1>1, <1>2, <1>3

LEMMA IsolatedStep ==
  ASSUME IType, Fresh, Isolated, [Next]_vars
  PROVE  Isolated'
<1>1. /\ pos \in Nat /\ (pc \in At \cup {"subject"} => pos \in DOMAIN Plan)
      /\ records \in [Instance -> Record]
  BY PlanLength DEF IType, TypeOK, PlaceOK, MemoryOK, At
<1>2. \A i \in Instance : Ran(i) => Ran(i)' /\ records'[i] = records[i]
  BY DecidedStays DEF Ran, Decided
<1>3. \A i \in DOMAIN Plan, x \in Scope :
        (\E t \in StepsOf(i) : Ran(<<t, x>>)) => \E t \in StepsOf(i) : Ran(<<t, x>>)'
  BY <1>2, StepsType
<1>4. \A i \in DOMAIN Plan : \A s \in StepsOf(i), x \in Subject : <<s, x>> \in Instance
  BY StepsType DEF Scope
<1>5. ASSUME records' = records
      PROVE  SubjectIsolation'
  BY <1>5, StoppedStays DEF Isolated, SubjectIsolation, Ran
<1>6. CASE UNCHANGED vars
  BY <1>5, <1>6 DEF vars, place, template, runner, Isolated, Earned, AnyRan, Ran, item
<1>7. CASE OpenStep \/ OpenTemplate \/ CloseTemplate \/ Finish
  <2>1. records' = records
    BY <1>7, WalkShape DEF Walk
  <2>2. ~(pc' \in At /\ item'.each)
    BY <1>7 DEF OpenStep, OpenTemplate, CloseTemplate, Finish, At, item
  <2> QED
    BY <1>5, <2>1, <2>2 DEF Isolated
<1>8. CASE StartSubject
  <2>1. records' = records /\ subject_stop' = "none" /\ clock' = clock /\ subject_start' = clock /\ clock \in Nat
    BY <1>8 DEF StartSubject, runner, IType, TypeOK, MemoryOK
  <2> QED
    BY <1>5, <2>1 DEF Isolated
<1>9. CASE Start \/ UseCached \/ Execute \/ Retry
  <2>1. /\ pc \in At /\ pc' # "visit" /\ UNCHANGED <<pos, subject, records, stop_reason, unfinished, subject_stop>>
    BY <1>9, CheckShape DEF template
  <2> QED
    BY <1>5, <2>1 DEF Isolated, Earned, AnyRan, Ran, item
<1>10. CASE (Skip \/ Interrupted \/ Conclude) /\ ~item.each
  <2>1. PICK r : Writes(r)
    BY <1>10, WriteShape
  <2>2. /\ pc \in At /\ pos \in DOMAIN Plan /\ step \in StepsOf(pos) /\ here \in Instance
    BY <2>1, HereFacts DEF Writes, StepsOf, step, item, IType, TypeOK, PlaceOK
  <2>3. ASSUME NEW i \in DOMAIN Plan, Plan[i].each, NEW s \in StepsOf(i), NEW x \in Subject
        PROVE  records'[<<s, x>>] = records[<<s, x>>]
    <3>1. s # step
      BY <1>10, <2>2, <2>3, OneItem DEF item
    <3> QED
      BY <1>1, <1>4, <2>1, <3>1 DEF Writes, here
  <2>4. SubjectIsolation'
    <3> SUFFICES ASSUME NEW i \in DOMAIN Plan, Plan[i].each, NEW s \in StepsOf(i), NEW x \in Subject,
                        \/ records'[<<s, x>>].skip = "stopped" /\ stop_reason' = "none"
                        \/ records'[<<s, x>>].skip = "not_needed" /\ "when" \notin Gates[s]
                 PROVE  \E t \in StepsOf(i) : Ran(<<t, x>>)'
      BY DEF SubjectIsolation
    <3>1. \E t \in StepsOf(i) : Ran(<<t, x>>)
      BY <2>3, StoppedStays DEF Isolated, SubjectIsolation
    <3>2. x \in Scope
      BY DEF Scope
    <3> QED
      BY <1>3, <3>1, <3>2
  <2>5. ~(pc' \in At /\ item'.each)
    <3>1. Len(item.steps) = 1 /\ DOMAIN item.steps = 1 .. 1
      BY <1>10, <2>2, PlanFacts DEF item
    <3>2. idx \in DOMAIN item.steps
      BY <2>2 DEF IType, TypeOK, PlaceOK, At
    <3>3. pc' = "open"
      BY <1>10, <2>1, <3>1, <3>2 DEF Writes, Advance
    <3> QED
      BY <3>3 DEF At
  <2> QED
    BY <2>4, <2>5 DEF Isolated
<1>11. CASE (Skip \/ Interrupted \/ Conclude) /\ item.each
  <2>1. PICK r :
          /\ Writes(r)
          /\ r.outcome \in {"NONE", "SKIPPED"} =>
               /\ r.skip = "stopped" => Earned \/ stop_reason' # "none"
               /\ r.skip = "not_needed" => "when" \in Gates[step] \/ AnyRan(subject)
               /\ subject_stop' = "hook" => AnyRan(subject)
               /\ subject_stop' = "slice" => Earned \/ stop_reason' # "none"
               /\ clock' > subject_start => Earned \/ stop_reason' # "none"
          /\ r.outcome \notin {"NONE", "SKIPPED"} => r.skip = "none"
          /\ subject_stop' = "slice" => subject \in unfinished'
    BY <1>11, VisitEarned
  <2>2. /\ pc \in At /\ pos \in DOMAIN Plan /\ step \in StepsOf(pos) /\ here \in Instance /\ subject \in Scope
        /\ pos' = pos /\ UNCHANGED <<subject, subject_start>>
    BY <1>11, <2>1, HereFacts DEF Writes, StepsOf, step, item, IType, TypeOK, PlaceOK, Advance
  <2>3. records'[here] = r /\ \A y \in Instance : y # here => records'[y] = records[y]
    BY <1>1, <2>1, <2>2 DEF Writes
  <2>4. r.outcome \notin {"NONE", "SKIPPED"} => \E t \in StepsOf(pos) : Ran(<<t, subject>>)'
    BY <2>2, <2>3 DEF Ran, here
  <2>5. AnyRan(subject) => \E t \in StepsOf(pos) : Ran(<<t, subject>>)'
    BY <1>3, <2>2 DEF AnyRan
  <2>6. Earned => stop_reason' # "none" \/ \E t \in StepsOf(pos) : Ran(<<t, subject>>)'
    BY <2>5, StoppedStays DEF Earned
  <2>7. ASSUME NEW i \in DOMAIN Plan, Plan[i].each, NEW s \in StepsOf(i), NEW x \in Subject,
               \/ records'[<<s, x>>].skip = "stopped" /\ stop_reason' = "none"
               \/ records'[<<s, x>>].skip = "not_needed" /\ "when" \notin Gates[s]
        PROVE  \E t \in StepsOf(i) : Ran(<<t, x>>)'
    <3>1. CASE <<s, x>> = here
      <4>1. s = step /\ x = subject
        BY <3>1 DEF here
      <4>2. i = pos
        BY <2>2, <4>1, OneItem
      <4>3. \/ r.skip = "stopped" /\ stop_reason' = "none"
            \/ r.skip = "not_needed" /\ "when" \notin Gates[step]
        BY <2>3, <2>7, <3>1, <4>1
      <4>4. \E t \in StepsOf(pos) : Ran(<<t, subject>>)'
        BY <2>1, <2>4, <2>5, <2>6, <4>3
      <4> QED
        BY <2>2, <4>1, <4>2, <4>4 DEF Ran
    <3>2. CASE <<s, x>> # here
      <4>1. records'[<<s, x>>] = records[<<s, x>>]
        BY <1>4, <2>3, <3>2
      <4>2. \E t \in StepsOf(i) : Ran(<<t, x>>)
        BY <2>7, <4>1, StoppedStays DEF Isolated, SubjectIsolation
      <4> QED
        BY <1>3, <4>2 DEF Scope
    <3> QED
      BY <3>1, <3>2
  <2>8. SubjectIsolation'
    BY <2>7 DEF SubjectIsolation
  <2>9. AnyRan(subject)' <=> \E t \in StepsOf(pos) : Ran(<<t, subject>>)'
    BY <2>2 DEF AnyRan, Ran
  <2>10. Earned' <=> stop_reason' # "none" \/ AnyRan(subject)'
    BY DEF Earned
  <2>11. /\ subject_stop' = "hook" => AnyRan(subject)'
         /\ subject_stop' = "slice" => subject' \in unfinished' /\ Earned'
         /\ clock' > subject_start' => Earned'
    BY <2>1, <2>2, <2>4, <2>5, <2>6, <2>9, <2>10
  <2> QED
    BY <2>8, <2>11 DEF Isolated
<1> QED
  BY <1>6, <1>7, <1>8, <1>9, <1>10, <1>11 DEF Next, Walk, RunCheck

(* Unless the whole run stopped, a subject's steps are cut short only      *)
(* after a check of that same subject ran: neither another subject's stop  *)
(* hook nor another subject's time slice reaches it (run_plan).            *)
THEOREM IsolationCorrect == Spec => []SubjectIsolation
<1>1. Init => Isolated
  <2> SUFFICES ASSUME Init PROVE Isolated
    OBVIOUS
  <2>1. pc = "open" /\ \A y \in Instance : records[y].skip = "none"
    BY DEF Init, Unvisited
  <2>2. \A i \in DOMAIN Plan : \A s \in StepsOf(i), x \in Subject : <<s, x>> \in Instance
    BY StepsType DEF Scope
  <2> QED
    BY <2>1, <2>2 DEF Isolated, SubjectIsolation, At
<1>2. IType /\ Fresh /\ Isolated /\ [Next]_vars => Isolated'
  BY IsolatedStep
<1>3. Isolated => SubjectIsolation
  BY DEF Isolated
<1> QED
  BY <1>1, <1>2, <1>3, FreshCorrect, PTL DEF Spec
=============================================================================
