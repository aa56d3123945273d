------------------------------ MODULE Planner ------------------------------
(***************************************************************************)
(* The bounded deterministic planner (planner/core.py): one run of one     *)
(* validated plan.  A plan is a sequence of items: an ordinary step, or a  *)
(* template whose steps run once per subject that an earlier step listed.  *)
(*                                                                         *)
(* Control is kept: the order in which visit() decides, every skip, both   *)
(* budgets, the retry, the operator's interrupt, the stop of one subject,  *)
(* the result cache of the check runner.  Evidence is abstracted: a check  *)
(* gives an answer, times out or gives none; what a gate, a classifier or  *)
(* a stop hook makes of the evidence is any value the code allows there.   *)
(***************************************************************************)
EXTENDS Integers, Sequences, FiniteSets

CONSTANTS
  Step,         \* step ids
  Plan,         \* sequence of items, see Item
  MaxSubject,   \* subjects are 1..MaxSubject; their order is that of sorted()
  Requires,     \* step -> sequence of [step, accept]
  Reads,        \* step -> steps whose facts are its parameters
  Gates,        \* step -> subset of {"applies", "when"}: the gates it has
  Answers,      \* step -> the outcomes its classifier may give besides UNKNOWN
  Stops,        \* step -> the outcomes with which its stop hook may speak, {} without one
  SubjectStops, \* the same for its stop_subject hook
  NeedsRoot,    \* steps that declare needs_root
  Retries,      \* step -> 0..MAX_RETRIES
  Check,        \* instance -> the (check, parameters) pair it asks the runner
  CheckKey,     \* the pairs
  IsRoot,
  MaxSteps,     \* run_plan's max_steps
  MaxSeconds,   \* run_plan's max_seconds
  CheckTimeout  \* the longest a check may take (CheckSpec.timeout)

MAX_RETRIES == 1

Subject  == 1 .. MaxSubject
Whole    == 0                      \* the pseudo-subject of an ordinary step
Scope    == {Whole} \cup Subject
Instance == Step \X Scope
Nobody   == <<"none", Whole>>

Outcome == {"PASS", "WARN", "FAIL", "UNKNOWN", "SKIPPED"}
Req     == [step : Step, accept : SUBSET (Outcome \ {"SKIPPED"})]
Item    == [each : BOOLEAN, steps : Seq(Step), source : Step,
            max_instances : Nat, subject_seconds : Nat, \* 0: no time slice
            complete_fact : BOOLEAN]

StepsOf(i)  == {Plan[i].steps[k] : k \in DOMAIN Plan[i].steps}
Earlier(i)  == UNION {StepsOf(j) : j \in 1 .. i - 1}
Ordinary    == UNION {StepsOf(i) : i \in {j \in DOMAIN Plan : ~Plan[j].each}}
Siblings    == [s \in Step |-> UNION {StepsOf(i) : i \in {j \in DOMAIN Plan : s \in StepsOf(j)}}]

(* What validate_plan guarantees of every plan that is run. *)
ASSUME PlanAssumption ==
  /\ MaxSubject \in Nat
  /\ Plan \in Seq(Item)
  /\ Requires \in [Step -> Seq(Req)]
  /\ Reads \in [Step -> SUBSET Step]
  /\ Gates \in [Step -> SUBSET {"applies", "when"}]
  /\ Answers \in [Step -> SUBSET {"PASS", "WARN", "FAIL"}]
  /\ Stops \in [Step -> SUBSET Outcome]
  /\ SubjectStops \in [Step -> SUBSET Outcome]
  /\ NeedsRoot \subseteq Step
  /\ Retries \in [Step -> 0 .. MAX_RETRIES]
  /\ Check \in [Instance -> CheckKey]
  /\ IsRoot \in BOOLEAN
  /\ \A i \in DOMAIN Plan :
       /\ Plan[i].steps # << >>
       /\ Plan[i].each => /\ Plan[i].max_instances >= 1
                          /\ Plan[i].source \in Earlier(i) \cap Ordinary
                          /\ \A s \in StepsOf(i) : Stops[s] = {} /\ Retries[s] = 0
       /\ ~Plan[i].each => /\ Len(Plan[i].steps) = 1
                           /\ SubjectStops[Plan[i].steps[1]] = {}
       /\ StepsOf(i) \cap Earlier(i) = {}
       /\ \A k, l \in DOMAIN Plan[i].steps :
            Plan[i].steps[k] = Plan[i].steps[l] => k = l
       /\ \A k \in DOMAIN Plan[i].steps :
            {Requires[Plan[i].steps[k]][n].step : n \in DOMAIN Requires[Plan[i].steps[k]]}
              \subseteq Earlier(i) \cup {Plan[i].steps[l] : l \in 1 .. k - 1}

ASSUME BudgetAssumption ==
  MaxSteps \in Nat /\ MaxSeconds \in Nat /\ CheckTimeout \in Nat

(* A listing is what a template's source step established: the names that  *)
(* validate, whether some did not, whether the source read the whole list. *)
Listing   == [names : SUBSET Subject, rejected : BOOLEAN, whole : BOOLEAN]
NoListing == [names |-> {}, rejected |-> FALSE, whole |-> FALSE]
Sources   == {Plan[i].source : i \in {j \in DOMAIN Plan : Plan[j].each}}
Facts     == Sources \cup UNION {Reads[s] : s \in Step}   \* steps whose facts are read

SkipKind == {"none", "stopped", "blocked", "not_applicable", "not_needed", "privilege"}
Status   == {"none", "OK", "TIMED_OUT", "NO_ANSWER"}
Record   == [outcome : Outcome \cup {"NONE"}, skip : SkipKind, blocked_by : Instance \cup {Nobody},
             status : Status, attempts : 0 .. 1 + MAX_RETRIES, fact : BOOLEAN, listing : Listing]
Unvisited == [outcome |-> "NONE", skip |-> "none", blocked_by |-> Nobody, status |-> "none",
              attempts |-> 0, fact |-> FALSE, listing |-> NoListing]

StopReason == {"none", "steps", "time", "cancelled", "hook"}
EnumStatus == {"none", "NOT_ASKED", "FAILED", "PARTIAL", "COMPLETE"}

VARIABLES
  pc,             \* "open" an item, start a "subject", "visit" a step, "run" it, "got" a result, "done"
  pos, idx,       \* the item, and the step in it, that is visited next
  subject,        \* whose instance that is
  records,        \* ctx.records: instance -> Record; Unvisited: not in the trace yet
  executed,       \* checks counted against max_steps
  stop_reason,
  clock,          \* seconds since the run began
  attempts, result,                  \* the retry loop of the current visit
  cache, runs,                       \* Runner: results by (check, parameters); executions
  left,                              \* subjects of this template not started yet
  subject_start, subject_stop,       \* the current subject's slice and stop ("none", "slice", "hook")
  unfinished, enumerations           \* this template's; per item [status, subjects, unfinished]

place    == <<pc, pos, idx, subject>>
template == <<left, subject_start, unfinished, enumerations>>
runner   == <<cache, runs, clock>>
vars     == <<place, records, executed, stop_reason, attempts, result, runner, template, subject_stop>>

item == Plan[pos]
step == item.steps[idx]
here == <<step, subject>>

(* SubjectContext._key: a template's own step ids mean this subject's      *)
(* instances; every other id means the ordinary step.                      *)
Key(s, d, x) == IF d \in Siblings[s] THEN <<d, x>> ELSE <<d, Whole>>

outcome(s, d, x) == records[Key(s, d, x)].outcome

Refused(s, x, k) == outcome(s, Requires[s][k].step, x) \notin Requires[s][k].accept
Blocked(s, x)    == \E k \in DOMAIN Requires[s] : Refused(s, x, k)

(* Context.fact: a step that did not run has no facts. *)
HasValue(s, d, x) ==
  LET r == records[Key(s, d, x)] IN r.outcome \notin {"NONE", "SKIPPED"} /\ r.fact
Unresolved(s, x) == \E d \in Reads[s] : ~HasValue(s, d, x)

Init ==
  /\ pc = "open" /\ pos = 1 /\ idx = 1 /\ subject = Whole
  /\ records = [i \in Instance |-> Unvisited]
  /\ executed = 0 /\ stop_reason = "none" /\ clock = 0
  /\ attempts = 0 /\ result = "none"
  /\ cache = [k \in CheckKey |-> "none"] /\ runs = 0
  /\ left = {} /\ subject_start = 0 /\ subject_stop = "none" /\ unfinished = {}
  /\ enumerations = [i \in DOMAIN Plan |-> [status |-> "none", subjects |-> {}, unfinished |-> {}]]

----------------------------------------------------------------------------
(* run_plan: the walk over the items.                                      *)

OpenStep ==
  /\ pc = "open" /\ pos \in DOMAIN Plan /\ ~item.each
  /\ pc' = "visit" /\ idx' = 1 /\ subject' = Whole /\ subject_stop' = "none"
  /\ UNCHANGED <<pos, records, executed, stop_reason, attempts, result, runner, template>>

Least(S, n) == {x \in S : Cardinality({y \in S : y < x}) < n}

(* The enumeration record of _subjects(), or of run_plan when the run has  *)
(* already stopped.                                                        *)
Subjects(i) ==
  LET src  == records[<<Plan[i].source, Whole>>]
      kept == Least(src.listing.names, Plan[i].max_instances)
      Enum(st, subs) == [status |-> st, subjects |-> subs, unfinished |-> {}]
  IN  CASE stop_reason # "none" \/ src.outcome \in {"NONE", "SKIPPED"}     -> Enum("NOT_ASKED", {})
        [] /\ stop_reason = "none" /\ src.outcome \notin {"NONE", "SKIPPED"}
           /\ src.outcome \notin {"PASS", "WARN"} \/ ~src.fact        -> Enum("FAILED", {})
        [] OTHER ->
             Enum(IF \/ kept # src.listing.names
                     \/ src.listing.rejected
                     \/ Plan[i].complete_fact /\ ~src.listing.whole
                  THEN "PARTIAL" ELSE "COMPLETE", kept)

OpenTemplate ==
  /\ pc = "open" /\ pos \in DOMAIN Plan /\ item.each
  /\ enumerations' = [enumerations EXCEPT ![pos] = Subjects(pos)]
  /\ left' = Subjects(pos).subjects
  /\ unfinished' = {}
  /\ pc' = "subject"
  /\ UNCHANGED <<pos, idx, subject, records, executed, stop_reason, attempts, result, runner,
                 subject_start, subject_stop>>

(* Deliberately wrong: the previous subject's stop is still in force. *)
StartStopped ==
  /\ pc = "subject"
  /\ \E x \in left :
       /\ \A y \in left : x <= y
       /\ subject' = x /\ left' = left \ {x}
  /\ idx' = 1 /\ pc' = "visit"
  /\ subject_start' = clock /\ UNCHANGED subject_stop
  /\ UNCHANGED <<pos, records, executed, stop_reason, attempts, result, runner, unfinished, enumerations>>

StartSubject ==
  /\ pc = "subject"
  /\ \E x \in left :
       /\ \A y \in left : x <= y
       /\ subject' = x /\ left' = left \ {x}
  /\ idx' = 1 /\ pc' = "visit"
  /\ subject_start' = clock /\ subject_stop' = "none"
  /\ UNCHANGED <<pos, records, executed, stop_reason, attempts, result, runner, unfinished, enumerations>>

CloseTemplate ==
  /\ pc = "subject" /\ left = {}
  /\ enumerations' = IF unfinished = {} THEN enumerations
                     ELSE [enumerations EXCEPT ![pos].status = "PARTIAL", ![pos].unfinished = unfinished]
  /\ pc' = "open" /\ pos' = pos + 1
  /\ UNCHANGED <<idx, subject, records, executed, stop_reason, attempts, result, runner,
                 left, subject_start, subject_stop, unfinished>>

Finish ==
  /\ pc = "open" /\ pos \notin DOMAIN Plan
  /\ pc' = "done"
  /\ UNCHANGED <<pos, idx, subject, records, executed, stop_reason, attempts, result, runner, template,
                 subject_stop>>

(* Deliberately wrong: an ordinary step is visited again. *)
AdvanceStays ==
  /\ UNCHANGED <<pos, subject, left, subject_start, enumerations>>
  /\ \/ /\ idx < Len(item.steps)
        /\ idx' = idx + 1 /\ pc' = "visit"
     \/ /\ idx = Len(item.steps)
        /\ pc' = (IF item.each THEN "subject" ELSE "open") /\ UNCHANGED idx

(* Deliberately wrong: one step past the last. *)
AdvancePast ==
  /\ UNCHANGED <<subject, left, subject_start, enumerations>>
  /\ \/ /\ idx <= Len(item.steps)
        /\ idx' = idx + 1 /\ pc' = "visit" /\ UNCHANGED pos
     \/ /\ idx > Len(item.steps) /\ item.each
        /\ pc' = "subject" /\ UNCHANGED <<pos, idx>>
     \/ /\ idx > Len(item.steps) /\ ~item.each
        /\ pc' = "open" /\ pos' = pos + 1 /\ UNCHANGED idx

(* To the next step of this subject, or out of the item's steps. *)
Advance ==
  /\ UNCHANGED <<subject, left, subject_start, enumerations>>
  /\ \/ /\ idx < Len(item.steps)
        /\ idx' = idx + 1 /\ pc' = "visit" /\ UNCHANGED pos
     \/ /\ idx = Len(item.steps) /\ item.each
        /\ pc' = "subject" /\ UNCHANGED <<pos, idx>>
     \/ /\ idx = Len(item.steps) /\ ~item.each
        /\ pc' = "open" /\ pos' = pos + 1 /\ UNCHANGED idx

----------------------------------------------------------------------------
(* _Run.visit: the decisions, in the code's order.  A gate's answer is any  *)
(* one its kind can give, so the actions after a gate assume it passed.     *)

SkipRecord(kind, by, n) == [Unvisited EXCEPT !.outcome = "SKIPPED", !.skip = kind,
                                             !.blocked_by = by, !.attempts = n]

Skipped(kind, by) ==
  /\ records' = [records EXCEPT ![here] = SkipRecord(kind, by, 0)]
  /\ UNCHANGED <<executed, attempts, result>>
  /\ Advance

(* Deliberately wrong: nobody hears of it. *)
StayFinished == UNCHANGED unfinished

(* A record that says "stopped:" leaves its subject unfinished. *)
Unfinish == unfinished' = IF item.each THEN unfinished \cup {subject} ELSE unfinished

SliceExpired == /\ item.each /\ subject_stop = "none" /\ item.subject_seconds # 0
                /\ clock - subject_start > item.subject_seconds

SliceUsedUp ==                    \* run_plan, before visit()
  /\ pc = "visit" /\ SliceExpired
  /\ subject_stop' = "slice" /\ Unfinish
  /\ Skipped("stopped", Nobody)
  /\ UNCHANGED <<stop_reason, runner>>

(* Deliberately wrong: a stopped subject's other steps get no record. *)
SubjectLeft ==
  /\ pc = "visit" /\ subject_stop # "none"
  /\ pc' = "subject"
  /\ UNCHANGED <<pos, idx, subject, records, executed, stop_reason, attempts, result, runner, template,
                 subject_stop>>

SubjectStopped ==                 \* run_plan, before visit()
  /\ pc = "visit" /\ subject_stop # "none"
  /\ Skipped(IF subject \in unfinished THEN "stopped" ELSE "not_needed", Nobody)
  /\ UNCHANGED <<stop_reason, runner, subject_stop, unfinished>>

Visiting == pc = "visit" /\ subject_stop = "none" /\ ~SliceExpired

RunStopped ==
  /\ Visiting /\ stop_reason # "none"
  /\ Skipped("stopped", Nobody) /\ Unfinish
  /\ UNCHANGED <<stop_reason, runner, subject_stop>>

SkipBlocked ==
  /\ Visiting /\ stop_reason = "none"
  /\ \E k \in DOMAIN Requires[step] :
       /\ Refused(step, subject, k)
       /\ \A l \in 1 .. k - 1 : ~Refused(step, subject, l)
       /\ Skipped("blocked", Key(step, Requires[step][k].step, subject))
  /\ UNCHANGED <<stop_reason, runner, subject_stop, unfinished>>

(* Deliberately wrong: the requirements are not asked. *)
RelevantUnasked == Visiting /\ stop_reason = "none"

(* Deliberately wrong: a stop is forgotten. *)
RelevantAfterStop == Visiting /\ ~Blocked(step, subject)

Relevant == Visiting /\ stop_reason = "none" /\ ~Blocked(step, subject)

(* applies says no; or when says no because its evidence is unusable, or   *)
(* declines on purpose (NOT_RUN_ON_PURPOSE): the question stays open.      *)
SkipNotApplicable ==
  /\ Relevant /\ Gates[step] # {}
  /\ Skipped("not_applicable", Nobody)
  /\ UNCHANGED <<stop_reason, runner, subject_stop, unfinished>>

SkipNotNeeded ==
  /\ Relevant /\ "when" \in Gates[step]
  /\ Skipped("not_needed", Nobody)
  /\ UNCHANGED <<stop_reason, runner, subject_stop, unfinished>>

SkipPrivilege ==
  /\ Relevant /\ step \in NeedsRoot /\ ~IsRoot
  /\ Skipped("privilege", Nobody)
  /\ UNCHANGED <<stop_reason, runner, subject_stop, unfinished>>

Permitted == Relevant /\ (step \in NeedsRoot => IsRoot)

StepBudgetUsedUp ==
  /\ Permitted /\ executed >= MaxSteps
  /\ stop_reason' = "steps"
  /\ Skipped("stopped", Nobody) /\ Unfinish
  /\ UNCHANGED <<runner, subject_stop>>

TimeBudgetUsedUp ==
  /\ Permitted /\ executed < MaxSteps /\ clock > MaxSeconds
  /\ stop_reason' = "time"
  /\ Skipped("stopped", Nobody) /\ Unfinish
  /\ UNCHANGED <<runner, subject_stop>>

(* Deliberately wrong: the step budget is not looked at. *)
WithinTime == Permitted /\ clock <= MaxSeconds

WithinBudget == Permitted /\ executed < MaxSteps /\ clock <= MaxSeconds

SkipNoValue ==                    \* _resolve_params: a parameter has no value
  /\ WithinBudget /\ Unresolved(step, subject)
  /\ Skipped("blocked", Nobody)
  /\ UNCHANGED <<stop_reason, runner, subject_stop, unfinished>>

Start ==
  /\ WithinBudget /\ ~Unresolved(step, subject)
  /\ executed' = executed + 1
  /\ attempts' = 0 /\ result' = "none" /\ pc' = "run"
  /\ UNCHANGED <<pos, idx, subject, records, stop_reason, runner, template, subject_stop>>

----------------------------------------------------------------------------
(* The retry loop, Runner.run, and what visit() does with the result.       *)

UseCached ==
  /\ pc = "run" /\ attempts = 0 /\ cache[Check[here]] # "none"
  /\ result' = cache[Check[here]]
  /\ attempts' = 1 /\ pc' = "got"
  /\ UNCHANGED <<pos, idx, subject, records, executed, stop_reason, runner, template, subject_stop>>

(* Deliberately wrong: the check is asked again although it answered. *)
MayExecute == pc = "run"

MustExecute == pc = "run" /\ (attempts > 0 \/ cache[Check[here]] = "none")

Execute ==
  /\ MustExecute
  /\ \E r \in Status \ {"none"}, d \in 0 .. CheckTimeout :
       /\ result' = r
       /\ cache' = [cache EXCEPT ![Check[here]] = r]
       /\ clock' = clock + d
  /\ runs' = runs + 1
  /\ attempts' = attempts + 1 /\ pc' = "got"
  /\ UNCHANGED <<pos, idx, subject, records, executed, stop_reason, template, subject_stop>>

Interrupted ==                    \* KeyboardInterrupt while the check runs
  /\ MustExecute
  /\ \E d \in 0 .. CheckTimeout : clock' = clock + d
  /\ runs' = runs + 1 /\ UNCHANGED cache
  /\ stop_reason' = "cancelled" /\ Unfinish
  /\ records' = [records EXCEPT ![here] = SkipRecord("stopped", Nobody, attempts + 1)]
  /\ Advance
  /\ UNCHANGED <<executed, attempts, result, subject_stop>>

(* Deliberately wrong: one retry too few. *)
MayRetryLess == result = "TIMED_OUT" /\ attempts < Retries[step]

MayRetry == result = "TIMED_OUT" /\ attempts <= Retries[step]

Retry ==
  /\ pc = "got" /\ MayRetry
  /\ pc' = "run"
  /\ UNCHANGED <<pos, idx, subject, records, executed, stop_reason, attempts, result, runner, template,
                 subject_stop>>

(* Only a successful result is classified; its evidence may still lack the *)
(* promised shape (UNKNOWN).  Then the step's stop hooks run.              *)
Conclude ==
  /\ pc = "got" /\ ~MayRetry
  /\ \E o \in IF result = "OK" THEN Answers[step] \cup {"UNKNOWN"} ELSE {"UNKNOWN"},
        f \in IF step \in Facts THEN BOOLEAN ELSE {FALSE} :
       /\ \E l \in IF f /\ step \in Sources THEN Listing ELSE {NoListing} :
            records' = [records EXCEPT ![here] =
                          [outcome |-> o, skip |-> "none", blocked_by |-> Nobody, status |-> result,
                           attempts |-> attempts, fact |-> f, listing |-> l]]
       /\ \/ UNCHANGED <<stop_reason, subject_stop>>
          \/ o \in Stops[step] /\ stop_reason' = "hook" /\ UNCHANGED subject_stop
          \/ o \in SubjectStops[step] /\ subject_stop' = "hook" /\ UNCHANGED stop_reason
  /\ Advance
  /\ UNCHANGED <<executed, attempts, result, runner, unfinished>>

----------------------------------------------------------------------------
Skip == \/ SliceUsedUp \/ SubjectStopped \/ RunStopped \/ SkipBlocked \/ SkipNotApplicable
        \/ SkipNotNeeded \/ SkipPrivilege \/ StepBudgetUsedUp \/ TimeBudgetUsedUp \/ SkipNoValue

Walk == OpenStep \/ OpenTemplate \/ StartSubject \/ CloseTemplate \/ Finish

RunCheck == Start \/ UseCached \/ Execute \/ Interrupted \/ Retry \/ Conclude

Next == Walk \/ Skip \/ RunCheck

Spec     == Init /\ [][Next]_vars
FairSpec == Spec /\ WF_vars(Next)

(* Where the walk is: always at an item and step that exist. *)
PlaceOK ==
  /\ pc \in {"open", "subject", "visit", "run", "got", "done"}
  /\ pos \in 1 .. Len(Plan) + 1
  /\ pc \in {"subject", "visit", "run", "got"} => pos \in DOMAIN Plan
  /\ idx \in Nat \ {0}
  /\ pc \in {"visit", "run", "got"} => idx \in DOMAIN item.steps
  /\ pc = "subject" => item.each
  /\ subject \in Scope

MemoryOK ==
  /\ records \in [Instance -> Record]
  /\ executed \in Nat /\ clock \in Nat /\ runs \in Nat
  /\ stop_reason \in StopReason
  /\ attempts \in 0 .. 1 + MAX_RETRIES
  /\ result \in Status
  /\ cache \in [CheckKey -> Status]
  /\ left \subseteq Subject /\ unfinished \subseteq Scope
  /\ subject_start \in Nat
  /\ subject_stop \in {"none", "slice", "hook"}
  /\ enumerations \in [DOMAIN Plan -> [status : EnumStatus, subjects : SUBSET Subject,
                                       unfinished : SUBSET Scope]]

(* Every variable has its type, wherever the walk is (run_plan, _Run).     *)
TypeOK == PlaceOK /\ MemoryOK

----------------------------------------------------------------------------
(* Properties.                                                             *)

Ran(i)     == records[i].outcome \notin {"NONE", "SKIPPED"}
Decided(i) == records[i].outcome # "NONE"

(* A check only ever runs on evidence that stands: every requirement of a  *)
(* step that ran has an accepted outcome and every parameter a value, for  *)
(* a template step those of its OWN subject (visit's blocked test,         *)
(* _resolve_params, SubjectContext._key).                                  *)
NeverOnAGuess ==
  \A s \in Step, x \in Scope :
    Ran(<<s, x>>) => ~Blocked(s, x) /\ ~Unresolved(s, x)

(* A run is bounded whatever the checks do: counted steps by max_steps,    *)
(* executions by one retry each, and time by max_seconds plus the check    *)
(* that was running when it passed (visit's two budget tests).             *)
BudgetsHold ==
  /\ executed <= MaxSteps
  /\ runs <= (1 + MAX_RETRIES) * MaxSteps
  /\ clock <= MaxSeconds + (1 + MAX_RETRIES) * CheckTimeout

(* After a stop (budget, interrupt, stop hook) no check runs again and the *)
(* first reason stands (visit's first test).                               *)
StopIsFinal ==
  [][stop_reason # "none" => UNCHANGED <<stop_reason, executed, runs, cache, clock>>]_vars

(* What was recorded of a step is never revised by a later visit.          *)
RecordsStand ==
  [][\A i \in Instance : Decided(i) => records'[i] = records[i]]_vars

(* No step of the plan, and no step of an investigated subject, is left    *)
(* without a record: an omission is always visible (run_plan's walk).      *)
NothingOmitted ==
  pc = "done" =>
    \A i \in DOMAIN Plan : \A s \in StepsOf(i) :
      IF Plan[i].each THEN \A x \in enumerations[i].subjects : Decided(<<s, x>>)
      ELSE Decided(<<s, Whole>>)

(* An enumeration that stays COMPLETE means every name the source listed   *)
(* was valid, within the budget, and had each of its steps visited before  *)
(* any stop (_subjects, run_plan's unfinished list).                       *)
CompleteMeansAll ==
  \A i \in DOMAIN Plan :
    LET src == records[<<Plan[i].source, Whole>>] IN
    i < pos /\ Plan[i].each /\ enumerations[i].status = "COMPLETE" =>
      /\ src.outcome \in {"PASS", "WARN"} /\ ~src.listing.rejected
      /\ Plan[i].complete_fact => src.listing.whole
      /\ \A x \in src.listing.names, s \in StepsOf(i) :
           Decided(<<s, x>>) /\ records[<<s, x>>].skip # "stopped"

(* One subject never ends another's investigation: unless the whole run    *)
(* stopped, a subject's steps are cut short only after a check of that     *)
(* same subject ran (subject_stop and the slice are reset per subject).    *)
SubjectIsolation ==
  \A i \in DOMAIN Plan : Plan[i].each =>
    \A s \in StepsOf(i), x \in Subject :
      \/ records[<<s, x>>].skip = "stopped" /\ stop_reason = "none"
      \/ records[<<s, x>>].skip = "not_needed" /\ "when" \notin Gates[s]
      => \E t \in StepsOf(i) : Ran(<<t, x>>)

(* Two steps that ask the same question never report different answers     *)
(* within a run, although either may retry a timeout (Runner's cache and   *)
(* fresh=True).                                                            *)
OneAnswerPerQuestion ==
  \A i \in Instance :
    Ran(i) /\ records[i].status # "TIMED_OUT" =>
      \A j \in Instance :
        Ran(j) /\ Check[i] = Check[j] /\ records[j].status # "TIMED_OUT" => records[i].status = records[j].status

(* A timeout is final only once the declared retry was spent, also when    *)
(* the first result came from the cache (visit's retry loop).              *)
TimeoutRetried ==
  \A s \in Step, x \in Scope :
    Ran(<<s, x>>) => /\ records[<<s, x>>].status = "TIMED_OUT" =>
                         records[<<s, x>>].attempts = 1 + Retries[s]
                     /\ records[<<s, x>>].outcome # "UNKNOWN" => records[<<s, x>>].status = "OK"

(* Every run ends: nothing waits, and budgets, retries and subjects are    *)
(* finite.                                                                 *)
Termination == <>(pc = "done")
=============================================================================
