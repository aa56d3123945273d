-------------------------- MODULE ReplReportProofs --------------------------
(***************************************************************************)
(* Proofs about the status word of replication mode, for every plan of the *)
(* shape of replication_plan(), whatever was skipped, blocked, interrupted *)
(* or cut by a budget on the way.                                          *)
(***************************************************************************)
EXTENDS ReplReport, PlannerProofs, WellFoundedInduction

----------------------------------------------------------------------------
(* _gap calls itself with the step that blocked this one.  The function    *)
(* that does so exists: the least set of instances closed under its rules  *)
(* is one.                                                                 *)

OwnGap(i, excused) ==
  LET r == records[i] IN
  \/ r.outcome = "UNKNOWN"
  \/ r.skip = "privilege"
  \/ r.skip = "not_applicable" /\ i \notin excused
  \/ r.skip = "stopped" /\ stop_reason # "hook"
  \/ r.skip = "blocked" /\ (r.blocked_by = Nobody \/ records[r.blocked_by].outcome = "NONE")
Follows(i, G) == records[i].skip = "blocked" /\ records[i].blocked_by \in G

LEMMA GapsFixed ==
  ASSUME IType, NEW excused
  PROVE  \A i \in Instance : i \in Gaps(excused) <=> OwnGap(i, excused) \/ Follows(i, Gaps(excused))
<1> DEFINE Closed(G) == \A i \in Instance : OwnGap(i, excused) \/ Follows(i, G) => i \in G
           G  == {i \in Instance : \A H \in SUBSET Instance : Closed(H) => i \in H}
           gap == [i \in Instance |-> i \in G]
<1>1. \A i \in Instance : records[i].blocked_by \in Instance \cup {Nobody}
  BY DEF IType, TypeOK, MemoryOK, Record
<1>2. \A i \in Instance : OwnGap(i, excused) \/ Follows(i, G) => i \in G
  BY DEF Follows
<1>3. ASSUME NEW i \in G PROVE OwnGap(i, excused) \/ Follows(i, G)
  <2> DEFINE H == {j \in G : OwnGap(j, excused) \/ Follows(j, G)}
  <2>1. H \in SUBSET Instance /\ H \subseteq G
    OBVIOUS
  <2>2. \A j \in Instance : Follows(j, H) => Follows(j, G)
    BY <2>1 DEF Follows
  <2>3. Closed(H)
    <3> SUFFICES ASSUME NEW j \in Instance, OwnGap(j, excused) \/ Follows(j, H) PROVE j \in H
      OBVIOUS
    <3>1. OwnGap(j, excused) \/ Follows(j, G)
      BY <2>2
    <3>2. j \in G
      BY <3>1, <1>2
    <3> HIDE DEF G
    <3> QED
      BY <3>1, <3>2
  <2> HIDE DEF H
  <2>4. i \in H
    BY <2>1, <2>3
  <2> USE DEF H
  <2> HIDE DEF G
  <2> QED
    BY <2>4
<1> DEFINE Rule(f) == [i \in Instance |->
      LET r == records[i] IN
        \/ r.outcome = "UNKNOWN"
        \/ r.skip = "privilege"
        \/ r.skip = "not_applicable" /\ i \notin excused
        \/ r.skip = "stopped" /\ stop_reason # "hook"
        \/ /\ r.skip = "blocked"
           /\ \/ r.blocked_by = Nobody
              \/ records[r.blocked_by].outcome = "NONE"
              \/ f[r.blocked_by]]
           fixed == CHOOSE f : f = Rule(f)
<1>5. Gaps(excused) = {i \in Instance : fixed[i]}
  BY DEF Gaps
<1>6. gap = Rule(gap)
  <2> HIDE DEF G
  <2>1. ASSUME NEW i \in Instance
        PROVE  gap[i] = Rule(gap)[i]
    <3>1. i \in G <=> OwnGap(i, excused) \/ Follows(i, G)
      BY <1>2, <1>3
    <3>2. records[i].blocked_by \in Instance => (gap[records[i].blocked_by] <=> records[i].blocked_by \in G)
      OBVIOUS
    <3> HIDE DEF gap
    <3>3. gap[i] = (i \in G)
      BY DEF gap
    <3>4. G \subseteq Instance
      BY DEF G
    <3>5. Rule(gap)[i] = (OwnGap(i, excused) \/ Follows(i, G))
      BY <1>1, <3>2, <3>4 DEF OwnGap, Follows
    <3>6. (i \in G) = (OwnGap(i, excused) \/ Follows(i, G))
      BY <3>1 DEF OwnGap, Follows
    <3> HIDE DEF Rule
    <3> QED
      BY <3>3, <3>5, <3>6
  <2> QED
    BY <2>1
<1>7. fixed = Rule(fixed)
  <2>1. \E f : f = Rule(f)
    BY <1>6
  <2> HIDE DEF Rule
  <2> QED
    BY <2>1
<1> HIDE DEF fixed, G, gap
<1>8. ASSUME NEW i \in Instance
      PROVE  fixed[i] <=> OwnGap(i, excused) \/ Follows(i, Gaps(excused))
  <2>1. fixed[i] = Rule(fixed)[i]
    BY <1>7
  <2>2. records[i].blocked_by \in Instance => (records[i].blocked_by \in Gaps(excused) <=> fixed[records[i].blocked_by])
    BY <1>5
  <2>3. Gaps(excused) \subseteq Instance
    BY <1>5
  <2> QED
    BY <1>1, <2>1, <2>2, <2>3 DEF OwnGap, Follows
<1> QED
  BY <1>5, <1>8

----------------------------------------------------------------------------
(* The plan.                                                               *)

LEMMA TheTemplate ==
  /\ Template \in DOMAIN Plan /\ Plan[Template].each /\ Plan[Template].source = Agreements
  /\ \A j \in DOMAIN Plan : Plan[j].each => j = Template
  /\ SubjectEssential \cup {Reverse} \subseteq StepsOf(Template)
  /\ Template - 1 \in DOMAIN Plan /\ Plan[Template - 1].steps = <<Principals>>
<1>1. PICK i \in DOMAIN Plan :
        /\ Plan[i].each /\ \A j \in DOMAIN Plan : Plan[j].each => j = i
        /\ SubjectEssential \cup {Reverse} \subseteq StepsOf(i)
        /\ i > 1 /\ Plan[i - 1].steps = <<Principals>>
  BY ReplicationPlan
<1>2. Template = i
  BY <1>1 DEF Template
<1>3. i - 1 \in DOMAIN Plan
  BY <1>1, PlanLength
<1> QED
  BY <1>1, <1>2, <1>3, ReportAssumption

LocalSteps == LocalEssential \cup {Principals}

LEMMA Locals ==
  /\ {Server, Agreements} \cup Topology \subseteq LocalEssential
  /\ \A s \in LocalSteps : /\ s \in Ordinary /\ <<s, Whole>> \in Instance /\ s \in Step
                           /\ \A i \in DOMAIN Plan : s \in StepsOf(i) => ~Plan[i].each
<1>1. LocalSteps \subseteq Ordinary /\ {Server, Agreements} \cup Topology \subseteq LocalEssential
  BY ReportAssumption, ReplicationPlan DEF LocalSteps
<1>2. ASSUME NEW s \in Ordinary
      PROVE  /\ <<s, Whole>> \in Instance /\ s \in Step
             /\ \A i \in DOMAIN Plan : s \in StepsOf(i) => ~Plan[i].each
  <2>1. PICK j \in DOMAIN Plan : ~Plan[j].each /\ s \in StepsOf(j)
    BY <1>2 DEF Ordinary
  <2> QED
    BY <2>1, OneItem, StepsType DEF Scope, Instance
<1> QED
  BY <1>1, <1>2

(* Where a local step is visited, and what it requires has been decided.   *)
LEMMA HereLocal ==
  ASSUME IType, Covered, pc \in At, step \in LocalSteps
  PROVE  ~item.each /\ here = <<step, Whole>> /\ idx = 1 /\ pos \in DOMAIN Plan /\ step \in StepsOf(pos)
<1>1. pos \in DOMAIN Plan /\ idx \in DOMAIN item.steps
  BY HereFacts DEF IType, TypeOK
<1>2. step \in StepsOf(pos)
  BY <1>1 DEF StepsOf, step, item
<1>3. ~item.each
  BY <1>1, <1>2, Locals DEF item
<1> QED
  BY <1>1, <1>2, <1>3 DEF Covered, here

LEMMA RequiredDecided ==
  ASSUME IType, Covered, pc \in At, step \in LocalEssential, NEW k \in DOMAIN Requires[step]
  PROVE  LET d == Requires[step][k].step IN
         /\ d \in LocalEssential /\ Decided(<<d, Whole>>) /\ Key(step, d, subject) = <<d, Whole>>
<1> DEFINE d == Requires[step][k].step
<1>1. ~item.each /\ idx = 1 /\ pos \in DOMAIN Plan /\ subject = Whole /\ idx \in DOMAIN item.steps
  BY HereLocal, HereFacts DEF LocalSteps, here, IType, TypeOK
<1>2. d \in LocalEssential
  BY ReplicationPlan
<1>3. d \in Earlier(pos)
  <2>1. step = Plan[pos].steps[1] /\ 1 \in DOMAIN Plan[pos].steps
    BY <1>1 DEF step, item
  <2>2. {Requires[Plan[pos].steps[1]][n].step : n \in DOMAIN Requires[Plan[pos].steps[1]]}
          \subseteq Earlier(pos) \cup {Plan[pos].steps[l] : l \in 1 .. 1 - 1}
    BY <1>1, <2>1, PlanAssumption
  <2>3. 1 .. 1 - 1 = {}
    OBVIOUS
  <2> QED
    BY <2>1, <2>2, <2>3
<1>4. PICK j \in 1 .. pos - 1 : d \in StepsOf(j)
  BY <1>3 DEF Earlier
<1>5. j \in DOMAIN Plan /\ j < pos
  BY <1>1, PlanLength
<1>6. ~Plan[j].each
  BY <1>2, <1>4, <1>5, Locals DEF LocalSteps
<1>7. Decided(<<d, Whole>>)
  BY <1>4, <1>5, <1>6 DEF Covered, ItemCovered
<1> QED
  BY <1>1, <1>2, <1>7 DEF Key

----------------------------------------------------------------------------
(* The invariant: what the records of the local steps mean, and why the    *)
(* template was not asked.                                                 *)

LocalRecord(s) ==
  LET r == Found(s) IN
  /\ r.outcome \in Answers[s] \cup {"NONE", "UNKNOWN", "SKIPPED"}
  /\ r.outcome = "SKIPPED" => r.skip \in {"stopped", "privilege", "blocked"}
  /\ r.outcome = "SKIPPED" /\ r.skip = "blocked" /\ r.blocked_by # Nobody =>
       \E k \in DOMAIN Requires[s] :
         LET d == Requires[s][k].step IN
         /\ r.blocked_by = <<d, Whole>>
         /\ Found(d).outcome \notin Requires[s][k].accept \cup {"NONE"}

LocalStop   == pc \in At /\ ~item.each => subject_stop = "none"
HookMeans   == stop_reason = "hook" => Found(Server).outcome = "FAIL"
LastStopped == pc = "open" /\ pos = Template /\ stop_reason # "none" => Found(Principals).skip = "stopped"
NotAsked    == enumerations[Template].status = "NOT_ASKED" =>
                 Found(Principals).skip = "stopped" \/ Found(Agreements).outcome = "SKIPPED"

Traced ==
  /\ NoneAfterStop /\ LocalStop /\ HookMeans /\ LastStopped /\ NotAsked
  /\ \A s \in LocalEssential : LocalRecord(s)
Base == IType /\ Fresh /\ Covered /\ ListsSound

LEMMA TracedInit == Init => Traced
<1> SUFFICES ASSUME Init PROVE Traced
  OBVIOUS
<1>1. \A s \in LocalSteps : Found(s) = Unvisited
  BY Locals DEF Init, Found
<1>2. \A s \in LocalEssential : LocalRecord(s)
  BY <1>1 DEF LocalRecord, Unvisited, LocalSteps
<1>3. enumerations[Template].status = "none"
  BY TheTemplate DEF Init
<1> QED
  BY <1>2, <1>3 DEF Init, Traced, NoneAfterStop, LocalStop, HookMeans, LastStopped, NotAsked, At

----------------------------------------------------------------------------
(* What visiting a local step may record.                                  *)

BlockedBy(by) ==
  \/ by = Nobody
  \/ \E k \in DOMAIN Requires[step] : Refused(step, subject, k) /\ by = Key(step, Requires[step][k].step, subject)

LEMMA SkipLocal ==
  ASSUME Base, Traced, step \in LocalSteps, Skip
  PROVE  \E kind, by :
           /\ Writes(SkipRecord(kind, by, 0))
           /\ \/ kind = "stopped" /\ (stop_reason' = "hook" => stop_reason = "hook")
              \/ /\ kind \in {"blocked", "privilege", "not_applicable", "not_needed"}
                 /\ kind \in {"not_applicable", "not_needed"} => Gates[step] # {}
                 /\ stop_reason = "none" /\ stop_reason' = "none"
                 /\ kind = "blocked" => BlockedBy(by)
<1>1. pc = "visit" /\ pc \in At
  BY SkipShape DEF At
<1>2. ~item.each /\ subject_stop = "none"
  BY <1>1, HereLocal DEF Base, Traced, LocalStop
<1>3. \A kind, by : Skipped(kind, by) => Writes(SkipRecord(kind, by, 0))
  BY <1>1 DEF Skipped, Writes
<1>4. CASE SliceUsedUp \/ SubjectStopped
  BY <1>2, <1>4 DEF SliceUsedUp, SubjectStopped, SliceExpired
<1>5. CASE RunStopped \/ StepBudgetUsedUp \/ TimeBudgetUsedUp
  <2>1. Skipped("stopped", Nobody)
    BY <1>5 DEF RunStopped, StepBudgetUsedUp, TimeBudgetUsedUp
  <2>2. stop_reason' = "hook" => stop_reason = "hook"
    BY <1>5 DEF RunStopped, StepBudgetUsedUp, TimeBudgetUsedUp
  <2> QED
    BY <1>3, <2>1, <2>2
<1>6. CASE SkipBlocked
  <2>1. PICK k \in DOMAIN Requires[step] :
          Refused(step, subject, k) /\ Skipped("blocked", Key(step, Requires[step][k].step, subject))
    BY <1>6 DEF SkipBlocked
  <2>2. stop_reason = "none" /\ stop_reason' = "none"
    BY <1>6 DEF SkipBlocked
  <2>3. BlockedBy(Key(step, Requires[step][k].step, subject))
    BY <2>1 DEF BlockedBy
  <2> QED
    BY <1>3, <2>1, <2>2, <2>3
<1>7. CASE SkipNotApplicable \/ SkipNotNeeded
  <2>1. PICK kind \in {"not_applicable", "not_needed"} : Skipped(kind, Nobody)
    BY <1>7 DEF SkipNotApplicable, SkipNotNeeded
  <2>2. stop_reason = "none" /\ stop_reason' = "none" /\ Gates[step] # {}
    BY <1>7 DEF SkipNotApplicable, SkipNotNeeded, Relevant
  <2> QED
    BY <1>3, <2>1, <2>2
<1>8. CASE SkipPrivilege \/ SkipNoValue
  <2>1. PICK kind \in {"privilege", "blocked"} : Skipped(kind, Nobody)
    BY <1>8 DEF SkipPrivilege, SkipNoValue
  <2>2. stop_reason = "none" /\ stop_reason' = "none"
    BY <1>8 DEF SkipPrivilege, SkipNoValue, WithinBudget, Permitted, Relevant
  <2> QED
    BY <1>3, <2>1, <2>2 DEF BlockedBy
<1> QED
  BY <1>4, <1>5, <1>6, <1>7, <1>8 DEF Skip

LEMMA ConcludeLocal ==
  ASSUME Base, Traced, pc \in At, Conclude
  PROVE  \E o, f, l :
           /\ Writes(ConcludedRecord(o, f, l)) /\ o \in Answers[step] \cup {"UNKNOWN"}
           /\ stop_reason' = "hook" \/ UNCHANGED stop_reason
           /\ stop_reason' # stop_reason => o \in Stops[step]
           /\ stop_reason = "none"
<1>1. stop_reason = "none"
  BY DEF Traced, NoneAfterStop, Conclude
<1>2. PICK o \in IF result = "OK" THEN Answers[step] \cup {"UNKNOWN"} ELSE {"UNKNOWN"},
           f \in IF step \in Facts THEN BOOLEAN ELSE {FALSE} :
        /\ \E l \in IF f /\ step \in Sources THEN Listing ELSE {NoListing} :
             records' = [records EXCEPT ![here] =
                           [outcome |-> o, skip |-> "none", blocked_by |-> Nobody, status |-> result,
                            attempts |-> attempts, fact |-> f, listing |-> l]]
        /\ \/ UNCHANGED <<stop_reason, subject_stop>>
           \/ o \in Stops[step] /\ stop_reason' = "hook" /\ UNCHANGED subject_stop
           \/ o \in SubjectStops[step] /\ subject_stop' = "hook" /\ UNCHANGED stop_reason
  BY DEF Conclude
<1>3. PICK l : records' = [records EXCEPT ![here] = ConcludedRecord(o, f, l)]
  BY <1>2 DEF ConcludedRecord
<1>4. Advance
  BY DEF Conclude
<1> QED
  BY <1>1, <1>2, <1>3, <1>4 DEF Writes

(* Only a visit of it changes the record of a local step.                  *)
LEMMA LocalChange ==
  ASSUME Base, [Next]_vars, NEW s \in LocalSteps, Found(s)' # Found(s)
  PROVE  /\ pc \in At /\ step = s /\ here = <<s, Whole>> /\ ~Decided(<<s, Whole>>)
         /\ Skip \/ Interrupted \/ Conclude
<1>1. <<s, Whole>> \in Instance /\ records \in [Instance -> Record]
  BY Locals DEF Base, IType, TypeOK, MemoryOK
<1>2. pc \in At /\ here = <<s, Whole>>
  BY <1>1, RecordsShape DEF Base, Found
<1>3. Skip \/ Interrupted \/ Conclude
  <2>1. ~Walk /\ ~(Start \/ UseCached \/ Execute \/ Retry) /\ ~UNCHANGED vars
    BY WalkShape, CheckShape DEF Found, vars
  <2> QED
    BY <2>1 DEF Next, RunCheck
<1> QED
  BY <1>1, <1>2, <1>3, StaysDecided DEF here, Found, Base

LEMMA LocalStays ==
  ASSUME Base, [Next]_vars, NEW s \in LocalSteps, Decided(<<s, Whole>>)
  PROVE  Found(s)' = Found(s)
BY LocalChange

LEMMA LocalRecordStep ==
  ASSUME Base, Traced, [Next]_vars, NEW s \in LocalEssential
  PROVE  LocalRecord(s)'
<1>1. s \in LocalSteps /\ Gates[s] = {}
  BY ReplicationPlan DEF LocalSteps
<1>2. ASSUME NEW k \in DOMAIN Requires[s], Found(Requires[s][k].step).outcome # "NONE"
      PROVE  Found(Requires[s][k].step)' = Found(Requires[s][k].step)
  <2>1. Requires[s][k].step \in LocalSteps
    BY ReplicationPlan DEF LocalSteps
  <2> QED
    BY <1>2, <2>1, LocalStays DEF Decided, Found
<1>3. CASE Found(s)' = Found(s)
  <2>1. LocalRecord(s)
    BY DEF Traced
  <2> QED
    BY <1>2, <1>3, <2>1 DEF LocalRecord
<1>4. CASE Found(s)' # Found(s)
  <2>1. /\ pc \in At /\ step = s /\ here = <<s, Whole>> /\ here \in Instance
        /\ Skip \/ Interrupted \/ Conclude
    BY <1>1, <1>4, LocalChange, Locals
  <2>2. \A r : Writes(r) => Found(s)' = r
    BY <2>1 DEF Writes, Found, Base, IType, TypeOK, MemoryOK
  <2>3. CASE Skip
    <3>1. PICK kind, by : /\ Writes(SkipRecord(kind, by, 0))
                          /\ kind \in {"stopped", "blocked", "privilege"}
                          /\ kind = "blocked" => BlockedBy(by)
      BY <1>1, <2>1, <2>3, SkipLocal
    <3>2. Found(s)'.outcome = "SKIPPED" /\ Found(s)'.skip = kind /\ Found(s)'.blocked_by = by
      BY <2>2, <3>1 DEF SkipRecord, Unvisited
    <3>3. ASSUME kind = "blocked", by # Nobody
          PROVE  \E k \in DOMAIN Requires[s] :
                   LET d == Requires[s][k].step IN
                   by = <<d, Whole>> /\ Found(d)'.outcome \notin Requires[s][k].accept \cup {"NONE"}
      <4>1. PICK k \in DOMAIN Requires[s] : Refused(s, subject, k) /\ by = Key(s, Requires[s][k].step, subject)
        BY <2>1, <3>1, <3>3 DEF BlockedBy
      <4>2. LET d == Requires[s][k].step IN Decided(<<d, Whole>>) /\ Key(s, d, subject) = <<d, Whole>>
        BY <2>1, RequiredDecided DEF Base
      <4>3. Found(Requires[s][k].step).outcome \notin Requires[s][k].accept \cup {"NONE"}
        BY <4>1, <4>2 DEF Refused, outcome, Decided, Found
      <4> QED
        BY <1>2, <4>1, <4>2, <4>3
    <3> QED
      BY <3>1, <3>2, <3>3 DEF LocalRecord
  <2>4. CASE Interrupted
    <3>1. Found(s)' = SkipRecord("stopped", Nobody, attempts + 1)
      BY <2>2, <2>4, InterruptedShape
    <3> QED
      BY <3>1 DEF LocalRecord, SkipRecord, Unvisited
  <2>5. CASE Conclude
    <3>1. PICK o, f, l : Writes(ConcludedRecord(o, f, l)) /\ o \in Answers[s] \cup {"UNKNOWN"}
      BY <2>1, <2>5, ConcludeLocal
    <3>2. Found(s)'.outcome = o /\ Found(s)'.skip = "none"
      BY <2>2, <3>1 DEF ConcludedRecord
    <3>3. o # "SKIPPED"
      BY <2>1, <3>1, PlanAssumption, HereFacts DEF Base, IType, TypeOK
    <3> QED
      BY <3>1, <3>2, <3>3 DEF LocalRecord
  <2> QED
    BY <2>1, <2>3, <2>4, <2>5
<1> QED
  BY <1>3, <1>4

(* The other parts.                                                        *)

LEMMA LocalStopStep ==
  ASSUME Base, Traced, [Next]_vars
  PROVE  LocalStop'
<1> SUFFICES ASSUME pc' \in At, ~item'.each PROVE subject_stop' = "none"
  BY DEF LocalStop
<1>1. CASE UNCHANGED vars
  BY <1>1 DEF vars, place, item, Traced, LocalStop
<1>2. CASE OpenStep
  BY <1>2 DEF OpenStep
<1>3. CASE OpenTemplate \/ CloseTemplate \/ Finish
  BY <1>3 DEF OpenTemplate, CloseTemplate, Finish, At
<1>4. CASE StartSubject
  BY <1>4 DEF StartSubject
<1>5. CASE Skip \/ Interrupted \/ Conclude
  <2>1. Advance /\ pc \in At
    BY <1>5, SkipShape, InterruptedShape, ConcludeShape DEF Writes
  <2>2. idx < Len(item.steps) /\ pos' = pos /\ item' = item
    BY <2>1 DEF Advance, At, item
  <2>3. ~item.each
    BY <2>2
  <2>4. idx = 1 /\ pos \in DOMAIN Plan
    BY <2>1, <2>3, HereFacts DEF Base, Covered, IType, TypeOK
  <2>5. Len(Plan[pos].steps) = 1
    BY <2>3, <2>4, PlanFacts DEF item
  <2> QED
    BY <2>2, <2>4, <2>5 DEF item
<1>6. CASE Start \/ UseCached \/ Execute \/ Retry
  BY <1>6, CheckShape DEF item, Traced, LocalStop
<1> QED
  BY <1>1, <1>2, <1>3, <1>4, <1>5, <1>6 DEF Next, Walk, RunCheck

LEMMA StopReasonShape ==
  ASSUME [Next]_vars, stop_reason' # stop_reason
  PROVE  Skip \/ Interrupted \/ Conclude
<1>1. ~Walk /\ ~(Start \/ UseCached \/ Execute \/ Retry) /\ ~UNCHANGED vars
  BY WalkShape, CheckShape DEF vars
<1> QED
  BY <1>1 DEF Next, RunCheck

LEMMA SkipHook ==
  ASSUME Skip, stop_reason' = "hook"
  PROVE  stop_reason = "hook"
BY DEF Skip, SliceUsedUp, SubjectStopped, RunStopped, SkipBlocked, SkipNotApplicable, SkipNotNeeded,
     SkipPrivilege, StepBudgetUsedUp, TimeBudgetUsedUp, SkipNoValue

LEMMA HookStep ==
  ASSUME Base, Traced, [Next]_vars
  PROVE  HookMeans'
<1> SUFFICES ASSUME stop_reason' = "hook" PROVE Found(Server)'.outcome = "FAIL"
  BY DEF HookMeans
<1>0. Server \in LocalSteps
  BY Locals DEF LocalSteps
<1>1. CASE stop_reason = "hook"
  <2>1. Found(Server).outcome = "FAIL"
    BY <1>1 DEF Traced, HookMeans
  <2> QED
    BY <1>0, <2>1, LocalStays DEF Decided, Found
<1>2. CASE stop_reason # "hook"
  <2>1. CASE Skip
    BY <1>2, <2>1, SkipHook
  <2>2. CASE Interrupted
    BY <2>2 DEF Interrupted
  <2>3. CASE Conclude
    <3>1. pc \in At
      BY <2>3 DEF Conclude, At
    <3>2. PICK o, f, l : Writes(ConcludedRecord(o, f, l)) /\ o \in Stops[step]
      BY <1>2, <2>3, <3>1, ConcludeLocal
    <3>3. step \in Step /\ here \in Instance
      BY <3>1, HereFacts DEF Base, IType, TypeOK
    <3>4. step = Server /\ o = "FAIL"
      BY <3>2, <3>3, ReplicationPlan
    <3>5. here = <<Server, Whole>>
      BY <1>0, <3>1, <3>4, HereLocal DEF Base
    <3> QED
      BY <3>2, <3>3, <3>4, <3>5 DEF Writes, ConcludedRecord, Found, Base, IType, TypeOK, MemoryOK
  <2> QED
    BY <1>2, <2>1, <2>2, <2>3, StopReasonShape
<1> QED
  BY <1>1, <1>2

(* The step before the template is the last that could have met a stop.    *)
LEMMA LastStoppedStep ==
  ASSUME Base, Traced, [Next]_vars
  PROVE  LastStopped'
<1> SUFFICES ASSUME pc' = "open", pos' = Template, stop_reason' # "none" PROVE Found(Principals)'.skip = "stopped"
  BY DEF LastStopped
<1>0. Principals \in LocalSteps /\ Template \in Int
  BY TheTemplate, PlanLength DEF LocalSteps
<1>1. CASE UNCHANGED vars
  BY <1>1 DEF vars, place, Found, Traced, LastStopped
<1>2. CASE Walk
  <2>1. CloseTemplate
    BY <1>2 DEF Walk, OpenStep, OpenTemplate, StartSubject, Finish
  <2>2. pc = "subject" /\ pos' = pos + 1
    BY <2>1 DEF CloseTemplate
  <2>3. pos \in DOMAIN Plan /\ Plan[pos].each
    BY <2>2 DEF Base, IType, TypeOK, PlaceOK, item
  <2> QED
    BY <2>2, <2>3, TheTemplate, PlanLength
<1>3. CASE Start \/ UseCached \/ Execute \/ Retry
  BY <1>3, CheckShape
<1>4. CASE Skip \/ Interrupted \/ Conclude
  <2>1. Advance /\ pc \in At
    BY <1>4, SkipShape, InterruptedShape, ConcludeShape DEF Writes
  <2>2. idx = Len(item.steps) /\ ~item.each /\ pos' = pos + 1
    BY <2>1 DEF Advance
  <2>3. pos = Template - 1 /\ idx = 1
    BY <1>0, <2>1, <2>2, PlanLength DEF Base, Covered, IType, TypeOK, PlaceOK
  <2>4. step = Principals /\ here = <<Principals, Whole>> /\ here \in Instance
    BY <1>0, <2>1, <2>3, TheTemplate, HereLocal, HereFacts DEF step, item, Base, IType, TypeOK
  <2>5. \A r : Writes(r) => Found(Principals)' = r
    BY <2>4 DEF Writes, Found, Base, IType, TypeOK, MemoryOK
  <2>6. CASE Skip
    <3>1. PICK kind, by : Writes(SkipRecord(kind, by, 0)) /\ kind = "stopped"
      BY <1>0, <2>4, <2>6, SkipLocal
    <3> QED
      BY <2>5, <3>1 DEF SkipRecord, Unvisited
  <2>7. CASE Interrupted
    <3>1. Found(Principals)' = SkipRecord("stopped", Nobody, attempts + 1)
      BY <2>5, <2>7, InterruptedShape
    <3> QED
      BY <3>1 DEF SkipRecord, Unvisited
  <2>8. CASE Conclude
    <3>1. PICK o : stop_reason = "none" /\ (stop_reason' # stop_reason => o \in Stops[step])
      BY <2>1, <2>8, ConcludeLocal
    <3>2. Stops[Principals] = {}
      BY <1>0, Locals, ReplicationPlan
    <3> QED
      BY <2>4, <3>1, <3>2
  <2> QED
    BY <1>4, <2>6, <2>7, <2>8
<1> QED
  BY <1>1, <1>2, <1>3, <1>4 DEF Next, RunCheck

LEMMA NotAskedStep ==
  ASSUME Base, Traced, [Next]_vars
  PROVE  NotAsked'
<1> SUFFICES ASSUME enumerations'[Template].status = "NOT_ASKED"
             PROVE  Found(Principals)'.skip = "stopped" \/ Found(Agreements)'.outcome = "SKIPPED"
  BY DEF NotAsked
<1>0. Principals \in LocalSteps /\ Agreements \in LocalSteps
  BY Locals DEF LocalSteps
<1>1. ASSUME Found(Principals).skip = "stopped" \/ Found(Agreements).outcome = "SKIPPED"
      PROVE  Found(Principals)'.skip = "stopped" \/ Found(Agreements)'.outcome = "SKIPPED"
  <2>1. Found(Principals).skip = "stopped" => Decided(<<Principals, Whole>>)
    BY <1>0, Locals DEF Base, ListsSound, Found
  <2> QED
    BY <1>0, <1>1, <2>1, LocalStays DEF Decided, Found
<1>2. CASE enumerations[Template].status = "NOT_ASKED"
  BY <1>1, <1>2 DEF Traced, NotAsked
<1>3. CASE enumerations[Template].status # "NOT_ASKED"
  <2>1. enumerations \in [DOMAIN Plan -> [status : EnumStatus, subjects : SUBSET Subject, unfinished : SUBSET Scope]]
    BY DEF Base, IType, TypeOK, MemoryOK
  <2>2. CASE OpenTemplate
    <3>1. pc = "open" /\ pos \in DOMAIN Plan /\ enumerations' = [enumerations EXCEPT ![pos] = Subjects(pos)]
      BY <2>2 DEF OpenTemplate
    <3>2. pos = Template
      BY <1>3, <2>1, <3>1, TheTemplate
    <3>3. Subjects(Template).status = "NOT_ASKED"
      BY <2>1, <3>1, <3>2
    <3>4. stop_reason # "none" \/ Found(Agreements).outcome \in {"NONE", "SKIPPED"}
      BY <3>3, TheTemplate DEF Subjects, Found
    <3>5. Decided(<<Agreements, Whole>>)
      <4>1. Agreements \in Earlier(Template)
        BY TheTemplate, PlanAssumption
      <4>2. PICK j \in 1 .. Template - 1 : Agreements \in StepsOf(j)
        BY <4>1 DEF Earlier
      <4>3. j \in DOMAIN Plan /\ j < pos
        BY <3>1, <3>2, PlanLength
      <4> QED
        BY <1>0, <4>2, <4>3, Locals DEF Base, Covered, ItemCovered
    <3>6. Found(Principals).skip = "stopped" \/ Found(Agreements).outcome = "SKIPPED"
      BY <3>1, <3>2, <3>4, <3>5 DEF Traced, LastStopped, Decided, Found
    <3> QED
      BY <1>1, <3>6
  <2>3. CASE CloseTemplate
    <3>1. enumerations'[Template].status \in {enumerations[Template].status, "PARTIAL"}
      BY <2>1, <2>3, TheTemplate DEF CloseTemplate
    <3> QED
      BY <1>3, <3>1
  <2>4. CASE UNCHANGED enumerations
    BY <1>3, <2>4
  <2>5. UNCHANGED vars \/ OpenStep \/ StartSubject \/ Finish \/ Skip \/ RunCheck => UNCHANGED enumerations
    <3>1. Skip \/ Interrupted \/ Conclude => UNCHANGED enumerations
      BY SkipShape, InterruptedShape, ConcludeShape DEF Writes, Advance
    <3> QED
      BY <3>1, CheckShape DEF vars, template, OpenStep, StartSubject, Finish, RunCheck
  <2> QED
    BY <2>2, <2>3, <2>4, <2>5 DEF Next, Walk
<1> QED
  BY <1>2, <1>3

LEMMA TracedStep == Base /\ Traced /\ [Next]_vars => Traced'
<1> SUFFICES ASSUME Base, Traced, [Next]_vars PROVE Traced'
  OBVIOUS
<1>1. NoneAfterStop'
  BY NoneAfterStopStep DEF Traced
<1> QED
  BY <1>1, LocalStopStep, HookStep, LastStoppedStep, NotAskedStep, LocalRecordStep DEF Traced

LEMMA TracedCorrect == Spec => [](Base /\ Traced)
<1>1. Init => Traced
  BY TracedInit
<1>2. Base /\ Traced /\ [Next]_vars => Traced'
  BY TracedStep
<1>3. Spec => []Base
  BY ListsCorrect DEF Base
<1> QED
  BY <1>1, <1>2, <1>3, PTL DEF Spec

----------------------------------------------------------------------------
(* What a complete report means.                                           *)

(* Among positions there is a first one.                                   *)
LEMMA FirstPosition ==
  ASSUME NEW S \in SUBSET Nat, S # {} PROVE \E n \in S : \A m \in S : n <= m
<1>1. IsWellFoundedOn(OpToRel(<, Nat), Nat)
  BY NatLessThanWellFounded
<1>2. PICK n \in S : \A m \in S : ~(<<m, n>> \in OpToRel(<, Nat))
  BY <1>1, WFMin
<1>3. OpToRel(<, Nat) = {p \in Nat \X Nat : p[1] < p[2]}
  BY DEF OpToRel
<1>4. \A m \in S : ~(m < n)
  BY <1>2, <1>3
<1> QED
  BY <1>4

(* An essential local step that left no gap and was not refused by another *)
(* was asked and passed; the first one refused by another cannot exist.    *)
LEMMA LocalsPassed ==
  ASSUME Base, Traced, pc = "done", NEW excused, stop_reason # "hook",
         \A s \in LocalEssential : <<s, Whole>> \notin Gaps(excused),
         Found(Server).outcome = "PASS", ~LocalFailure
  PROVE  \A s \in LocalEssential : Found(s).outcome \in {"PASS", "WARN"}
<1>1. \A s \in LocalEssential : s \in LocalSteps /\ <<s, Whole>> \in Instance
  BY Locals DEF LocalSteps
<1>2. \A s \in LocalEssential : ~OwnGap(<<s, Whole>>, excused)
  BY <1>1, GapsFixed DEF Base
<1>3. ASSUME NEW s \in LocalEssential PROVE \E i \in DOMAIN Plan : s \in StepsOf(i) /\ ~Plan[i].each
  BY <1>1, Locals DEF Ordinary
<1>4. ASSUME NEW s \in LocalEssential, Found(s).outcome # "SKIPPED"
      PROVE  Found(s).outcome \in {"PASS", "WARN"}
  <2>1. PICK i \in DOMAIN Plan : s \in StepsOf(i) /\ ~Plan[i].each
    BY <1>3
  <2>2. pos \notin DOMAIN Plan /\ pos \in 1 .. Len(Plan) + 1
    BY DEF Base, Covered, IType, TypeOK, PlaceOK
  <2>3. Found(s).outcome # "NONE"
    BY <2>1, <2>2, PlanLength DEF Base, Covered, ItemCovered, Decided, Found
  <2>4. Found(s).outcome # "UNKNOWN"
    BY <1>2 DEF OwnGap, Found
  <2>5. Found(s).outcome \in Answers[s]
    BY <1>4, <2>3, <2>4 DEF Traced, LocalRecord
  <2>6. s \in Step
    BY <1>1, Locals
  <2>7. Answers[s] \subseteq {"PASS", "WARN", "FAIL"}
    BY <2>6, PlanAssumption
  <2>8. Found(s).outcome # "FAIL"
    <3>1. s \in {Server} \cup LocalRoots \/ "FAIL" \notin Answers[s]
      BY ReplicationPlan
    <3> QED
      BY <2>5, <3>1 DEF LocalFailure
  <2> QED
    BY <2>5, <2>7, <2>8
<1>5. ASSUME NEW s \in LocalEssential, Found(s).outcome = "SKIPPED"
      PROVE  \E k \in DOMAIN Requires[s] : Found(Requires[s][k].step).outcome = "SKIPPED"
  <2>1. Found(s).skip = "blocked" /\ Found(s).blocked_by # Nobody /\ records[Found(s).blocked_by].outcome # "NONE"
    BY <1>2, <1>5 DEF Traced, LocalRecord, OwnGap, Found
  <2>2. PICK k \in DOMAIN Requires[s] : Found(Requires[s][k].step).outcome \notin Requires[s][k].accept
    BY <1>5, <2>1 DEF Traced, LocalRecord
  <2>3. Requires[s][k].step \in LocalEssential /\ {"PASS", "WARN"} \subseteq Requires[s][k].accept
    BY ReplicationPlan
  <2> QED
    BY <1>4, <2>2, <2>3
<1>6. ASSUME NEW r \in LocalEssential, Found(r).outcome = "SKIPPED" PROVE FALSE
  <2> DEFINE Skips(n) == \E s \in LocalEssential : s \in StepsOf(n) /\ Found(s).outcome = "SKIPPED"
             S == {n \in DOMAIN Plan : Skips(n)}
  <2>1. S \in SUBSET Nat /\ S # {}
    BY <1>3, <1>6, PlanLength
  <2>2. PICK n \in S : \A m \in S : n <= m
    BY <2>1, FirstPosition
  <2>3. PICK s \in LocalEssential : s \in StepsOf(n) /\ Found(s).outcome = "SKIPPED"
    BY <2>2
  <2>4. PICK k \in DOMAIN Requires[s] : Found(Requires[s][k].step).outcome = "SKIPPED"
    BY <1>5, <2>3
  <2>5. Requires[s][k].step \in LocalEssential
    BY <2>3, ReplicationPlan
  <2>6. n \in DOMAIN Plan /\ ~Plan[n].each /\ Len(Plan[n].steps) = 1 /\ s = Plan[n].steps[1] /\ 1 \in DOMAIN Plan[n].steps
    <3>1. n \in DOMAIN Plan /\ ~Plan[n].each
      BY <1>1, <2>2, <2>3, Locals
    <3>2. Len(Plan[n].steps) = 1 /\ DOMAIN Plan[n].steps = 1 .. 1
      BY <3>1, PlanFacts
    <3> QED
      BY <2>3, <3>1, <3>2 DEF StepsOf
  <2>7. Requires[s][k].step \in Earlier(n)
    <3>1. {Requires[Plan[n].steps[1]][m].step : m \in DOMAIN Requires[Plan[n].steps[1]]}
            \subseteq Earlier(n) \cup {Plan[n].steps[l] : l \in 1 .. 1 - 1}
      BY <2>6, PlanAssumption
    <3>2. 1 .. 1 - 1 = {}
      OBVIOUS
    <3> QED
      BY <2>6, <3>1, <3>2
  <2>8. PICK m \in 1 .. n - 1 : Requires[s][k].step \in StepsOf(m)
    BY <2>7 DEF Earlier
  <2>9. m \in S /\ m < n /\ n \in Nat
    BY <2>4, <2>5, <2>6, <2>8, PlanLength
  <2> QED
    BY <2>2, <2>9, PlanLength
<1> QED
  BY <1>4, <1>6

(* What a healthy status word has to stand for.                            *)
Verified ==
  /\ \A s \in LocalEssential \ Topology : Found(s).outcome \in {"PASS", "WARN"}
  /\ \A s \in Topology : Found(s).outcome = "PASS"
  /\ Found(Agreements).listing.whole /\ ~Found(Agreements).listing.rejected
  /\ \A x \in Found(Agreements).listing.names :
       /\ records[<<Reverse, x>>].outcome = "PASS"
       /\ \A s \in SubjectEssential :
            records[<<s, x>>].outcome # "UNKNOWN" /\ records[<<s, x>>].skip \notin {"stopped", "privilege"}

LEMMA HealthyVerified ==
  ASSUME Base, Traced, pc = "done", NEW excused, NEW D \in Diagnoses,
         StatusOf(D, Complete(Gaps(excused))) \in {"HEALTHY", "HEALTHY_WITH_WARNINGS"}
  PROVE  Verified
<1>1. /\ Found(Server).outcome = "PASS" /\ "fail" \notin D /\ "transient" \notin D
      /\ Complete(Gaps(excused))
  BY DEF StatusOf
<1>2. ~LocalFailure /\ \A x \in Enumerated.subjects : ReverseState(x) # "NOT_OK"
  BY <1>1 DEF Diagnoses
<1>3. stop_reason # "hook"
  BY <1>1 DEF Traced, HookMeans
<1>4. \A s \in LocalEssential : Found(s).outcome \in {"PASS", "WARN"}
  BY <1>1, <1>2, <1>3, LocalsPassed DEF Complete
<1>5. \A s \in Topology : Found(s).outcome = "PASS"
  BY <1>1, <1>4, Locals DEF Complete
<1>6. Found(Agreements).outcome \in {"PASS", "WARN"} /\ Found(Agreements).listing.whole
  BY <1>1, <1>4, Locals DEF Complete
<1>7. Enumerated.status = "COMPLETE"
  <2>1. <<Principals, Whole>> \in Instance /\ <<Principals, Whole>> \notin Gaps(excused)
    BY <1>1, Locals DEF Complete, LocalSteps
  <2>2. Found(Principals).skip # "stopped"
    BY <1>3, <2>1, GapsFixed DEF Base, OwnGap, Found
  <2> QED
    BY <1>1, <1>6, <2>2 DEF Complete, Traced, NotAsked, Enumerated
<1>8. ~Found(Agreements).listing.rejected /\ Enumerated.subjects = Found(Agreements).listing.names
  BY <1>7, TheTemplate DEF Base, ListsSound, EnumerationSound, Enumerated, Found
<1>9. ASSUME NEW x \in Found(Agreements).listing.names
      PROVE  /\ records[<<Reverse, x>>].outcome = "PASS"
             /\ \A s \in SubjectEssential :
                  records[<<s, x>>].outcome # "UNKNOWN" /\ records[<<s, x>>].skip \notin {"stopped", "privilege"}
  <2>1. x \in Enumerated.subjects
    BY <1>8
  <2>2. ReverseState(x) = "OK"
    BY <1>1, <1>2, <2>1 DEF Complete, ReverseState
  <2>3. x \in Scope
    <3>1. enumerations[Template] \in [status : EnumStatus, subjects : SUBSET Subject, unfinished : SUBSET Scope]
      BY TheTemplate DEF Base, IType, TypeOK, MemoryOK
    <3> QED
      BY <2>1, <3>1 DEF Enumerated, Scope
  <2>4. ASSUME NEW s \in SubjectEssential
        PROVE  records[<<s, x>>].outcome # "UNKNOWN" /\ records[<<s, x>>].skip \notin {"stopped", "privilege"}
    <3>1. <<s, x>> \in Instance
      BY <2>3, TheTemplate, StepsType
    <3>2. ~OwnGap(<<s, x>>, excused)
      BY <1>1, <2>1, <3>1, GapsFixed DEF Base, Complete
    <3> QED
      BY <1>3, <3>2 DEF OwnGap
  <2> QED
    BY <2>2, <2>4 DEF ReverseState
<1> QED
  BY <1>4, <1>5, <1>6, <1>8, <1>9 DEF Verified

----------------------------------------------------------------------------
(* "Could not check" is never reported as healthy (_status and the gaps of *)
(* replication/run.py), for every plan of replication_plan()'s shape,      *)
(* every budget, every answer and every set of agreements.                 *)
THEOREM HealthyCorrect == ReportSpec => []HealthyMeansVerified
<1> DEFINE Reported == report # "none" => pc = "done" /\ HealthyMeansVerified
<1>1. ReportSpec => Spec
  <2>1. [Investigate \/ Report]_<<vars, report>> => [Next]_vars
    BY DEF Investigate, Report, vars
  <2> QED
    BY <2>1, PTL DEF ReportSpec, Spec
<1>2. Init /\ report = "none" => Reported
  OBVIOUS
<1>3. Base /\ Traced /\ Reported /\ [Investigate \/ Report]_<<vars, report>> => Reported'
  <2> SUFFICES ASSUME Base, Traced, Reported, [Investigate \/ Report]_<<vars, report>>, report' # "none"
               PROVE  pc' = "done" /\ HealthyMeansVerified'
    OBVIOUS
  <2>1. CASE UNCHANGED <<vars, report>>
    BY <2>1 DEF vars, place, template, HealthyMeansVerified, Found
  <2>2. CASE Investigate
    <3>1. pc = "done" /\ Next
      BY <2>2 DEF Investigate
    <3>2. ~Walk
      BY <3>1 DEF Walk, OpenStep, OpenTemplate, StartSubject, CloseTemplate, Finish
    <3>3. ~Skip
      BY <3>1, SkipShape DEF At
    <3>4. ~(Start \/ UseCached \/ Execute \/ Retry)
      BY <3>1, CheckShape DEF At
    <3>5. ~Interrupted /\ ~Conclude
      BY <3>1, InterruptedShape, ConcludeShape DEF At
    <3> QED
      BY <3>1, <3>2, <3>3, <3>4, <3>5 DEF Next, RunCheck
  <2>3. CASE Report
    <3>1. PICK D \in Diagnoses,
               excused \in SUBSET {i \in BindSteps \X Subject : records[i].skip = "not_applicable"} :
            report' = StatusOf(D, Complete(Gaps(excused)))
      BY <2>3 DEF Report
    <3>2. pc = "done" /\ UNCHANGED vars
      BY <2>3 DEF Report
    <3>3. report' \in {"HEALTHY", "HEALTHY_WITH_WARNINGS"} => Verified
      BY <3>1, <3>2, HealthyVerified
    <3> QED
      BY <3>2, <3>3 DEF vars, place, template, HealthyMeansVerified, Verified, Found
  <2> QED
    BY <2>1, <2>2, <2>3
<1>4. Reported => HealthyMeansVerified
  BY DEF HealthyMeansVerified
<1> QED
  BY <1>1, <1>2, <1>3, <1>4, TracedCorrect, PTL DEF ReportSpec
=============================================================================
