--------------------------- MODULE ReplVerifyProofs ---------------------------
(***************************************************************************)
(* Proofs about ReplVerify for every set of agreements and causes, every   *)
(* window and any number of runs: what a comparison may answer holds for   *)
(* any number of processes, what becomes of the saved baseline for one     *)
(* process at a time.                                                      *)
(***************************************************************************)
EXTENDS ReplVerify, TLAPS

(* Type correctness of the variables alone.                                *)
VarsOK ==
  /\ now \in Time
  /\ session \in [Agreement -> [ok : BOOLEAN, end : Time]]
  /\ faults \subseteq Cause
  /\ saved \in Baseline
  /\ phase \in [Proc -> {"idle", "looking", "concluding"}]
  /\ mode \in [Proc -> {"plain", "verify"}]
  /\ base \in [Proc -> Baseline]
  /\ obs \in [Proc -> Observation]
  /\ first \in [Symptom -> Time \cup {Never}]

----------------------------------------------------------------------------
(* The results of a comparison (compare in replication/verify.py).         *)

LEMMA Kinds ==
  /\ \A f \in Symptom : f = <<f[1], f[2]>> /\ f[1] \in {"FAILING", "TRANSIENT"} /\ f[2] \in Agreement
  /\ \A f \in Root : f = <<"CAUSE", f[2]>> /\ f[2] \in Cause
  /\ \A f \in Root : f \notin Symptom
  /\ \A c \in Cause : <<"CAUSE", c>> \in Root /\ <<"CAUSE", c>> \notin Symptom
  /\ \A a \in Agreement : <<"FAILING", a>> \in Symptom /\ <<"TRANSIENT", a>> \in Symptom
BY DEF Symptom, Root

LEMMA SymptomResultType ==
  ASSUME NEW b, NEW o, NEW t, NEW f
  PROVE  SymptomResult(b, o, t, f) \in Result
BY DEF SymptomResult, Pending, Result

(* Only a fresh success, ended after the saved result, is RESOLVED.        *)
LEMMA SymptomResolved ==
  ASSUME NEW b \in Baseline, NEW o \in Observation, NEW t, NEW f \in Symptom,
         SymptomResult(b, o, t, f) = "RESOLVED"
  PROVE  o.seen[f[2]] = "OK" /\ o.end[f[2]] > b.at
<1>1. AgreementState(b, o, f[2]) = "OK"
  BY DEF SymptomResult, Pending
<1>2. o.seen[f[2]] = "OK" /\ ~(o.end[f[2]] <= b.at)
  BY <1>1 DEF AgreementState
<1>3. o.end[f[2]] \in Int /\ b.at \in Int
  BY Kinds, VerifyAssumption DEF Observation, Baseline, Time, Never
<1> QED
  BY <1>2, <1>3

(* An open failure is one whose own result is not RESOLVED.                *)
LEMMA OpenChosen ==
  ASSUME NEW b, NEW o, NEW t, NEW c, Open(b, o, t, c) # {}
  PROVE  SymptomResult(b, o, t, CHOOSE s \in Open(b, o, t, c) : TRUE) \in Result \ {"RESOLVED"}
<1>1. (CHOOSE s \in Open(b, o, t, c) : TRUE) \in Open(b, o, t, c)
  OBVIOUS
<1> QED
  BY <1>1, SymptomResultType DEF Open

LEMMA CauseResultType ==
  ASSUME NEW b, NEW o, NEW t, NEW c, NEW fixes
  PROVE  CauseResult(b, o, t, c, fixes) \in Result
BY OpenChosen DEF CauseResult, Result

LEMMA CauseResolved ==
  ASSUME NEW b, NEW o, NEW t, NEW c \in Cause, NEW fixes \in FixResults,
         CauseResult(b, o, t, c, fixes) = "RESOLVED"
  PROVE  c \in o.answered \ o.present /\ fixes[c] = "pass" /\ Open(b, o, t, c) = {}
<1>1. fixes[c] \in {"pass", "fail", "unknown"}
  BY DEF FixResults
<1> QED
  BY <1>1, OpenChosen DEF CauseResult

(* Nor has a RESOLVED cause changed its subject or its shape.              *)
LEMMA CauseUnmoved ==
  ASSUME NEW b, NEW o, NEW t, NEW c, NEW fixes, CauseResult(b, o, t, c, fixes) = "RESOLVED", NEW k \in o.present
  PROVE  /\ SubjectOf[k] # SubjectOf[c]
         /\ PeerOf[k] = PeerOf[c] /\ PeerOf[k] # "local" => <<"CAUSE", k>> \in b.found
BY DEF CauseResult, Moved

LEMMA ItemsType ==
  ASSUME NEW b \in Baseline, NEW o, NEW t, NEW fixes
  PROVE  /\ DOMAIN Items(b, o, t, fixes) = b.found
         /\ Outcomes(Items(b, o, t, fixes)) \subseteq Result
         /\ \A f \in b.found \cap Symptom : Items(b, o, t, fixes)[f] = SymptomResult(b, o, t, f)
         /\ \A f \in b.found \cap Root : Items(b, o, t, fixes)[f] = CauseResult(b, o, t, f[2], fixes)
<1>1. DOMAIN Items(b, o, t, fixes) = b.found
  BY DEF Items
<1>2. \A f \in b.found : Items(b, o, t, fixes)[f] \in Result
  BY SymptomResultType, CauseResultType DEF Items
<1>3. \A f \in b.found \cap Root : f \notin Symptom
  BY Kinds
<1> QED
  BY <1>1, <1>2, <1>3 DEF Items, Outcomes

(* What it takes for an earlier finding to be called RESOLVED.             *)
LEMMA ResolvedFacts ==
  ASSUME VarsOK, NEW p \in Proc, NEW fixes \in FixResults, NEW f \in base[p].found,
         Answer(p, fixes)[f] = "RESOLVED"
  PROVE  IF f \in Symptom THEN Green(p, f[2])
         ELSE /\ Absent(p, f[2]) /\ fixes[f[2]] = "pass"
              /\ \A k \in obs[p].present : SubjectOf[k] # SubjectOf[f[2]]
              /\ \A k \in obs[p].present :
                   PeerOf[k] = PeerOf[f[2]] /\ PeerOf[k] # "local" => <<"CAUSE", k>> \in base[p].found
              /\ \A a \in Explains[f[2]] : <<"FAILING", a>> \in base[p].found => Green(p, a)
<1>1. base[p] \in Baseline /\ obs[p] \in Observation /\ f \in Symptom \cup Root
  BY DEF VarsOK, Baseline, Finding
<1>2. CASE f \in Symptom
  <2>1. SymptomResult(base[p], obs[p], now, f) = "RESOLVED"
    BY <1>1, <1>2, ItemsType DEF Answer
  <2> QED
    BY <1>1, <1>2, <2>1, SymptomResolved DEF Green
<1>3. CASE f \in Root
  <2>1. CauseResult(base[p], obs[p], now, f[2], fixes) = "RESOLVED" /\ f[2] \in Cause /\ f \notin Symptom
    BY <1>1, <1>3, ItemsType, Kinds DEF Answer
  <2>2. Absent(p, f[2]) /\ fixes[f[2]] = "pass" /\ Open(base[p], obs[p], now, f[2]) = {}
    BY <2>1, CauseResolved DEF Absent
  <2>3. ASSUME NEW a \in Explains[f[2]], <<"FAILING", a>> \in base[p].found PROVE Green(p, a)
    <3>1. a \in Agreement /\ <<"FAILING", a>> \in Symptom
      BY <2>1, Kinds, VerifyAssumption
    <3>2. SymptomResult(base[p], obs[p], now, <<"FAILING", a>>) = "RESOLVED"
      BY <2>2, <2>3, <3>1 DEF Open
    <3> QED
      BY <1>1, <3>1, <3>2, SymptomResolved DEF Green
  <2>4. \A k \in obs[p].present :
          /\ SubjectOf[k] # SubjectOf[f[2]]
          /\ PeerOf[k] = PeerOf[f[2]] /\ PeerOf[k] # "local" => <<"CAUSE", k>> \in base[p].found
    BY <2>1, CauseUnmoved
  <2> QED
    BY <2>1, <2>2, <2>3, <2>4
<1> QED
  BY <1>1, <1>2, <1>3

(* Once every item is RESOLVED, nothing of the baseline is left.           *)
LEMMA AllResolved ==
  ASSUME VarsOK, NEW p \in Proc, NEW fixes \in FixResults, Outcomes(Answer(p, fixes)) \subseteq {"RESOLVED"}
  PROVE  /\ Recovered(p)
         /\ \A c \in Cause : <<"CAUSE", c>> \in base[p].found => Absent(p, c) /\ fixes[c] = "pass"
<1>1. \A f \in base[p].found : Answer(p, fixes)[f] = "RESOLVED"
  <2>1. DOMAIN Answer(p, fixes) = base[p].found
    BY ItemsType DEF Answer, VarsOK
  <2> QED
    BY <2>1 DEF Outcomes
<1>2. ASSUME NEW a \in Agreement, <<"FAILING", a>> \in base[p].found PROVE Green(p, a)
  <2>1. <<"FAILING", a>> \in Symptom /\ <<"FAILING", a>>[2] = a
    BY Kinds
  <2> QED
    BY <1>1, <1>2, <2>1, ResolvedFacts
<1>3. ASSUME NEW c \in Cause, <<"CAUSE", c>> \in base[p].found PROVE Absent(p, c) /\ fixes[c] = "pass"
  <2>1. <<"CAUSE", c>> \notin Symptom /\ <<"CAUSE", c>>[2] = c
    BY Kinds
  <2> QED
    BY <1>1, <1>3, <2>1, ResolvedFacts
<1> QED
  BY <1>2, <1>3 DEF Recovered

----------------------------------------------------------------------------
(* What is saved is a well-formed baseline.                                *)
LEMMA NoneType == NoBaseline \in Baseline /\ NoObservation \in Observation /\ NotPending \in [Symptom -> Time \cup {Never}]
BY DEF NoBaseline, Baseline, NoObservation, Observation, NotPending, Scope, Seen

LEMMA StateType ==
  ASSUME VarsOK, NEW o \in Observation
  PROVE  State(o) \in Baseline
<1>1. FoundBy(o) \subseteq Finding
  BY DEF FoundBy, Fails, Finding, Symptom, Root, Observation
<1> QED
  BY <1>1, NoneType DEF State, Baseline, VarsOK, Observation

LEMMA KeptType ==
  ASSUME VarsOK, NEW b \in Baseline, NEW o \in Observation
  PROVE  /\ Kept(b, o) \in Baseline
         /\ Kept(b, o).at = b.at /\ Kept(b, o).found = b.found /\ Kept(b, o).scope = b.scope
         /\ Kept(b, o).pending = PendingNow(b, o, now)
<1>1. \A f \in Symptom : Since(b, f, now) \in Time
  BY DEF Since, Baseline, VarsOK
<1>2. PendingNow(b, o, now) \in [Symptom -> Time \cup {Never}]
  BY <1>1 DEF PendingNow
<1> QED
  BY <1>2 DEF Kept, Baseline

LEMMA LookType ==
  ASSUME VarsOK, NEW p \in Proc, Look(p)
  PROVE  /\ obs' \in [Proc -> Observation] /\ phase[p] = "looking" /\ phase' = [phase EXCEPT ![p] = "concluding"]
         /\ UNCHANGED <<now, session, faults, saved, mode, base, first>>
<1>1. ASSUME NEW scope \in Scope, NEW server \in BOOLEAN, NEW readable \in BOOLEAN, NEW answered \in SUBSET Cause,
             NEW seen \in [Agreement -> Seen]
      PROVE  Observed(scope, server, readable, answered, seen) \in Observation
  <2>1. [a \in Agreement |-> IF seen[a] \in {"OK", "BUSY"} THEN session[a].end ELSE Never]
          \in [Agreement -> Time \cup {Never}]
    BY DEF VarsOK
  <2> QED
    BY <1>1, <2>1 DEF Observation, Observed
<1>2. \E o \in Observation : obs' = [obs EXCEPT ![p] = o]
  BY <1>1 DEF Look, Scope
<1> QED
  BY <1>2 DEF VarsOK, Look

(* The two ways a run ends: what may become of the file, and of the        *)
(* history, and what it takes.                                             *)
LEMMA PlainShape ==
  ASSUME VarsOK, NEW p \in Proc, ConcludePlain(p)
  PROVE  /\ phase[p] = "concluding" /\ ~Comparing(p)
         /\ \/ saved' = saved /\ first' = first
            \/ saved' = State(obs[p]) /\ first' = NotPending
         /\ Leave(p)
BY DEF ConcludePlain, Save, Comparing

LEMMA VerifyShape ==
  ASSUME VarsOK, NEW p \in Proc, ConcludeVerify(p)
  PROVE  /\ Comparing(p) /\ Leave(p)
         /\ \/ saved' = saved /\ first' = first
            \/ /\ saved' = Kept(base[p], obs[p])
               /\ \E fixes \in FixResults : "PENDING" \in Outcomes(Answer(p, fixes))
               /\ first' = [f \in Symptom |->
                              IF PendingNow(base[p], obs[p], now)[f] # Never /\ first[f] = Never
                              THEN now ELSE first[f]]
            \/ /\ saved' = State(obs[p]) /\ first' = NotPending
               /\ \E fixes \in FixResults : Outcomes(Answer(p, fixes)) \subseteq {"RESOLVED"}
<1>1. first = [f \in Symptom |-> first[f]]
  BY DEF VarsOK
<1> DEFINE b == base[p]
<1>2. PICK fixes \in FixResults :
        \/ /\ "PENDING" \in Outcomes(Items(b, obs[p], now, fixes))
           /\ Save(Kept(b, obs[p]))
           /\ first' = [f \in Symptom |->
                          IF /\ PendingNow(b, obs[p], now)[f] # Never /\ first[f] = Never
                             /\ saved' = Kept(b, obs[p])
                          THEN now ELSE first[f]]
        \/ /\ Settled(Outcomes(Items(b, obs[p], now, fixes)))
           /\ Save(State(obs[p]))
           /\ first' = IF saved' = saved THEN first ELSE NotPending
        \/ UNCHANGED <<saved, first>>
  BY DEF ConcludeVerify
<1>3. Comparing(p) /\ Leave(p)
  BY DEF ConcludeVerify
<1>4. CASE /\ "PENDING" \in Outcomes(Items(b, obs[p], now, fixes))
           /\ Save(Kept(b, obs[p]))
           /\ first' = [f \in Symptom |->
                          IF /\ PendingNow(b, obs[p], now)[f] # Never /\ first[f] = Never
                             /\ saved' = Kept(b, obs[p])
                          THEN now ELSE first[f]]
  <2>1. CASE saved' = Kept(b, obs[p])
    BY <1>3, <1>4, <2>1 DEF Answer
  <2>2. CASE saved' # Kept(b, obs[p])
    BY <1>1, <1>3, <1>4, <2>2 DEF Save
  <2> QED
    BY <2>1, <2>2
<1>5. CASE /\ Settled(Outcomes(Items(b, obs[p], now, fixes))) /\ Save(State(obs[p]))
           /\ first' = IF saved' = saved THEN first ELSE NotPending
  BY <1>3, <1>5 DEF Settled, Answer, Save
<1> QED
  BY <1>2, <1>3, <1>4, <1>5

LEMMA LeaveType ==
  ASSUME VarsOK, NEW p \in Proc, Leave(p), saved' \in Baseline, first' \in [Symptom -> Time \cup {Never}]
  PROVE  VarsOK'
BY NoneType DEF VarsOK, Leave

LEMMA TypeInit == Init => VarsOK
<1>1. 1 \in Time /\ Never \in Time \cup {Never}
  BY VerifyAssumption DEF Time
<1> QED
  BY <1>1, NoneType DEF Init, VarsOK

LEMMA TypeStep == VarsOK /\ [Next]_vars => VarsOK'
<1> SUFFICES ASSUME VarsOK, [Next]_vars PROVE VarsOK'
  OBVIOUS
<1>1. CASE Tick
  BY <1>1, VerifyAssumption DEF Tick, VarsOK, Time
<1>2. CASE SessionEnds
  BY <1>2 DEF SessionEnds, VarsOK
<1>3. CASE FaultChanges
  BY <1>3 DEF FaultChanges, VarsOK
<1>4. ASSUME NEW p \in Proc, Load(p) PROVE VarsOK'
  BY <1>4, NoneType DEF Load, VarsOK
<1>5. ASSUME NEW p \in Proc, Look(p) PROVE VarsOK'
  BY <1>5, LookType DEF VarsOK
<1>6. ASSUME NEW p \in Proc, ConcludePlain(p) PROVE VarsOK'
  <2>1. obs[p] \in Observation
    BY DEF VarsOK
  <2>2. saved' \in Baseline /\ first' \in [Symptom -> Time \cup {Never}] /\ Leave(p)
    BY <1>6, <2>1, PlainShape, StateType, NoneType DEF VarsOK
  <2> QED
    BY <2>2, LeaveType
<1>7. ASSUME NEW p \in Proc, ConcludeVerify(p) PROVE VarsOK'
  <2>1. obs[p] \in Observation /\ base[p] \in Baseline
    BY DEF VarsOK
  <2>2. saved' \in Baseline /\ Leave(p)
    <3>1. Kept(base[p], obs[p]) \in Baseline /\ State(obs[p]) \in Baseline /\ saved \in Baseline
      BY <2>1, StateType, KeptType DEF VarsOK
    <3> QED
      BY <1>7, <3>1, VerifyShape
  <2>3. [f \in Symptom |-> IF PendingNow(base[p], obs[p], now)[f] # Never /\ first[f] = Never
                           THEN now ELSE first[f]] \in [Symptom -> Time \cup {Never}]
    BY DEF VarsOK
  <2>4. first' \in [Symptom -> Time \cup {Never}]
    BY <1>7, <2>3, VerifyShape, NoneType DEF VarsOK
  <2> QED
    BY <2>2, <2>4, LeaveType
<1>8. CASE UNCHANGED vars
  BY <1>8 DEF vars, VarsOK
<1> QED
  BY <1>1, <1>2, <1>3, <1>4, <1>5, <1>6, <1>7, <1>8 DEF Next, Run

LEMMA VarsCorrect == Spec => []VarsOK
BY TypeInit, TypeStep, PTL DEF Spec

----------------------------------------------------------------------------
(* What a comparison answers, with any number of processes.                *)

(* The variables stay within their types, and a comparison gives every     *)
(* earlier finding one of the results verify.py names.                     *)
THEOREM TypeCorrect == Spec => []TypeOK
<1>1. VarsOK => TypeOK
  BY ItemsType DEF VarsOK, TypeOK
<1> QED
  BY <1>1, VarsCorrect, PTL

(* "RESOLVED" is never a guess (compare, agreement_state).                 *)
THEOREM ResolvedCorrect == Spec => []ResolvedMeansGone
<1>1. VarsOK => ResolvedMeansGone
  BY ResolvedFacts DEF ResolvedMeansGone
<1> QED
  BY <1>1, VarsCorrect, PTL

(* --verify exits 0 only when what was found is gone, nothing failing or   *)
(* unsettled is there now, and no check is missing (exit_code, cli.run).   *)
THEOREM ExitZeroCorrect == Spec => []ExitZeroMeansRecovered
<1>1. VarsOK => ExitZeroMeansRecovered
  <2> SUFFICES ASSUME VarsOK, NEW p \in Proc, Comparing(p), NEW fixes \in FixResults, NEW gap \in BOOLEAN,
                      ExitCode(base[p], obs[p], Answer(p, fixes), gap) = 0
               PROVE  /\ Recovered(p)
                      /\ \A c \in Cause : <<"CAUSE", c>> \in base[p].found => Absent(p, c) /\ fixes[c] = "pass"
                      /\ obs[p].present = {} /\ ~gap
                      /\ \A a \in InScope(obs[p].scope) : obs[p].seen[a] \notin {"FAILING", "TRANSIENT"}
    BY DEF ExitZeroMeansRecovered
  <2>1. obs[p] \in Observation /\ base[p] \in Baseline
    BY DEF VarsOK
  <2>2. FreshCode(obs[p], gap) = 0
    BY DEF ExitCode
  <2>3. Outcomes(Answer(p, fixes)) \subseteq {"RESOLVED"}
    <3>1. Outcomes(Answer(p, fixes)) \subseteq Result
      BY <2>1, ItemsType DEF Answer
    <3>2. /\ Outcomes(Answer(p, fixes)) \cap {"STILL_PRESENT", "PARTIALLY_RESOLVED"} = {}
          /\ "PENDING" \notin Outcomes(Answer(p, fixes))
          /\ Outcomes(Answer(p, fixes)) \cap {"UNABLE_TO_VERIFY", "CHANGED"} = {}
      BY DEF ExitCode
    <3> QED
      BY <3>1, <3>2 DEF Result
  <2>4. ~gap /\ FoundBy(obs[p]) = {}
    BY <2>2 DEF FreshCode
  <2>5. obs[p].present = {}
    BY <2>4 DEF FoundBy, Fails
  <2>6. \A a \in Agreement : obs[p].seen[a] \notin {"FAILING", "TRANSIENT"}
    BY <2>4 DEF FoundBy, Fails
  <2>7. InScope(obs[p].scope) \subseteq Agreement
    BY <2>1 DEF InScope, Observation, Scope
  <2> QED
    BY <2>3, <2>4, <2>5, <2>6, <2>7, AllResolved
<1> QED
  BY <1>1, VarsCorrect, PTL

----------------------------------------------------------------------------
(* One process at a time: what it compares with is what is saved, and the  *)
(* saved times of PENDING are those of the first answers.                  *)

OneProcess == \E p : Proc = {p}

Loaded == \A p \in Proc : mode[p] = "verify" /\ phase[p] # "idle" => base[p] = saved

Past == saved.at <= now /\ \A f \in Symptom : saved.pending[f] <= now

(* The only finding of a baseline, once answered PENDING, keeps its time.  *)
Timed == \A f \in Symptom : saved.found = {f} /\ first[f] # Never
           => saved.pending[f] # Never /\ saved.pending[f] <= first[f]

AloneInv == VarsOK /\ Loaded /\ Past /\ Timed

LEMMA AloneInit == Init => AloneInv
<1> SUFFICES ASSUME Init PROVE AloneInv
  OBVIOUS
<1>1. Loaded /\ Past /\ Timed
  BY DEF Init, Loaded, Past, Timed, NoBaseline, NotPending, Never
<1> QED
  BY <1>1, TypeInit DEF AloneInv

(* A run that replaces the baseline by its own findings.                   *)
LEMMA ReplacedStep ==
  ASSUME NEW p, Proc = {p}, AloneInv, Leave(p), saved' = State(obs[p]), first' = NotPending
  PROVE  Loaded' /\ Past' /\ Timed'
<1>1. phase'[p] = "idle" /\ now' = now /\ now \in Nat
  BY VerifyAssumption DEF AloneInv, Leave, VarsOK, Time
<1>2. Loaded'
  BY <1>1 DEF Loaded
<1>3. Past'
  BY <1>1 DEF Past, State, NotPending, Never
<1>4. Timed'
  BY DEF Timed, NotPending
<1> QED
  BY <1>2, <1>3, <1>4

(* A comparison that keeps the baseline because something is PENDING.      *)
LEMMA KeptStep ==
  ASSUME NEW p, Proc = {p}, AloneInv, Comparing(p), Leave(p), NEW fixes \in FixResults,
         "PENDING" \in Outcomes(Answer(p, fixes)), saved' = Kept(base[p], obs[p]),
         first' = [f \in Symptom |-> IF PendingNow(base[p], obs[p], now)[f] # Never /\ first[f] = Never
                                     THEN now ELSE first[f]]
  PROVE  Loaded' /\ Past' /\ Timed'
<1>1. /\ phase'[p] = "idle" /\ now' = now /\ now \in Nat /\ now # Never
      /\ base[p] \in Baseline /\ obs[p] \in Observation /\ VarsOK
  BY VerifyAssumption DEF AloneInv, Leave, VarsOK, Time, Never
<1>2. Loaded'
  BY <1>1 DEF Loaded
<1>3. base[p] = saved
  BY DEF AloneInv, Loaded, Comparing
<1>4. /\ saved'.at = saved.at /\ saved'.found = saved.found
      /\ saved'.pending = PendingNow(base[p], obs[p], now)
  BY <1>1, <1>3, KeptType
<1>5. \A f \in Symptom : /\ PendingNow(base[p], obs[p], now)[f] \in {Never, Since(saved, f, now)}
                         /\ Since(saved, f, now) \in {saved.pending[f], now} \ {Never}
  BY <1>1, <1>3 DEF PendingNow, Since
<1>6. Past'
  BY <1>1, <1>4, <1>5 DEF AloneInv, Past, Never
<1>7. Timed'
  <2> SUFFICES ASSUME NEW f \in Symptom, saved.found = {f}, first'[f] # Never
               PROVE  saved'.pending[f] # Never /\ saved'.pending[f] <= first'[f]
    BY <1>4 DEF Timed
  <2>1. SymptomResult(base[p], obs[p], now, f) = "PENDING"
    BY <1>1, <1>3, ItemsType DEF Outcomes, Answer
  <2>2. saved'.pending[f] = Since(saved, f, now)
    BY <1>3, <1>4, <2>1 DEF PendingNow
  <2>3. first[f] \in Nat /\ saved.pending[f] \in Nat
    BY VerifyAssumption DEF AloneInv, VarsOK, Baseline, Time, Never
  <2>4. CASE first[f] = Never
    BY <1>1, <1>4, <1>5, <2>2, <2>3, <2>4 DEF AloneInv, Past
  <2>5. CASE first[f] # Never
    <3>1. saved.pending[f] # Never /\ saved.pending[f] <= first[f]
      BY <2>5 DEF AloneInv, Timed
    <3>2. first'[f] = first[f]
      BY <2>5
    <3> QED
      BY <2>2, <3>1, <3>2 DEF Since
  <2> QED
    BY <2>4, <2>5
<1> QED
  BY <1>2, <1>6, <1>7

LEMMA AloneStep == ASSUME OneProcess PROVE AloneInv /\ [Next]_vars => AloneInv'
<1> SUFFICES ASSUME AloneInv, [Next]_vars PROVE AloneInv'
  OBVIOUS
<1>0. PICK p : Proc = {p}
  BY DEF OneProcess
<1>1. VarsOK'
  BY TypeStep DEF AloneInv
<1>2. CASE Tick
  <2>1. now \in Nat /\ saved.at \in Nat /\ \A f \in Symptom : saved.pending[f] \in Nat
    BY VerifyAssumption DEF AloneInv, VarsOK, Baseline, Time, Never
  <2> QED
    BY <1>1, <1>2, <2>1 DEF Tick, AloneInv, Loaded, Past, Timed
<1>3. CASE SessionEnds \/ FaultChanges \/ UNCHANGED vars
  BY <1>1, <1>3 DEF SessionEnds, FaultChanges, vars, AloneInv, Loaded, Past, Timed
<1>4. ASSUME UNCHANGED <<now, saved, first>>, Loaded' PROVE AloneInv'
  BY <1>1, <1>4 DEF AloneInv, Past, Timed
<1>5. CASE Load(p)
  <2>1. Loaded' /\ UNCHANGED <<now, saved, first>>
    BY <1>0, <1>5 DEF Load, AloneInv, VarsOK, Loaded
  <2> QED
    BY <1>4, <2>1
<1>6. CASE Look(p)
  <2>1. Loaded' /\ UNCHANGED <<now, saved, first>>
    BY <1>0, <1>6, LookType DEF AloneInv, VarsOK, Loaded
  <2> QED
    BY <1>4, <2>1
<1>7. ASSUME Leave(p), saved' = saved, first' = first PROVE AloneInv'
  <2>1. Loaded' /\ UNCHANGED <<now, saved, first>>
    BY <1>0, <1>7 DEF Leave, AloneInv, VarsOK, Loaded
  <2> QED
    BY <1>4, <2>1
<1>8. CASE ConcludePlain(p)
  BY <1>0, <1>1, <1>7, <1>8, PlainShape, ReplacedStep DEF AloneInv
<1>9. CASE ConcludeVerify(p)
  BY <1>0, <1>1, <1>7, <1>9, VerifyShape, ReplacedStep, KeptStep DEF AloneInv
<1> QED
  BY <1>0, <1>2, <1>3, <1>5, <1>6, <1>8, <1>9 DEF Next, Run

LEMMA AloneCorrect == ASSUME OneProcess PROVE Spec => []AloneInv
BY AloneInit, AloneStep, PTL DEF Spec

(* What one process at a time does to the baseline: nothing, date it as    *)
(* PENDING with every finding kept, or replace it - after a comparison     *)
(* only when nothing it found is left.                                     *)
LEMMA BaselineMoves ==
  ASSUME NEW p, Proc = {p}, AloneInv, [Next]_vars
  PROVE  \/ saved' = saved
         \/ saved'.at = saved.at /\ saved'.found = saved.found
         \/ /\ phase[p] = "concluding" /\ phase'[p] = "idle" /\ saved'.at = now
            /\ Comparing(p) => /\ Recovered(p)
                               /\ \A c \in Cause : <<"CAUSE", c>> \in saved.found => Absent(p, c)
<1>1. CASE ConcludePlain(p)
  <2>1. phase[p] = "concluding" /\ phase'[p] = "idle" /\ ~Comparing(p)
    BY <1>1, PlainShape DEF AloneInv, Leave, VarsOK
  <2>2. saved' = saved \/ saved'.at = now
    BY <1>1, PlainShape DEF AloneInv, State
  <2> QED
    BY <2>1, <2>2
<1>2. CASE ConcludeVerify(p)
  <2>1. /\ phase[p] = "concluding" /\ phase'[p] = "idle" /\ Comparing(p) /\ base[p] = saved
        /\ base[p] \in Baseline /\ obs[p] \in Observation
    BY <1>2, VerifyShape DEF AloneInv, Leave, VarsOK, Comparing, Loaded
  <2>2. CASE saved' = Kept(base[p], obs[p])
    BY <2>1, <2>2, KeptType DEF AloneInv
  <2>3. ASSUME saved' = State(obs[p]), NEW fixes \in FixResults, Outcomes(Answer(p, fixes)) \subseteq {"RESOLVED"}
        PROVE  /\ saved'.at = now /\ Recovered(p)
               /\ \A c \in Cause : <<"CAUSE", c>> \in saved.found => Absent(p, c)
    BY <2>1, <2>3, AllResolved DEF State, AloneInv
  <2> QED
    BY <1>2, <2>1, <2>2, <2>3, VerifyShape DEF AloneInv
<1>3. CASE Load(p)
  BY <1>3 DEF Load
<1>4. CASE Look(p)
  BY <1>4 DEF Look
<1>5. CASE Tick \/ SessionEnds \/ FaultChanges \/ UNCHANGED vars
  BY <1>5 DEF Tick, SessionEnds, FaultChanges, vars
<1> QED
  BY <1>1, <1>2, <1>3, <1>4, <1>5 DEF Next, Run

(* A finding leaves the baseline only through a run that was no            *)
(* comparison, or one that saw every finding gone (cli.run's saves).       *)
THEOREM FindingsKeptCorrect == ASSUME OneProcess PROVE Spec => FindingsKept
<1>1. AloneInv /\ [Next]_vars =>
        [\A f \in saved.found \ saved'.found :
           \E p \in Proc : /\ phase[p] = "concluding" /\ phase'[p] = "idle"
                          /\ Comparing(p) => /\ Recovered(p)
                                             /\ \A c \in Cause : <<"CAUSE", c>> \in saved.found => Absent(p, c)]_vars
  BY BaselineMoves DEF OneProcess
<1> QED
  BY <1>1, AloneCorrect, PTL DEF Spec, FindingsKept

(* The time a fresh session is measured from moves forward only, and by a  *)
(* comparison only when nothing it found is left (cli.run).                *)
THEOREM ReferenceStandsCorrect == ASSUME OneProcess PROVE Spec => ReferenceStands
<1>1. ASSUME AloneInv, [Next]_vars, saved'.at # saved.at
      PROVE  /\ saved'.at > saved.at
             /\ \A p \in Proc : Comparing(p) /\ phase'[p] = "idle" => Recovered(p)
  <2>1. saved.at \in Nat /\ now \in Nat /\ saved.at <= now
    BY <1>1, VerifyAssumption DEF AloneInv, VarsOK, Baseline, Time, Never, Past
  <2>2. saved'.at = now /\ (\A p \in Proc : Comparing(p) => Recovered(p))
    BY <1>1, BaselineMoves DEF OneProcess
  <2> QED
    BY <1>1, <2>1, <2>2
<1>2. AloneInv /\ [Next]_vars =>
        [saved'.at # saved.at =>
           /\ saved'.at > saved.at
           /\ \A p \in Proc : Comparing(p) /\ phase'[p] = "idle" => Recovered(p)]_vars
  BY <1>1
<1> QED
  BY <1>2, AloneCorrect, PTL DEF Spec, ReferenceStands

(* PENDING is bounded by CONVERGENCE_WINDOW from its first answer when the *)
(* agreement is all the baseline found wrong (compare's pending, cli.run). *)
THEOREM WindowCorrect == ASSUME OneProcess PROVE Spec => []WindowBoundedAlone
<1>1. AloneInv => WindowBoundedAlone
  <2> SUFFICES ASSUME AloneInv, NEW p \in Proc, NEW f \in Symptom, Comparing(p), base[p].found = {f},
                      SymptomResult(base[p], obs[p], now, f) = "PENDING", first[f] # Never
               PROVE  now < first[f] + Window
    BY DEF WindowBoundedAlone, InTime
  <2>1. /\ now \in Nat /\ first[f] \in Nat /\ saved.pending[f] \in Nat /\ Window \in Nat
        /\ base[p] = saved
    BY VerifyAssumption DEF AloneInv, VarsOK, Baseline, Time, Never, Loaded, Comparing
  <2>2. saved.pending[f] # Never /\ saved.pending[f] <= first[f]
    BY <2>1 DEF AloneInv, Timed
  <2>3. ~(now >= Since(saved, f, now) + Window)
    BY <2>1 DEF SymptomResult, Pending
  <2> QED
    BY <2>1, <2>2, <2>3 DEF Since
<1> QED
  BY <1>1, AloneCorrect, PTL
=============================================================================
