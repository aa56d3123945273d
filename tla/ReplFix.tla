------------------------------- MODULE ReplFix -------------------------------
(***************************************************************************)
(* "ipa-diagnose replication" from its evidence to the fix it may print:   *)
(* run.py (_status, _resolve), safety.py (resolution_gate, check_offered)  *)
(* and resolution/engine.py (resolve_diagnosis) for the one procedure that *)
(* safety.py allows, proc.service.start-stopped-service.  Units and clocks *)
(* move on while the command works.                                        *)
(***************************************************************************)
EXTENDS ReplDiagnose, ReplContext

CONSTANTS
  Deep,               \* bound: the kinds of answers that are varied together with MaxFindings others
  MAX_EVIDENCE_AGE,   \* of safety.py, in units of its tolerance of five seconds
  MaxSteps            \* bound: how often a unit or a clock changes during one command

ASSUME FixAssumption == MAX_EVIDENCE_AGE \in Nat /\ MaxSteps \in Nat
Tolerance == 1

VARIABLES
  pc,          \* "idle", "diagnosed", "gated", "asked", "done"
  diagnoses, chains,   \* what diagnose() returned
  status,      \* _status
  unit,        \* the candidate's unit as it is
  cache,       \* what the runner's cache says of it
  age,         \* the wall clock, since the evidence was collected
  steps,       \* changes so far
  fix,         \* "none", "withheld", "offered"
  during       \* the states the unit was in since the gate began (only the properties read it)

command == <<seen, topo, diagnoses, chains, status>>
vars    == <<command, pc, unit, cache, age, steps, fix, during>>

(* What is not as on a healthy server with one segment.                    *)
Findings   == {p \in Part : seen[p] # Healthy[p]}
OneSegment == {{Servers[1], Servers[2]}}
Topologies == SUBSET {e \in SUBSET RangeOf(Servers) : Cardinality(e) = 2}

(* _status. *)
StatusWord(D) ==
  IF OServer # "PASS" THEN "NOT_AN_IPA_SERVER"
  ELSE IF \E d \in D : d.severity = "FAIL" \/ d.kind \in {"UNDIAGNOSED", "CONTRADICTING"} THEN "PROBLEM_FOUND"
  ELSE IF ~Complete \/ \E d \in D : d.kind = "TRANSIENT" THEN "NOT_FULLY_VERIFIED"
  ELSE IF D # {} THEN "HEALTHY_WITH_WARNINGS"
  ELSE "HEALTHY"

(* The diagnoses with a resolution key that leads to the procedure: a unit *)
(* is started only if nothing below it is known to be bad.                 *)
UnitOf(d) == IF d.code = "LOCAL_DS_NOT_RUNNING" THEN "ds" ELSE "kdc"
Candidates(D) ==
  {d \in D : \/ d.code = "LOCAL_DS_NOT_RUNNING" /\ Passish(OStorage)
             \/ d.code = "LOCAL_KDC_NOT_RUNNING" /\ ~DsDown}
Candidate(D) == CHOOSE d \in Candidates(D) : TRUE

Init ==
  /\ seen = Healthy /\ topo = OneSegment /\ diagnoses = {} /\ chains = {} /\ status = "none"
  /\ pc = "idle" /\ unit = "active" /\ cache = "unasked" /\ age = 0 /\ steps = 0 /\ fix = "none" /\ during = {}

(* Before the command: an answer other than a healthy server's, or another *)
(* topology.  The bound counts answers; beyond it only the kinds of Deep   *)
(* are varied, and the topology only with one other finding.               *)
Deviate ==
  /\ pc = "idle"
  /\ \E p \in Part \ Findings :
       /\ Cardinality(Findings) < MaxFindings + (IF p.kind \in Deep THEN 1 ELSE 0)
       /\ topo # OneSegment => Findings = {}
       /\ \E i \in 2..Len(Answers(p)) : seen' = [seen EXCEPT ![p] = Answers(p)[i]]
  /\ UNCHANGED <<topo, diagnoses, chains, status, pc, unit, cache, age, steps, fix, during>>
Rewire ==
  /\ pc = "idle" /\ Findings = {} /\ topo' \in Topologies
  /\ UNCHANGED <<seen, diagnoses, chains, status, pc, unit, cache, age, steps, fix, during>>

(* run_plan and diagnose. *)
Diagnose ==
  /\ pc = "idle"
  /\ diagnoses' = Diagnoses /\ chains' = Chains /\ status' = StatusWord(diagnoses')
  /\ unit' = (IF Candidates(diagnoses') = {} THEN "unasked" ELSE Local(UnitOf(Candidate(diagnoses')))) /\ cache' = unit'
  /\ pc' = "diagnosed" /\ UNCHANGED <<seen, topo, age, steps, fix, during>>

(* resolution_gate, before it asks again. *)
DeepestLink(d) ==
  LET own == {c \in chains : Key(d) \in c.owners}
  IN  /\ own # {}
      /\ \A c \in own : LastLink(c.links).subject = d.subject /\ LastLink(c.links).capability = d.capability
                          /\ LastLink(c.links).evidence # {}
RecentEnough == age <= MAX_EVIDENCE_AGE /\ age >= -Tolerance
MayBeFixed(d) ==
  /\ d.subject = Me /\ d.scope = "local"
  /\ d.kind = "none" /\ Role(d, diagnoses) \in {"PRIMARY", "INDEPENDENT"} /\ d.confidence = "HIGH"
  /\ DeepestLink(d)
  /\ \A x \in diagnoses : Role(x, diagnoses) # "CONTRADICTING"
  /\ RecentEnough

Gate ==
  /\ pc = "diagnosed" /\ Candidates(diagnoses) # {}
  /\ during' = {unit}
  /\ IF MayBeFixed(Candidate(diagnoses)) THEN pc' = "gated" /\ fix' = fix ELSE pc' = "done" /\ fix' = "withheld"
  /\ UNCHANGED <<command, unit, cache, age, steps>>

(* Deliberately wrong: the answer the diagnosis rests on is used again. *)
ReaskCached ==
  /\ pc = "gated"
  /\ IF UnitFields(cache).active # "active" THEN pc' = "asked" /\ fix' = fix ELSE pc' = "done" /\ fix' = "withheld"
  /\ UNCHANGED <<command, unit, cache, age, steps, during>>

(* The unit is asked again, past the cache; what it says now is kept there *)
Reask ==
  /\ pc = "gated"
  /\ cache' = unit
  /\ IF UnitCheck("kdc", unit).status = "OK" /\ UnitFields(unit).active # "active"
     THEN pc' = "asked" /\ fix' = fix ELSE pc' = "done" /\ fix' = "withheld"
  /\ UNCHANGED <<command, unit, age, steps, during>>

(* resolve_diagnosis and check_offered: what the procedure withholds for   *)
(* is decided by the same answer, and starting a unit needs root.          *)
Resolve ==
  /\ pc = "asked" /\ pc' = "done"
  /\ LET now == UnitFields(cache) IN
     fix' = IF now.load = "loaded" /\ now.active \notin {"active", "activating"} /\ Local("user") = "root"
            THEN "offered" ELSE "withheld"
  /\ UNCHANGED <<command, unit, cache, age, steps, during>>

(* Meanwhile. *)
Running == pc \in {"diagnosed", "gated", "asked"} /\ Candidates(diagnoses) # {} /\ steps < MaxSteps /\ steps' = steps + 1
UnitChanges ==
  /\ Running /\ unit' \in RangeOf(UnitAnswers) \ {unit} /\ during' = during \cup {unit'}
  /\ UNCHANGED <<command, pc, cache, age, fix>>
TimePasses ==
  /\ Running /\ age <= MAX_EVIDENCE_AGE /\ age' = age + 1 /\ UNCHANGED <<command, pc, unit, cache, fix, during>>
ClockStepped ==     \* by its time service or an administrator
  /\ Running /\ age' \in {-Tolerance - 1, -Tolerance, MAX_EVIDENCE_AGE, MAX_EVIDENCE_AGE + 1} \ {age}
  /\ UNCHANGED <<command, pc, unit, cache, fix, during>>

Next == Deviate \/ Rewire \/ Diagnose \/ Gate \/ Reask \/ Resolve \/ UnitChanges \/ TimePasses \/ ClockStepped
Spec == Init /\ [][Next]_vars

----------------------------------------------------------------------------
(* Properties.  What was concluded is looked at once, before anything else *)
(* happens.                                                                *)
Concluded == pc = "diagnosed" /\ steps = 0

(* The shape of the variables that Next changes.                           *)
TypeOK ==
  /\ pc \in {"idle", "diagnosed", "gated", "asked", "done"} /\ fix \in {"none", "withheld", "offered"}
  /\ seen \in [Part -> UNION {RangeOf(Answers(p)) : p \in Part}]
  /\ unit \in RangeOf(UnitAnswers) /\ cache \in RangeOf(UnitAnswers) /\ during \subseteq RangeOf(UnitAnswers)
  /\ age \in -Tolerance - 1 .. MAX_EVIDENCE_AGE + 1 /\ steps \in 0..MaxSteps
  /\ \A c \in chains : c.owners \subseteq {Key(d) : d \in diagnoses} /\ c.links # <<>>

(* check_chain raises at a chain that is not sound; investigate (run.py)   *)
(* catches that, and everything found is lost to one EVIDENCE_UNUSABLE.    *)
(* diagnose.py never builds one, whatever the checks answered: no mix of   *)
(* findings joins a link to one it may not follow.                         *)
ChainsSound == Concluded => \A c \in chains : SoundChain(c.links)

(* _roles: a diagnosis that is explained away names causes that are in the *)
(* same report, some diagnosis leads whenever anything was diagnosed, and  *)
(* a symptom leads only when no cause of any agreement was found.          *)
CausesReported ==
  Concluded =>
    /\ \A d \in diagnoses : d.related \subseteq {Key(x) : x \in diagnoses} \ {Key(d)}
    /\ (\E d \in diagnoses : d.severity = "FAIL" /\ d.kind = "none") => Primary(diagnoses) # {}
    /\ \A d \in Primary(diagnoses) :
         d.code \in SymptomCodes => \A x \in diagnoses : Leads(x) => x.code \in SymptomCodes

(* An agreement read here whose last session did not succeed is in the     *)
(* report, even when its own investigation was cut short by the budget,    *)
(* contradicted by what is seen now, or explained by something else.  (One *)
(* that only waits for its next session may be cut off silently.)          *)
FailuresReported ==
  Concluded /\ OServer = "PASS" =>
    \A a \in Listed : (IF a \in Dropped THEN Broken(a) ELSE Failing(a)) => \E d \in diagnoses : d.subject = Rel(a)

(* _gssapi_chain and _agreement: an entry is called missing only when it   *)
(* is, never because a read was cut off or not permitted.  The same for    *)
(* segments and for servers of the RUV.                                    *)
AbsenceIsReal ==
  Concluded =>
    \A d \in diagnoses :
      /\ d.code = "PEER_LDAP_PRINCIPAL_MISSING" => Local("ldap") = "missing"
      /\ d.code = "NOT_A_REPLICATION_MANAGER" => Local("managers") = "stranger"
      /\ d.code \in {"SEGMENT_WITHOUT_AGREEMENT", "AGREEMENT_WITHOUT_SEGMENT"} => Local("segments") # "match"
      /\ d.code = "RUV_ELEMENT_WITHOUT_SERVER" => Local("ruv") = "stale"

(* run.py, _status: HEALTHY is said only of a server whose every agreement *)
(* was found to succeed in both directions, with peers that answer and     *)
(* clocks that agree.  (A unit that is starting is WARN and no gap; a      *)
(* clock that could not be read is no gap either.)                         *)
HealthyMeansHealthy ==
  Concluded /\ status = "HEALTHY" =>
    /\ Local("server") = "server" /\ Local("user") = "root" /\ Local("storage") = "ok" /\ Local("keytab") = "ok"
    /\ Local("ds") \in {"active", "activating"} /\ Local("kdc") \in {"active", "activating"}
    /\ \A a \in Agreement :
         /\ At("enabled", a) = "on" /\ StatusClass(Statuses[At("status", a)]) = "OK" /\ At("session", a) = "over"
         /\ At("reverse", a) = "succeeded"
         /\ At("peer", a) \in {"answers", "back"} => At("clock", a) \in {"near", "unread"}
         /\ At("peer", a) \in {"answers", "back", "reads_refused"}

(* graph.absent: "yes" is said only of what is not there, and "no" only of *)
(* what is, however little of it was read and whatever the bound on the    *)
(* entities made the graph drop.                                           *)
GraphHonest ==
  Concluded =>
    \E graph \in {Enumerations} :
      /\ \A s \in RangeOf(Servers) : Absent(graph.servers, Entity("SERVER", s)) # "yes"
      /\ \A a \in Agreement : Absent(graph.outbound_agreements, Entity("AGREEMENT", a)) # "yes"
      /\ \A s \in RangeOf(Servers) :
           LET registered == Local("ldap") = "present" \/ \A a \in Agreement : Consumer(a) # s
           IN  Absent(graph.ldap_principals, Entity("PRINCIPAL", s)) # IF registered THEN "yes" ELSE "no"

(* articulation_points: exactly the servers without which some two others  *)
(* that replicate with each other no longer do.                            *)
Reach(from, nodes, edges) ==
  LET step[i \in 0..Cardinality(nodes)] ==
        IF i = 0 THEN {from} ELSE step[i - 1] \cup {n \in nodes : \E m \in step[i - 1] : {m, n} \in edges}
  IN  step[Cardinality(nodes)]
CutServers ==
  Concluded /\ Passish(OTopology) =>
    ArticulationPoints(Members, Segments) =
      {n \in Members : \E x, y \in Members \ {n} : y \in Reach(x, Members, Segments) \ Reach(x, Members \ {n}, Segments)}

(* safety.py: a fix is printed only for a unit that was asked again and    *)
(* was down, although it may have come up since the diagnosis.             *)
Startable(answer) == answer # "unasked" /\ UnitFields(answer).load = "loaded" /\ UnitFields(answer).active = "inactive"
FixOfDownUnit == fix = "offered" => \E answer \in during : Startable(answer)

(* causal.py:115-116, of the link status_invalid_credentials_gssapi:       *)
(* "status LDAP 49 on a SASL/GSSAPI agreement"; here any Kerberos failure. *)
(* (diagnose.py:675 takes the link after TRANSPORT and the Kerberos        *)
(* classes were dealt with, and asks no more what the status is.)          *)
Skew49 ==
  \A c \in chains : \A i \in DOMAIN c.links :
    c.links[i].discriminator = "status_invalid_credentials_gssapi" =>
      \E a \in Agreement : Key(Symptom(a, Search(a))) \in c.owners /\ Status(a) \in GSSAPI \cup {"INVALID_CREDENTIALS"}
=============================================================================
