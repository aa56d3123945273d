------------------------------ MODULE Correlate ------------------------------
(***************************************************************************)
(* The correlation engine of server mode, over the evidence and the rules: *)
(* the findings no rule explains get a diagnosis of their own, some        *)
(* diagnoses are symptoms of others, one leads the report, and the overall *)
(* status follows (engine/unexplained.py, engine/correlate.py).            *)
(*                                                                         *)
(* Of the candidates for the head of the report with the same hard         *)
(* evidence any may score highest.                                         *)
(***************************************************************************)
EXTENDS Packs

CONSTANT MaxGrouped      \* findings a safety net quotes

ASSUME CorrelateAssumption == MaxGrouped \in Nat \ {0}

(* The two safety nets: checks that crashed, findings no rule explains.    *)
(* The rule "service not running" is named after its service.              *)
CrashNet == "healthcheck-check-failed"
OtherNet == "unexplained-findings"
Nets     == {CrashNet, OtherNet}

RulesOf ==
  [ds |-> {"disk", "ownership", "nss", "index", "ds_cert"}, dns |-> {"named", "forward", "srv"},
   kerberos |-> {"skew", "kvno", "kdc"}, replication |-> {"peer", "conflicts", "ruv", "topology"},
   certs |-> {"stuck", "cert_expired", "ra", "renewal"}]

DownRule(service) == IF service = "named" THEN "named_down" ELSE service
DownRules         == {DownRule(v) : v \in Services}

PackOf(d) ==
  IF d.rule \in Nets \cup DownRules THEN "healthcheck" ELSE CHOOSE p \in Packs : d.rule \in RulesOf[p]

(* A stopped service stands for the pack that depends on it. *)
ServicePack ==
  [dirsrv |-> "ds", krb5kdc |-> "kerberos", named_down |-> "dns", pki_tomcatd |-> "certs", certmonger |-> "certs"]
EffectiveOf(d) == IF d.rule \in DownRules THEN ServicePack[d.rule] ELSE PackOf(d)

(* _IMPLICIT_RULE_UPSTREAMS *)
Implicit ==
  {<<"kdc", "dirsrv">>, <<"srv", "named">>, <<"srv", "named_down">>, <<"stuck", "pki_tomcatd">>,
   <<"ra", "pki_tomcatd">>, <<"dirsrv", "disk">>}
    \cup {<<down, "dirsrv">> : down \in {"krb5kdc", "pki_tomcatd", "named_down"}}

ServiceUpstreams == {"ds", "kerberos", "dns", "certs"}

Priority == {"PRIMARY", "SECONDARY", "RELATED_SYMPTOM", "WARNING"}
Status   == {"HEALTHY", "DEGRADED", "CRITICAL", "UNKNOWN", "NOT_FULLY_VERIFIED"}

VARIABLES
  diagnoses,   \* of the rules and the safety nets
  started,     \* certmonger was started by ipa-healthcheck itself
  priority, status

vars == <<stage, findings, items, level, diagnoses, started, priority, status>>

----------------------------------------------------------------------------
(* unexplained.py: no finding of rank ERROR vanishes. *)

Unclaimed(ds) == AtLeast(ERROR, findings) \ UNION {d.cites \cup d.against : d \in ds}

Caught(net, ds) ==
  {f \in Unclaimed(ds) : f.says # "not running" /\ (f.says = "crash") = (net = CrashNet)}

(* A net quotes the first MaxGrouped of what it caught. *)
Quotes(net, ds) ==
  {q \in SUBSET Caught(net, ds) :
     \/ Cardinality(q) = MaxGrouped
     \/ q = Caught(net, ds) /\ Cardinality(q) < MaxGrouped}

NetDiagnosis(net, ds, quoted) ==
  When(quoted # {}, [Diagnosis(net, FALSE, WorstRank(Caught(net, ds)), quoted) EXCEPT !.upstream = ServiceUpstreams])

(* A core service that is stopped is CRITICAL, another an ERROR. *)
ServiceDiagnosis(f) ==
  Diagnosis(DownRule(f.check), TRUE, IF f.check = "certmonger" THEN ERROR ELSE CRITICAL, {f})

StoppedUnclaimed(ds) == {f \in Unclaimed(ds) : f.check \in Services /\ f.says = "not running"}

(* The first of the findings on each stopped service. *)
Firsts(ds) ==
  {q \in SUBSET StoppedUnclaimed(ds) :
     \A f \in StoppedUnclaimed(ds) : \E first \in q : \A g \in q : g.check = f.check <=> g = first}

(* run_diagnosis: the rules of all packs, then the safety nets. *)
Diagnose ==
  /\ stage = "collectors"
  /\ \E ds \in PackAnswers : \E c \in Quotes(CrashNet, ds), o \in Quotes(OtherNet, ds), stopped \in Firsts(ds) :
       diagnoses' = ds \cup {ServiceDiagnosis(f) : f \in stopped}
                       \cup NetDiagnosis(CrashNet, ds, c) \cup NetDiagnosis(OtherNet, ds, o)
  /\ started' \in BOOLEAN
  /\ stage' = "rules"
  /\ UNCHANGED <<findings, items, level, priority, status>>

----------------------------------------------------------------------------
(* _demote_via_causality *)

RealProblem(d) == d.severity >= ERROR

ImplicitCause(d, u) == u.explains /\ <<d.rule, u.rule>> \in Implicit

DeclaredCause(d, u) ==
  /\ u.explains /\ u.evidence >= ERROR
  /\ EffectiveOf(u) \in d.upstream /\ EffectiveOf(u) # PackOf(d)

Candidate(d, u) ==
  /\ RealProblem(u) /\ EffectiveOf(u) \notin d.not_caused_by
  /\ DeclaredCause(d, u) \/ ImplicitCause(d, u)

(* _explains_source: what a stopped service u explains of a finding f that  *)
(* a safety net quotes; a full file system is never its symptom.           *)
Explains(u, f) ==
  /\ f.check # "FileSystemSpaceCheck"
  /\ \/ f.check \in Services
     \/ f.says = "crash" /\ (u.rule = "dirsrv" \/ f.check \in PackChecks[EffectiveOf(u)])
     \/ f.says # "crash" /\ u.rule = "certmonger" /\ f.check = "IPACertmongerCA"

(* Deliberately wrong: a suspicion excuses what it may explain. *)
AbsorbsUnsure(d, u) == TRUE

(* A safety net gives way only to a stopped service that explains all it    *)
(* quotes; an unconfirmed problem hides no confirmed one and no graver one. *)
Absorbs(d, u) ==
  IF d.rule \in Nets
  THEN /\ u.sure /\ u.rule \in DownRules \cup {"named"}
       /\ \A f \in d.cites : Explains(u, f)
       /\ d.rule = CrashNet \/ u.evidence >= d.evidence
  ELSE u.sure \/ (~d.sure /\ u.evidence >= d.evidence)

Causes(d, ds) == {u \in ds : Candidate(d, u) /\ Absorbs(d, u)}

Symptoms(ds) == {d \in ds : Causes(d, ds) # {}}

----------------------------------------------------------------------------
(* build_report *)

RootCandidates(ds) == {d \in ds \ Symptoms(ds) : ~(d.severity = WARNING /\ d.sure)}

(* What can head the list: hard evidence first; then by score, which puts   *)
(* every confirmed problem before every unconfirmed one (STATUS_WEIGHT and  *)
(* CONFIDENCE_WEIGHT: only the unconfirmed are of LOW confidence or less).  *)
Hard(d)       == d.evidence >= ERROR
HardFirst(ds) == IF \E d \in ds : Hard(d) THEN {d \in ds : Hard(d)} ELSE ds
SureFirst(ds) == IF \E d \in ds : d.sure THEN {d \in ds : d.sure} ELSE ds

(* Deliberately wrong: the score alone decides. *)
ByScore(ds) == SureFirst(RootCandidates(ds))

Leaders(ds) == SureFirst(HardFirst(RootCandidates(ds)))

PriorityOf(d, leader, ds) ==
  CASE d \in Symptoms(ds)                -> "RELATED_SYMPTOM"
    [] d \in leader                      -> "PRIMARY"
    [] d \in RootCandidates(ds) \ leader -> "SECONDARY"
    [] OTHER                             -> "WARNING"

(* Deliberately wrong: a finding cited against a diagnosis counts as explained. *)
UndiagnosedByAny(ds) == AtLeast(WARNING, findings) \ UNION {d.cites \cup d.against : d \in ds}

Undiagnosed(ds) == AtLeast(WARNING, findings) \ UNION {d.cites : d \in ds}

OverallStatus(leader, ds) ==
  CASE ds = {}                     -> "HEALTHY"
    [] /\ \E d \in leader : ~d.sure
       /\ \E d \in ds : RealProblem(d) -> "UNKNOWN"
    [] OTHER -> IF \E d \in ds : d.severity = CRITICAL THEN "CRITICAL" ELSE "DEGRADED"

(* Deliberately wrong: what no rule explains does not matter. *)
ByLevel(s, ds) ==
  IF s \notin {"HEALTHY", "UNKNOWN"}           THEN s
  ELSE IF level = "insufficient"               THEN "UNKNOWN"
  ELSE IF s = "UNKNOWN" \/ level = "partial"   THEN "NOT_FULLY_VERIFIED"
  ELSE "HEALTHY"

ApplyCompleteness(s, ds) ==
  IF s \notin {"HEALTHY", "UNKNOWN"}                                 THEN s
  ELSE IF level = "insufficient"                                     THEN "UNKNOWN"
  ELSE IF s = "UNKNOWN" \/ level = "partial" \/ Undiagnosed(ds) # {} THEN "NOT_FULLY_VERIFIED"
  ELSE "HEALTHY"

(* A certmonger that ipa-healthcheck has started is no longer down. *)
AfterStart(d) == IF started /\ d.rule = "certmonger" THEN [d EXCEPT !.severity = WARNING, !.evidence = WARNING] ELSE d

BuildReport ==
  /\ stage = "rules"
  /\ diagnoses' = {AfterStart(d) : d \in diagnoses}
  /\ \E leader \in IF RootCandidates(diagnoses') = {} THEN {{}} ELSE {{d} : d \in Leaders(diagnoses')} :
       /\ priority' = [d \in diagnoses' |-> PriorityOf(d, leader, diagnoses')]
       /\ status' = ApplyCompleteness(OverallStatus(leader, diagnoses'), diagnoses')
  /\ stage' = "report"
  /\ UNCHANGED <<findings, items, level, started>>

----------------------------------------------------------------------------
Init ==
  /\ stage = "healthcheck" /\ findings = {} /\ items = {} /\ level = "complete"
  /\ diagnoses = {} /\ started = FALSE /\ priority = << >> /\ status = "HEALTHY"

Gather == CollectEvidence /\ UNCHANGED <<diagnoses, started, priority, status>>

Next == Gather \/ Diagnose \/ BuildReport

Spec == Init /\ [][Next]_vars

----------------------------------------------------------------------------
(* Properties *)

Reported == stage = "report"

(* Type invariant: the shape of a report; the priorities are those of      *)
(* exactly the diagnoses, and no rule has two diagnoses in one report.     *)
TypeOK ==
  /\ stage \in {"healthcheck", "collectors", "rules", "report"}
  /\ findings \subseteq Finding /\ items \subseteq Item /\ level \in Level /\ status \in Status
  /\ \A d \in diagnoses :
       /\ d.rule \in DownRules \cup Nets \cup UNION {RulesOf[p] : p \in Packs}
       /\ d.severity \in Rank /\ d.evidence \in 0 .. d.severity
       /\ d.cites \cup d.against \subseteq findings
       /\ \A e \in diagnoses : e.rule = d.rule => e = d
  /\ Reported => priority \in [diagnoses -> Priority]

(* The problems d is blamed on, its causes' causes included. *)
Upwards(d, us) == Causes(d, diagnoses) \subseteq us /\ \A e \in us : Causes(e, diagnoses) \subseteq us
Origins(d)     == {u \in diagnoses : \A us \in SUBSET diagnoses : Upwards(d, us) => u \in us}

(* _demote_via_causality: a diagnosis is shown as a mere symptom only if   *)
(* its chain of causes ends in a real problem with ERROR evidence that the *)
(* report shows as its own, and a confirmed one only if that is confirmed: *)
(* no two diagnoses excuse each other, so following the report upwards     *)
(* always ends at something to repair.                                     *)
SymptomsGrounded ==
  Reported => \A d \in diagnoses : priority[d] = "RELATED_SYMPTOM" =>
    \E root \in Origins(d) :
      /\ priority[root] \in {"PRIMARY", "SECONDARY"}
      /\ root.severity >= ERROR /\ root.evidence >= ERROR
      /\ d.sure => root.sure

(* build_report: whenever something is really wrong exactly one diagnosis  *)
(* leads the report, and it rests on ERROR evidence if any diagnosis does, *)
(* whatever was demoted to a symptom or a warning in between.              *)
RealProblemLeads ==
  Reported /\ (\E d \in diagnoses : RealProblem(d)) =>
    \E lead \in diagnoses :
      /\ \A d \in diagnoses : priority[d] = "PRIMARY" <=> d = lead
      /\ (\E d \in diagnoses : Hard(d) /\ RealProblem(d)) => Hard(lead)

(* unexplained.py, _undiagnosed_findings: every finding that is not SUCCESS *)
(* is evidence for some diagnosis or listed as undiagnosed, and one of     *)
(* ERROR is cited by a diagnosis, or its stopped service has one, or a     *)
(* safety net answers that is at least as severe, however many the net     *)
(* left unquoted.                                                          *)
FailuresShown ==
  Reported => \A f \in AtLeast(WARNING, findings) :
    /\ f \in Undiagnosed(diagnoses) \/ \E d \in diagnoses : f \in d.cites
    /\ f.rank >= ERROR =>
         \E d \in diagnoses :
           \/ f \in d.cites \cup d.against
           \/ f.says = "not running" /\ d.rule = DownRule(f.check)
           \/ d.rule \in Nets /\ d.severity >= f.rank

(* _apply_completeness: HEALTHY is only said of complete evidence, with no *)
(* diagnosis and no finding but SUCCESS; UNKNOWN only when ipa-healthcheck *)
(* gave nothing (docs/evidence-completeness.md).                           *)
StatusHonest ==
  Reported =>
    /\ status = "HEALTHY" => level = "complete" /\ diagnoses = {} /\ \A f \in findings : f.rank = 0
    /\ status = "UNKNOWN" => level = "insufficient"

(* test_status_policy.py, release-notes-0.1.3.md: DEGRADED or CRITICAL when *)
(* a problem is diagnosed.  It does not hold: a confirmed problem that      *)
(* rests on WARNING evidence gives way to an unexplained ERROR.             *)
DiagnosedWins ==
  Reported /\ (\E d \in diagnoses : d.sure /\ RealProblem(d)) => status \in {"DEGRADED", "CRITICAL"}
=============================================================================
