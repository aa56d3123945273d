----------------------------- MODULE ReplReport -----------------------------
(***************************************************************************)
(* What replication/run.py concludes from a finished planner run: which    *)
(* checks left a gap, whether the run is complete, and the status word.    *)
(* diagnose() is kept only as far as the status depends on it: a failed    *)
(* local root and what was read of a reverse direction are always          *)
(* reported; everything else it may or may not report.                     *)
(***************************************************************************)
EXTENDS Planner

CONSTANTS
  LocalEssential, SubjectEssential,   \* sets of steps
  LocalRoots,       \* steps whose FAIL _local() always reports
  Server, Agreements, Reverse, Principals,   \* the steps of those names
  Topology,         \* {"topology"}, or {} in a plan without it
  BindSteps         \* steps whose applies gate may say "the agreement binds with ..."

ASSUME ReportAssumption ==
  /\ LocalEssential \cup LocalRoots \cup {Server, Agreements, Principals} \cup Topology \subseteq Ordinary
  /\ SubjectEssential \cup {Reverse} \cup BindSteps \subseteq Step \ Ordinary
  /\ \A i \in DOMAIN Plan : Plan[i].each => Plan[i].source = Agreements

(* What replication_plan() is like: an essential local step is always asked *)
(* (it has no gate) after essential ones that passed, and if it can FAIL    *)
(* then _local() reports it; only the step that recognizes a server stops   *)
(* the run; "principals" comes right before the only template.              *)
ASSUME ReplicationPlan ==
  /\ {Server, Agreements} \cup Topology \subseteq LocalEssential
  /\ \A s \in LocalEssential :
       /\ s \in {Server} \cup LocalRoots \/ "FAIL" \notin Answers[s]
       /\ Gates[s] = {}
       /\ \A k \in DOMAIN Requires[s] :
            /\ Requires[s][k].step \in LocalEssential
            /\ {"PASS", "WARN"} \subseteq Requires[s][k].accept
  /\ \A s \in Step : Stops[s] # {} => s = Server /\ Stops[s] = {"FAIL"}
  /\ Principals # Server
  /\ \E i \in DOMAIN Plan :
       /\ Plan[i].each /\ \A j \in DOMAIN Plan : Plan[j].each => j = i
       /\ SubjectEssential \cup {Reverse} \subseteq StepsOf(i)
       /\ i > 1 /\ Plan[i - 1].steps = <<Principals>>

StatusWord == {"NOT_AN_IPA_SERVER", "PROBLEM_FOUND", "NOT_FULLY_VERIFIED", "HEALTHY_WITH_WARNINGS", "HEALTHY"}

VARIABLE report      \* "none" until the run is over, then the status word

Found(s) == records[<<s, Whole>>]

(* Deliberately wrong: what blocked a check is not asked why it gave no     *)
(* answer.                                                                 *)
OwnGaps(excused) ==
  {i \in Instance : LET r == records[i] IN
     \/ r.outcome = "UNKNOWN"
     \/ r.skip = "privilege"
     \/ r.skip = "not_applicable" /\ i \notin excused
     \/ r.skip = "blocked" /\ r.blocked_by = Nobody}

(* _gap: the check gave no answer, or was not run for a reason that is not *)
(* an observed failure upstream.  "excused" are the instances whose skip   *)
(* says that the agreement binds with another method.                      *)
Gaps(excused) ==
  LET gap[i \in Instance] ==
        LET r == records[i] IN
        \/ r.outcome = "UNKNOWN"
        \/ r.skip = "privilege"
        \/ r.skip = "not_applicable" /\ i \notin excused
        \/ r.skip = "stopped" /\ stop_reason # "hook"
        \/ /\ r.skip = "blocked"
           /\ \/ r.blocked_by = Nobody
              \/ records[r.blocked_by].outcome = "NONE"
              \/ gap[r.blocked_by]
  IN  {i \in Instance : gap[i]}

Template    == CHOOSE i \in DOMAIN Plan : Plan[i].each
Enumerated  == enumerations[Template]

(* _reverse: only what was read from the peer. *)
ReverseState(x) ==
  CASE records[<<Reverse, x>>].outcome \in {"NONE", "SKIPPED", "UNKNOWN"} -> "UNKNOWN"
    [] records[<<Reverse, x>>].outcome = "PASS" -> "OK"
    [] OTHER -> "NOT_OK"

Complete(gaps) ==
  /\ \A s \in LocalEssential : <<s, Whole>> \notin gaps
  /\ \A s \in Topology : Found(s).outcome # "WARN"
  /\ Found(Agreements).outcome \in {"PASS", "WARN"} => Found(Agreements).listing.whole
  /\ <<Principals, Whole>> \notin gaps
  /\ Enumerated.status \in {"COMPLETE", "NOT_ASKED"}
  /\ \A x \in Enumerated.subjects :
       /\ \A s \in SubjectEssential : <<s, x>> \notin gaps
       /\ ReverseState(x) # "UNKNOWN"

(* _local: a failed local root is always reported, a WARN never.           *)
LocalFailure == \E s \in LocalRoots : Found(s).outcome = "FAIL"

(* The kinds of diagnosis diagnose() may return with these records: "fail" *)
(* stands for FAIL, undiagnosed or contradicting ones.                     *)
Diagnoses ==
  {D \in SUBSET {"fail", "transient", "warn"} :
     IF Found(Server).outcome # "PASS" THEN D = {}
     ELSE /\ LocalFailure => "fail" \in D
          /\ (\E x \in Enumerated.subjects : ReverseState(x) = "NOT_OK")
               => D \cap {"fail", "transient"} # {}}

StatusOf(D, complete) ==
  IF Found(Server).outcome # "PASS"           THEN "NOT_AN_IPA_SERVER"
  ELSE IF "fail" \in D                        THEN "PROBLEM_FOUND"
  ELSE IF ~complete \/ "transient" \in D      THEN "NOT_FULLY_VERIFIED"
  ELSE IF D # {}                              THEN "HEALTHY_WITH_WARNINGS"
  ELSE "HEALTHY"

Report ==
  /\ pc = "done" /\ report = "none"
  /\ \E D \in Diagnoses,
        excused \in SUBSET {i \in BindSteps \X Subject : records[i].skip = "not_applicable"} :
       report' = StatusOf(D, Complete(Gaps(excused)))
  /\ UNCHANGED vars

Investigate == Next /\ UNCHANGED report

ReportSpec == Init /\ report = "none" /\ [][Investigate \/ Report]_<<vars, report>>

----------------------------------------------------------------------------
(* "Could not check" is never reported as healthy (docs/exit-codes.md): a  *)
(* healthy status means every essential local check passed, the list of    *)
(* agreements was read whole, and every listed agreement was investigated  *)
(* and seen green in the reverse direction - whatever was interrupted,     *)
(* skipped, blocked or cut by a budget on the way.                         *)
HealthyMeansVerified ==
  report \in {"HEALTHY", "HEALTHY_WITH_WARNINGS"} =>
    /\ \A s \in LocalEssential \ Topology : Found(s).outcome \in {"PASS", "WARN"}
    /\ \A s \in Topology : Found(s).outcome = "PASS"
    /\ Found(Agreements).listing.whole /\ ~Found(Agreements).listing.rejected
    /\ \A x \in Found(Agreements).listing.names :
         /\ records[<<Reverse, x>>].outcome = "PASS"
         /\ \A s \in SubjectEssential :
              records[<<s, x>>].outcome # "UNKNOWN" /\ records[<<s, x>>].skip \notin {"stopped", "privilege"}
=============================================================================
