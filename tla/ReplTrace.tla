------------------------------ MODULE ReplTrace ------------------------------
(***************************************************************************)
(* The record each step of replication/plan.py makes of what its check     *)
(* read.  A step whose prerequisite failed, or whose gate says that it is  *)
(* not needed, is SKIPPED; a check that gave no answer is UNKNOWN.         *)
(***************************************************************************)
EXTENDS ReplChecks

Status(a) == StatusClass(Statuses[At("status", a)])     \* agreement_items

Passish(o)  == o \in {"PASS", "WARN"}
Answered(o) == o \notin {"SKIPPED", "UNKNOWN"}
(* The planner classifies only what a check answered.                      *)
Classified(check, pass, warn) ==
  IF check.status # "OK" THEN "UNKNOWN" ELSE IF pass THEN "PASS" ELSE IF warn THEN "WARN" ELSE "FAIL"

OServer == IF IsServer THEN "PASS" ELSE "FAIL"

(* c_unit: a unit that is coming up or going down is degraded.             *)
UnitOutcome(u) ==
  LET check == UnitCheck(u, Local(u)) IN
  IF OServer # "PASS" THEN "SKIPPED"
  ELSE Classified(check, check.fields.load = "loaded" /\ check.fields.active = "active",
                  check.fields.load = "loaded" /\ check.fields.active = "activating")

OStorage ==
  IF OServer # "PASS" THEN "SKIPPED"
  ELSE Classified(StorageCheck, StorageCheck.fields.found = "ok", StorageCheck.fields.found = "low")

OKeytab ==
  IF OServer # "PASS" \/ Local("user") # "root" THEN "SKIPPED"
  ELSE Classified(KeytabCheck, KeytabCheck.fields.found = "ok", KeytabCheck.fields.found = "world_readable")

(* The directory is read as root, over the local Directory Server.         *)
ReadOutcome(check) ==
  IF ~Passish(UnitOutcome("ds")) \/ Local("user") # "root" THEN "SKIPPED"
  ELSE Classified(check, check.fields.complete, ~check.fields.complete)
OTopology   == ReadOutcome(TopologyCheck)
OAgreements == ReadOutcome(AgreementsCheck)

(* The agreements whose subject could be made of their entries: the last   *)
(* one is the one that is cut off, or whose name is not valid.             *)
Last   == Agreements[Len(Agreements)]
Listed ==
  IF ~Passish(OAgreements) THEN {}
  ELSE IF Local("agreements") \in {"cut", "bad_name"} THEN Agreement \ {Last}
  ELSE Agreement

Failing(a) == Status(a) # "OK"

(* g_principals: asked when some agreement's last session did not succeed. *)
OPrincipals == IF \E a \in Listed : Failing(a) THEN ReadOutcome(PrincipalsCheck) ELSE "SKIPPED"

(* run_plan walks the agreements in order; a budget or an interruption may *)
(* leave the last of them without an investigation.                        *)
Dropped      == IF Local("unfinished") = "last" THEN Listed \cap {Last} ELSE {}
Investigated == Listed \ Dropped

----------------------------------------------------------------------------
(* The steps of one agreement.                                             *)
ODns(a) ==
  IF a \notin Investigated THEN "SKIPPED"
  ELSE IF At("peer", a) = "no_name" THEN "FAIL"
  ELSE IF At("peer", a) = "name_unasked" THEN "UNKNOWN"
  ELSE "PASS"

(* c_tcp of the agreement's port, and of 443 when that port did not answer *)
PortState(a) ==
  IF ODns(a) # "PASS" THEN "skipped"
  ELSE IF At("peer", a) \in {"refused", "back"} THEN "refused"
  ELSE IF At("peer", a) \in {"dark", "filtered"} THEN "timeout"
  ELSE "open"
HttpsState(a) ==
  IF PortState(a) \in {"skipped", "open"} THEN "skipped"
  ELSE IF At("peer", a) = "dark" THEN "timeout"
  ELSE "open"

(* c_rootdse: an answer that refuses anonymous reading is still an answer. *)
ORootdse(a) ==
  LET fields == RootdseCheck(a).fields IN
  IF ODns(a) # "PASS" THEN "SKIPPED"
  ELSE Classified(RootdseCheck(a), fields.ok /\ fields.offset \notin {"drift", "skew"}, fields.answered)
RootdseClock(a) == IF ODns(a) = "PASS" THEN RootdseCheck(a).fields.offset ELSE "unread"

(* peer_offset: the root DSE's clock, or the Date header when there is none. *)
PeerOffset(a) ==
  IF RootdseClock(a) # "unread" THEN RootdseClock(a)
  ELSE IF ODns(a) = "PASS" /\ At("date", a) # "unasked" THEN At("date", a)
  ELSE "none"
OffsetStep(a) == IF RootdseClock(a) # "unread" THEN "peer.rootdse" ELSE "peer.time"

(* g_gssapi_applies, g_gssapi: the supplier's own bind is reproduced only  *)
(* for a GSSAPI agreement that fails, or when the local KDC is down, and   *)
(* only if the port answers and the key would be the one the server uses.  *)
GssapiBound(a) == At("bind", a) = "SASL/GSSAPI"
OtherKey       == Local("ktname") = "other"
OGssapi(a) ==
  IF \/ PortState(a) # "open" \/ ~GssapiBound(a) \/ OtherKey \/ Local("user") # "root"
     \/ ~(Failing(a) \/ UnitOutcome("kdc") = "FAIL") THEN "SKIPPED"
  ELSE Classified(GssapiCheck(a), GssapiCheck(a).fields.bound, FALSE)
KinitClass(a) == IF OGssapi(a) = "FAIL" THEN GssapiCheck(a).fields.kinit ELSE "none"
BindClass(a)  == IF OGssapi(a) = "FAIL" THEN GssapiCheck(a).fields.class ELSE "none"

(* c_reverse: the peer's own agreement, read from the peer.                *)
OReverse(a) ==
  LET check == ReverseCheck(a) IN
  IF ~Passish(ORootdse(a)) THEN "SKIPPED"
  ELSE IF check.status = "OK" /\ ~check.fields.visible THEN "UNKNOWN"
  ELSE Classified(check, check.fields.class = "OK", FALSE)

(* g_chrony: this host's own time service is asked only when a clock       *)
(* difference is in view.                                                  *)
ClockInView ==
  \/ \E a \in Investigated :
       PeerOffset(a) \in {"drift", "skew"} \/ KinitClass(a) = "clock_skew" \/ BindClass(a) = "GSSAPI_CLOCK_SKEW"
  \/ \E a \in Listed : Status(a) = "GSSAPI_CLOCK_SKEW"
OTimeLocal ==
  IF ~ClockInView \/ OServer # "PASS" THEN "SKIPPED"
  ELSE IF Local("ntp") = "synchronized" THEN "PASS"
  ELSE IF Local("ntp") = "unsynchronized" THEN "WARN"
  ELSE "UNKNOWN"

----------------------------------------------------------------------------
(* run.py, _gap and _completeness: what was not verified.  A step skipped  *)
(* behind one that failed is no gap; behind one without an answer, or for  *)
(* want of privileges, it is.  A bind that is not reproduced is no gap for *)
(* a SIMPLE agreement, and one if the server uses another key.             *)
ReadGap(o)    == o \in {"UNKNOWN", "WARN"} \/ (o = "SKIPPED" /\ UnitOutcome("ds") # "FAIL")
OutboundGap(a) ==
  "UNKNOWN" \in {ODns(a), OGssapi(a)} \/ (PortState(a) = "open" /\ GssapiBound(a) /\ OtherKey)
SubjectGapOutbound(a) == OutboundGap(a)     \* deliberately wrong: the peer's own side is no gap
SubjectGap(a) == OutboundGap(a) \/ ~Answered(OReverse(a))

Complete ==
  /\ \A o \in {UnitOutcome("ds"), UnitOutcome("kdc"), OStorage, OKeytab} : Answered(o)
  /\ ~ReadGap(OTopology) /\ ~ReadGap(OAgreements) /\ OPrincipals # "UNKNOWN"
  /\ Dropped = {} /\ \A a \in Investigated : ~SubjectGap(a)
=============================================================================
