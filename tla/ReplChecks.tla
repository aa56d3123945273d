----------------------------- MODULE ReplChecks -----------------------------
(***************************************************************************)
(* The evidence of "ipa-diagnose replication": the ways this server, its   *)
(* directory and its peers can be found, and what each check of            *)
(* replication/checks.py (and resolution/checks.py for the units) reads of *)
(* it.  Checks ask at different moments, so answers are independent.       *)
(***************************************************************************)
EXTENDS ReplStatus, FiniteSets

CONSTANTS
  Agreements,    \* sequence of <<suffix, consumer>>: the outbound agreements, in the order of their subjects
  Quiet,         \* bound: agreements whose own entries are varied only by QuietAnswers
  MaxFindings    \* bound: how many answers may differ from a healthy server's

ASSUME AgreementsAssumption ==
  /\ Agreements \in Seq({"domain", "ca"} \X STRING) /\ Agreements # <<>> /\ MaxFindings \in Nat
  /\ \A i, j \in DOMAIN Agreements : Agreements[i] = Agreements[j] => i = j

Agreement   == {Agreements[i] : i \in DOMAIN Agreements}
Suffix(a)   == a[1]
Consumer(a) == a[2]
Here        == <<"here", "me">>       \* the subject of what is checked once

(* Statuses of an agreement, by what 389 Directory Server writes.          *)
Statuses ==
  [succeeded     |-> StatusText(0, "acquiring", {"success"}),
   green         |-> StatusJson(0, {}, TRUE),
   no_status     |-> NoStatus,
   no_sessions   |-> StatusText(0, "neither", {"no sessions"}),
   busy          |-> StatusText(1, "acquiring", {"BUSY"}),
   purged        |-> StatusText(18, "acquiring", {"CHANGELOG_PURGED"}),
   unreachable   |-> StatusText(-1, "connecting", {"TRANSPORT"}),
   tls           |-> StatusText(-1, "connecting", {"TRANSPORT", "TLS"}),
   refused       |-> StatusText(49, "connecting", {}),
   denied        |-> StatusText(3, "acquiring", {"INSUFFICIENT_ACCESS"}),
   local_error   |-> StatusText(-2, "connecting", {}),
   no_server     |-> StatusText(49, "connecting", {"GSSAPI_OTHER", "GSSAPI_SERVER_NOT_FOUND"}),
   skewed        |-> StatusText(49, "connecting", {"INVALID_CREDENTIALS", "GSSAPI_CLOCK_SKEW"}),
   no_kdc        |-> StatusText(-2, "connecting", {"GSSAPI_OTHER", "GSSAPI_NO_KDC"}),
   no_key        |-> StatusText(-2, "connecting", {"GSSAPI_OTHER", "GSSAPI_CREDENTIALS"}),
   strange       |-> StatusText(7, "neither", {})]

(* What may be found, the healthy answer first.  "unasked" stands for      *)
(* every way a check gives no answer (missing tool, timeout, refusal).     *)
UnitAnswers == <<"active", "activating", "inactive", "masked", "unasked">>
Reads       == <<"whole", "not_manager", "cut", "refused">>    \* of the directory, over LDAPI
LocalAnswers ==
  [server     |-> <<"server", "two_instances", "no_ipactl", "no_conf">>,
   user       |-> <<"root", "other">>,
   ds         |-> UnitAnswers,
   kdc        |-> UnitAnswers,
   storage    |-> <<"ok", "low", "full", "read_only", "unasked">>,
   ktname     |-> <<"ds.keytab", "other">>,              \* KRB5_KTNAME of the Directory Server
   keytab     |-> <<"ok", "world_readable", "missing", "not_regular", "unreadable", "no_key", "unasked">>,
   topology   |-> Append(Reads, "segments_unread"),
   agreements |-> Append(Reads, "bad_name"),
   principals |-> Append(Reads, "managers_unread"),
   (* the directory: do the peers have their ldap/ principals, is this     *)
   (* server a replication manager, do the segments match the agreements,  *)
   (* does the RUV name only servers, does a clean task run                *)
   ldap       |-> <<"present", "missing">>,
   managers   |-> <<"member", "stranger">>,
   segments   |-> <<"match", "extra", "missing">>,
   ruv        |-> <<"servers", "stale">>,
   clean      |-> <<"idle", "running", "unasked">>,
   ntp        |-> <<"synchronized", "unsynchronized", "unasked">>,
   unfinished |-> <<"none", "last">>]

(* How a consumer looks from here.  The steps of two agreements with the   *)
(* same consumer ask the same questions, which are answered once.          *)
PeerAnswers ==
  [(* its name, the agreement's port, its root DSE and port 443, together  *)
   peer    |-> <<"answers", "reads_refused", "no_name", "name_unasked", "refused", "back", "dark", "filtered",
                 "silent", "tls">>,
   clock   |-> <<"near", "drift", "skew", "unread">>,       \* currentTime of the root DSE
   date    |-> <<"near", "skew", "unasked">>,               \* Date header, asked when the root DSE gave none
   gssapi  |-> <<"binds", "unasked", "kdc_unreachable", "key_rejected", "principal_revoked", "clock_skew",
                 "no_server", "skew_too_great", "refused", "other">>]

(* An agreement's own entry here, and what the peer's entry for this       *)
(* server says.                                                            *)
AgreementAnswers ==
  [status  |-> <<"succeeded", "green", "no_status", "no_sessions", "busy", "purged", "unreachable", "tls", "refused",
                 "denied", "local_error", "no_server", "skewed", "no_kdc", "no_key", "strange">>,
   enabled |-> <<"on", "off">>,
   bind    |-> <<"SASL/GSSAPI", "SIMPLE">>,
   session |-> <<"over", "long">>,
   reverse |-> <<"succeeded", "no_ticket", "invisible", "busy", "unreachable", "refused", "local_error", "tls">>]
QuietAnswers ==
  [status  |-> <<"succeeded", "busy", "purged", "unreachable", "no_kdc">>,
   enabled |-> <<"on">>, bind |-> <<"SASL/GSSAPI">>, session |-> <<"over">>,
   reverse |-> <<"succeeded", "refused">>]

Asked(kind, x) == [kind |-> kind, of |-> x]
PeerOf(a)      == <<"host", Consumer(a)>>
Part ==
  {Asked(k, Here) : k \in DOMAIN LocalAnswers}
    \cup {Asked(k, PeerOf(a)) : k \in DOMAIN PeerAnswers, a \in Agreement}
    \cup {Asked(k, a) : k \in DOMAIN AgreementAnswers, a \in Agreement}
Answers(p) ==
  IF p.of = Here THEN LocalAnswers[p.kind]
  ELSE IF p.of[1] = "host" THEN PeerAnswers[p.kind]
  ELSE IF p.of \in Quiet THEN QuietAnswers[p.kind] ELSE AgreementAnswers[p.kind]

Healthy == [p \in Part |-> Answers(p)[1]]

VARIABLE seen     \* what the checks of the run were answered, one answer per part

Local(kind) == seen[Asked(kind, Here)]
At(kind, a) == seen[Asked(kind, IF kind \in DOMAIN PeerAnswers THEN PeerOf(a) ELSE a)]

----------------------------------------------------------------------------
(* The checks.  An answer has a status, and the fields its classifier      *)
(* reads; no field is read of an answer that is not OK.                    *)
OK(fields) == [status |-> "OK", fields |-> fields]
NotRun     == [status |-> "NOT_RUN"]
FAILED     == [status |-> "FAILED"]

IsServer   == Local("server") \in {"server", "two_instances"}

(* _systemd_unit: the Directory Server's unit is not known unless exactly  *)
(* one instance is configured; a unit without a load state is no answer.   *)
UnitFields(answer) ==
  [load   |-> IF answer = "masked" THEN "masked" ELSE "loaded",
   active |-> IF answer = "masked" THEN "inactive" ELSE answer]
UnitCheck(u, answer) ==
  IF u = "ds" /\ Local("server") = "two_instances" THEN FAILED
  ELSE IF answer = "unasked" THEN NotRun
  ELSE OK(UnitFields(answer))

StorageCheck == IF Local("storage") = "unasked" THEN FAILED ELSE OK([found |-> Local("storage")])
KeytabCheck  == IF Local("keytab") = "unasked" THEN NotRun ELSE OK([found |-> Local("keytab")])

(* A read over LDAPI is complete only when it was made as Directory        *)
(* Manager, each of its searches succeeded, every name in it could be      *)
(* used, and nothing was cut off.  "lost" are the entries cut off.         *)
Read(kind) ==
  IF Local(kind) = "refused" THEN FAILED
  ELSE OK([complete |-> Local(kind) = "whole", lost |-> Local(kind) = "cut"])
TopologyCheck   == Read("topology")
AgreementsCheck == Read("agreements")
PrincipalsCheck == Read("principals")

(* _principals: the names found, whatever was lost or could not be read.   *)
PrincipalFound == Local("ldap") = "present" /\ Local("principals") # "cut"
ManagerFound   == Local("managers") = "member" /\ Local("principals") \notin {"cut", "managers_unread"}
(* _topology: the segments of this server, against its agreements.         *)
SegmentsFound  == IF Local("topology") = "segments_unread" THEN "missing" ELSE Local("segments")

(* _peer_rootdse: an LDAP error that is neither TRANSPORT nor TLS is an    *)
(* answer of the peer's Directory Server, its clock or no clock.           *)
RootdseCheck(a) ==
  LET peer   == At("peer", a)
      failed(class) == OK([ok |-> FALSE, answered |-> class \notin {"TRANSPORT", "TLS"}, class |-> class,
                           offset |-> "unread"])
  IN
  IF peer \in {"answers", "back"} THEN OK([ok |-> TRUE, answered |-> TRUE, class |-> "none", offset |-> At("clock", a)])
  ELSE IF peer = "reads_refused" THEN failed(BindClassOf(50, {"INSUFFICIENT_ACCESS"}))
  ELSE IF peer = "tls" THEN failed(BindClassOf(-11, {"TLS"}))
  ELSE failed(BindClassOf(-1, {"TRANSPORT"}))

(* _gssapi_bind: the Directory Server's key must be readable as a plain    *)
(* file; then kinit, then the bind, may fail.                              *)
KinitFailures == {"kdc_unreachable", "key_rejected", "principal_revoked", "clock_skew"}
BindFailures ==
  [no_server      |-> BindClassOf(-2, {"GSSAPI_OTHER", "GSSAPI_SERVER_NOT_FOUND"}),
   skew_too_great |-> BindClassOf(-2, {"GSSAPI_OTHER", "GSSAPI_CLOCK_SKEW"}),
   refused        |-> BindClassOf(49, {"INVALID_CREDENTIALS"}),
   other          |-> BindClassOf(-2, {})]
GssapiCheck(a) ==
  LET answer == At("gssapi", a) IN
  IF Local("keytab") \in {"missing", "not_regular"} \/ answer = "unasked" THEN NotRun
  ELSE OK([bound |-> answer = "binds",
           kinit |-> IF answer \in KinitFailures THEN answer ELSE "none",
           class |-> IF answer \in DOMAIN BindFailures THEN BindFailures[answer] ELSE "none"])

(* _peer_agreement: needs the operator's own ticket; entries that are not  *)
(* visible are not shown absent.                                           *)
ReverseCheck(a) ==
  LET answer == At("reverse", a) IN
  IF answer = "no_ticket" THEN NotRun
  ELSE OK([visible |-> answer # "invisible",
           class   |-> IF answer = "invisible" THEN "none" ELSE StatusClass(Statuses[answer])])
=============================================================================
