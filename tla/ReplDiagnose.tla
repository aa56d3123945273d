---------------------------- MODULE ReplDiagnose ----------------------------
(***************************************************************************)
(* replication/diagnose.py: from the records of a run to diagnoses with    *)
(* causal chains.  A failing agreement is a symptom; what this server and  *)
(* its own view of the peer show may be its root.  A diagnosis is known by *)
(* its code and subject, and a chain belongs to the diagnoses it leads to. *)
(***************************************************************************)
EXTENDS ReplTrace, Causal

Me         == <<"server", "me">>
Peer(a)    == <<"server", Consumer(a)>>
Pair(a)    == <<"pair", Consumer(a)>>
Rel(a)     == <<Suffix(a), "me", Consumer(a)>>
Reversed(a) == <<Suffix(a), Consumer(a), "me">>

Diagnosis(code, subject, capability, severity, confidence, scope) ==
  [code |-> code, subject |-> subject, capability |-> capability, severity |-> severity, confidence |-> confidence,
   scope |-> scope, kind |-> "none", related |-> {}]
Key(d) == [code |-> d.code, subject |-> d.subject]

When(condition, x) == IF condition THEN {x} ELSE {}

----------------------------------------------------------------------------
(* _local: this server itself.  The Directory Server without its storage,  *)
(* and the KDC without the Directory Server, are related to what is below. *)
StorageBad == OStorage = "FAIL"
DsDown     == UnitOutcome("ds") = "FAIL"
KdcDown    == UnitOutcome("kdc") = "FAIL"
KeytabBad  == OKeytab = "FAIL"

StorageRoot == Diagnosis("DS_STORAGE_PROBLEM", Me, "STORAGE", "FAIL", "HIGH", "local")
DsRoot      == [Diagnosis("LOCAL_DS_NOT_RUNNING", Me, "LOCAL_DS", "FAIL", "HIGH", "local")
                  EXCEPT !.related = When(StorageBad, Key(StorageRoot))]
KdcRoot     == [Diagnosis("LOCAL_KDC_NOT_RUNNING", Me, "LOCAL_KDC", "FAIL", "HIGH", "local")
                  EXCEPT !.related = When(DsDown, Key(DsRoot))]
KeytabRoot  == Diagnosis("DS_KEYTAB_PROBLEM", Me, "KEYTAB", "FAIL", "HIGH", "local")

LocalDiagnoses ==
  When(StorageBad, StorageRoot) \cup When(DsDown, DsRoot) \cup When(KdcDown, KdcRoot) \cup When(KeytabBad, KeytabRoot)
    \cup When(OKeytab = "WARN", Diagnosis("DS_KEYTAB_EXPOSED", Me, "KEYTAB", "WARN", "HIGH", "local"))
    \cup When(OStorage = "WARN", Diagnosis("DS_STORAGE_LOW", Me, "STORAGE", "WARN", "HIGH", "local"))

(* A chain: the diagnoses whose chain it is, and its links.                *)
Chain(owners, links) == [owners |-> {Key(d) : d \in owners}, links |-> links]

LocalChains ==
  When(StorageBad, Chain({StorageRoot}, <<Link("local_storage", "STORAGE", Me, {"local.storage"})>>))
    \cup When(DsDown, Chain({DsRoot},
           <<Link("local_ds_down", "LOCAL_DS", Me, {"local.ds"})>>
             \o IF StorageBad THEN <<Link("storage_under_ds", "STORAGE", Me, {"local.storage", "local.ds"})>>
                ELSE <<>>))
    \cup When(KdcDown, Chain({KdcRoot},
           <<Link("local_kdc_down", "LOCAL_KDC", Me, {"local.kdc"})>>
             \o IF DsDown THEN <<Link("kdc_needs_local_ds", "LOCAL_DS", Me, {"local.ds", "local.kdc"})>> ELSE <<>>))
    \cup When(KeytabBad, Chain({KeytabRoot}, <<Link("ds_keytab_local", "KEYTAB", Me, {"local.keytab"})>>))

----------------------------------------------------------------------------
(* The roots a failing agreement can be led to.  "peer" diagnoses of a     *)
(* shared consumer are the same diagnosis for each of its agreements.      *)
Skewed(a)     == PeerOffset(a) = "skew"
PairSkew(a)   == Diagnosis("PAIR_CLOCK_SKEW", Pair(a), "TIME", "FAIL", "HIGH", "pair")
KeyRejected   == Diagnosis("DS_KEY_REJECTED", Me, "KEYTAB", "FAIL", "HIGH", "local")
TlsRoot(a)    == Diagnosis("PEER_TLS_FAILED", Pair(a), "TLS", "FAIL", "MEDIUM", "pair")
PrincipalMissing(a) ==
  Diagnosis("PEER_LDAP_PRINCIPAL_MISSING", <<"principal", Consumer(a)>>, "PRINCIPAL", "FAIL", "HIGH", "directory")
NotAManager   ==
  Diagnosis("NOT_A_REPLICATION_MANAGER", <<"group", "managers">>, "PRINCIPAL", "FAIL", "MEDIUM", "directory")

(* What a search for the root of an agreement's failure returns: the root, *)
(* if any, the links that lead to it, and whether it hands off to the peer *)
Found(roots, links, handoff) == [roots |-> roots, links |-> links, handoff |-> handoff]
Nothing(links)               == Found({}, links, FALSE)

(* Deliberately wrong: a timeout is linked as to a failing status. *)
PeerDiscriminatorOfStatus(fault, now) ==
  CASE fault = "dns"      -> IF now THEN "peer_name_unresolved_now" ELSE "peer_name_unresolved"
    [] fault = "refused"  -> IF now THEN "peer_ds_refused_now" ELSE "peer_ds_refused_host_up"
    [] fault = "noanswer" -> "status_transport"
    [] fault = "tls"      -> IF now THEN "peer_tls_fails_now" ELSE "status_tls"

(* _peer_path: how this server's own view of the peer fails.  The same     *)
(* conditions are linked to a status that says the connection failed, or   *)
(* stand for themselves as what is seen now.                               *)
PeerDiscriminator(fault, now) ==
  CASE fault = "dns"      -> IF now THEN "peer_name_unresolved_now" ELSE "peer_name_unresolved"
    [] fault = "refused"  -> IF now THEN "peer_ds_refused_now" ELSE "peer_ds_refused_host_up"
    [] fault = "noanswer" -> IF now THEN "peer_no_ldap_answer_now" ELSE "status_transport"
    [] fault = "tls"      -> IF now THEN "peer_tls_fails_now" ELSE "status_tls"

PeerAnswersNow(a) == Passish(ORootdse(a))
PeerFails(a)      == ODns(a) = "FAIL" \/ ORootdse(a) = "FAIL"

PeerPath(a, now) ==
  LET ports == {"peer.port", "peer.https", "peer.rootdse"}
      peer(code, subject, confidence, scope) == Diagnosis(code, subject, "PEER_DS", "FAIL", confidence, scope)
  IN
  IF ODns(a) = "FAIL" THEN
         Found({Diagnosis("PEER_NAME_UNRESOLVED", Pair(a), "DNS", "FAIL", "HIGH", "local")},
               <<Link(PeerDiscriminator("dns", now), "DNS", Pair(a), {"peer.dns"})>>, FALSE)
  ELSE IF RootdseCheck(a).fields.class = "TLS" THEN
         Found({TlsRoot(a)}, <<Link(PeerDiscriminator("tls", now), "TLS", Pair(a), {"peer.rootdse"})>>, TRUE)
  ELSE IF PortState(a) = "refused" /\ HttpsState(a) = "open" THEN
         Found({peer("PEER_DS_NOT_ACCEPTING", Peer(a), "HIGH", "peer")},
               <<Link(PeerDiscriminator("refused", now), "PEER_DS", Peer(a), ports)>>, TRUE)
  ELSE IF PortState(a) = "timeout" /\ HttpsState(a) = "timeout" THEN
         Found({Diagnosis("PEER_UNREACHABLE", Pair(a), "NETWORK", "FAIL", "HIGH", "pair")},
               <<Link(PeerDiscriminator("noanswer", now), "PEER_DS", Peer(a), {"peer.rootdse"}),
                 Link("peer_unreachable", "NETWORK", Pair(a), {"peer.port", "peer.https"})>>, TRUE)
  ELSE
         Found({IF PortState(a) = "open" THEN peer("PEER_DS_NOT_ANSWERING", Peer(a), "HIGH", "peer")
                ELSE peer("PEER_DS_NOT_ANSWERING", Pair(a), "MEDIUM", "pair")},
               <<Link(PeerDiscriminator("noanswer", now), "PEER_DS", Peer(a), {"peer.port", "peer.rootdse"})>>, TRUE)

(* kerberos_class: the status when it names the class, otherwise what the  *)
(* reproduction of the supplier's bind shows.                              *)
SPECIFIC == {"GSSAPI_NO_KDC", "GSSAPI_CLOCK_SKEW", "GSSAPI_SERVER_NOT_FOUND", "GSSAPI_CREDENTIALS"}

Reproduced(a, kinit, bind) ==
  IF kinit = "kdc_unreachable" THEN "GSSAPI_NO_KDC"
  ELSE IF kinit \in {"key_rejected", "principal_revoked"} THEN "GSSAPI_CREDENTIALS"
  ELSE IF kinit = "clock_skew" THEN "GSSAPI_OTHER"   \* against the KDC, not the peer
  ELSE IF bind \in SPECIFIC THEN bind
  ELSE IF bind = "INVALID_CREDENTIALS" THEN IF Skewed(a) THEN "SKEW_49" ELSE "PEER_REJECTS"
  ELSE "GSSAPI_OTHER"
KerberosClass(a) ==
  IF Status(a) \in SPECIFIC THEN Status(a)
  ELSE IF OGssapi(a) = "FAIL" THEN Reproduced(a, KinitClass(a), BindClass(a))
  ELSE IF OGssapi(a) = "PASS" THEN "NOT_REPRODUCED"
  ELSE "NO_REPRODUCTION"
ByKinit(a) == Status(a) \notin SPECIFIC /\ KinitClass(a) # "none"

(* Deliberately wrong: an entry missing from a list is absent, whole or not *)
AbsentFromAny(found) == Passish(OPrincipals) /\ ~found

(* An entry of the principals read is absent only when the read was whole. *)
AbsentFromPrincipals(found) == OPrincipals = "PASS" /\ ~found

(* _gssapi_chain, after the link status-gssapi.                            *)
GssapiChain(a, class, kinit) ==
  LET evidence == {"agreements"} \cup When(Answered(OGssapi(a)), "gssapi")
      first    == <<Link("status_gssapi", "KERBEROS", Rel(a), evidence)>>
      via(discriminator, capability, subject, e, roots) ==
        Found(roots, Append(first, Link(discriminator, capability, subject, evidence \cup e)), FALSE)
  IN
  IF class = "GSSAPI_NO_KDC" THEN
         IF ~KdcDown THEN Nothing(first)
         ELSE LET kdc == via("kerberos_no_kdc_local_down", "LOCAL_KDC", Me, {"local.kdc"}, {KdcRoot})
              IN  IF ~DsDown THEN kdc
                  ELSE Found({DsRoot}, Append(kdc.links, Link("kdc_needs_local_ds", "LOCAL_DS", Me,
                                                              {"local.ds", "local.kdc"})), FALSE)
  ELSE IF class = "GSSAPI_CLOCK_SKEW" THEN
         IF Skewed(a) THEN [via("kerberos_clock_skew", "TIME", Pair(a), {OffsetStep(a)}, {PairSkew(a)})
                              EXCEPT !.handoff = TRUE]
         ELSE Nothing(first)
  ELSE IF class = "GSSAPI_SERVER_NOT_FOUND" THEN
         IF AbsentFromPrincipals(PrincipalFound)
         THEN via("kerberos_server_principal_absent", "PRINCIPAL", <<"principal", Consumer(a)>>, {"principals"},
                  {PrincipalMissing(a)})
         ELSE Nothing(first)
  ELSE IF class = "GSSAPI_CREDENTIALS" \/ kinit = "key_rejected" THEN
         IF KeytabBad THEN via("kerberos_local_credentials", "KEYTAB", Me, {"local.keytab"}, {KeytabRoot})
         ELSE IF kinit = "key_rejected"
              THEN via("kerberos_local_credentials", "KEYTAB", Me, {"local.keytab"}, {KeyRejected})
              ELSE Nothing(first)
  ELSE Nothing(first)

----------------------------------------------------------------------------
(* _agreement.  GssapiBound and Kerberos are the conditions its branches   *)
(* repeat; Branch is the chain of branches, in their order, after the      *)
(* first link (the agreement's own status), for a Kerberos class.          *)
Kerberos(a)    == GssapiBound(a) /\ Status(a) \in GSSAPI \cup {"INVALID_CREDENTIALS"}

NotReproduced(a) ==
  \/ Status(a) = "TRANSPORT" /\ PeerAnswersNow(a)
  \/ Kerberos(a) /\ KerberosClass(a) = "NOT_REPRODUCED"

Branch(a, class) ==
  LET status == Status(a)
      rejected(e) == Link("status_invalid_credentials_gssapi", "KERBEROS", e, {"agreements", "gssapi"})
      access == Link("status_access", "AUTHORIZATION", Rel(a), {"agreements"})
  IN
  IF status = "TRANSPORT" THEN IF PeerFails(a) THEN PeerPath(a, FALSE) ELSE Nothing(<<>>)
  ELSE IF status = "INVALID_CREDENTIALS" /\ GssapiBound(a) /\ ByKinit(a) THEN Nothing(<<>>)
  ELSE IF Kerberos(a) /\ class \in SPECIFIC \cup {"GSSAPI_OTHER"} THEN GssapiChain(a, class, KinitClass(a))
  ELSE IF GssapiBound(a) /\ class = "SKEW_49" THEN
         Found({PairSkew(a)}, <<rejected(Rel(a)), Link("kerberos_49_with_measured_skew", "TIME", Pair(a),
                                                       {"gssapi", OffsetStep(a)})>>, TRUE)
  ELSE IF status = "INVALID_CREDENTIALS" /\ GssapiBound(a) /\ class = "PEER_REJECTS" THEN
         Found({Diagnosis("PEER_REJECTS_GSSAPI", Peer(a), "KERBEROS", "FAIL", "MEDIUM", "peer")},
               <<rejected(Peer(a))>>, TRUE)
  ELSE IF status = "INSUFFICIENT_ACCESS" THEN
         IF AbsentFromPrincipals(ManagerFound)
         THEN Found({NotAManager}, <<access, Link("access_not_a_manager", "PRINCIPAL", <<"group", "managers">>,
                                                  {"principals"})>>, FALSE)
         ELSE Found({}, <<access>>, TRUE)
  ELSE IF status \in NEEDS_ADMIN THEN
         Found({Diagnosis("REPLICA_NEEDS_ADMIN_ACTION", Rel(a), "REPLICA_DATA", "FAIL", "HIGH", "pair")},
               <<Link("status_data", "REPLICA_DATA", Rel(a), {"agreements"})>>, FALSE)
  ELSE IF status = "TLS" THEN Found({TlsRoot(a)}, <<Link("status_tls", "TLS", Pair(a), {"agreements"})>>, TRUE)
  ELSE Nothing(<<>>)
Search(a) == Branch(a, KerberosClass(a))

Enabled(a)  == At("enabled", a) = "on"
Broken(a)   == Enabled(a) /\ Failing(a) /\ Status(a) \notin TRANSIENT
Reported(a) == a \in Investigated /\ Broken(a) /\ ~NotReproduced(a)

StatusLink(a) == Link("agreement_status", "REPLICATION", Rel(a), {"agreements"})
LinksOf(a, s) == <<StatusLink(a)>> \o s.links

(* What follows of a search s of an agreement.  A failure without a root is UNDIAGNOSED when its status is not known,   *)
(* or when the search ended early with nothing handed off to the peer.     *)
SymptomKind(a, s) ==
  IF /\ s.roots = {}
     /\ \/ Status(a) = "UNCLASSIFIED"
        \/ ~s.handoff /\ Len(LinksOf(a, s)) <= 2
           /\ LastLink(LinksOf(a, s)).capability \in {"REPLICATION", "KERBEROS"}
  THEN "UNDIAGNOSED" ELSE "none"

Symptom(a, s) ==
  [Diagnosis("REPLICATION_FAILING", Rel(a), "REPLICATION", "FAIL",
             IF s.roots # {} THEN "HIGH" ELSE IF SymptomKind(a, s) = "none" THEN "MEDIUM" ELSE "LOW", "pair")
     EXCEPT !.kind = SymptomKind(a, s), !.related = {Key(d) : d \in s.roots}]

(* What this server sees of the peer now, told apart from a status that    *)
(* does not say it: of a good or passing status, or when no root was found *)
SeenNow(a, s) ==
  /\ a \in Investigated /\ Enabled(a) /\ PeerFails(a)
  /\ \/ ~Failing(a) \/ Status(a) \in TRANSIENT
     \/ Reported(a) /\ Status(a) # "TRANSPORT" /\ s.roots = {}

(* The clock of the pair is its own diagnosis, whatever else fails.        *)
SkewShown(a) ==
  a \in Investigated /\ Enabled(a) /\ Skewed(a) /\ Status(a) \notin TRANSIENT /\ ~(Failing(a) /\ NotReproduced(a))

(* It has a chain of its own unless the search of this agreement, or an    *)
(* earlier agreement with the same consumer, already led to it.            *)
SkewRoot(a)     == Reported(a) /\ PairSkew(a) \in Search(a).roots
Before(a)       == {Agreements[i] : i \in 1..(CHOOSE i \in DOMAIN Agreements : Agreements[i] = a) - 1}
SkewChained(a)  ==
  /\ SkewShown(a)
  /\ \A b \in Before(a) \cup {a} : Pair(b) = Pair(a) => ~SkewRoot(b) /\ (SkewShown(b) => b = a)

Notice(code, subject, confidence, scope) ==
  Diagnosis(code, subject, "REPLICATION", "WARN", confidence, scope)
Passing(code, subject, confidence, scope) == [Notice(code, subject, confidence, scope) EXCEPT !.kind = "TRANSIENT"]

AgreementDiagnoses(a, s) ==
  LET status == Status(a) IN
  IF ~Enabled(a) THEN {Notice("AGREEMENT_DISABLED", Rel(a), "HIGH", "local")}
  ELSE (IF Reported(a) THEN {Symptom(a, s)} \cup s.roots ELSE {})
    \cup When(Reported(a) /\ status = "INVALID_CREDENTIALS" /\ GssapiBound(a)
                /\ KinitClass(a) = "key_rejected" /\ ~KeytabBad, KeyRejected)
    \cup (IF SeenNow(a, s) THEN PeerPath(a, TRUE).roots ELSE {})
    \cup When(SkewShown(a), PairSkew(a))
    \cup When(status = "OK" /\ PeerOffset(a) = "drift",
              Diagnosis("PAIR_CLOCK_DRIFT", Pair(a), "TIME", "WARN", "HIGH", "pair"))
    \cup When(status = "OK" /\ At("session", a) = "long", Passing("LONG_RUNNING_SESSION", Rel(a), "MEDIUM", "pair"))
    \cup When(status \in TRANSIENT, Passing("REPLICATION_TRANSIENT", Rel(a), "HIGH", "pair"))
    \cup When(Broken(a) /\ NotReproduced(a), Passing("REPLICATION_NOT_REPRODUCED", Rel(a), "MEDIUM", "pair"))

AgreementChains(a, s) ==
  IF ~Enabled(a) THEN {}
  ELSE When(Reported(a), Chain({Symptom(a, s)} \cup s.roots, LinksOf(a, s)))
    \cup When(SeenNow(a, s), Chain(PeerPath(a, TRUE).roots, PeerPath(a, TRUE).links))
    \cup When(SkewChained(a), Chain({PairSkew(a)}, <<Link("pair_clock_skew", "TIME", Pair(a), {OffsetStep(a)})>>))

(* Deliberately wrong: shown only if its peer is seen to answer. *)
DroppedButSeen(a) ==
  When(Broken(a) /\ PeerAnswersNow(a), [Diagnosis("REPLICATION_FAILING", Rel(a), "REPLICATION", "FAIL", "LOW", "pair")
                                           EXCEPT !.kind = "UNDIAGNOSED"])

(* _dropped: an agreement the budget left out is still shown failing.      *)
DroppedDiagnoses(a) ==
  When(Broken(a), [Diagnosis("REPLICATION_FAILING", Rel(a), "REPLICATION", "FAIL", "LOW", "pair")
                     EXCEPT !.kind = "UNDIAGNOSED"])
DroppedChains(a) == When(Broken(a), Chain(DroppedDiagnoses(a), <<StatusLink(a)>>))

----------------------------------------------------------------------------
(* _reverse: only what was read from the peer.  This server's own keytab   *)
(* explains a refusal on the accepting side, unless the clocks do.         *)
ReverseClass(a) == IF OReverse(a) = "FAIL" THEN ReverseCheck(a).fields.class ELSE "none"
ReverseWaits(a) ==
  \/ ReverseClass(a) \in TRANSIENT
  \/ ReverseClass(a) = "TRANSPORT" /\ UnitOutcome("ds") \in {"PASS", "WARN", "UNKNOWN"}
ReverseKeytab(a) == KeytabBad /\ ReverseClass(a) \in {"INVALID_CREDENTIALS", "GSSAPI_OTHER"} /\ ~Skewed(a)

ReverseSymptom(a) ==
  [Diagnosis("REVERSE_REPLICATION_FAILING", Reversed(a), "REPLICATION", "FAIL",
             IF ReverseKeytab(a) /\ ReverseClass(a) = "GSSAPI_OTHER" THEN "MEDIUM" ELSE "HIGH", "peer")
     EXCEPT !.related = When(ReverseKeytab(a), Key(KeytabRoot))]

ReverseDiagnoses(a) ==
  CASE ReverseClass(a) = "none" -> {}
    [] ReverseWaits(a) -> {Passing("REPLICATION_TRANSIENT", Reversed(a),
                                   IF ReverseClass(a) = "TRANSPORT" THEN "MEDIUM" ELSE "HIGH", "peer")}
    [] OTHER -> {ReverseSymptom(a)}

ReverseChains(a) ==
  LET status == Link("agreement_status", "REPLICATION", Reversed(a), {"reverse"}) IN
  CASE ReverseClass(a) = "none" \/ ReverseWaits(a) -> {}
    [] ReverseKeytab(a) ->
         {Chain({ReverseSymptom(a), KeytabRoot},
                <<status, Link("reverse_acceptor_kerberos", "KERBEROS", Reversed(a), {"reverse"}),
                  Link("acceptor_keytab_unusable", "KEYTAB", Me, {"reverse", "local.keytab"})>>)}
    [] OTHER -> {Chain({ReverseSymptom(a)}, <<status>>)}

----------------------------------------------------------------------------
(* _topology_checks and _ruv_context: two enumerations are compared only   *)
(* when both were read whole.                                              *)
Other == <<"domain", "me", "other">>

ContextDiagnoses ==
  LET both == OTopology = "PASS" /\ OAgreements = "PASS"
      contradicts(code) == [Diagnosis(code, Other, "TOPOLOGY", "WARN", "MEDIUM", "local")
                              EXCEPT !.kind = "CONTRADICTING"]
  IN  When(both /\ SegmentsFound = "extra", contradicts("SEGMENT_WITHOUT_AGREEMENT"))
        \cup When(both /\ SegmentsFound = "missing", contradicts("AGREEMENT_WITHOUT_SEGMENT"))
        \cup When(Passish(OAgreements) /\ OTopology = "PASS" /\ Local("clean") = "idle" /\ Local("ruv") = "stale",
                  Diagnosis("RUV_ELEMENT_WITHOUT_SERVER", <<"ruv", "domain">>, "REPLICA_DATA", "WARN", "MEDIUM", "local"))

Gathered ==
  LocalDiagnoses \cup ContextDiagnoses
    \cup UNION ({AgreementDiagnoses(a, Search(a)) \cup ReverseDiagnoses(a) : a \in Investigated}
                  \cup {DroppedDiagnoses(a) : a \in Dropped})

TimeService(gathered) ==
  When(OTimeLocal = "WARN" /\ \A d \in gathered : d.code # "PAIR_CLOCK_SKEW",
       Diagnosis("LOCAL_NTP_NOT_SYNCHRONIZED", Me, "TIME", "WARN", "HIGH", "local"))
WithTimeService(gathered) == gathered \cup TimeService(gathered)

Diagnoses == IF OServer # "PASS" THEN {} ELSE WithTimeService(Gathered)

Chains ==
  IF OServer # "PASS" THEN {}
  ELSE LocalChains \cup UNION ({AgreementChains(a, Search(a)) \cup ReverseChains(a) : a \in Investigated}
                                \cup {DroppedChains(a) : a \in Dropped})

----------------------------------------------------------------------------
(* _roles.  Failures come before warnings, causes before symptoms, then    *)
(* what is local and low in the layers; ties are broken by name.           *)
SymptomCodes == {"REPLICATION_FAILING", "REVERSE_REPLICATION_FAILING"}
ScopeRank    == [local |-> 0, directory |-> 1, pair |-> 2, peer |-> 3]
LAYER ==
  [c \in Capability |->
     LET order == <<"STORAGE", "LOCAL_DS", "LOCAL_KDC", "KEYTAB", "TIME", "PRINCIPAL", "DNS", "NETWORK", "PEER_DS",
                    "TLS", "KERBEROS", "AUTHORIZATION", "REPLICA_DATA", "REPLICATION", "TOPOLOGY">>
     IN  CHOOSE i \in DOMAIN order : order[i] = c]

(* Deliberately wrong: symptoms and causes are ranked alike. *)
RankByScope(d) == ScopeRank[d.scope] * 20 + LAYER[d.capability]

Rank(d) == (IF d.code \in SymptomCodes THEN 100 ELSE 0) + ScopeRank[d.scope] * 20 + LAYER[d.capability]

Leads(d) ==
  d.severity = "FAIL" /\ d.kind \notin {"CONTRADICTING", "UNDIAGNOSED"} /\ d.related = {}
Primary(D) ==
  LET leading == {d \in D : Leads(d)}
  IN  IF leading = {} THEN {} ELSE {CHOOSE d \in leading : \A e \in leading : Rank(d) <= Rank(e)}

Role(d, D) ==
  IF d.kind = "CONTRADICTING" THEN "CONTRADICTING"
  ELSE IF d.severity = "WARN" THEN "WARNING"
  ELSE IF d.related # {} THEN "RELATED"
  ELSE IF d.kind = "UNDIAGNOSED" THEN "UNDIAGNOSED"
  ELSE IF d \in Primary(D) THEN "PRIMARY"
  ELSE "INDEPENDENT"
=============================================================================
