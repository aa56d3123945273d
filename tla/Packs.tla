------------------------------- MODULE Packs -------------------------------
(***************************************************************************)
(* The rules of the five packs (engine/packs/*.py): what each says of the  *)
(* evidence.  A rule answers with no diagnosis or one; the set it stands   *)
(* for here has at most one element.                                       *)
(***************************************************************************)
EXTENDS Evidence

(* The rules see no finding of a check that crashed (run_diagnosis). *)
Seen(checks) == {f \in findings : f.check \in checks /\ f.says # "crash"}

AtLeast(r, fs)  == {f \in fs : f.rank >= r}
Saying(ws, fs)  == {f \in fs : f.says \in ws}
WorstRank(fs)   == CHOOSE r \in Rank : (\E f \in fs : f.rank = r) /\ \A f \in fs : f.rank <= r
Got(is)         == items \cap is # {}

(* A diagnosis: DIAGNOSED or not, severity, rank of the evidence behind it *)
(* (_evidence_rank), the packs it may be caused by, those it is not,       *)
(* whether it can break others, the findings cited for and against it.     *)
Diagnosis(rule, sure, severity, cites) ==
  [rule |-> rule, sure |-> sure, severity |-> severity, evidence |-> severity, upstream |-> {},
   not_caused_by |-> {}, explains |-> TRUE, cites |-> cites, against |-> {}]

When(fires, diagnosis) == IF fires THEN {diagnosis} ELSE {}

CriticalOrError(fs) == IF WorstRank(fs) = CRITICAL THEN CRITICAL ELSE ERROR

----------------------------------------------------------------------------
(* directory_server.py *)

(* Readings of the two stores of Directory Server's data, /var/lib/dirsrv  *)
(* and /dev/shm: "full" and "roomy" are absolute, "low" is at most 5 %.    *)
Database   == {"data_full", "data_roomy", "data_low", "data_percent"}
Memory     == {"shm_full", "shm_roomy", "shm_low", "shm_percent"}
DataStores == {Database, Memory}
DiskFindings ==
  Seen({"DiskSpaceCheck"}) \cup Saying(Database \cup Memory \cup {"log"}, Seen({"FileSystemSpaceCheck"}))

(* An absolute reading of the store decides; without one, its percentage   *)
(* at ERROR does.                                                          *)
StoreFull(store, percent_too) ==
  LET readings == Saying(store, Seen({"FileSystemSpaceCheck"}))
      absolute == Saying({"data_full", "data_roomy", "shm_full", "shm_roomy"}, readings)
  IN  IF absolute # {}
      THEN Saying({"data_full", "shm_full"}, absolute) # {}
      ELSE percent_too /\ AtLeast(ERROR, Saying({"data_low", "shm_low"}, readings)) # {}

ReallyFull(f) ==
  /\ f.rank >= ERROR
  /\ \/ f.check = "DiskSpaceCheck" /\ f.says = "database" /\ StoreFull(Database, FALSE)
     \/ f.check = "FileSystemSpaceCheck" /\ \E store \in DataStores : f.says \in store /\ StoreFull(store, TRUE)

DiskSpaceExhaustion ==
  LET low      == AtLeast(WARNING, DiskFindings)
      hard     == Got({"no_space"}) \/ AtLeast(ERROR, low) # {}
      severity == IF ~hard THEN WARNING ELSE IF Got({"no_space"}) THEN CRITICAL ELSE CriticalOrError(low)
  IN  When(low # {}, [Diagnosis("disk", hard, severity, low)
                        EXCEPT !.explains = Got({"no_space"}) \/ \E f \in DiskFindings : ReallyFull(f)])

(* A wrong owner, group or mode: "owner" stands for those that can stop     *)
(* Directory Server, "loosened" for the rest.  An answer that rests on the *)
(* files has their rank as evidence, however severe the diagnosis.         *)
OwnershipMismatch ==
  LET files == AtLeast(WARNING, Saying({"owner", "loosened"}, Seen({"IPAFileCheck"})))
      least(a, b) == IF a < b THEN a ELSE b
  IN  IF files # {}
      THEN {[Diagnosis("ownership", TRUE, CriticalOrError(files), files)
               EXCEPT !.evidence = least(WorstRank(files), @),
                      !.explains = Got({"permission_named"}) \/ Saying({"owner"}, files) # {}]}
      ELSE When(Got({"permission", "permission_named"}), Diagnosis("ownership", FALSE, ERROR, {}))

(* The journal shows TLS trouble: of the database's format only if no      *)
(* certificate finding could explain it.                                   *)
NssDbFormat ==
  LET certs  == AtLeast(WARNING, Seen(PackChecks.certs \cup {"NssCheck"}))
      format == Got({"tls_format"}) /\ certs = {}
  IN  When(Got({"tls_format", "tls"}) /\ (format \/ certs # {}),
           [Diagnosis("nss", format, ERROR, {}) EXCEPT !.against = certs])

MissingIndex ==
  LET missing == AtLeast(WARNING, Saying({"DSBLE0007"}, Seen({"BackendsCheck"})))
  IN  When(missing # {}, Diagnosis("index", TRUE, CriticalOrError(missing), missing))

DsCertificateExpiry ==
  LET old == AtLeast(WARNING, Saying({"expired", "expiring"}, Seen({"NssCheck"})))
  IN  When(old # {}, Diagnosis("ds_cert", TRUE, WorstRank(old), old))

----------------------------------------------------------------------------
(* dns.py *)

Stopped(service) == AtLeast(ERROR, Saying({"not running"}, Seen({service})))

(* A crash in the journal counts unless named runs now, and an access error *)
(* only next to a crash or a stopped service: else they are mere trouble.   *)
NamedServiceDown ==
  LET running == Stopped("named") = {} /\ \E f \in Seen({"named"}) : f.rank = 0
      crash   == Got({"named_crash"}) /\ ~running
      aci     == Got({"named_aci"}) /\ ~running /\ (crash \/ Stopped("named") # {})
      down    == aci \/ crash \/ Stopped("named") # {}
      own     == AtLeast(ERROR, Seen({"dirsrv"})) = {}
  IN  IF down
      THEN {[Diagnosis("named", TRUE, CRITICAL, Stopped("named"))
               EXCEPT !.upstream = IF aci THEN {"ds"} ELSE {},
                      !.not_caused_by = IF aci /\ own THEN {"ds"} ELSE {}]}
      ELSE When(Got({"named_crash", "named_aci", "named_trouble"}), Diagnosis("named", FALSE, WARNING, {}))

ForwardZoneConflict ==
  When(Got({"zone_collision", "forward_trouble"}),
       [Diagnosis("forward", Got({"zone_collision"}), ERROR, {}) EXCEPT !.explains = FALSE])

(* Only one finding is cited, one of the worst.  A WARNING alone says nothing; a live  *)
(* lookup that works contradicts the finding, one that fails for the same  *)
(* record confirms it.                                                     *)
SrvAutodiscovery ==
  LET bad    == {f \in AtLeast(WARNING, Seen({"IPADNSSystemRecordsCheck"})) : f.says # "unexpected"}
      worst  == WorstRank(bad)
      broken == Got({"dns_broken"})
  IN  When(bad # {} /\ (worst > WARNING \/ broken),
           Diagnosis("srv", broken, IF broken /\ worst = CRITICAL THEN CRITICAL ELSE ERROR,
                     {CHOOSE f \in bad : f.rank = worst}))

----------------------------------------------------------------------------
(* kerberos.py *)

KeytabFindings == {f \in AtLeast(WARNING, Seen({"IPAHostKeytab"})) : f.says # "missing"}
DnsStyle       == Saying({"resolve", "contact"}, KeytabFindings)
Desynced       == Got({"clock_unsynced", "clock_far"})

(* Two of: the KDC logs skew, the clock is minutes off, the keytab check   *)
(* speaks of time; a clock far off alone does not count.                   *)
ClockSkew ==
  LET others == KeytabFindings \ DnsStyle
      spoken == Saying({"clock"}, others) # {}
      logged == Got({"kdc_clock_skew"})
  IN  When((logged \/ (Desynced /\ spoken)) /\ (Got({"clock_far"}) \/ spoken),
           Diagnosis("skew", TRUE, ERROR, IF spoken THEN others ELSE {}))

KvnoMismatch ==
  LET generic == (KeytabFindings \ DnsStyle) \ Saying({"clock"}, KeytabFindings)
  IN  IF Got({"kvno_mismatch"})
      THEN {Diagnosis("kvno", TRUE, ERROR, KeytabFindings)}
      ELSE When(~Got({"kvno_match"}) /\ generic # {}, Diagnosis("kvno", FALSE, ERROR, generic))

(* The deliberate gaps: a stopped KDC, a skewed clock or a mismatched key  *)
(* explain the finding better, and a working lookup contradicts it.        *)
KdcDiscovery ==
  When(/\ DnsStyle # {}
       /\ Saying({"not running"}, Seen({"krb5kdc"})) = {}
       /\ ~Got({"kdc_clock_skew", "kvno_mismatch"}) /\ ~(Desynced /\ KeytabFindings # DnsStyle)
       /\ Got({"dns_healthy"}) => Saying({"resolve"}, DnsStyle) # {},
       [Diagnosis("kdc", TRUE, CRITICAL, DnsStyle) EXCEPT !.upstream = {"dns"}])

----------------------------------------------------------------------------
(* replication.py *)

(* ReplicationCheck speaks of a peer it names, with the words of a network  *)
(* or an authentication failure or none, or names no peer.                 *)
Triggers ==
  AtLeast(ERROR, Saying({"peer", "refused", "timed_out", "unresolved", "denied", "unnamed"},
                         Seen({"ReplicationCheck"})))
WorstTriggers == AtLeast(WorstRank(Triggers), Triggers)

(* The words of all findings of the source and of the failed binds; for    *)
(* the name, those of the agreements' statuses too.  A peer that refused   *)
(* was found by its name, unless anything says that a name was not found.  *)
Spoken == {f.says : f \in Seen({"ReplicationCheck", "ReplicationConflictCheck"})}
NetworkOnly ==
  /\ {"refused", "timed_out", "unresolved"} \cap Spoken # {} \/ Got({"bind_refused", "bind_elsewhere"})
  /\ "denied" \notin Spoken /\ ~Got({"bind_denied"})
NameResolved ==
  /\ "refused" \in Spoken \/ Got({"bind_refused", "agreement_refused"})
  /\ "unresolved" \notin Spoken /\ ~Got({"agreement_unresolved"})

(* The failures that are about the peer of trigger t; if t names none, the *)
(* failures of the only peer that has any.                                 *)
BindFailures  == {"bind_refused", "bind_denied"}
RedAgreements == {"agreement_red", "agreement_refused", "agreement_unresolved"}
Ambiguous(t) ==
  /\ t.says = "unnamed"
  /\ Got(BindFailures \cup RedAgreements) /\ Got({"bind_elsewhere", "agreement_red_elsewhere"})
Failures(t) ==
  IF Ambiguous(t) THEN {}
  ELSE items \cap (BindFailures \cup RedAgreements
       \cup IF t.says = "unnamed" THEN {"bind_elsewhere", "agreement_red_elsewhere"} ELSE {})

(* Nothing was read of the binds that could clear the peer. *)
BindUnreliable(t) ==
  \/ ~Got({"bind_ok", "bind_elsewhere"} \cup BindFailures)
  \/ Got({"bind_elsewhere"} \cup BindFailures) /\ ~\E i \in Failures(t) : i \in {"bind_elsewhere"} \cup BindFailures

Unread(t) == Failures(t) = {} /\ ~Ambiguous(t) /\ BindUnreliable(t)

(* A replication conflict contradicts a failure: replication did work. *)
Contradicted == Got({"conflict"})

PeerVerdict(t) ==
  CASE Unread(t) \/ Ambiguous(t) -> [sure |-> FALSE, severity |-> t.rank]
    [] Failures(t) # {}          -> [sure |-> ~Contradicted, severity |-> t.rank]
    [] OTHER                     -> [sure |-> FALSE, severity |-> WARNING]    \* all was read and is fine

(* What replication may be a symptom of. *)
ReplicationUpstream ==
  {"dns", "kerberos"} \cup
    IF AtLeast(WARNING, Seen({"DiskSpaceCheck", "FileSystemSpaceCheck"})) # {} THEN {"ds"} ELSE {}

PeerConnectivityBreak(t) ==
  LET verdict == PeerVerdict(t)
  IN  {[Diagnosis("peer", verdict.sure, verdict.severity, {t})
          EXCEPT !.upstream = ReplicationUpstream,
                 !.not_caused_by = IF ~NetworkOnly THEN {}
                                   ELSE {"kerberos"} \cup IF NameResolved THEN {"dns", "ds"} ELSE {}]}

ReplicationConflicts ==
  LET found == AtLeast(WARNING, Seen({"ReplicationConflictCheck"})
                    \cup Saying({"conflicts"}, Seen({"ReplicationCheck"})))
  IN  When(found # {} \/ Got({"conflict"}), Diagnosis("conflicts", Got({"conflict"}), WARNING, found))

(* Replica ids listed as dead, or of unknown state while a finding speaks  *)
(* of stale ones.  A finding that names an id confirms the one entry with  *)
(* that id, one that names none the only entry there is.                   *)
StaleRuv ==
  LET stale      == AtLeast(ERROR, Saying({"stale", "stale_1"}, Seen({"RUVCheck"})))
      candidates == items \cap ({"ruv_dead_1", "ruv_dead_2"} \cup IF stale = {} THEN {} ELSE {"ruv_unknown_1"})
      first      == candidates \cap {"ruv_dead_1", "ruv_unknown_1"}
      named      == IF Cardinality(first) = 1 THEN Saying({"stale_1"}, stale) ELSE {}
      unnamed    == IF Cardinality(candidates) = 1 THEN Saying({"stale"}, stale) ELSE {}
      confirming == IF named # {} THEN named ELSE unnamed
  IN  When(candidates # {}, Diagnosis("ruv", confirming # {}, WARNING, confirming))

TopologyDisconnected ==
  LET broken == AtLeast(ERROR, Saying({"disconnected"}, Seen({"IPATopologyDomainCheck"})))
  IN  When(broken # {},
           [Diagnosis("topology", TRUE, WorstRank(broken), {CHOOSE f \in broken : f.rank = WorstRank(broken)})
              EXCEPT !.upstream = ReplicationUpstream])

----------------------------------------------------------------------------
(* certificates.py *)

Failing == items \cap {"cm_failing", "cm_network", "cm_cms", "cm_trust", "cm_both", "cm_ra"}

(* A request fails for the network (unless the local CA is stopped, or the *)
(* words come from the CA itself), for trust, for both or for neither.     *)
TrustHit   == Got({"cm_trust", "cm_both"})
NetworkHit == Got({"cm_network", "cm_both"}) /\ AtLeast(ERROR, Seen({"pki_tomcatd"})) = {}

CertmongerStuck ==
  When(Failing # {},
       [Diagnosis("stuck", NetworkHit # TrustHit, ERROR, {})
          EXCEPT !.upstream = {"replication"}, !.not_caused_by = IF TrustHit THEN {"certs"} ELSE {}])

ExpiryFindings == AtLeast(WARNING, Saying({"expired", "expiring"}, Seen({"IPACertmongerExpirationCheck"})))

CertificateExpired ==
  When(ExpiryFindings # {},
       Diagnosis("cert_expired", TRUE, IF WorstRank(ExpiryFindings) >= ERROR THEN CRITICAL ELSE WARNING, ExpiryFindings))

(* An ERROR of the RA agent's own check that names the mismatch, or any of  *)
(* its ERRORs next to a refusal in the journal; else a mere suspicion.     *)
RaAgentDesync ==
  LET found == AtLeast(WARNING, Seen({"DogtagCertsConnectivityCheck", "IPARAAgent"}))
      own   == AtLeast(ERROR, Seen({"IPARAAgent"}))
      sure  == Saying({"desync"}, own) # {} \/ (own # {} /\ Got({"pki_denied"}))
  IN  When(found # {} \/ Got({"cm_ra", "pki_denied"}),
           [Diagnosis("ra", sure, IF sure THEN ERROR ELSE WARNING, found)
              EXCEPT !.upstream = {"ds"},
                     !.not_caused_by = IF Saying({"desync"}, Seen({"IPARAAgent"})) # {} THEN {"certs"} ELSE {}])

RenewalMasterUnreachable ==
  LET soon == {f \in ExpiryFindings : f.rank = WARNING}
  IN  When(soon # {} /\ Failing = {} /\ Got({"cm_monitoring"}),
           [Diagnosis("renewal", FALSE, ERROR, soon) EXCEPT !.evidence = WARNING, !.upstream = {"replication"}])

----------------------------------------------------------------------------
OtherAnswers ==
  DiskSpaceExhaustion \cup OwnershipMismatch \cup NssDbFormat \cup MissingIndex
    \cup DsCertificateExpiry \cup NamedServiceDown \cup ForwardZoneConflict \cup SrvAutodiscovery
    \cup ClockSkew \cup KvnoMismatch \cup KdcDiscovery \cup ReplicationConflicts \cup StaleRuv
    \cup TopologyDisconnected \cup CertmongerStuck \cup CertificateExpired \cup RaAgentDesync
    \cup RenewalMasterUnreachable

(* Of several findings of equal rank about a peer the first is the trigger. *)
PackAnswers ==
  IF Triggers = {} THEN {OtherAnswers} ELSE {OtherAnswers \cup PeerConnectivityBreak(t) : t \in WorstTriggers}
=============================================================================
