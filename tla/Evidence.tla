------------------------------ MODULE Evidence ------------------------------
(***************************************************************************)
(* The evidence of server mode (evidence/collect.py): ipa-healthcheck runs *)
(* first and reports findings; then, pack by pack, the targeted collectors *)
(* run whose pack has a finding worse than SUCCESS, and a few always.      *)
(* Whatever could not be collected lowers the level of completeness.       *)
(***************************************************************************)
EXTENDS Naturals, FiniteSets

CONSTANTS
  Reportable,   \* the findings ipa-healthcheck may report in this instance (a check not listed succeeds)
  Yieldable,    \* the items the collectors may yield in this instance
  MaxEvidence   \* bound: findings and items of one run

WARNING  == 1
ERROR    == 2
CRITICAL == 3
Rank     == 0 .. 3           \* SUCCESS, WARNING, ERROR (and unrecognized), CRITICAL

Packs == {"ds", "dns", "kerberos", "replication", "certs"}

Services == {"dirsrv", "krb5kdc", "named", "pki_tomcatd", "certmonger"}

(* The checks whose source a pack declares (healthcheck_sources).  The     *)
(* checks of meta.services are named after the services.                   *)
PackChecks ==
  [ds          |-> {"BackendsCheck", "NssCheck", "DiskSpaceCheck", "FileSystemSpaceCheck", "IPAFileCheck",
                    "ConfigCheck"},
   dns         |-> {"IPADNSSystemRecordsCheck"},
   kerberos    |-> {"IPAHostKeytab"} \cup Services,
   replication |-> {"ReplicationCheck", "ReplicationConflictCheck", "IPATopologyDomainCheck"},
   certs       |-> {"IPACertmongerExpirationCheck", "IPACertmongerCA", "IPARAAgent",
                    "DogtagCertsConnectivityCheck"}]

Check == UNION {PackChecks[p] : p \in Packs} \cup {"RUVCheck"}

(* A finding: its check, how bad it is, and what its message or key says,  *)
(* "crash" if the check raised an exception.                               *)
Says ==
  {"data_full", "data_roomy", "data_low", "data_percent", "shm_full", "shm_roomy", "shm_low", "shm_percent", "log",
   "other_store", "database",
   "owner", "loosened", "expired", "expiring", "DSBLE0007", "not running", "running",
   "missing", "unexpected", "resolve", "contact", "clock",
   "peer", "refused", "timed_out", "unresolved", "denied", "unnamed", "conflicts", "disconnected", "stale", "stale_1",
   "desync", "crash", "other"}

Finding == [check: Check, rank: Rank, says: Says]

(* What each collector can yield, one name for each kind of content the    *)
(* rules tell apart.                                                       *)
Yields ==
  [journal_dirsrv  |-> {"no_space", "permission", "permission_named", "tls_format", "tls"},
   filesystem      |-> {},
   dns_lookup      |-> {"dns_broken", "dns_elsewhere", "dns_healthy"},
   journal_named   |-> {"named_aci", "named_crash", "named_trouble", "zone_collision", "forward_trouble"},
   kerberos_client |-> {"clock_unsynced", "clock_far", "kvno_mismatch", "kvno_match"},
   journal_krb5kdc |-> {"kdc_clock_skew"},
   ldap_query      |-> {"bind_ok", "bind_refused", "bind_denied", "bind_elsewhere", "conflict"},
   replication_agreements
                   |-> {"agreement_red", "agreement_refused", "agreement_unresolved", "agreement_red_elsewhere",
                        "agreement_green", "ruv_dead_1", "ruv_dead_2", "ruv_unknown_1"},
   certmonger      |-> {"cm_failing", "cm_network", "cm_cms", "cm_trust", "cm_both", "cm_ra", "cm_monitoring"},
   journal_pki     |-> {"pki_denied"}]

Collector == DOMAIN Yields
Item      == UNION {Yields[c] : c \in Collector}

Targeted ==
  [ds |-> {"filesystem", "journal_dirsrv"}, dns |-> {"dns_lookup", "journal_named"},
   kerberos |-> {"kerberos_client", "journal_krb5kdc"}, replication |-> {"ldap_query"},
   certs |-> {"certmonger", "journal_pki"}]

Unconditional == {"replication_agreements"}

Level == {"complete", "partial", "insufficient"}

(* Only the checks of meta.services say that a service is not running.     *)
ASSUME EvidenceAssumption ==
  /\ Reportable \subseteq Finding /\ Yieldable \subseteq Item /\ MaxEvidence \in Nat
  /\ \A f \in Reportable : f.says = "not running" => f.check \in Services

VARIABLES
  stage,       \* what is running: "healthcheck", "collectors"; what ran last: "rules", "report"
  findings, items,
  level        \* EvidenceCompleteness.level

evidence == <<findings, items, level>>

----------------------------------------------------------------------------
Room == Cardinality(findings) + Cardinality(items) < MaxEvidence

Report ==
  /\ stage = "healthcheck" /\ Room
  /\ \E f \in Reportable : findings' = findings \cup {f}
  /\ UNCHANGED <<stage, items, level>>

(* It ran in full; or a family of checks is missing from its results; or   *)
(* it failed, or results are unusable, or those of the services missing.   *)
HealthcheckEnds ==
  /\ stage = "healthcheck"
  /\ level' \in Level
  /\ stage' = "collectors"
  /\ UNCHANGED <<findings, items>>

Triggered(p) == \E f \in findings : f.rank >= WARNING /\ f.check \in PackChecks[p]

Planned == Unconditional \cup UNION {Targeted[p] : p \in {q \in Packs : Triggered(q)}}

Collect ==
  /\ stage = "collectors" /\ Room
  /\ \E c \in Planned : \E i \in Yields[c] \cap Yieldable : items' = items \cup {i}
  /\ UNCHANGED <<stage, findings, level>>

(* A collector fails; the items it had are kept (partial_items). *)
CollectorFails ==
  /\ stage = "collectors" /\ level = "complete"
  /\ level' = "partial"
  /\ UNCHANGED <<stage, findings, items>>

CollectEvidence == Report \/ HealthcheckEnds \/ Collect \/ CollectorFails
=============================================================================
