------------------------------- MODULE Causal -------------------------------
(***************************************************************************)
(* The capability graph and the discriminators of replication/causal.py.   *)
(* A causal chain starts at a symptom and takes one discriminator per      *)
(* step; check_chain refuses a chain whose steps are not edges of the      *)
(* graph, and with a refused chain the whole diagnosis is given up.        *)
(***************************************************************************)
EXTENDS Naturals, Sequences

Capability ==
  {"REPLICATION", "KERBEROS", "PEER_DS", "NETWORK", "LOCAL_DS", "LOCAL_KDC", "AUTHORIZATION", "TLS", "DNS", "TIME",
   "PRINCIPAL", "KEYTAB", "STORAGE", "REPLICA_DATA", "TOPOLOGY"}

(* What a capability may depend on: one hop, never a transitive one.       *)
DEPENDS_ON ==
  [c \in Capability |->
     CASE c = "REPLICATION"   -> {"LOCAL_DS", "DNS", "NETWORK", "PEER_DS", "TLS", "KERBEROS", "AUTHORIZATION",
                                  "REPLICA_DATA"}
       [] c = "KERBEROS"      -> {"LOCAL_KDC", "TIME", "PRINCIPAL", "KEYTAB", "DNS", "NETWORK"}
       [] c = "PEER_DS"       -> {"NETWORK"}
       [] c = "NETWORK"       -> {"DNS"}
       [] c = "LOCAL_DS"      -> {"STORAGE"}
       [] c \in {"LOCAL_KDC", "TOPOLOGY"} -> {"LOCAL_DS"}
       [] c = "AUTHORIZATION" -> {"PRINCIPAL"}
       [] c = "TLS"           -> {"TIME"}
       [] OTHER               -> {}]

(* A discriminator proves one step, from its source to its target.         *)
From(source, target) == [source |-> source, target |-> target]

DISCRIMINATORS ==
  [agreement_status          |-> From("SYMPTOM", "REPLICATION"),
   local_ds_down             |-> From("SYMPTOM", "LOCAL_DS"),
   local_kdc_down            |-> From("SYMPTOM", "LOCAL_KDC"),
   local_storage             |-> From("SYMPTOM", "STORAGE"),
   ds_keytab_local           |-> From("SYMPTOM", "KEYTAB"),
   pair_clock_skew           |-> From("SYMPTOM", "TIME"),
   peer_name_unresolved_now  |-> From("SYMPTOM", "DNS"),
   peer_ds_refused_now       |-> From("SYMPTOM", "PEER_DS"),
   peer_no_ldap_answer_now   |-> From("SYMPTOM", "PEER_DS"),
   peer_tls_fails_now        |-> From("SYMPTOM", "TLS"),
   reverse_acceptor_kerberos |-> From("REPLICATION", "KERBEROS"),
   acceptor_keytab_unusable  |-> From("KERBEROS", "KEYTAB"),
   status_transport          |-> From("REPLICATION", "PEER_DS"),
   peer_ds_refused_host_up   |-> From("REPLICATION", "PEER_DS"),
   peer_name_unresolved      |-> From("REPLICATION", "DNS"),
   peer_unreachable          |-> From("PEER_DS", "NETWORK"),
   status_gssapi             |-> From("REPLICATION", "KERBEROS"),
   kerberos_no_kdc_local_down |-> From("KERBEROS", "LOCAL_KDC"),
   kdc_needs_local_ds        |-> From("LOCAL_KDC", "LOCAL_DS"),
   kerberos_clock_skew       |-> From("KERBEROS", "TIME"),
   kerberos_server_principal_absent |-> From("KERBEROS", "PRINCIPAL"),
   kerberos_local_credentials |-> From("KERBEROS", "KEYTAB"),
   status_invalid_credentials_gssapi |-> From("REPLICATION", "KERBEROS"),
   status_access             |-> From("REPLICATION", "AUTHORIZATION"),
   access_not_a_manager      |-> From("AUTHORIZATION", "PRINCIPAL"),
   status_data               |-> From("REPLICATION", "REPLICA_DATA"),
   status_tls                |-> From("REPLICATION", "TLS"),
   kerberos_49_with_measured_skew |-> From("KERBEROS", "TIME"),
   storage_under_ds          |-> From("LOCAL_DS", "STORAGE")]

(* A link of a chain: the discriminator that justifies it, the capability  *)
(* and the subject it blames, and the steps its evidence comes from.       *)
Link(discriminator, capability, subject, evidence) ==
  [discriminator |-> discriminator, capability |-> capability, subject |-> subject, evidence |-> evidence]

LastLink(links) == links[Len(links)]

(* check_chain: no ChainError.                                             *)
SoundChain(links) ==
  \A i \in DOMAIN links :
    LET link == links[i]
        prev == IF i = 1 THEN "SYMPTOM" ELSE links[i - 1].capability
    IN  /\ link.discriminator \in DOMAIN DISCRIMINATORS
        /\ DISCRIMINATORS[link.discriminator] = From(prev, link.capability)
        /\ i > 1 => link.capability \in DEPENDS_ON[prev]
        /\ link.evidence # {}
=============================================================================
