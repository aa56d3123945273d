----------------------------- MODULE MCCorrelate -----------------------------
(* Instances of the server report: the findings and items that meet in the *)
(* rules of more than one pack, and those each rule turns on.              *)
EXTENDS Correlate

F(check, rank, says) == [check |-> check, rank |-> rank, says |-> says]

MCReportable ==
  {F("DiskSpaceCheck", 2, "database"), F("FileSystemSpaceCheck", 2, "data_full"), F("FileSystemSpaceCheck", 1, "data_roomy"),
   F("FileSystemSpaceCheck", 2, "data_low"), F("FileSystemSpaceCheck", 2, "shm_low"),
   F("FileSystemSpaceCheck", 1, "log"), F("IPAFileCheck", 1, "owner"),
   F("IPAFileCheck", 3, "loosened"), F("NssCheck", 1, "expiring"), F("BackendsCheck", 2, "DSBLE0007"),
   F("ConfigCheck", 2, "other"), F("ConfigCheck", 3, "crash"), F("IPACertmongerCA", 3, "crash"),
   F("IPACertmongerCA", 2, "other"),
   F("IPADNSSystemRecordsCheck", 1, "other"), F("IPADNSSystemRecordsCheck", 2, "other"),
   F("IPADNSSystemRecordsCheck", 3, "crash"),
   F("IPAHostKeytab", 2, "resolve"), F("IPAHostKeytab", 2, "contact"), F("IPAHostKeytab", 2, "clock"),
   F("IPAHostKeytab", 2, "other"), F("named", 0, "running"),
   F("ReplicationCheck", 2, "refused"), F("ReplicationCheck", 3, "unnamed"), F("ReplicationCheck", 2, "denied"),
   F("ReplicationCheck", 2, "unresolved"),
   F("ReplicationConflictCheck", 1, "conflicts"), F("IPATopologyDomainCheck", 2, "disconnected"),
   F("RUVCheck", 2, "stale"), F("RUVCheck", 2, "stale_1"),
   F("IPACertmongerExpirationCheck", 1, "expiring"), F("IPACertmongerExpirationCheck", 2, "expired"),
   F("IPARAAgent", 2, "desync"), F("IPARAAgent", 2, "other"), F("DogtagCertsConnectivityCheck", 2, "other")}
    \cup {F(v, 2, "not running") : v \in Services}
=============================================================================
