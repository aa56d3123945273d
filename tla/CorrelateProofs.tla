--------------------------- MODULE CorrelateProofs ---------------------------
(***************************************************************************)
(* Proofs about the server report, for whatever ipa-healthcheck may report *)
(* and the collectors may yield, and however many findings a net quotes.   *)
(***************************************************************************)
EXTENDS Correlate, FiniteSetTheorems, TLAPS

(* The packs each rule's diagnosis may declare as its upstream.            *)
MayFollow(rule) ==
  CASE rule \in {"named", "ra"}         -> {"ds"}
    [] rule = "kdc"                     -> {"dns"}
    [] rule \in {"peer", "topology"}    -> {"dns", "kerberos", "ds"}
    [] rule \in {"stuck", "renewal"}    -> {"replication"}
    [] rule \in Nets                    -> ServiceUpstreams
    [] OTHER                            -> {}

PackRules == UNION {RulesOf[p] : p \in Packs}
Rules     == PackRules \cup DownRules \cup Nets

(* What every diagnosis is, whichever rule gave it: rules that may be an   *)
(* implicit cause rest on evidence as hard as they are severe.             *)
Known(d) ==
  /\ DOMAIN d = {"rule", "sure", "severity", "evidence", "upstream", "not_caused_by", "explains", "cites", "against"}
  /\ d.rule \in Rules /\ d.upstream \subseteq MayFollow(d.rule)
  /\ d.severity \in Rank /\ d.evidence \in 0 .. d.severity
  /\ d.cites \subseteq findings /\ d.against \subseteq findings
  /\ d.rule \in {"disk", "dirsrv", "named", "named_down", "pki_tomcatd"} => d.evidence = d.severity

(* How far a rule is from the bottom of the chain of causes.               *)
Height(rule) ==
  CASE rule = "dirsrv"                                            -> 1
    [] rule \in {"named", "named_down", "krb5kdc", "pki_tomcatd"} -> 2
    [] rule = "srv"                                               -> 3
    [] rule = "kdc"                                               -> 4
    [] rule \in {"peer", "topology"}                              -> 5
    [] rule \in {"stuck", "renewal", "ra"}                        -> 6
    [] rule \in Nets                                              -> 7
    [] OTHER                                                      -> 0

----------------------------------------------------------------------------
(* Rules and packs.                                                        *)

LEMMA DownNames == DownRules = {"dirsrv", "krb5kdc", "named_down", "pki_tomcatd", "certmonger"}
BY DEF DownRules, DownRule, Services

LEMMA PackNames ==
  ASSUME NEW d
  PROVE  /\ d.rule \in RulesOf["ds"] => PackOf(d) = "ds"
         /\ d.rule \in RulesOf["dns"] => PackOf(d) = "dns"
         /\ d.rule \in RulesOf["kerberos"] => PackOf(d) = "kerberos"
         /\ d.rule \in RulesOf["replication"] => PackOf(d) = "replication"
         /\ d.rule \in RulesOf["certs"] => PackOf(d) = "certs"
         /\ d.rule \in DownRules \cup Nets => PackOf(d) = "healthcheck"
<1>1. d.rule \in DownRules \cup Nets => PackOf(d) = "healthcheck"
  BY DEF PackOf
<1>2. ASSUME NEW p \in Packs, d.rule \in RulesOf[p] PROVE PackOf(d) = p
  <2>1. d.rule \notin DownRules \cup Nets
    BY <1>2, DownNames DEF RulesOf, Packs, Nets, CrashNet, OtherNet
  <2>2. \A q \in Packs : d.rule \in RulesOf[q] => q = p
    BY <1>2 DEF RulesOf, Packs
  <2> QED
    BY <1>2, <2>1, <2>2 DEF PackOf
<1> QED
  BY <1>1, <1>2 DEF Packs

(* No cause that counts for a pack stands higher than the pack's own.      *)
LEMMA PackHeight ==
  ASSUME NEW u, u.rule \in Rules
  PROVE  /\ EffectiveOf(u) = "ds" => Height(u.rule) <= 1
         /\ EffectiveOf(u) = "dns" => Height(u.rule) <= 3
         /\ EffectiveOf(u) = "kerberos" => Height(u.rule) <= 4
         /\ EffectiveOf(u) = "replication" => Height(u.rule) <= 5
         /\ EffectiveOf(u) = "certs" => Height(u.rule) <= 6
<1>1. CASE u.rule \in DownRules
  BY <1>1, DownNames DEF EffectiveOf, ServicePack, Height, Nets, CrashNet, OtherNet
<1>2. CASE u.rule \in Nets
  BY <1>2, DownNames, PackNames DEF EffectiveOf, Nets, CrashNet, OtherNet
<1>3. CASE u.rule \in RulesOf["ds"] \cup RulesOf["dns"]
  BY <1>3, DownNames, PackNames DEF EffectiveOf, Height, RulesOf, Nets, CrashNet, OtherNet
<1>4. CASE u.rule \in RulesOf["kerberos"] \cup RulesOf["replication"]
  BY <1>4, DownNames, PackNames DEF EffectiveOf, Height, RulesOf, Nets, CrashNet, OtherNet
<1>5. CASE u.rule \in RulesOf["certs"]
  BY <1>5, DownNames, PackNames DEF EffectiveOf, Height, RulesOf, Nets, CrashNet, OtherNet
<1> QED
  BY <1>1, <1>2, <1>3, <1>4, <1>5 DEF Rules, PackRules, Packs

(* A cause always stands lower than what it causes: no cycles.             *)
LEMMA CandidateLower ==
  ASSUME NEW d, NEW u, Known(d), Known(u), Candidate(d, u)
  PROVE  Height(u.rule) < Height(d.rule)
<1>1. CASE ImplicitCause(d, u)
  <2>1. <<d.rule, u.rule>> \in Implicit
    BY <1>1 DEF ImplicitCause
  <2> QED
    BY <2>1 DEF Implicit, Height, Nets, CrashNet, OtherNet
<1>2. CASE DeclaredCause(d, u)
  <2>1. EffectiveOf(u) \in MayFollow(d.rule)
    BY <1>2 DEF DeclaredCause, Known
  <2>2. Height(u.rule) \in 0 .. 7
    BY DEF Height
  <2> QED
    BY <2>1, <2>2, PackHeight DEF Known, MayFollow, Height, ServiceUpstreams, Nets, CrashNet, OtherNet
<1> QED
  BY <1>1, <1>2 DEF Candidate

(* A cause is a real problem on ERROR evidence, and a confirmed symptom's  *)
(* cause is confirmed.                                                     *)
LEMMA CauseIsReal ==
  ASSUME NEW ds, NEW d \in ds, NEW u \in Causes(d, ds), \A e \in ds : Known(e)
  PROVE  /\ u \in ds /\ u.severity >= ERROR /\ u.evidence >= ERROR
         /\ d.sure => u.sure
<1>1. u \in ds /\ Candidate(d, u) /\ Absorbs(d, u)
  BY DEF Causes
<1>2. ImplicitCause(d, u) => u.evidence = u.severity
  <2> SUFFICES ASSUME ImplicitCause(d, u) PROVE u.evidence = u.severity
    OBVIOUS
  <2>1. u.rule \in {"disk", "dirsrv", "named", "named_down", "pki_tomcatd"}
    BY DEF ImplicitCause, Implicit
  <2> QED
    BY <1>1, <2>1 DEF Known
<1> QED
  BY <1>1, <1>2 DEF Candidate, DeclaredCause, RealProblem, Absorbs

----------------------------------------------------------------------------
(* Every chain of causes ends.                                             *)

(* In a set that has, with every symptom, all its causes, and has symptoms *)
(* of real problems only, some member is no symptom.                       *)
LEMMA ChainEnds ==
  ASSUME NEW ds, \A e \in ds : Known(e), NEW us \in SUBSET ds, us # {},
         \A e \in us : Causes(e, ds) \subseteq us
  PROVE  \E root \in us : Causes(root, ds) = {}
<1> SUFFICES ASSUME \A u \in us : Causes(u, ds) # {} PROVE FALSE
  OBVIOUS
<1>1. ASSUME NEW u \in us PROVE \E v \in us : Height(v.rule) < Height(u.rule)
  <2>1. PICK v \in us : v \in Causes(u, ds)
    OBVIOUS
  <2>2. Candidate(u, v)
    BY <2>1 DEF Causes
  <2> QED
    BY <2>2, CandidateLower
<1> DEFINE at(u) == Height(u.rule)
<1>2. \A u \in us : at(u) \in Nat /\ at(u) <= 7
  BY DEF Height
<1>3. \A u \in us : \E v \in us : at(v) < at(u)
  BY <1>1
<1> HIDE DEF at
<1>4. \A u \in us : at(u) >= 1
  BY <1>2, <1>3
<1>5. \A u \in us : at(u) >= 2
  BY <1>2, <1>3, <1>4
<1>6. \A u \in us : at(u) >= 3
  BY <1>2, <1>3, <1>5
<1>7. \A u \in us : at(u) >= 4
  BY <1>2, <1>3, <1>6
<1>8. \A u \in us : at(u) >= 5
  BY <1>2, <1>3, <1>7
<1>9. \A u \in us : at(u) >= 6
  BY <1>2, <1>3, <1>8
<1>10. \A u \in us : at(u) >= 7
  BY <1>2, <1>3, <1>9
<1> QED
  BY <1>2, <1>3, <1>10

(* The problem a symptom d is blamed on in the end: the report shows it as *)
(* its own.                                                                *)
LEMMA Grounded ==
  ASSUME \A e \in diagnoses : Known(e), NEW d \in Symptoms(diagnoses)
  PROVE  \E root \in Origins(d) :
           /\ root \in RootCandidates(diagnoses)
           /\ root.severity >= ERROR /\ root.evidence >= ERROR
           /\ d.sure => root.sure
<1>1. d \in diagnoses /\ Causes(d, diagnoses) # {}
  BY DEF Symptoms
<1>2. \A e \in diagnoses : Causes(e, diagnoses) \subseteq diagnoses
  BY DEF Causes
<1>3. Causes(d, diagnoses) \subseteq Origins(d)
  BY <1>1, <1>2 DEF Origins, Upwards
<1>4. \A e \in Origins(d) : Causes(e, diagnoses) \subseteq Origins(d)
  BY <1>2 DEF Origins, Upwards
<1>5. PICK root \in Origins(d) : Causes(root, diagnoses) = {}
  BY <1>1, <1>3, <1>4, ChainEnds DEF Origins
<1> DEFINE real == {u \in diagnoses : u.severity >= ERROR /\ u.evidence >= ERROR /\ (d.sure => u.sure)}
<1>6. Upwards(d, real)
  <2>1. Causes(d, diagnoses) \subseteq real
    BY <1>1, CauseIsReal
  <2>2. \A e \in real : Causes(e, diagnoses) \subseteq real
    BY CauseIsReal
  <2> QED
    BY <2>1, <2>2 DEF Upwards
<1>7. root \in real
  BY <1>6 DEF Origins
<1>8. root \in RootCandidates(diagnoses)
  BY <1>5, <1>7 DEF RootCandidates, Symptoms, ERROR, WARNING
<1> QED
  BY <1>7, <1>8

----------------------------------------------------------------------------
(* What the rules answer.                                                  *)

(* The answer of a rule is empty or one diagnosis, which bears its name.   *)
Answers(ds, rule) == \A d \in ds : Known(d) /\ d.rule = rule /\ \A e \in ds : e = d

LEMMA Worst ==
  ASSUME NEW fs, fs \subseteq Finding, fs # {}
  PROVE  /\ WorstRank(fs) \in Rank
         /\ \E f \in fs : f.rank = WorstRank(fs)
         /\ \A f \in fs : f.rank <= WorstRank(fs)
<1> DEFINE worst(r) == (\E f \in fs : f.rank = r) /\ \A f \in fs : f.rank <= r
<1>1. \A f \in fs : f.rank \in Rank
  BY DEF Finding
<1>2. worst(3) \/ worst(2) \/ worst(1) \/ worst(0)
  BY <1>1 DEF Rank
<1>3. \E r \in Rank : worst(r)
  BY <1>2 DEF Rank
<1> QED
  BY <1>3 DEF WorstRank

LEMMA OneAnswer ==
  ASSUME NEW fires, NEW x, fires => Known(x)
  PROVE  Answers(When(fires, x), x.rule)
BY DEF Answers, When

LEMMA PlainKnown ==
  ASSUME NEW rule \in Rules, NEW sure, NEW severity \in Rank, NEW cites \in SUBSET findings
  PROVE  Known(Diagnosis(rule, sure, severity, cites))
BY DEF Known, Diagnosis, Rank

LEMMA DiskAnswers == ASSUME findings \subseteq Finding PROVE Answers(DiskSpaceExhaustion, "disk")
<1> DEFINE low == AtLeast(WARNING, DiskFindings)
           hard == Got({"no_space"}) \/ AtLeast(ERROR, low) # {}
           severity == IF ~hard THEN WARNING ELSE IF Got({"no_space"}) THEN CRITICAL ELSE CriticalOrError(low)
           explains == Got({"no_space"}) \/ \E f \in DiskFindings : ReallyFull(f)
           it == [Diagnosis("disk", hard, severity, low) EXCEPT !.explains = explains]
<1>1. severity \in Rank
  BY DEF Rank, WARNING, ERROR, CRITICAL, CriticalOrError
<1>2. low \subseteq findings
  BY DEF AtLeast, DiskFindings, Seen, Saying
<1>3. DiskSpaceExhaustion = When(low # {}, it)
  BY DEF DiskSpaceExhaustion
<1> HIDE DEF low, hard, severity, explains
<1>4. Known(it) /\ it.rule = "disk"
  BY <1>1, <1>2 DEF Known, Diagnosis, Rank, Rules, PackRules, RulesOf, Packs
<1> QED
  BY <1>3, <1>4, OneAnswer

LEMMA RuleNames ==
  {"disk", "ownership", "nss", "index", "ds_cert", "named", "forward", "srv", "skew", "kvno", "kdc",
   "peer", "conflicts", "ruv", "topology", "stuck", "cert_expired", "ra", "renewal"} \subseteq Rules
BY DEF Rules, PackRules, RulesOf, Packs

LEMMA Follows ==
  /\ MayFollow("named") = {"ds"} /\ MayFollow("ra") = {"ds"} /\ MayFollow("kdc") = {"dns"}
  /\ MayFollow("peer") = {"dns", "kerberos", "ds"} /\ MayFollow("topology") = {"dns", "kerberos", "ds"}
  /\ MayFollow("stuck") = {"replication"} /\ MayFollow("renewal") = {"replication"}
  /\ MayFollow(CrashNet) = ServiceUpstreams /\ MayFollow(OtherNet) = ServiceUpstreams
BY DEF MayFollow, Nets, CrashNet, OtherNet

LEMMA OwnershipAnswers == ASSUME findings \subseteq Finding PROVE Answers(OwnershipMismatch, "ownership")
<1> DEFINE files == AtLeast(WARNING, Saying({"owner", "loosened"}, Seen({"IPAFileCheck"})))
           least(a, b) == IF a < b THEN a ELSE b
           explains == Got({"permission_named"}) \/ Saying({"owner"}, files) # {}
           severity == CriticalOrError(files)
           it == [Diagnosis("ownership", TRUE, severity, files)
                    EXCEPT !.evidence = least(WorstRank(files), @), !.explains = explains]
           unsure == Diagnosis("ownership", FALSE, ERROR, {})
<1>1. files \subseteq findings
  BY DEF AtLeast, Seen, Saying
<1>2. severity \in {2, 3}
  BY DEF CriticalOrError, ERROR, CRITICAL
<1>3. files # {} => WorstRank(files) \in Rank
  BY <1>1, Worst
<1>4. OwnershipMismatch =
        IF files # {} THEN {it} ELSE When(Got({"permission", "permission_named"}), unsure)
  BY DEF OwnershipMismatch
<1> HIDE DEF files, severity, explains
<1>5. files # {} => Known(it) /\ it.rule = "ownership"
  BY <1>1, <1>2, <1>3, RuleNames DEF Known, Diagnosis, Rank
<1>6. Known(unsure) /\ unsure.rule = "ownership"
  BY RuleNames, PlainKnown DEF Rank, ERROR, Diagnosis
<1> HIDE DEF it, unsure
<1> QED
  BY <1>4, <1>5, <1>6 DEF Answers, When

LEMMA NssAnswers == ASSUME findings \subseteq Finding PROVE Answers(NssDbFormat, "nss")
<1> DEFINE certs == AtLeast(WARNING, Seen(PackChecks.certs \cup {"NssCheck"}))
           format == Got({"tls_format"}) /\ certs = {}
           fires == Got({"tls_format", "tls"}) /\ (format \/ certs # {})
           it == [Diagnosis("nss", format, ERROR, {}) EXCEPT !.against = certs]
<1>1. certs \subseteq findings
  BY DEF AtLeast, Seen
<1>2. NssDbFormat = When(fires, it)
  BY DEF NssDbFormat
<1> HIDE DEF certs, format, fires
<1>3. Known(it) /\ it.rule = "nss"
  BY <1>1, RuleNames DEF Known, Diagnosis, Rank, ERROR
<1> QED
  BY <1>2, <1>3, OneAnswer

LEMMA IndexAnswers == ASSUME findings \subseteq Finding PROVE Answers(MissingIndex, "index")
<1> DEFINE missing == AtLeast(WARNING, Saying({"DSBLE0007"}, Seen({"BackendsCheck"})))
           it == Diagnosis("index", TRUE, CriticalOrError(missing), missing)
<1>1. missing \subseteq findings /\ CriticalOrError(missing) \in Rank
  BY DEF AtLeast, Seen, Saying, CriticalOrError, Rank, ERROR, CRITICAL
<1>2. MissingIndex = When(missing # {}, it)
  BY DEF MissingIndex
<1> HIDE DEF missing
<1>3. Known(it) /\ it.rule = "index"
  BY <1>1, RuleNames, PlainKnown DEF Diagnosis
<1> QED
  BY <1>2, <1>3, OneAnswer

LEMMA DsCertAnswers == ASSUME findings \subseteq Finding PROVE Answers(DsCertificateExpiry, "ds_cert")
<1> DEFINE old == AtLeast(WARNING, Saying({"expired", "expiring"}, Seen({"NssCheck"})))
           it == Diagnosis("ds_cert", TRUE, WorstRank(old), old)
<1>1. old \subseteq findings
  BY DEF AtLeast, Seen, Saying
<1>2. DsCertificateExpiry = When(old # {}, it)
  BY DEF DsCertificateExpiry
<1> HIDE DEF old
<1>3. old # {} => Known(it) /\ it.rule = "ds_cert"
  BY <1>1, Worst, RuleNames, PlainKnown DEF Diagnosis
<1>4. it.rule = "ds_cert"
  BY DEF Diagnosis
<1> QED
  BY <1>2, <1>3, <1>4, OneAnswer

LEMMA NamedAnswers == ASSUME findings \subseteq Finding PROVE Answers(NamedServiceDown, "named")
<1> DEFINE running == Stopped("named") = {} /\ \E f \in Seen({"named"}) : f.rank = 0
           crash == Got({"named_crash"}) /\ ~running
           aci == Got({"named_aci"}) /\ ~running /\ (crash \/ Stopped("named") # {})
           down == aci \/ crash \/ Stopped("named") # {}
           own == AtLeast(ERROR, Seen({"dirsrv"})) = {}
           upstream == IF aci THEN {"ds"} ELSE {}
           never == IF aci /\ own THEN {"ds"} ELSE {}
           it == [Diagnosis("named", TRUE, CRITICAL, Stopped("named"))
                    EXCEPT !.upstream = upstream, !.not_caused_by = never]
           unsure == Diagnosis("named", FALSE, WARNING, {})
<1>1. Stopped("named") \subseteq findings
  BY DEF Stopped, AtLeast, Seen, Saying
<1>2. NamedServiceDown = IF down THEN {it} ELSE When(Got({"named_crash", "named_aci", "named_trouble"}), unsure)
  BY DEF NamedServiceDown
<1>5. upstream \subseteq MayFollow("named")
  BY Follows
<1> HIDE DEF aci, down, own, upstream, never
<1>3. Known(it) /\ it.rule = "named"
  BY <1>1, <1>5, RuleNames DEF Known, Diagnosis, Rank, CRITICAL
<1>4. Known(unsure) /\ unsure.rule = "named"
  BY RuleNames, PlainKnown DEF Rank, WARNING, Diagnosis
<1> HIDE DEF it, unsure
<1> QED
  BY <1>2, <1>3, <1>4 DEF Answers, When

LEMMA ForwardAnswers == Answers(ForwardZoneConflict, "forward")
<1> DEFINE sure == Got({"zone_collision"})
           it == [Diagnosis("forward", sure, ERROR, {}) EXCEPT !.explains = FALSE]
<1>1. ForwardZoneConflict = When(Got({"zone_collision", "forward_trouble"}), it)
  BY DEF ForwardZoneConflict
<1> HIDE DEF sure
<1>2. Known(it) /\ it.rule = "forward"
  BY RuleNames DEF Known, Diagnosis, Rank, ERROR
<1> QED
  BY <1>1, <1>2, OneAnswer

LEMMA SrvAnswers == ASSUME findings \subseteq Finding PROVE Answers(SrvAutodiscovery, "srv")
<1> DEFINE bad == {f \in AtLeast(WARNING, Seen({"IPADNSSystemRecordsCheck"})) : f.says # "unexpected"}
           worst == WorstRank(bad)
           broken == Got({"dns_broken"})
           severity == IF broken /\ worst = CRITICAL THEN CRITICAL ELSE ERROR
           one == CHOOSE f \in bad : f.rank = worst
           fires == bad # {} /\ (worst > WARNING \/ broken)
           it == Diagnosis("srv", broken, severity, {one})
<1>1. bad \subseteq findings /\ severity \in Rank
  BY DEF AtLeast, Seen, Rank, ERROR, CRITICAL
<1>2. bad # {} => one \in bad
  BY <1>1, Worst
<1>3. SrvAutodiscovery = When(fires, it)
  BY DEF SrvAutodiscovery
<1>4. fires => {one} \in SUBSET findings
  BY <1>1, <1>2
<1> HIDE DEF bad, severity, one, fires, broken
<1>5. fires => Known(it)
  BY <1>1, <1>4, RuleNames, PlainKnown
<1>6. it.rule = "srv"
  BY DEF Diagnosis
<1> QED
  BY <1>3, <1>5, <1>6, OneAnswer

LEMMA SkewAnswers == ASSUME findings \subseteq Finding PROVE Answers(ClockSkew, "skew")
<1> DEFINE others == KeytabFindings \ DnsStyle
           spoken == Saying({"clock"}, others) # {}
           logged == Got({"kdc_clock_skew"})
           fires == (logged \/ (Desynced /\ spoken)) /\ (Got({"clock_far"}) \/ spoken)
           cites == IF spoken THEN others ELSE {}
           it == Diagnosis("skew", TRUE, ERROR, cites)
<1>1. cites \subseteq findings
  BY DEF KeytabFindings, AtLeast, Seen
<1>2. ClockSkew = When(fires, it)
  BY DEF ClockSkew
<1> HIDE DEF fires, cites
<1>3. Known(it) /\ it.rule = "skew"
  BY <1>1, RuleNames, PlainKnown DEF Diagnosis, Rank, ERROR
<1> QED
  BY <1>2, <1>3, OneAnswer

LEMMA KvnoAnswers == ASSUME findings \subseteq Finding PROVE Answers(KvnoMismatch, "kvno")
<1> DEFINE generic == (KeytabFindings \ DnsStyle) \ Saying({"clock"}, KeytabFindings)
           it == Diagnosis("kvno", TRUE, ERROR, KeytabFindings)
           unsure == Diagnosis("kvno", FALSE, ERROR, generic)
<1>1. KeytabFindings \subseteq findings /\ generic \subseteq findings
  BY DEF KeytabFindings, AtLeast, Seen
<1>2. KvnoMismatch =
        IF Got({"kvno_mismatch"}) THEN {it} ELSE When(~Got({"kvno_match"}) /\ generic # {}, unsure)
  BY DEF KvnoMismatch
<1> HIDE DEF generic
<1>3. Known(it) /\ it.rule = "kvno"
  BY <1>1, RuleNames, PlainKnown DEF Diagnosis, Rank, ERROR
<1>4. Known(unsure) /\ unsure.rule = "kvno"
  BY <1>1, RuleNames, PlainKnown DEF Diagnosis, Rank, ERROR
<1> HIDE DEF it, unsure
<1> QED
  BY <1>2, <1>3, <1>4 DEF Answers, When

LEMMA KdcAnswers == ASSUME findings \subseteq Finding PROVE Answers(KdcDiscovery, "kdc")
<1> DEFINE fires == /\ DnsStyle # {}
                    /\ Saying({"not running"}, Seen({"krb5kdc"})) = {}
                    /\ ~Got({"kdc_clock_skew", "kvno_mismatch"}) /\ ~(Desynced /\ KeytabFindings # DnsStyle)
                    /\ Got({"dns_healthy"}) => Saying({"resolve"}, DnsStyle) # {}
           it == [Diagnosis("kdc", TRUE, CRITICAL, DnsStyle) EXCEPT !.upstream = {"dns"}]
<1>1. DnsStyle \subseteq findings
  BY DEF DnsStyle, KeytabFindings, AtLeast, Seen, Saying
<1>2. KdcDiscovery = When(fires, it)
  BY DEF KdcDiscovery
<1>3. {"dns"} \subseteq MayFollow("kdc")
  BY Follows
<1> HIDE DEF fires
<1>4. Known(it) /\ it.rule = "kdc"
  BY <1>1, <1>3, RuleNames DEF Known, Diagnosis, Rank, CRITICAL
<1> QED
  BY <1>2, <1>4, OneAnswer

LEMMA PeerAnswers ==
  ASSUME findings \subseteq Finding, NEW t \in WorstTriggers
  PROVE  Answers(PeerConnectivityBreak(t), "peer")
<1> DEFINE verdict == PeerVerdict(t)
           never == IF ~NetworkOnly THEN {}
                    ELSE {"kerberos"} \cup IF NameResolved THEN {"dns", "ds"} ELSE {}
           it == [Diagnosis("peer", verdict.sure, verdict.severity, {t})
                    EXCEPT !.upstream = ReplicationUpstream, !.not_caused_by = never]
<1>1. t \in findings /\ t.rank \in Rank
  BY DEF WorstTriggers, Triggers, AtLeast, Seen, Saying, Finding
<1>2. verdict.severity \in Rank
  BY <1>1 DEF PeerVerdict, Rank, WARNING
<1>3. ReplicationUpstream \subseteq MayFollow("peer")
  BY Follows DEF ReplicationUpstream
<1>4. PeerConnectivityBreak(t) = {it}
  BY DEF PeerConnectivityBreak
<1> HIDE DEF verdict, never
<1>5. Known(it) /\ it.rule = "peer"
  BY <1>1, <1>2, <1>3, RuleNames DEF Known, Diagnosis, Rank
<1> QED
  BY <1>4, <1>5 DEF Answers

LEMMA ConflictsAnswers == ASSUME findings \subseteq Finding PROVE Answers(ReplicationConflicts, "conflicts")
<1> DEFINE found == AtLeast(WARNING, Seen({"ReplicationConflictCheck"})
                              \cup Saying({"conflicts"}, Seen({"ReplicationCheck"})))
           it == Diagnosis("conflicts", Got({"conflict"}), WARNING, found)
<1>1. found \subseteq findings
  BY DEF AtLeast, Seen, Saying
<1>2. ReplicationConflicts = When(found # {} \/ Got({"conflict"}), it)
  BY DEF ReplicationConflicts
<1> HIDE DEF found
<1>3. Known(it) /\ it.rule = "conflicts"
  BY <1>1, RuleNames, PlainKnown DEF Diagnosis, Rank, WARNING
<1> QED
  BY <1>2, <1>3, OneAnswer

LEMMA RuvAnswers == ASSUME findings \subseteq Finding PROVE Answers(StaleRuv, "ruv")
<1> DEFINE stale == AtLeast(ERROR, Saying({"stale", "stale_1"}, Seen({"RUVCheck"})))
           candidates == items \cap ({"ruv_dead_1", "ruv_dead_2"} \cup IF stale = {} THEN {} ELSE {"ruv_unknown_1"})
           first == candidates \cap {"ruv_dead_1", "ruv_unknown_1"}
           named == IF Cardinality(first) = 1 THEN Saying({"stale_1"}, stale) ELSE {}
           unnamed == IF Cardinality(candidates) = 1 THEN Saying({"stale"}, stale) ELSE {}
           confirming == IF named # {} THEN named ELSE unnamed
           it == Diagnosis("ruv", confirming # {}, WARNING, confirming)
<1>1. stale \subseteq findings
  BY DEF AtLeast, Seen, Saying
<1>2. StaleRuv = When(candidates # {}, it)
  BY DEF StaleRuv
<1> HIDE DEF stale, candidates
<1>3. confirming \subseteq findings
  BY <1>1 DEF Saying
<1> HIDE DEF confirming
<1>4. Known(it) /\ it.rule = "ruv"
  BY <1>3, RuleNames, PlainKnown DEF Diagnosis, Rank, WARNING
<1> QED
  BY <1>2, <1>4, OneAnswer

LEMMA TopologyAnswers == ASSUME findings \subseteq Finding PROVE Answers(TopologyDisconnected, "topology")
<1> DEFINE broken == AtLeast(ERROR, Saying({"disconnected"}, Seen({"IPATopologyDomainCheck"})))
           one == CHOOSE f \in broken : f.rank = WorstRank(broken)
           severity == WorstRank(broken)
           it == [Diagnosis("topology", TRUE, severity, {one}) EXCEPT !.upstream = ReplicationUpstream]
<1>1. broken \subseteq findings
  BY DEF AtLeast, Seen, Saying
<1>2. broken # {} => one \in findings /\ severity \in Rank
  BY <1>1, Worst
<1>3. ReplicationUpstream \subseteq MayFollow("topology")
  BY Follows DEF ReplicationUpstream
<1>4. TopologyDisconnected = When(broken # {}, it)
  BY DEF TopologyDisconnected
<1> HIDE DEF broken, one, severity
<1>5. broken # {} => Known(it)
  BY <1>2, <1>3, RuleNames DEF Known, Diagnosis, Rank
<1>6. it.rule = "topology"
  BY DEF Diagnosis
<1> QED
  BY <1>4, <1>5, <1>6, OneAnswer

LEMMA StuckAnswers == Answers(CertmongerStuck, "stuck")
<1> DEFINE sure == NetworkHit # TrustHit
           never == IF TrustHit THEN {"certs"} ELSE {}
           it == [Diagnosis("stuck", sure, ERROR, {}) EXCEPT !.upstream = {"replication"}, !.not_caused_by = never]
<1>1. CertmongerStuck = When(Failing # {}, it)
  BY DEF CertmongerStuck
<1>2. {"replication"} \subseteq MayFollow("stuck")
  BY Follows
<1> HIDE DEF sure, never
<1>3. Known(it) /\ it.rule = "stuck"
  BY <1>2, RuleNames DEF Known, Diagnosis, Rank, ERROR
<1> QED
  BY <1>1, <1>3, OneAnswer

LEMMA ExpiredAnswers == ASSUME findings \subseteq Finding PROVE Answers(CertificateExpired, "cert_expired")
<1> DEFINE severity == IF WorstRank(ExpiryFindings) >= ERROR THEN CRITICAL ELSE WARNING
           it == Diagnosis("cert_expired", TRUE, severity, ExpiryFindings)
<1>1. ExpiryFindings \subseteq findings /\ severity \in Rank
  BY DEF ExpiryFindings, AtLeast, Seen, Saying, Rank, WARNING, CRITICAL
<1>2. CertificateExpired = When(ExpiryFindings # {}, it)
  BY DEF CertificateExpired
<1> HIDE DEF severity
<1>3. Known(it) /\ it.rule = "cert_expired"
  BY <1>1, RuleNames, PlainKnown DEF Diagnosis
<1> QED
  BY <1>2, <1>3, OneAnswer

LEMMA RaAnswers == ASSUME findings \subseteq Finding PROVE Answers(RaAgentDesync, "ra")
<1> DEFINE found == AtLeast(WARNING, Seen({"DogtagCertsConnectivityCheck", "IPARAAgent"}))
           own == AtLeast(ERROR, Seen({"IPARAAgent"}))
           sure == Saying({"desync"}, own) # {} \/ (own # {} /\ Got({"pki_denied"}))
           never == IF Saying({"desync"}, Seen({"IPARAAgent"})) # {} THEN {"certs"} ELSE {}
           severity == IF sure THEN ERROR ELSE WARNING
           fires == found # {} \/ Got({"cm_ra", "pki_denied"})
           it == [Diagnosis("ra", sure, severity, found) EXCEPT !.upstream = {"ds"}, !.not_caused_by = never]
<1>1. found \subseteq findings /\ severity \in Rank
  BY DEF AtLeast, Seen, Saying, Rank, WARNING, ERROR
<1>2. RaAgentDesync = When(fires, it)
  BY DEF RaAgentDesync
<1>3. {"ds"} \subseteq MayFollow("ra")
  BY Follows
<1> HIDE DEF found, sure, never, severity, fires
<1>4. Known(it) /\ it.rule = "ra"
  BY <1>1, <1>3, RuleNames DEF Known, Diagnosis, Rank
<1> QED
  BY <1>2, <1>4, OneAnswer

LEMMA RenewalAnswers == ASSUME findings \subseteq Finding PROVE Answers(RenewalMasterUnreachable, "renewal")
<1> DEFINE soon == {f \in ExpiryFindings : f.rank = WARNING}
           fires == soon # {} /\ Failing = {} /\ Got({"cm_monitoring"})
           it == [Diagnosis("renewal", FALSE, ERROR, soon) EXCEPT !.evidence = WARNING, !.upstream = {"replication"}]
<1>1. soon \subseteq findings
  BY DEF ExpiryFindings, AtLeast, Seen, Saying
<1>2. RenewalMasterUnreachable = When(fires, it)
  BY DEF RenewalMasterUnreachable
<1>3. {"replication"} \subseteq MayFollow("renewal")
  BY Follows
<1> HIDE DEF soon, fires
<1>4. Known(it) /\ it.rule = "renewal"
  BY <1>1, <1>3, RuleNames DEF Known, Diagnosis, Rank, ERROR, WARNING
<1> QED
  BY <1>2, <1>4, OneAnswer

LEMMA OtherKnown ==
  ASSUME findings \subseteq Finding
  PROVE  \A d \in OtherAnswers :
           /\ Known(d) /\ d.rule \in PackRules \ {"peer"}
           /\ \A e \in OtherAnswers : e.rule = d.rule => e = d
<1>1. \A d \in OtherAnswers :
        /\ Known(d) /\ d.rule # "peer"
        /\ \A e \in OtherAnswers : e.rule = d.rule => e = d
  BY DiskAnswers, OwnershipAnswers, NssAnswers, IndexAnswers, DsCertAnswers, NamedAnswers, ForwardAnswers,
     SrvAnswers, SkewAnswers, KvnoAnswers, KdcAnswers, ConflictsAnswers, RuvAnswers, TopologyAnswers,
     StuckAnswers, ExpiredAnswers, RaAnswers, RenewalAnswers
  DEF OtherAnswers, Answers
<1>2. \A d \in OtherAnswers :
        d.rule \in {"disk", "ownership", "nss", "index", "ds_cert", "named", "forward", "srv", "skew", "kvno", "kdc",
                    "conflicts", "ruv", "topology", "stuck", "cert_expired", "ra", "renewal"}
  BY DiskAnswers, OwnershipAnswers, NssAnswers, IndexAnswers, DsCertAnswers, NamedAnswers, ForwardAnswers,
     SrvAnswers, SkewAnswers, KvnoAnswers, KdcAnswers, ConflictsAnswers, RuvAnswers, TopologyAnswers,
     StuckAnswers, ExpiredAnswers, RaAnswers, RenewalAnswers
  DEF OtherAnswers, Answers
<1>3. {"disk", "ownership", "nss", "index", "ds_cert", "named", "forward", "srv", "skew", "kvno", "kdc",
       "conflicts", "ruv", "topology", "stuck", "cert_expired", "ra", "renewal"}
        \subseteq PackRules
  BY DEF PackRules, RulesOf, Packs
<1> QED
  BY <1>1, <1>2, <1>3

LEMMA PacksKnown ==
  ASSUME findings \subseteq Finding, NEW ds \in PackAnswers
  PROVE  \A d \in ds :
           /\ Known(d) /\ d.rule \in PackRules
           /\ \A e \in ds : e.rule = d.rule => e = d
<1>1. CASE ds = OtherAnswers
  BY <1>1, OtherKnown
<1>2. ASSUME NEW t \in WorstTriggers, ds = OtherAnswers \cup PeerConnectivityBreak(t)
      PROVE  \A d \in ds :
               /\ Known(d) /\ d.rule \in PackRules
               /\ \A e \in ds : e.rule = d.rule => e = d
  <2>1. "peer" \in PackRules
    BY DEF PackRules, RulesOf, Packs
  <2> QED
    BY <1>2, <2>1, OtherKnown, PeerAnswers DEF Answers
<1> QED
  BY <1>1, <1>2 DEF PackAnswers

LEMMA ServiceKnown ==
  ASSUME NEW ds, findings \subseteq Finding, NEW f \in StoppedUnclaimed(ds)
  PROVE  /\ Known(ServiceDiagnosis(f))
         /\ ServiceDiagnosis(f).rule = DownRule(f.check) /\ DownRule(f.check) \in DownRules
         /\ ServiceDiagnosis(f).cites = {f}
<1>1. f \in findings /\ f.check \in Services
  BY DEF StoppedUnclaimed, Unclaimed, AtLeast
<1>2. DownRule(f.check) \in DownRules /\ DownRule(f.check) \in Rules
  BY <1>1 DEF DownRules, Rules
<1> DEFINE severity == IF f.check = "certmonger" THEN ERROR ELSE CRITICAL
<1>3. severity \in Rank
  BY DEF Rank, ERROR, CRITICAL
<1>4. Known(Diagnosis(DownRule(f.check), TRUE, severity, {f}))
  BY <1>1, <1>2, <1>3, PlainKnown
<1> QED
  BY <1>2, <1>4 DEF ServiceDiagnosis, Diagnosis

LEMMA NetKnown ==
  ASSUME NEW ds, findings \subseteq Finding, NEW net \in Nets, NEW quoted \in Quotes(net, ds)
  PROVE  /\ \A d \in NetDiagnosis(net, ds, quoted) :
              /\ Known(d) /\ d.rule = net
              /\ \A e \in NetDiagnosis(net, ds, quoted) : e = d
         /\ \A f \in Caught(net, ds) : \E d \in NetDiagnosis(net, ds, quoted) : d.rule = net /\ d.severity >= f.rank
<1> DEFINE severity == WorstRank(Caught(net, ds))
           it == [Diagnosis(net, FALSE, severity, quoted) EXCEPT !.upstream = ServiceUpstreams]
<1>1. Caught(net, ds) \subseteq findings /\ quoted \subseteq Caught(net, ds)
  BY DEF Caught, Unclaimed, AtLeast, Quotes
<1>2. NetDiagnosis(net, ds, quoted) = IF quoted # {} THEN {it} ELSE {}
  BY DEF NetDiagnosis, When
<1>3. Caught(net, ds) # {} => quoted # {}
  <2> SUFFICES ASSUME quoted = {} PROVE quoted = Caught(net, ds)
    OBVIOUS
  <2>1. Cardinality({}) # MaxGrouped
    BY FS_EmptySet, CorrelateAssumption
  <2> QED
    BY <2>1 DEF Quotes
<1>4. Caught(net, ds) # {} => severity \in Rank /\ \A f \in Caught(net, ds) : severity >= f.rank
  <2>1. \A f \in Caught(net, ds) : f.rank \in Nat
    BY <1>1 DEF Finding, Rank
  <2> QED
    BY <1>1, <2>1, Worst DEF Rank
<1>5. net \in Rules /\ ServiceUpstreams \subseteq MayFollow(net)
  BY Follows DEF Rules, Nets
<1>6. it.rule = net /\ it.severity = severity
  BY DEF Diagnosis
<1> HIDE DEF severity
<1>7. quoted # {} => Known(it)
  BY <1>1, <1>4, <1>5 DEF Known, Diagnosis, Rank, Nets, CrashNet, OtherNet
<1> HIDE DEF it
<1> QED
  BY <1>2, <1>3, <1>4, <1>6, <1>7

----------------------------------------------------------------------------
(* The inductive invariant: what was gathered is reportable, what is       *)
(* diagnosed is of the known rules, each once, and answers every ERROR;    *)
(* a report is what build_report makes of that.                            *)

Gathered ==
  /\ stage \in {"healthcheck", "collectors", "rules", "report"}
  /\ findings \subseteq Reportable /\ items \subseteq Item /\ level \in Level
  /\ stage \in {"healthcheck", "collectors"} => diagnoses = {}

OneEach(ds) == \A d \in ds : Known(d) /\ \A e \in ds : e.rule = d.rule => e = d

AnsweredBy(f, d) ==
  \/ f \in d.cites \cup d.against
  \/ f.says = "not running" /\ d.rule = DownRule(f.check)
  \/ d.rule \in Nets /\ d.severity >= f.rank

AllAnswered(ds) == \A f \in AtLeast(ERROR, findings) : \E d \in ds : AnsweredBy(f, d)

Leading(ds) == IF RootCandidates(ds) = {} THEN {{}} ELSE {{d} : d \in Leaders(ds)}

Built ==
  \E leader \in Leading(diagnoses) :
    /\ priority = [d \in diagnoses |-> PriorityOf(d, leader, diagnoses)]
    /\ status = ApplyCompleteness(OverallStatus(leader, diagnoses), diagnoses)

IInv ==
  /\ Gathered /\ OneEach(diagnoses) /\ status \in Status
  /\ stage \in {"rules", "report"} => AllAnswered(diagnoses)
  /\ Reported => Built

LEMMA ReportableAreFindings == Reportable \subseteq Finding
BY EvidenceAssumption DEF EvidenceAssumption

(* What the rules and the nets answer together.                            *)
LEMMA DiagnosedOnce ==
  ASSUME findings \subseteq Reportable, NEW ds \in PackAnswers,
         NEW c \in Quotes(CrashNet, ds), NEW o \in Quotes(OtherNet, ds), NEW stopped \in Firsts(ds)
  PROVE  OneEach(ds \cup {ServiceDiagnosis(f) : f \in stopped}
                    \cup NetDiagnosis(CrashNet, ds, c) \cup NetDiagnosis(OtherNet, ds, o))
<1> DEFINE services == {ServiceDiagnosis(f) : f \in stopped}
           crashes == NetDiagnosis(CrashNet, ds, c)
           others == NetDiagnosis(OtherNet, ds, o)
<1>1. findings \subseteq Finding
  BY ReportableAreFindings
<1>2. \A d \in ds : Known(d) /\ d.rule \in PackRules /\ \A e \in ds : e.rule = d.rule => e = d
  BY <1>1, PacksKnown
<1>3. \A d \in services : Known(d) /\ d.rule \in DownRules /\ \A e \in services : e.rule = d.rule => e = d
  <2> SUFFICES ASSUME NEW f \in stopped, NEW g \in stopped
               PROVE  /\ Known(ServiceDiagnosis(f)) /\ ServiceDiagnosis(f).rule \in DownRules
                      /\ ServiceDiagnosis(g).rule = ServiceDiagnosis(f).rule => f = g
    OBVIOUS
  <2>1. f \in StoppedUnclaimed(ds) /\ g \in StoppedUnclaimed(ds)
    BY DEF Firsts
  <2>2. f.check \in Services /\ g.check \in Services
    BY <2>1 DEF StoppedUnclaimed
  <2>3. DownRule(f.check) = DownRule(g.check) => f.check = g.check
    BY <2>2 DEF DownRule, Services
  <2>4. f.check = g.check => f = g
    BY <2>1 DEF Firsts
  <2> QED
    BY <1>1, <2>1, <2>3, <2>4, ServiceKnown
<1>4. \A d \in crashes : Known(d) /\ d.rule = CrashNet /\ \A e \in crashes : e = d
  BY <1>1, NetKnown DEF Nets
<1>5. \A d \in others : Known(d) /\ d.rule = OtherNet /\ \A e \in others : e = d
  BY <1>1, NetKnown DEF Nets
<1>6. /\ CrashNet # OtherNet /\ CrashNet \notin PackRules \cup DownRules /\ OtherNet \notin PackRules \cup DownRules
      /\ PackRules \cap DownRules = {}
  BY DownNames DEF PackRules, RulesOf, Packs, CrashNet, OtherNet
<1> DEFINE all == ds \cup services \cup crashes \cup others
<1> HIDE DEF services, crashes, others
<1>7. \A d \in all : Known(d)
  BY <1>2, <1>3, <1>4, <1>5
<1>8. \A d, e \in all : e.rule = d.rule =>
        \/ d \in ds /\ e \in ds
        \/ d \in services /\ e \in services
        \/ d \in crashes /\ e \in crashes
        \/ d \in others /\ e \in others
  BY <1>2, <1>3, <1>4, <1>5, <1>6
<1>9. OneEach(all)
  BY <1>2, <1>3, <1>4, <1>5, <1>7, <1>8 DEF OneEach
<1> QED
  BY <1>9 DEF services, crashes, others

LEMMA DiagnosedAll ==
  ASSUME findings \subseteq Reportable, NEW ds \in PackAnswers,
         NEW c \in Quotes(CrashNet, ds), NEW o \in Quotes(OtherNet, ds), NEW stopped \in Firsts(ds)
  PROVE  AllAnswered(ds \cup {ServiceDiagnosis(f) : f \in stopped}
                        \cup NetDiagnosis(CrashNet, ds, c) \cup NetDiagnosis(OtherNet, ds, o))
<1> DEFINE all == ds \cup {ServiceDiagnosis(f) : f \in stopped}
                     \cup NetDiagnosis(CrashNet, ds, c) \cup NetDiagnosis(OtherNet, ds, o)
<1> SUFFICES ASSUME NEW f \in AtLeast(ERROR, findings) PROVE \E d \in all : AnsweredBy(f, d)
  BY DEF AllAnswered
<1>1. findings \subseteq Finding
  BY ReportableAreFindings
<1>2. f \in findings
  BY DEF AtLeast
<1>3. CASE f \notin Unclaimed(ds)
  BY <1>3 DEF Unclaimed, AnsweredBy
<1>4. CASE f \in Unclaimed(ds) /\ f.says = "not running"
  <2>1. f.check \in Services
    BY <1>2, <1>4, EvidenceAssumption DEF EvidenceAssumption
  <2>2. f \in StoppedUnclaimed(ds)
    BY <1>4, <2>1 DEF StoppedUnclaimed
  <2>3. PICK first \in stopped : first.check = f.check
    BY <2>2 DEF Firsts
  <2>4. ServiceDiagnosis(first).rule = DownRule(f.check)
    BY <2>3, <1>1, ServiceKnown DEF Firsts
  <2> QED
    BY <1>4, <2>3, <2>4 DEF AnsweredBy
<1>5. CASE f \in Unclaimed(ds) /\ f.says # "not running"
  <2>1. f \in Caught(CrashNet, ds) \/ f \in Caught(OtherNet, ds)
    BY <1>5 DEF Caught, CrashNet, OtherNet
  <2>2. \E d \in NetDiagnosis(CrashNet, ds, c) \cup NetDiagnosis(OtherNet, ds, o) : d.rule \in Nets /\ d.severity >= f.rank
    BY <1>1, <2>1, NetKnown DEF Nets
  <2> QED
    BY <2>2 DEF AnsweredBy
<1> QED
  BY <1>3, <1>4, <1>5

(* Only the severity of a certmonger that is back changes afterwards.       *)
LEMMA AfterStartKeeps ==
  ASSUME NEW ds, OneEach(ds), AllAnswered(ds)
  PROVE  OneEach({AfterStart(d) : d \in ds}) /\ AllAnswered({AfterStart(d) : d \in ds})
<1>1. ASSUME NEW d \in ds
      PROVE  /\ Known(AfterStart(d)) /\ AfterStart(d).rule = d.rule
             /\ AfterStart(d).cites = d.cites /\ AfterStart(d).against = d.against
             /\ d.rule \in Nets => AfterStart(d) = d
  <2>1. Known(d)
    BY DEF OneEach
  <2>2. CASE started /\ d.rule = "certmonger"
    <3> DEFINE it == [d EXCEPT !.severity = WARNING, !.evidence = WARNING]
    <3>1. AfterStart(d) = it
      BY <2>2 DEF AfterStart
    <3>2. Known(it) /\ it.rule = d.rule /\ it.cites = d.cites /\ it.against = d.against
      BY <2>1, <2>2 DEF Known, Rank, WARNING
    <3> QED
      BY <2>2, <3>1, <3>2 DEF Nets, CrashNet, OtherNet
  <2>3. CASE ~(started /\ d.rule = "certmonger")
    BY <2>1, <2>3 DEF AfterStart
  <2> QED
    BY <2>2, <2>3
<1>2. OneEach({AfterStart(d) : d \in ds})
  BY <1>1 DEF OneEach
<1>3. \A f : \A d \in ds : AnsweredBy(f, d) => AnsweredBy(f, AfterStart(d))
  BY <1>1 DEF AnsweredBy
<1> QED
  BY <1>2, <1>3 DEF AllAnswered

LEMMA StatusKind ==
  ASSUME NEW leader, NEW ds
  PROVE  ApplyCompleteness(OverallStatus(leader, ds), ds) \in Status
<1>1. OverallStatus(leader, ds) \in {"HEALTHY", "UNKNOWN", "CRITICAL", "DEGRADED"}
  BY DEF OverallStatus
<1> QED
  BY <1>1 DEF ApplyCompleteness, Status

LEMMA InitHolds == Init => IInv
BY DEF Init, IInv, Gathered, OneEach, Status, Level, Reported

LEMMA GatherHolds == IInv /\ Gather => IInv'
<1> SUFFICES ASSUME IInv, Gather PROVE IInv'
  OBVIOUS
<1>1. UNCHANGED <<diagnoses, started, priority, status>>
  BY DEF Gather
<1>2. stage \in {"healthcheck", "collectors"} /\ stage' \in {"healthcheck", "collectors"}
  BY DEF Gather, CollectEvidence, Report, HealthcheckEnds, Collect, CollectorFails
<1>3. findings' \subseteq Reportable /\ items' \subseteq Item /\ level' \in Level
  BY EvidenceAssumption DEF EvidenceAssumption, IInv, Gathered, Gather, CollectEvidence, Report,
       HealthcheckEnds, Collect, CollectorFails, Level
<1>4. diagnoses' = {}
  BY <1>1, <1>2 DEF IInv, Gathered
<1> QED
  BY <1>1, <1>2, <1>3, <1>4 DEF IInv, Gathered, OneEach, Reported

LEMMA DiagnoseHolds == IInv /\ Diagnose => IInv'
<1> SUFFICES ASSUME IInv, Diagnose PROVE IInv'
  OBVIOUS
<1>1. UNCHANGED <<findings, items, level, priority, status>> /\ stage' = "rules"
  BY DEF Diagnose
<1>2. OneEach(diagnoses') /\ AllAnswered(diagnoses')
  BY DiagnosedOnce, DiagnosedAll DEF Diagnose, IInv, Gathered
<1>3. OneEach(diagnoses)'
  BY <1>1, <1>2 DEF OneEach, Known
<1>4. AllAnswered(diagnoses)'
  BY <1>1, <1>2 DEF AllAnswered
<1> QED
  BY <1>1, <1>3, <1>4 DEF IInv, Gathered, Reported

LEMMA BuildHolds == IInv /\ BuildReport => IInv'
<1> SUFFICES ASSUME IInv, BuildReport PROVE IInv'
  OBVIOUS
<1>1. UNCHANGED <<findings, items, level, started>> /\ stage' = "report"
  BY DEF BuildReport
<1>2. OneEach(diagnoses') /\ AllAnswered(diagnoses')
  BY AfterStartKeeps DEF BuildReport, IInv
<1>3. OneEach(diagnoses)'
  BY <1>1, <1>2 DEF OneEach, Known
<1>4. AllAnswered(diagnoses)'
  BY <1>1, <1>2 DEF AllAnswered
<1>5. PICK leader \in Leading(diagnoses') :
        /\ priority' = [d \in diagnoses' |-> PriorityOf(d, leader, diagnoses')]
        /\ status' = ApplyCompleteness(OverallStatus(leader, diagnoses'), diagnoses')
  BY DEF BuildReport, Leading
<1>6. status' \in Status
  BY <1>5, StatusKind
<1>7. Built'
  BY <1>1, <1>5 DEF Built, ApplyCompleteness, Undiagnosed
<1> QED
  BY <1>1, <1>3, <1>4, <1>6, <1>7 DEF IInv, Gathered, Reported

LEMMA StepHolds == IInv /\ [Next]_vars => IInv'
<1>1. IInv /\ UNCHANGED vars => IInv'
  <2> SUFFICES ASSUME IInv, UNCHANGED vars PROVE IInv'
    OBVIOUS
  <2>1. UNCHANGED vars
    OBVIOUS
  <2>3. OneEach(diagnoses)'
    BY <2>1 DEF IInv, vars, OneEach, Known
  <2>4. stage \in {"rules", "report"} => AllAnswered(diagnoses)'
    BY <2>1 DEF IInv, vars, AllAnswered
  <2>5. Reported => Built'
    BY <2>1 DEF IInv, vars, Built, ApplyCompleteness, Undiagnosed
  <2> QED
    BY <2>1, <2>3, <2>4, <2>5 DEF IInv, vars, Gathered, Reported
<1> QED
  BY <1>1, GatherHolds, DiagnoseHolds, BuildHolds DEF Next

LEMMA Inductive == Spec => []IInv
BY InitHolds, StepHolds, PTL DEF Spec

----------------------------------------------------------------------------
(* The theorems.                                                           *)

(* The shape of what a server run gathers and reports: every diagnosis     *)
(* cites findings of this run, none is said to rest on more than its       *)
(* severity, and no rule has two diagnoses in one report.                  *)
THEOREM TypeCorrect == Spec => []TypeOK
<1>1. IInv => TypeOK
  <2> SUFFICES ASSUME IInv PROVE TypeOK
    OBVIOUS
  <2>1. findings \subseteq Finding
    BY ReportableAreFindings DEF IInv, Gathered
  <2>2. \A d \in diagnoses :
          /\ d.rule \in DownRules \cup Nets \cup PackRules
          /\ d.severity \in Rank /\ d.evidence \in 0 .. d.severity
          /\ d.cites \cup d.against \subseteq findings
          /\ \A e \in diagnoses : e.rule = d.rule => e = d
    BY DEF IInv, OneEach, Known, Rules
  <2>3. Reported => priority \in [diagnoses -> Priority]
    <3> SUFFICES ASSUME Reported PROVE priority \in [diagnoses -> Priority]
      OBVIOUS
    <3>1. PICK leader \in Leading(diagnoses) : priority = [d \in diagnoses |-> PriorityOf(d, leader, diagnoses)]
      BY DEF IInv, Built
    <3>2. \A d \in diagnoses : PriorityOf(d, leader, diagnoses) \in Priority
      BY DEF PriorityOf, Priority
    <3> QED
      BY <3>1, <3>2
  <2> QED
    BY <2>1, <2>2, <2>3 DEF IInv, Gathered, TypeOK, PackRules
<1> QED
  BY <1>1, Inductive, PTL

(* What a report puts in front.                                            *)
LEMMA ReportShape ==
  ASSUME IInv, Reported
  PROVE  \E leader \in Leading(diagnoses) :
           /\ leader \subseteq RootCandidates(diagnoses)
           /\ \A d \in diagnoses :
                /\ priority[d] = "RELATED_SYMPTOM" => d \in Symptoms(diagnoses)
                /\ d \in RootCandidates(diagnoses) => priority[d] \in {"PRIMARY", "SECONDARY"}
                /\ priority[d] = "PRIMARY" <=> d \in leader
<1>1. PICK leader \in Leading(diagnoses) : priority = [d \in diagnoses |-> PriorityOf(d, leader, diagnoses)]
  BY DEF IInv, Built
<1>2. leader \subseteq RootCandidates(diagnoses)
  BY DEF Leading, Leaders, SureFirst, HardFirst
<1>3. RootCandidates(diagnoses) \cap Symptoms(diagnoses) = {}
  BY DEF RootCandidates
<1>4. \A d \in diagnoses :
        /\ priority[d] = "RELATED_SYMPTOM" => d \in Symptoms(diagnoses)
        /\ d \in RootCandidates(diagnoses) => priority[d] \in {"PRIMARY", "SECONDARY"}
        /\ priority[d] = "PRIMARY" <=> d \in leader
  BY <1>1, <1>2, <1>3 DEF PriorityOf
<1> QED
  BY <1>2, <1>4

(* A diagnosis is shown as a mere symptom only if its chain of causes ends *)
(* in a real problem that the report shows as its own: no diagnoses excuse *)
(* each other in a circle (_demote_via_causality).                         *)
THEOREM GroundedCorrect == Spec => []SymptomsGrounded
<1>1. IInv => SymptomsGrounded
  <2> SUFFICES ASSUME IInv, Reported, NEW d \in diagnoses, priority[d] = "RELATED_SYMPTOM"
               PROVE  \E root \in Origins(d) :
                        /\ priority[root] \in {"PRIMARY", "SECONDARY"}
                        /\ root.severity >= ERROR /\ root.evidence >= ERROR
                        /\ d.sure => root.sure
    BY DEF SymptomsGrounded
  <2>1. d \in Symptoms(diagnoses)
    BY ReportShape
  <2>2. \A e \in diagnoses : Known(e)
    BY DEF IInv, OneEach
  <2>3. PICK root \in Origins(d) :
          /\ root \in RootCandidates(diagnoses)
          /\ root.severity >= ERROR /\ root.evidence >= ERROR
          /\ d.sure => root.sure
    BY <2>1, <2>2, Grounded
  <2>4. priority[root] \in {"PRIMARY", "SECONDARY"}
    BY <2>3, ReportShape DEF Origins
  <2> QED
    BY <2>3, <2>4
<1> QED
  BY <1>1, Inductive, PTL

(* Whenever something is really wrong exactly one diagnosis leads the      *)
(* report, on ERROR evidence if a real problem has it (build_report).      *)
THEOREM LeadCorrect == Spec => []RealProblemLeads
<1>1. IInv => RealProblemLeads
  <2> SUFFICES ASSUME IInv, Reported, NEW p \in diagnoses, RealProblem(p)
               PROVE  \E lead \in diagnoses :
                        /\ \A d \in diagnoses : priority[d] = "PRIMARY" <=> d = lead
                        /\ (\E d \in diagnoses : Hard(d) /\ RealProblem(d)) => Hard(lead)
    BY DEF RealProblemLeads
  <2>1. \A e \in diagnoses : Known(e)
    BY DEF IInv, OneEach
  <2>2. ASSUME NEW d \in diagnoses, RealProblem(d)
        PROVE  \E root \in RootCandidates(diagnoses) : Hard(d) => Hard(root)
    <3>1. CASE d \in Symptoms(diagnoses)
      BY <2>1, <3>1, Grounded DEF Hard
    <3>2. CASE d \notin Symptoms(diagnoses)
      BY <2>2, <3>2 DEF RealProblem, RootCandidates, ERROR, WARNING
    <3> QED
      BY <3>1, <3>2
  <2>3. RootCandidates(diagnoses) # {}
    BY <2>2
  <2>4. PICK leader \in Leading(diagnoses) :
          /\ leader \subseteq RootCandidates(diagnoses)
          /\ \A d \in diagnoses : priority[d] = "PRIMARY" <=> d \in leader
    BY ReportShape
  <2>5. PICK lead \in Leaders(diagnoses) : leader = {lead}
    BY <2>3, <2>4 DEF Leading
  <2>6. lead \in diagnoses
    BY <2>4, <2>5 DEF RootCandidates
  <2>7. (\E d \in diagnoses : Hard(d) /\ RealProblem(d)) => Hard(lead)
    BY <2>2, <2>5 DEF Leaders, SureFirst, HardFirst
  <2> QED
    BY <2>4, <2>5, <2>6, <2>7
<1> QED
  BY <1>1, Inductive, PTL

(* No failure ipa-healthcheck reported vanishes from the report            *)
(* (unexplained.py, _undiagnosed_findings), whichever rules fired, and     *)
(* however many findings a net leaves unquoted.                            *)
THEOREM FailuresShownCorrect == Spec => []FailuresShown
<1>1. IInv => FailuresShown
  <2> SUFFICES ASSUME IInv, Reported, NEW f \in AtLeast(WARNING, findings)
               PROVE  /\ f \in Undiagnosed(diagnoses) \/ \E d \in diagnoses : f \in d.cites
                      /\ f.rank >= ERROR => \E d \in diagnoses : AnsweredBy(f, d)
    BY DEF FailuresShown, AnsweredBy
  <2>1. f \in Undiagnosed(diagnoses) \/ \E d \in diagnoses : f \in d.cites
    BY DEF Undiagnosed
  <2>2. f.rank >= ERROR => f \in AtLeast(ERROR, findings)
    BY DEF AtLeast
  <2> QED
    BY <2>1, <2>2 DEF IInv, AllAnswered, Reported
<1> QED
  BY <1>1, Inductive, PTL

(* HEALTHY and UNKNOWN are said of what they mean (_apply_completeness).   *)
THEOREM StatusCorrect == Spec => []StatusHonest
<1>1. IInv => StatusHonest
  <2> SUFFICES ASSUME IInv, Reported
               PROVE  /\ status = "HEALTHY" => level = "complete" /\ diagnoses = {} /\ \A f \in findings : f.rank = 0
                      /\ status = "UNKNOWN" => level = "insufficient"
    BY DEF StatusHonest
  <2>1. PICK leader \in Leading(diagnoses) : status = ApplyCompleteness(OverallStatus(leader, diagnoses), diagnoses)
    BY DEF IInv, Built
  <2>2. status = "UNKNOWN" => level = "insufficient"
    BY <2>1 DEF ApplyCompleteness
  <2>3. status = "HEALTHY" =>
          level = "complete" /\ OverallStatus(leader, diagnoses) = "HEALTHY" /\ Undiagnosed(diagnoses) = {}
    BY <2>1 DEF ApplyCompleteness, IInv, Gathered, Level
  <2>4. OverallStatus(leader, diagnoses) = "HEALTHY" => diagnoses = {}
    BY DEF OverallStatus
  <2>5. \A f \in findings : f.rank \in Nat
    BY ReportableAreFindings DEF IInv, Gathered, Finding, Rank
  <2>6. diagnoses = {} /\ Undiagnosed(diagnoses) = {} => \A f \in findings : f.rank = 0
    BY <2>5 DEF Undiagnosed, AtLeast, WARNING
  <2> QED
    BY <2>2, <2>3, <2>4, <2>6
<1> QED
  BY <1>1, Inductive, PTL

=============================================================================
