---------------------------- MODULE ClientTrace -----------------------------
(***************************************************************************)
(* The plan of client/plan.py, walked once over what the checks find: the  *)
(* outcome of every step, and whether run.py counts it as a gap.           *)
(***************************************************************************)
EXTENDS ClientChecks, Functions

Plan ==
  <<"enroll", "env", "sssd", "dns.resolvers", "dns.server", "dns.srv_ldap", "dns.srv_kerberos", "net.https", "net.ldap",
    "net.kdc", "tls", "time.server", "keytab", "krb", "time.local", "sssd.service", "sssd.config", "sssd.domain",
    "id.user", "id.group", "ipa.user", "nss.system", "nss.switch", "pam.stack", "pam.acct", "cache.entry", "sssd.logs",
    "cache.files">>

Passish == {"PASS", "WARN"}
Requires(step) ==
  CASE step \in {"dns.server", "dns.srv_ldap", "dns.srv_kerberos", "keytab"} -> <<<<"enroll", Passish>>>>
    [] step \in {"net.https", "net.ldap", "net.kdc"}      -> <<<<"dns.server", {"PASS"}>>>>
    [] step \in {"tls", "time.server"}                    -> <<<<"net.https", {"PASS"}>>>>
    [] step = "krb"                                       -> <<<<"keytab", Passish>>>>
    [] step = "sssd.domain"                               -> <<<<"sssd.service", {"PASS"}>>, <<"sssd", Passish>>>>
    [] step \in {"id.user", "id.group", "pam.acct"}       -> <<<<"sssd.service", {"PASS"}>>>>
    [] step = "ipa.user"                                  -> <<<<"krb", {"PASS"}>>, <<"tls", {"PASS"}>>>>
    [] OTHER                                              -> <<>>
NeedsRoot   == {"sssd", "keytab", "krb", "sssd.config", "sssd.domain", "ipa.user", "pam.acct", "cache.entry", "sssd.logs",
                "cache.files"}
NeedsSssctl == {"sssd.config", "sssd.domain", "pam.acct", "cache.entry"}

CheckOf(step) ==
  CASE step = "enroll"           -> ConfCheck
    [] step = "env"              -> VersionsCheck
    [] step = "sssd"             -> SssdConfCheck
    [] step = "dns.resolvers"    -> ResolversCheck
    [] step = "dns.server"       -> AddressCheck
    [] step = "dns.srv_ldap"     -> SrvCheck("srv_ldap")
    [] step = "dns.srv_kerberos" -> SrvCheck("srv_kerberos")
    [] step = "net.https"        -> TcpCheck("https")
    [] step = "net.ldap"         -> TcpCheck("ldap")
    [] step = "net.kdc"          -> TcpCheck("kdc")
    [] step \in {"tls", "time.server"} -> HttpsCheck
    [] step = "keytab"           -> KeytabCheck
    [] step = "krb"              -> KinitCheck
    [] step = "time.local"       -> ChronyCheck
    [] step = "sssd.service"     -> UnitCheck
    [] step = "sssd.config"      -> ConfigCheck
    [] step = "sssd.domain"      -> DomainCheck
    [] step = "id.user"          -> GetentCheck("sss_user")
    [] step = "id.group"         -> GetentCheck("sss_group")
    [] step = "ipa.user"         -> ApiUserCheck
    [] step = "nss.system"       -> GetentCheck("nss_user")
    [] step = "nss.switch"       -> NsswitchCheck
    [] step = "pam.stack"        -> PamStackCheck
    [] step = "pam.acct"         -> UserChecksCheck
    [] step = "cache.entry"      -> CacheUserCheck
    [] step = "sssd.logs"        -> LogCheck
    [] step = "cache.files"      -> CacheFilesCheck

(* What a trace t says of a step; the fields of a check that gave no answer*)
(* are not there.                                                          *)
Ran(t, step)     == t[step].outcome # "SKIPPED"
Outcome(t, step) == t[step].outcome
Field(check, name, default)  == IF check.status = "OK" THEN check.fields[name] ELSE default
Fact(t, step, name, default) == IF Ran(t, step) THEN Field(CheckOf(step), name, default) ELSE default

UserGiven    == seen.request # "host"
ServiceGiven == seen.request \in {"login", "other"}

----------------------------------------------------------------------------
(* The classifiers: only what a check answered is classified.              *)
PassIf(condition, otherwise) == IF condition THEN "PASS" ELSE otherwise

CConfig(f)   == PassIf(f.conf_present /\ ~f.missing, "FAIL")
CSssdConf(f) == IF f.state = "active" THEN "PASS" ELSE IF f.state = "other_host" THEN "WARN" ELSE "FAIL"
CSrv(t, f)   == PassIf(f.found, IF Fact(t, "sssd", "uses_srv", "unknown") = "yes" THEN "FAIL" ELSE "WARN")
CTls(f)      == CASE f.tls = "verified" -> "PASS" [] f.tls \in {"untrusted", "no_ca_file"} -> "FAIL" [] OTHER -> "UNKNOWN"
CTime(f)     == CASE f.offset = "near" -> "PASS" [] f.offset = "drift" -> "WARN" [] f.offset = "skew" -> "FAIL"
                  [] OTHER -> "UNKNOWN"
CKeytab(f)   == IF ~f.present \/ ~f.readable \/ f.principals = {} THEN "FAIL" ELSE PassIf(~f.loose, "WARN")
CUnit(f)     == IF f.load_state # "loaded" THEN "FAIL"
                ELSE PassIf(f.active_state = "active", IF f.active_state = "activating" THEN "WARN" ELSE "FAIL")
CPamStack(f) == IF ~f.account_has_sss THEN "FAIL" ELSE PassIf(f.auth_has_sss, "WARN")
CCacheEntry(f) == IF f.error THEN "FAIL" ELSE PassIf(~f.present, "WARN")
CCacheFiles(f) == IF ~f.present THEN "WARN" ELSE PassIf(~f.empty, "FAIL")

Classify(t, step, f) ==
  CASE step = "enroll"                           -> CConfig(f)
    [] step = "env"                              -> "PASS"
    [] step = "sssd"                             -> CSssdConf(f)
    [] step = "dns.resolvers"                    -> PassIf(f.nameservers, "FAIL")
    [] step = "dns.server"                       -> PassIf(f.resolved, "FAIL")
    [] step \in {"dns.srv_ldap", "dns.srv_kerberos"}       -> CSrv(t, f)
    [] step \in {"net.https", "net.ldap", "net.kdc"}       -> PassIf(f.state = "open", "FAIL")
    [] step = "tls"                              -> CTls(f)
    [] step = "time.server"                      -> CTime(f)
    [] step = "keytab"                           -> CKeytab(f)
    [] step = "krb"                              -> PassIf(f.ok, "FAIL")
    [] step = "time.local"                       -> PassIf(f.synchronized, "WARN")
    [] step = "sssd.service"                     -> CUnit(f)
    [] step = "sssd.config"                      -> PassIf(f.valid, "FAIL")
    [] step = "sssd.domain"                      -> PassIf(f.online, "FAIL")
    [] step \in {"id.user", "id.group", "nss.system"}      -> PassIf(f.found, "FAIL")
    [] step = "ipa.user"                         -> PassIf(f.exists, "FAIL")
    [] step = "nss.switch"                       -> PassIf(f.passwd_has_sss, "FAIL")
    [] step = "pam.stack"                        -> CPamStack(f)
    [] step = "pam.acct"                         -> PassIf(f.result_class = "success", "FAIL")
    [] step = "cache.entry"                      -> CCacheEntry(f)
    [] step = "sssd.logs"                        -> PassIf(f.signals = {}, "WARN")
    [] step = "cache.files"                      -> CCacheFiles(f)

----------------------------------------------------------------------------
(* The gates: "run", "not needed", or "on purpose", which is a gap.        *)
Needed(condition) == IF condition THEN "run" ELSE "not needed"

GSrv(t)    == Needed(Fact(t, "sssd", "uses_srv", "unknown") # "no")
GChrony(t) == Needed(Fact(t, "krb", "error_class", "none") = "clock_skew" \/ Outcome(t, "time.server") # "PASS")
GGroup(t)  == Needed(~UserGiven \/ Outcome(t, "id.user") = "FAIL")
(* The account phase is not run when it would reset failed-login counters, *)
(* or when it is not known whether it would.                               *)
GUserChecks(t) ==
  IF ~UserGiven \/ ~ServiceGiven \/ Outcome(t, "id.user") # "PASS" THEN "not needed"
  ELSE IF ~Fact(t, "pam.stack", "complete", FALSE) \/ Fact(t, "pam.stack", "faillock", FALSE) THEN "on purpose"
  ELSE "run"
GCache(t) ==
  Needed(/\ Outcome(t, "id.user") = "FAIL" /\ Fact(t, "ipa.user", "exists", FALSE)
         /\ Outcome(t, "sssd.domain") = "PASS")
GLogs(t) ==
  Needed(\/ Outcome(t, "sssd.service") = "FAIL" \/ Outcome(t, "sssd.domain") \in {"FAIL", "UNKNOWN"}
         \/ Ran(t, "cache.entry") \/ Outcome(t, "id.group") = "FAIL" \/ Outcome(t, "pam.acct") = "FAIL")
GCacheFiles(t) ==
  Needed(\/ "cache_db" \in Fact(t, "sssd.logs", "signals", {})
         \/ Ran(t, "cache.entry") /\ Fact(t, "cache.entry", "error", FALSE))

Gate(t, step) ==
  CASE step \in {"dns.srv_ldap", "dns.srv_kerberos"} -> GSrv(t)
    [] step = "time.local"   -> GChrony(t)
    [] step = "id.user"      -> Needed(UserGiven)
    [] step = "id.group"     -> GGroup(t)
    [] step = "ipa.user"     -> Needed(UserGiven /\ Outcome(t, "id.user") = "FAIL")
    [] step = "nss.system"   -> Needed(UserGiven /\ Outcome(t, "id.user") = "PASS")
    [] step = "nss.switch"   -> Needed(Outcome(t, "nss.system") = "FAIL")
    [] step = "pam.stack"    -> Needed(ServiceGiven)
    [] step = "pam.acct"     -> GUserChecks(t)
    [] step = "cache.entry"  -> GCache(t)
    [] step = "sssd.logs"    -> GLogs(t)
    [] step = "cache.files"  -> GCacheFiles(t)
    [] OTHER                 -> "run"

----------------------------------------------------------------------------
(* The walk.  A stop for a host that is no client is no gap; any other is. *)
(* A step blocked by another is a gap if that one is (_unexplained_gap).   *)
Index(step) == CHOOSE i \in DOMAIN Plan : Plan[i] = step
CutOff(step) ==
  seen.reached # "all"
  /\ Index(step) >= Index(CASE seen.reached = "pam_acct"    -> "pam.acct"
                             [] seen.reached = "sssd_domain" -> "sssd.domain"
                             [] OTHER                        -> seen.reached)
SssdDomainKnown(t) == Ran(t, "sssd") /\ seen.sssd \in {"active", "inactive", "other_host"}

SkipExplained(gap) == [outcome |-> "SKIPPED", gap |-> FALSE]   \* mutant: a step not run is never a gap
Skip(gap)   == [outcome |-> "SKIPPED", gap |-> gap]
(* The first requirement that is not met explains the skip.                *)
First(numbers) == CHOOSE i \in numbers : \A j \in numbers : i <= j
Unmet(t, step) == {i \in DOMAIN Requires(step) : Outcome(t, Requires(step)[i][1]) \notin Requires(step)[i][2]}

Visit(t, step) ==
  IF step # "enroll" /\ seen.enroll = "absent" THEN Skip(FALSE)
  ELSE IF Unmet(t, step) # {} THEN Skip(t[Requires(step)[First(Unmet(t, step))][1]].gap)
  ELSE IF step \in NeedsSssctl /\ Fact(t, "env", "sssd", "unknown") # "sssd_2" THEN Skip(TRUE)
  ELSE IF Gate(t, step) # "run" THEN Skip(Gate(t, step) = "on purpose")
  ELSE IF step \in NeedsRoot /\ seen.euid # "root" THEN Skip(TRUE)
  ELSE IF CutOff(step) THEN Skip(TRUE)
  ELSE IF step \in {"sssd.logs", "cache.files"} /\ ~SssdDomainKnown(t) THEN Skip(FALSE)
  ELSE IF CheckOf(step).status # "OK" THEN [outcome |-> "UNKNOWN", gap |-> TRUE]
  ELSE LET o == Classify(t, step, CheckOf(step).fields) IN [outcome |-> o, gap |-> o = "UNKNOWN"]

Visited(t, step) == [s \in DOMAIN t \cup {step} |-> IF s \in DOMAIN t THEN t[s] ELSE Visit(t, step)]
Trace ==
  LET walk[n \in 0..Len(Plan)] == IF n = 0 THEN <<>> ELSE Visited(walk[n - 1], Plan[n])
  IN  walk[Len(Plan)]
=============================================================================
