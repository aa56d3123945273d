--------------------------- MODULE ClientDiagnose ---------------------------
(***************************************************************************)
(* client/diagnose.py: the rules that explain a finished trace t, in the   *)
(* order the code tries them, and the roles of the resulting diagnoses.    *)
(***************************************************************************)
EXTENDS ClientTrace

(* One diagnosis; symptom is the first of its evidence, the step it rests  *)
(* on.  Its confidence and its words are left out.                         *)
D(code, capability, symptom) ==
  [code |-> code, capability |-> capability, symptom |-> symptom, severity |-> "FAIL", related |-> "none", kind |-> "none",
   blocks_runtime |-> FALSE, blocks_authentication |-> FALSE, key |-> "none", role |-> "none"]
Warning(d)        == [d EXCEPT !.severity = "WARN"]
BlocksRuntime(d)  == [d EXCEPT !.blocks_runtime = TRUE]
BlocksLogin(d)    == [d EXCEPT !.blocks_runtime = TRUE, !.blocks_authentication = TRUE]
Related(d, code)  == [d EXCEPT !.related = code]
Unexplained(d)    == [d EXCEPT !.kind = "UNDIAGNOSED"]
Keyed(d, key)     == [d EXCEPT !.key = key]
RelatedOrUnexplained(d, code) == IF code = "none" THEN Unexplained(d) ELSE Related(d, code)
When(condition, d) == IF condition THEN <<d>> ELSE <<>>

Failed(t, step)  == Outcome(t, step) = "FAIL"
Codes(ds)        == {ds[i].code : i \in DOMAIN ds}
CodeIf(ds, code) == IF code \in Codes(ds) THEN code ELSE "none"

----------------------------------------------------------------------------
EnrollmentRules(t) ==
  When(Failed(t, "enroll"), D("CLIENT_CONFIG_INCOMPLETE", "ENROLLMENT", "enroll"))
  \o When(Failed(t, "sssd"), BlocksLogin(D("SSSD_NOT_CONFIGURED", "SSSD_CONFIG", "sssd")))
  \o When(Outcome(t, "sssd") = "WARN", Warning(D("HOSTNAME_MISMATCH", "SSSD_CONFIG", "sssd")))

SrvSteps == {"dns.srv_ldap", "dns.srv_kerberos"}
SrvKind(t, step) ==
  IF Fact(t, step, "found", FALSE) THEN "found"
  ELSE CASE Fact(t, step, "rcode", "none") = "none"        -> "none"
         [] Fact(t, step, "rcode", "none") = "NXDOMAIN"    -> "missing"
         [] Fact(t, step, "rcode", "none") = "TIMEOUT"     -> "resolver_timeout"
         [] Fact(t, step, "rcode", "none") = "NO_RESOLVER" -> "no_resolver"
         [] OTHER                                          -> "servfail"
(* A host with a fixed server besides the SRV records only gets a warning. *)
SrvRule(t, steps, code) ==
  LET d == D(code, "DNS", IF "dns.srv_ldap" \in steps THEN "dns.srv_ldap" ELSE "dns.srv_kerberos") IN
  When(steps # {}, IF Fact(t, "sssd", "fixed", FALSE) THEN Warning(d) ELSE BlocksRuntime(d))
DnsRules(t) ==
  IF Failed(t, "dns.server")
  THEN LET kinds == {SrvKind(t, s) : s \in SrvSteps}
           code  == CASE Failed(t, "dns.resolvers")                          -> "DNS_NO_RESOLVER"
                      [] ~Failed(t, "dns.resolvers") /\ kinds \cap {"resolver_timeout", "no_resolver"} # {}
                                                                             -> "DNS_RESOLVER_NOT_ANSWERING"
                      [] OTHER                                               -> "DNS_SERVER_UNRESOLVABLE"
       IN  <<BlocksLogin(D(code, "DNS", "dns.server"))>>
  ELSE SrvRule(t, {s \in SrvSteps : Failed(t, s) /\ SrvKind(t, s) # "missing"}, "DNS_SRV_QUERY_FAILED")
       \o SrvRule(t, {s \in SrvSteps : Failed(t, s) /\ SrvKind(t, s) = "missing"}, "DNS_SRV_MISSING")

NetworkRules(t) ==
  LET https == Outcome(t, "net.https")  ldap == Outcome(t, "net.ldap") IN
  When(Outcome(t, "dns.server") = "PASS" /\ https = "FAIL" /\ ldap = "FAIL",
       BlocksLogin(D("SERVER_UNREACHABLE", "NETWORK", "net.https")))
  \o When(ldap = "FAIL" /\ https = "PASS", BlocksRuntime(D("LDAP_UNREACHABLE", "NETWORK", "net.ldap")))
  \o When(https = "FAIL" /\ ldap = "PASS", Warning(D("HTTPS_UNREACHABLE", "NETWORK", "net.https")))
  \o When(Failed(t, "tls"), BlocksRuntime(D("CA_TRUST_FAILED", "TLS", "tls")))

KrbError(t) == IF Failed(t, "krb") THEN Fact(t, "krb", "error_class", "none") ELSE "none"
TimeRules(t) ==
  LET server == Outcome(t, "time.server")
      skew(step) == Keyed(BlocksLogin(D("CLOCK_SKEW", "TIME", step)), "client.clock-skew")
      skewed == server = "FAIL" \/ KrbError(t) = "clock_skew"
  IN  When(skewed, skew(IF server = "FAIL" THEN "time.server" ELSE "krb"))
      \o When(server = "WARN" /\ ~skewed, Warning(D("CLOCK_DRIFT", "TIME", "time.server")))
      \o When(Outcome(t, "time.local") = "WARN" /\ ~skewed, Warning(D("NTP_NOT_SYNCHRONIZED", "TIME", "time.local")))

KeytabRules(t) ==
  LET d(code) == D(code, "KEYTAB", "keytab") IN
  When(Failed(t, "keytab"),
       CASE ~Fact(t, "keytab", "present", FALSE)  -> Keyed(BlocksLogin(d("HOST_KEYTAB_MISSING")), "client.host-keytab-problem")
         [] Fact(t, "keytab", "present", FALSE) /\ ~Fact(t, "keytab", "readable", FALSE)
                                                  -> BlocksRuntime(d("HOST_KEYTAB_UNREADABLE"))
         [] OTHER -> Keyed(BlocksLogin(d("HOST_KEYTAB_WRONG_PRINCIPAL")), "client.host-keytab-problem"))
  \o When(Outcome(t, "keytab") = "WARN", Warning(d("HOST_KEYTAB_PERMISSIONS")))

----------------------------------------------------------------------------
(* Kerberos cannot find a KDC: the host name that fails is the server's    *)
(* (dnsFail), or the SRV records', whose warning is then a failure.        *)
SrvBlamed(t) ==
  IF KrbError(t) # "kdc_unresolvable" \/ Failed(t, "dns.server") \/ Outcome(t, "dns.srv_kerberos") \notin {"FAIL", "WARN"}
  THEN "none"
  ELSE IF SrvKind(t, "dns.srv_kerberos") = "missing" THEN "DNS_SRV_MISSING" ELSE "DNS_SRV_QUERY_FAILED"
RaiseNothing(t, ds) == ds     \* mutant: the warning stays one
Raise(t, ds) ==
  [i \in DOMAIN ds |-> IF ds[i].code = SrvBlamed(t) /\ ds[i].severity = "WARN"
                       THEN [ds[i] EXCEPT !.severity = "FAIL", !.blocks_runtime = TRUE] ELSE ds[i]]

DnsFail(t, ds)  == IF Failed(t, "dns.server") THEN (CHOOSE d \in Range(ds) : d.symptom = "dns.server").code ELSE "none"
Upstream(t, ds) == IF Failed(t, "dns.server") THEN DnsFail(t, ds) ELSE CodeIf(ds, "SERVER_UNREACHABLE")

KerberosRule(t, ds) ==
  LET d(code) == D(code, "KERBEROS", "krb") IN
  CASE KrbError(t) \in {"none", "clock_skew"} -> <<>>
    [] KrbError(t) = "kdc_unresolvable" ->
         LET unresolvable == BlocksLogin(d("KDC_NOT_RESOLVABLE")) IN
         IF Failed(t, "dns.server") THEN <<Related(unresolvable, DnsFail(t, ds))>>
         ELSE IF SrvBlamed(t) # "none" THEN <<Related(unresolvable, CodeIf(ds, SrvBlamed(t)))>>
         ELSE <<Unexplained(unresolvable)>>
    [] KrbError(t) = "kdc_unreachable"   -> <<Related(BlocksLogin(d("KDC_UNREACHABLE")), Upstream(t, ds))>>
    [] KrbError(t) = "principal_unknown" ->
         <<Keyed(BlocksLogin(D("HOST_PRINCIPAL_UNKNOWN", "ENROLLMENT", "krb")), "client.host-principal-unknown")>>
    [] KrbError(t) = "key_rejected"      ->
         <<Keyed(BlocksLogin(D("HOST_KEY_REJECTED", "KEYTAB", "krb")), "client.host-keytab-problem")>>
    [] KrbError(t) = "other"             -> <<RelatedOrUnexplained(BlocksRuntime(d("KERBEROS_FAILED")), Upstream(t, ds))>>

DbSignalled(t) == "cache_db" \in Fact(t, "sssd.logs", "signals", {})
SssdRules(t) ==
  LET down       == Failed(t, "sssd.service")
      invalid    == D("SSSD_CONFIG_INVALID", "SSSD_CONFIG", "sssd.config")
      dbAtStart  == down /\ DbSignalled(t) /\ ~Failed(t, "sssd.config")
      notRunning == Keyed(BlocksLogin(D("SSSD_NOT_RUNNING", "SSSD_SERVICE", "sssd.service")), "client.sssd-not-running")
  IN  When(Failed(t, "sssd.config"), IF down THEN BlocksRuntime(invalid) ELSE invalid)
      \o When(dbAtStart, Keyed(BlocksRuntime(D("SSSD_CACHE_DB_ERROR", "CACHE", "sssd.service")), "client.sssd-cache-db-error"))
      \o When(down, CASE Failed(t, "sssd.config") -> Related(notRunning, "SSSD_CONFIG_INVALID")
                      [] dbAtStart                -> Related(notRunning, "SSSD_CACHE_DB_ERROR")
                      [] OTHER                    -> notRunning)

(* The first failure found below SSSD, which SSSD's is said to follow from.*)
UpstreamNet(ds) ==
  LET below == {i \in DOMAIN ds : /\ ds[i].severity = "FAIL"
                                  /\ ds[i].capability \in {"DNS", "NETWORK", "TLS", "TIME", "KEYTAB", "KERBEROS",
                                                           "ENROLLMENT"}}
  IN  IF below = {} THEN "none" ELSE ds[First(below)].code
OfflineRule(t, ds) ==
  LET d == BlocksRuntime(D("SSSD_OFFLINE", "SSSD_BACKEND", "sssd.domain")) IN
  When(Failed(t, "sssd.domain"),
       IF UpstreamNet(ds) = "none" /\ DbSignalled(t) THEN d ELSE RelatedOrUnexplained(d, UpstreamNet(ds)))

----------------------------------------------------------------------------
(* The user asked about, or the group admins, does not resolve.            *)
UserRule(t, ds) ==
  LET d(code, capability) == BlocksRuntime(D(code, capability, "id.user"))
      lookup == d("IDENTITY_LOOKUP_FAILS", "IDENTITY")
      domain == Outcome(t, "sssd.domain")
      exists == IF Outcome(t, "ipa.user") \in {"PASS", "FAIL"} THEN Outcome(t, "ipa.user") ELSE "unknown"
      entry  == IF ~Ran(t, "cache.entry") THEN "none"
                ELSE IF Fact(t, "cache.entry", "error", FALSE) THEN "error"
                ELSE IF Fact(t, "cache.entry", "present", FALSE) THEN "present" ELSE "absent"
      dbBad  == DbSignalled(t) \/ entry = "error" \/ Failed(t, "cache.files")
  IN  IF ~UserGiven \/ ~Failed(t, "id.user") THEN <<>>
      ELSE IF domain \in {"FAIL", "UNKNOWN"} THEN <<RelatedOrUnexplained(lookup, CodeIf(ds, "SSSD_OFFLINE"))>>
      ELSE IF exists = "FAIL" THEN <<d("USER_NOT_IN_IPA", "IDENTITY")>>
      ELSE IF exists = "PASS" /\ domain = "PASS"
      THEN <<CASE Fact(t, "sssd", "qualified", FALSE) -> d("NAME_NOT_QUALIFIED", "IDENTITY")
               [] dbBad /\ ~Fact(t, "sssd", "qualified", FALSE)
                    -> Keyed(d("SSSD_CACHE_DB_ERROR", "CACHE"), "client.sssd-cache-db-error")
               [] entry = "present" /\ ~dbBad /\ ~Fact(t, "sssd", "qualified", FALSE)
                    -> Keyed(d("SSSD_CACHE_INCONSISTENT", "CACHE"), "client.sssd-stale-user-entry")
               [] OTHER -> Unexplained(lookup)>>
      ELSE <<RelatedOrUnexplained(lookup, UpstreamNet(ds))>>
GroupRule(t, ds) ==
  When(Failed(t, "id.group") /\ Codes(ds) \cap {"SSSD_OFFLINE", "SSSD_NOT_RUNNING"} = {},
       RelatedOrUnexplained(BlocksRuntime(D("IDENTITY_LOOKUP_FAILS_GENERAL", "IDENTITY", "id.group")), UpstreamNet(ds)))

PamStackRules(t) ==
  LET d(code) == D(code, "PAM", "pam.stack")
      nss     == BlocksRuntime(D("NSS_NOT_USING_SSSD", "NSS", "nss.system"))
  IN  When(Failed(t, "nss.system"), IF Failed(t, "nss.switch") THEN nss ELSE Unexplained(nss))
      \o When(Failed(t, "pam.stack"), IF Fact(t, "pam.stack", "auth_has_sss", FALSE)
                                      THEN Warning(d("PAM_ACCOUNT_WITHOUT_SSSD")) ELSE d("PAM_SERVICE_WITHOUT_SSSD"))
      \o When(Outcome(t, "pam.stack") = "WARN", d("PAM_AUTH_WITHOUT_SSSD"))

(* The account phase refuses: by another module, by SSSD against FreeIPA's *)
(* own decision, or by SSSD, which decides from its cache when offline.    *)
AccountRule(t, ds) ==
  LET d(code) == BlocksRuntime(D(code, "PAM", "pam.acct"))
      offline == CodeIf(ds, "SSSD_OFFLINE")
      result  == Fact(t, "pam.acct", "result_class", "none")
      denied  == CASE ~Fact(t, "pam.stack", "account_has_sss", TRUE) -> d("RUNTIME_ACCOUNT_DENIED_LOCAL")
                   [] Fact(t, "pam.stack", "account_has_sss", TRUE) /\ seen.hbac = "PASS"
                        -> [d("RUNTIME_DENIED_HBAC_ALLOWS") EXCEPT !.kind = "CONTRADICTING"]
                   [] OTHER -> Related(d("RUNTIME_ACCOUNT_DENIED"), IF offline = "none" THEN UpstreamNet(ds) ELSE offline)
  IN  When(Failed(t, "pam.acct"),
           CASE result = "permission_denied" -> denied
             [] result = "authinfo_unavail"  -> RelatedOrUnexplained(d("RUNTIME_ACCOUNT_UNAVAILABLE"), offline)
             [] OTHER                        -> Unexplained(d("RUNTIME_ACCOUNT_FAILED")))

----------------------------------------------------------------------------
NotEnrolled == Keyed(BlocksLogin(D("CLIENT_NOT_ENROLLED", "ENROLLMENT", "enroll")), "client.not-enrolled")

(* Each rule sees what the rules before it concluded.                      *)
BasicRules(t)   == EnrollmentRules(t) \o DnsRules(t) \o NetworkRules(t) \o TimeRules(t) \o KeytabRules(t)
Kerberos(t, ds) == Raise(t, ds) \o KerberosRule(t, ds)
Offline(t, ds)  == ds \o OfflineRule(t, ds)
User(t, ds)     == ds \o UserRule(t, ds)
Group(t, ds)    == ds \o GroupRule(t, ds)
Account(t, ds)  == ds \o AccountRule(t, ds)

Found(t) ==
  IF seen.enroll = "absent" THEN <<NotEnrolled>>
  ELSE Account(t, Group(t, User(t, Offline(t, Kerberos(t, BasicRules(t)) \o SssdRules(t)))) \o PamStackRules(t))

(* _roles: related to nothing found is related to nothing; the first cause *)
(* of the lowest layer is PRIMARY, the other causes are INDEPENDENT.       *)
Layer(capability) ==
  CASE capability = "ENROLLMENT" -> 0 [] capability = "SSSD_CONFIG" -> 1
    [] capability \in {"DNS", "SSSD_SERVICE"} -> 2 [] capability = "NETWORK" -> 3
    [] capability \in {"TLS", "TIME"} -> 4 [] capability = "KEYTAB" -> 5 [] capability = "KERBEROS" -> 6
    [] capability = "SSSD_BACKEND" -> 7 [] capability \in {"IDENTITY", "CACHE"} -> 8
    [] capability = "NSS" -> 9 [] capability = "PAM" -> 10
RoleOf(d) ==
  CASE d.kind = "CONTRADICTING"                              -> "CONTRADICTING"
    [] d.kind # "CONTRADICTING" /\ d.severity = "WARN"       -> "WARNING"
    [] d.kind # "CONTRADICTING" /\ d.severity # "WARN" /\ d.related # "none"   -> "RELATED"
    [] d.kind = "UNDIAGNOSED" /\ d.severity # "WARN" /\ d.related = "none"     -> "UNDIAGNOSED"
    [] OTHER                                                 -> "CAUSE"
Roles(found) ==
  LET ds     == [i \in DOMAIN found |-> IF found[i].related \in Codes(found) THEN found[i] ELSE Related(found[i], "none")]
      causes == {i \in DOMAIN ds : RoleOf(ds[i]) = "CAUSE"}
      before(i, j) == \/ Layer(ds[i].capability) < Layer(ds[j].capability)
                      \/ Layer(ds[i].capability) = Layer(ds[j].capability) /\ i < j
      role(i) == CASE i \notin causes                                      -> RoleOf(ds[i])
                   [] i \in causes /\ \A j \in causes \ {i} : before(i, j) -> "PRIMARY"
                   [] OTHER                                                -> "INDEPENDENT"
  IN  {[ds[i] EXCEPT !.role = role(i)] : i \in DOMAIN ds}

Diagnoses == Roles(Found(Trace))
=============================================================================
