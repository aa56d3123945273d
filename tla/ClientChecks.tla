---------------------------- MODULE ClientChecks ----------------------------
(***************************************************************************)
(* The evidence of "ipa-diagnose client": the ways an IPA client and its   *)
(* IPA server can be found, and what each check of                         *)
(* resolution/client_checks.py reads of it.                                *)
(***************************************************************************)
EXTENDS Naturals, Sequences

CONSTANT seen     \* what the checks of one command find: one of Answers for each part

(* What may be found, the healthy answer first.  "unasked" stands for every*)
(* way a check gives no answer (missing tool, timeout, refusal).           *)
Answers ==
  [euid          |-> <<"root", "other">>,
   request       |-> <<"login", "user", "host", "other">>,     \* --user and --service, --user only, neither; another user's
   hbac          |-> <<"not_asked", "PASS">>,           \* what access/runtime.py passes for the user's HBAC
   reached       |-> <<"all", "pam_acct", "sssd_domain", "krb", "tls">>,   \* the first step a budget cut off
   enroll        |-> <<"whole", "absent", "incomplete">>,
   env           |-> <<"sssd_2", "sssd_1", "unknown">>,
   sssd          |-> <<"active", "absent", "unparsable", "no_ipa_domain", "inactive", "other_host", "unasked">>,
   ipa_server    |-> <<"srv", "fixed", "both">>,
   names         |-> <<"short", "qualified">>,
   resolv_conf   |-> <<"resolvers", "empty">>,
   address       |-> <<"resolves", "none", "unasked">>,
   srv_ldap      |-> <<"found", "NXDOMAIN", "TIMEOUT", "SERVFAIL">>,
   srv_kerberos  |-> <<"found", "NXDOMAIN", "TIMEOUT", "SERVFAIL">>,
   https         |-> <<"open", "closed", "unasked">>,
   ldap          |-> <<"open", "closed", "unasked">>,
   kdc           |-> <<"open", "closed", "unasked">>,
   certificate   |-> <<"verified", "untrusted", "no_ca_file", "silent", "unasked">>,
   date          |-> <<"near", "drift", "skew", "none">>,       \* the Date header of the server's answer
   keytab        |-> <<"ok", "loose", "missing", "unreadable", "other_principal", "unasked">>,
   kinit         |-> <<"ok", "clock_skew", "kdc_unreachable", "kdc_unresolvable", "principal_unknown", "key_rejected",
                       "other", "unasked">>,
   chrony        |-> <<"synchronized", "unsynchronized", "unasked">>,
   unit          |-> <<"active", "activating", "failed", "masked", "unasked">>,
   config        |-> <<"valid", "issues", "unasked">>,
   domain        |-> <<"Online", "Offline", "unasked">>,
   sss_user      |-> <<"found", "not_found", "unasked">>,
   sss_group     |-> <<"found", "not_found", "unasked">>,
   api_user      |-> <<"exists", "not_found", "unasked">>,
   nss_user      |-> <<"found", "not_found", "unasked">>,
   nsswitch      |-> <<"sss", "files", "no_file", "unasked">>,
   pam           |-> <<"both", "account_only", "auth_only", "neither", "counting", "too_deep", "unasked">>,
   acct          |-> <<"success", "permission_denied", "authinfo_unavail", "user_unknown", "unasked">>,
   cache_entry   |-> <<"absent", "present", "expired", "error", "unasked">>,
   log           |-> <<"quiet", "offline", "cache_db", "both", "unasked">>,
   cache_file    |-> <<"present", "absent", "empty", "unasked">>]
Part    == DOMAIN Answers
Healthy == [p \in Part |-> Answers[p][1]]

CheckResult(fields) == [status |-> "OK", fields |-> fields]
NotRun              == [status |-> "NOT_RUN", fields |-> [unread |-> TRUE]]

ConfCheck == CheckResult([conf_present |-> seen.enroll # "absent", missing |-> seen.enroll = "incomplete"])
VersionsCheck == CheckResult([sssd |-> seen.env])

(* _sssd_conf: the first active IPA domain, or else any IPA domain; without*)
(* one, or without a readable file, there are no servers to speak of.      *)
SssdConfCheck ==
  LET parsed == seen.sssd \in {"active", "inactive", "other_host"} IN
  IF seen.sssd = "unasked" THEN NotRun
  ELSE CheckResult([state     |-> seen.sssd,
                    uses_srv  |-> CASE parsed -> IF seen.ipa_server \in {"srv", "both"} THEN "yes" ELSE "no"
                                    [] seen.sssd = "no_ipa_domain" -> "no"
                                    [] OTHER -> "unknown",
                    fixed     |-> parsed /\ seen.ipa_server \in {"fixed", "both"},
                    qualified |-> parsed /\ seen.names = "qualified"])

ResolversCheck == CheckResult([nameservers |-> seen.resolv_conf = "resolvers"])
AddressCheck   == IF seen.address = "unasked" THEN NotRun ELSE CheckResult([resolved |-> seen.address = "resolves"])
(* _srv, query_srv: without a resolver nothing is sent.                    *)
SrvCheck(p) ==
  CheckResult([rcode |-> IF seen.resolv_conf = "empty" THEN "NO_RESOLVER"
                         ELSE IF seen[p] = "found" THEN "NOERROR" ELSE seen[p],
               found |-> seen.resolv_conf # "empty" /\ seen[p] = "found"])
TcpCheck(p) == IF seen[p] = "unasked" THEN NotRun ELSE CheckResult([state |-> seen[p]])

(* _https: a certificate that does not verify is asked again for its Date  *)
(* only; without a CA file, or without an answer, there is no Date.        *)
HttpsCheck ==
  IF seen.certificate = "unasked" THEN NotRun
  ELSE CheckResult([tls    |-> seen.certificate,
                    offset |-> IF seen.certificate \in {"verified", "untrusted"} THEN seen.date ELSE "none"])

KeytabCheck ==
  IF seen.keytab = "unasked" THEN NotRun
  ELSE CheckResult([present    |-> seen.keytab # "missing",
                    readable   |-> seen.keytab # "unreadable",
                    principals |-> IF seen.keytab \in {"ok", "loose"} THEN {"host"} ELSE {},
                    loose      |-> seen.keytab = "loose"])
KinitCheck ==
  IF seen.kinit = "unasked" THEN NotRun
  ELSE CheckResult([ok |-> seen.kinit = "ok", error_class |-> IF seen.kinit = "ok" THEN "none" ELSE seen.kinit])
ApiUserCheck ==
  IF seen.api_user = "unasked" \/ seen.kinit # "ok" THEN NotRun     \* it obtains a ticket of its own
  ELSE CheckResult([exists |-> seen.api_user = "exists"])

UnitCheck ==
  IF seen.unit = "unasked" THEN NotRun
  ELSE CheckResult([load_state   |-> IF seen.unit = "masked" THEN "masked" ELSE "loaded",
                    active_state |-> IF seen.unit = "masked" THEN "inactive" ELSE seen.unit])
ChronyCheck == IF seen.chrony = "unasked" THEN NotRun ELSE CheckResult([synchronized |-> seen.chrony = "synchronized"])
ConfigCheck == IF seen.config = "unasked" THEN NotRun ELSE CheckResult([valid |-> seen.config = "valid"])
(* _domain_status: it fails when sssctl names no online status.            *)
DomainCheck == IF seen.domain = "unasked" THEN NotRun ELSE CheckResult([online |-> seen.domain = "Online"])

(* _nss_user, _nss_group: getent, over SSSD only or over the whole stack.   *)
GetentCheck(p) == IF seen[p] = "unasked" THEN NotRun ELSE CheckResult([found |-> seen[p] = "found"])
NsswitchCheck  == IF seen.nsswitch = "unasked" THEN NotRun ELSE CheckResult([passwd_has_sss |-> seen.nsswitch = "sss"])

(* _pam_stack: modules found over the includes; the account modules are    *)
(* named only if no include was cut off.                                   *)
PamStackCheck ==
  IF seen.pam = "unasked" THEN NotRun
  ELSE CheckResult([account_has_sss |-> seen.pam \notin {"auth_only", "neither"},
                    auth_has_sss    |-> seen.pam \notin {"account_only", "neither"},
                    complete        |-> seen.pam # "too_deep",
                    faillock        |-> seen.pam = "counting"])
UserChecksCheck == IF seen.acct = "unasked" THEN NotRun ELSE CheckResult([result_class |-> seen.acct])

CacheUserCheck ==
  IF seen.cache_entry = "unasked" THEN NotRun
  ELSE CheckResult([error |-> seen.cache_entry = "error", present |-> seen.cache_entry \in {"present", "expired"}])
LogCheck ==
  IF seen.log = "unasked" THEN NotRun
  ELSE CheckResult([signals |-> CASE seen.log = "quiet" -> {}
                                  [] seen.log = "both"  -> {"offline", "cache_db"}
                                  [] OTHER              -> {seen.log}])
CacheFilesCheck ==
  IF seen.cache_file = "unasked" THEN NotRun
  ELSE CheckResult([present |-> seen.cache_file # "absent", empty |-> seen.cache_file = "empty"])
=============================================================================
