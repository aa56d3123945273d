---------------------------- MODULE ClientReport ----------------------------
(***************************************************************************)
(* client/run.py: what one investigation concludes from its trace and its  *)
(* diagnoses: the fixes it may prepare, the verdicts and the status.       *)
(***************************************************************************)
EXTENDS ClientDiagnose

(* The checks whose absence leaves a gap in what the run can claim.        *)
Essential == {"enroll", "sssd", "dns.server", "net.ldap", "tls", "time.server", "keytab", "krb", "sssd.service",
              "sssd.config", "sssd.domain", "id.user", "id.group", "pam.stack", "pam.acct"}

(* Nothing is fixed on an unexplained or contradicting picture.            *)
Fixable(ds) == {d.code : d \in {x \in ds : x.key # "none" /\ x.role \notin {"UNDIAGNOSED", "CONTRADICTING"}}}

AuthPathOnly   == {"DNS", "NETWORK", "TLS", "TIME", "KEYTAB", "KERBEROS", "SSSD_BACKEND"}
LocalAuthBreak == {"PAM_SERVICE_WITHOUT_SSSD", "PAM_AUTH_WITHOUT_SSSD"}
RuntimeBlocker(d) ==
  /\ d.blocks_runtime /\ d.severity = "FAIL"
  /\ d.capability \notin AuthPathOnly /\ d.code # "HOST_PRINCIPAL_UNKNOWN"
OnlinePathBrokenLogin(d) == d.severity = "FAIL" /\ d.blocks_authentication   \* mutant: logins only
OnlinePathBroken(d) ==
  d.severity = "FAIL" /\ (d.blocks_authentication \/ (d.blocks_runtime /\ ~RuntimeBlocker(d)))

Authentication(ds) ==
  IF \E d \in ds : d.code \in LocalAuthBreak \/ OnlinePathBroken(d) THEN "FAIL" ELSE "NOT_VERIFIED"
(* What the verdict names: the logins expected to fail, the ones that may. *)
Runtime(ds) ==
  CASE \E d \in ds : RuntimeBlocker(d)                -> "FAIL"
    [] /\ ~ \E d \in ds : RuntimeBlocker(d)
       /\ \E d \in ds : d.code \in LocalAuthBreak     -> "NOT_VERIFIED: no password logins"
    [] /\ \A d \in ds : ~RuntimeBlocker(d) /\ d.code \notin LocalAuthBreak
       /\ \E d \in ds : OnlinePathBroken(d)           -> "NOT_VERIFIED: no online logins"
    [] OTHER                                          -> "NOT_VERIFIED"

Status(ds, gaps) ==
  CASE \E d \in ds : d.severity = "FAIL" \/ d.role \in {"UNDIAGNOSED", "CONTRADICTING"} -> "PROBLEM_FOUND"
    [] \A d \in ds : d.severity # "FAIL" /\ d.role \notin {"UNDIAGNOSED", "CONTRADICTING"} ->
         IF gaps # {} THEN "NOT_FULLY_VERIFIED" ELSE IF ds # {} THEN "HEALTHY_WITH_WARNINGS" ELSE "HEALTHY"
Exit(status) == CASE status \in {"HEALTHY", "HEALTHY_WITH_WARNINGS"} -> 0 [] status = "PROBLEM_FOUND" -> 1
                  [] OTHER -> 4

Concluded(t, ds, gaps) ==
  [outcomes |-> [step \in DOMAIN t |-> Outcome(t, step)], diagnoses |-> ds, gaps |-> gaps, fixable |-> Fixable(ds),
   authentication |-> Authentication(ds), runtime |-> Runtime(ds), status |-> Status(ds, gaps)]
Explained(t)  == Concluded(t, Roles(Found(t)), {s \in Essential : t[s].gap})
Investigation == Explained(Trace)
=============================================================================
