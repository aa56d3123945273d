------------------------- MODULE ClientReportProofs -------------------------
(***************************************************************************)
(* Proofs about the report of a client, for whatever is found of it: that  *)
(* every diagnosis is rooted in a failure, that the verdicts say no less   *)
(* and no more than the diagnoses, and that a report without a diagnosis   *)
(* and without a gap comes of a host that answered healthily.              *)
(***************************************************************************)
EXTENDS ClientVerify, TLAPS, WellFoundedInduction

(* What a list of rules found, and that it is a list of that.              *)
Members(s) == {s[i] : i \in DOMAIN s}
Listed(s)  == s \in Seq(Members(s))

(* Joining lists joins what they found, and keeps the places of the first. *)
LEMMA Appended ==
  ASSUME NEW s, NEW t, Listed(s), Listed(t)
  PROVE  /\ Listed(s \o t) /\ Members(s \o t) = Members(s) \cup Members(t)
         /\ s \o t = <<>> => s = <<>> /\ t = <<>>
         /\ \A i \in DOMAIN s : i \in DOMAIN (s \o t) /\ (s \o t)[i] = s[i]
         /\ \A i \in DOMAIN (s \o t) : i \in DOMAIN s \/ (s \o t)[i] \in Members(t)
<1> DEFINE S == Members(s) \cup Members(t)
           u == s \o t
<1>1. s \in Seq(S) /\ t \in Seq(S)
  BY DEF Listed
<1>2. /\ Len(s) \in Nat /\ Len(t) \in Nat /\ DOMAIN s = 1..Len(s) /\ DOMAIN t = 1..Len(t)
      /\ u \in Seq(S) /\ DOMAIN u = 1..(Len(s) + Len(t))
      /\ \A i \in 1..(Len(s) + Len(t)) : u[i] = IF i <= Len(s) THEN s[i] ELSE t[i - Len(s)]
  BY <1>1
<1> HIDE DEF u
<1>3. \A i \in DOMAIN s : i \in DOMAIN u /\ u[i] = s[i]
  BY <1>2
<1>4. \A i \in DOMAIN u : i \in DOMAIN s \/ (i - Len(s) \in DOMAIN t /\ u[i] = t[i - Len(s)])
  BY <1>2
<1>5. \A j \in DOMAIN t : j + Len(s) \in DOMAIN u /\ u[j + Len(s)] = t[j]
  BY <1>2
<1>6. Members(u) = Members(s) \cup Members(t)
  BY <1>3, <1>4, <1>5 DEF Members
<1>7. u = <<>> => s = <<>> /\ t = <<>>
  <2> SUFFICES ASSUME u = <<>> PROVE s = <<>> /\ t = <<>>
    OBVIOUS
  <2>1. Len(s) = 0 /\ Len(t) = 0
    BY <1>2
  <2> QED
    BY <1>1, <2>1
<1>8. Listed(u)
  BY <1>2, <1>6 DEF Listed
<1> QED
  BY <1>3, <1>4, <1>6, <1>7, <1>8 DEF u, Members

(* Lists of one, of none, and of a rule that may not apply.                *)
LEMMA Singleton == ASSUME NEW d PROVE Listed(<<d>>) /\ Members(<<d>>) = {d} /\ <<d>> # <<>>
BY DEF Listed, Members
LEMMA Nothing == Listed(<<>>) /\ Members(<<>>) = {}
<1>1. DOMAIN <<>> = {}
  OBVIOUS
<1> QED
  BY <1>1 DEF Listed, Members

LEMMA Perhaps ==
  ASSUME NEW e, NEW c \in BOOLEAN, NEW d
  PROVE  /\ Listed(Run(e)!When(c, d)) /\ Members(Run(e)!When(c, d)) = (IF c THEN {d} ELSE {})
         /\ Run(e)!When(c, d) = <<>> => ~c
BY Singleton, Nothing DEF Run!When

(* What every diagnosis has.                                               *)
Shape(d) ==
  /\ DOMAIN d = {"code", "capability", "symptom", "severity", "related", "kind", "blocks_runtime",
                 "blocks_authentication", "key", "role"}
  /\ d.severity \in {"FAIL", "WARN"} /\ d.blocks_runtime \in BOOLEAN /\ d.blocks_authentication \in BOOLEAN

(* A diagnosis that breaks logins for certain and is not of the way to IPA *)
(* comes of a step that fails on this host.                                *)
LocalSteps == {"sssd", "sssd.service", "sssd.config", "id.user", "id.group", "nss.system", "pam.acct"}
Calm(e, t, d) ==
  d.blocks_runtime = TRUE /\ d.severity = "FAIL"
  /\ d.capability \notin {"DNS", "NETWORK", "TLS", "TIME", "KEYTAB", "KERBEROS", "SSSD_BACKEND"}
  /\ d.code # "HOST_PRINCIPAL_UNKNOWN"
    => e.enroll = "absent" \/ \E s \in LocalSteps : Run(e)!Failed(t, s)

(* What the first rules find: nothing they find is related to anything.    *)
Basic(e, t, d) ==
     /\ Shape(d) /\ d.code \notin {"none", "SSSD_OFFLINE"}
     /\ d.related = "none" /\ d.kind = "none" /\ Calm(e, t, d)
     /\ d.symptom = "dns.server" => d.severity = "FAIL" /\ d.capability = "DNS"
     /\ d.code = "SERVER_UNREACHABLE" => d.severity = "FAIL" /\ d.capability = "NETWORK"
     /\ d.code \in {"DNS_SRV_MISSING", "DNS_SRV_QUERY_FAILED"} => d.capability = "DNS"
Basics(e, t, s) == Listed(s) /\ \A d \in Members(s) : Basic(e, t, d)

LEMMA BasicsJoin == ASSUME NEW e, NEW t, NEW r, NEW s, Basics(e, t, r), Basics(e, t, s) PROVE Basics(e, t, r \o s)
BY Appended DEF Basics
LEMMA BasicsWhen == ASSUME NEW e, NEW t, NEW c \in BOOLEAN, NEW d, c => Basic(e, t, d)
  PROVE Basics(e, t, Run(e)!When(c, d))
BY Perhaps DEF Basics

(* The rules in the order of diagnose: enrollment, DNS, network, time, the *)
(* key, one lemma for each.                                                *)
LEMMA Enrollments == ASSUME NEW e, NEW t PROVE Basics(e, t, Run(e)!EnrollmentRules(t))
<1> DEFINE a == Run(e)!D("CLIENT_CONFIG_INCOMPLETE", "ENROLLMENT", "enroll")
           b == Run(e)!BlocksLogin(Run(e)!D("SSSD_NOT_CONFIGURED", "SSSD_CONFIG", "sssd"))
           c == Run(e)!Warning(Run(e)!D("HOSTNAME_MISMATCH", "SSSD_CONFIG", "sssd"))
<1>1. Basic(e, t, a) /\ Basic(e, t, c)
  BY DEF Shape, Run!D, Run!Warning, Basic, Calm
<1>2. Run(e)!Failed(t, "sssd") => Basic(e, t, b)
  BY DEF Shape, Run!D, Run!BlocksLogin, Basic, Calm, LocalSteps
<1> HIDE DEF a, b, c
<1>3. /\ Basics(e, t, Run(e)!When(Run(e)!Failed(t, "enroll"), a))
      /\ Basics(e, t, Run(e)!When(Run(e)!Failed(t, "sssd"), b))
      /\ Basics(e, t, Run(e)!When(Run(e)!Outcome(t, "sssd") = "WARN", c))
  BY <1>1, <1>2, BasicsWhen DEF Run!Failed
<1> QED
  BY <1>3, BasicsJoin DEF Run!EnrollmentRules, a, b, c

LEMMA BasicsOne == ASSUME NEW e, NEW t, NEW d, Basic(e, t, d) PROVE Basics(e, t, <<d>>)
BY Singleton DEF Basics

LEMMA SrvRules ==
  ASSUME NEW e, NEW t, NEW steps, NEW code \in {"DNS_SRV_MISSING", "DNS_SRV_QUERY_FAILED"}
  PROVE  Basics(e, t, Run(e)!SrvRule(t, steps, code))
<1> DEFINE d == Run(e)!D(code, "DNS", IF "dns.srv_ldap" \in steps THEN "dns.srv_ldap" ELSE "dns.srv_kerberos")
<1>1. Basic(e, t, Run(e)!Warning(d)) /\ Basic(e, t, Run(e)!BlocksRuntime(d))
  BY DEF Shape, Run!D, Run!Warning, Run!BlocksRuntime, Basic, Calm
<1> HIDE DEF d
<1>2. Basics(e, t, Run(e)!When(steps # {}, IF Run(e)!Fact(t, "sssd", "fixed", FALSE) THEN Run(e)!Warning(d)
                                                                                 ELSE Run(e)!BlocksRuntime(d)))
  BY <1>1, BasicsWhen
<1> QED
  BY <1>2 DEF Run!SrvRule, d

LEMMA Dns ==
  ASSUME NEW e, NEW t
  PROVE  /\ Basics(e, t, Run(e)!DnsRules(t))
         /\ Run(e)!Failed(t, "dns.server") => \E d \in Members(Run(e)!DnsRules(t)) : d.symptom = "dns.server"
<1>1. CASE Run(e)!Failed(t, "dns.server")
  <2>1. PICK code \in {"DNS_NO_RESOLVER", "DNS_RESOLVER_NOT_ANSWERING", "DNS_SERVER_UNRESOLVABLE"} :
          Run(e)!DnsRules(t) = <<Run(e)!BlocksLogin(Run(e)!D(code, "DNS", "dns.server"))>>
    BY <1>1 DEF Run!DnsRules
  <2> DEFINE d == Run(e)!BlocksLogin(Run(e)!D(code, "DNS", "dns.server"))
  <2>2. Basic(e, t, d) /\ d.symptom = "dns.server"
    BY DEF Shape, Run!D, Run!BlocksLogin, Basic, Calm
  <2> HIDE DEF d
  <2>3. Run(e)!DnsRules(t) = <<d>>
    BY <2>1 DEF d
  <2> QED
    BY <2>2, <2>3, BasicsOne, Singleton
<1>2. CASE ~Run(e)!Failed(t, "dns.server")
  <2>1. PICK r, s : Run(e)!DnsRules(t) = Run(e)!SrvRule(t, r, "DNS_SRV_QUERY_FAILED")
                                         \o Run(e)!SrvRule(t, s, "DNS_SRV_MISSING")
    BY <1>2 DEF Run!DnsRules
  <2> QED
    BY <1>2, <2>1, SrvRules, BasicsJoin
<1> QED
  BY <1>1, <1>2

LEMMA Network == ASSUME NEW e, NEW t PROVE Basics(e, t, Run(e)!NetworkRules(t))
<1> DEFINE a == Run(e)!BlocksLogin(Run(e)!D("SERVER_UNREACHABLE", "NETWORK", "net.https"))
           b == Run(e)!BlocksRuntime(Run(e)!D("LDAP_UNREACHABLE", "NETWORK", "net.ldap"))
           c == Run(e)!Warning(Run(e)!D("HTTPS_UNREACHABLE", "NETWORK", "net.https"))
           d == Run(e)!BlocksRuntime(Run(e)!D("CA_TRUST_FAILED", "TLS", "tls"))
<1>1. Basic(e, t, a) /\ Basic(e, t, b) /\ Basic(e, t, c) /\ Basic(e, t, d)
  BY DEF Shape, Run!D, Run!Warning, Run!BlocksLogin, Run!BlocksRuntime, Basic, Calm
<1> HIDE DEF a, b, c, d
<1> DEFINE https == Run(e)!Outcome(t, "net.https")
           ldap == Run(e)!Outcome(t, "net.ldap")
<1>2. /\ Basics(e, t, Run(e)!When(Run(e)!Outcome(t, "dns.server") = "PASS" /\ https = "FAIL" /\ ldap = "FAIL", a))
      /\ Basics(e, t, Run(e)!When(ldap = "FAIL" /\ https = "PASS", b))
      /\ Basics(e, t, Run(e)!When(https = "FAIL" /\ ldap = "PASS", c))
      /\ Basics(e, t, Run(e)!When(Run(e)!Failed(t, "tls"), d))
  BY <1>1, BasicsWhen DEF Run!Failed
<1> QED
  BY <1>2, BasicsJoin DEF Run!NetworkRules, a, b, c, d

LEMMA Time == ASSUME NEW e, NEW t PROVE Basics(e, t, Run(e)!TimeRules(t))
<1> DEFINE skew(step) == Run(e)!Keyed(Run(e)!BlocksLogin(Run(e)!D("CLOCK_SKEW", "TIME", step)), "client.clock-skew")
           server == Run(e)!Outcome(t, "time.server")
           skewed == server = "FAIL" \/ Run(e)!KrbError(t) = "clock_skew"
           a == skew(IF server = "FAIL" THEN "time.server" ELSE "krb")
           b == Run(e)!Warning(Run(e)!D("CLOCK_DRIFT", "TIME", "time.server"))
           c == Run(e)!Warning(Run(e)!D("NTP_NOT_SYNCHRONIZED", "TIME", "time.local"))
<1>1. Basic(e, t, a) /\ Basic(e, t, b) /\ Basic(e, t, c)
  BY DEF Shape, Run!D, Run!Warning, Run!BlocksLogin, Run!Keyed, Basic, Calm
<1>2. Run(e)!TimeRules(t)
        = Run(e)!When(skewed, a) \o Run(e)!When(server = "WARN" /\ ~skewed, b)
          \o Run(e)!When(Run(e)!Outcome(t, "time.local") = "WARN" /\ ~skewed, c)
  BY DEF Run!TimeRules
<1> HIDE DEF a, b, c
<1>3. /\ Basics(e, t, Run(e)!When(skewed, a)) /\ Basics(e, t, Run(e)!When(server = "WARN" /\ ~skewed, b))
      /\ Basics(e, t, Run(e)!When(Run(e)!Outcome(t, "time.local") = "WARN" /\ ~skewed, c))
  BY <1>1, BasicsWhen
<1> QED
  BY <1>2, <1>3, BasicsJoin

LEMMA Keytab == ASSUME NEW e, NEW t PROVE Basics(e, t, Run(e)!KeytabRules(t))
<1> DEFINE d(code) == Run(e)!D(code, "KEYTAB", "keytab")
           a == Run(e)!Keyed(Run(e)!BlocksLogin(d("HOST_KEYTAB_MISSING")), "client.host-keytab-problem")
           b == Run(e)!BlocksRuntime(d("HOST_KEYTAB_UNREADABLE"))
           c == Run(e)!Keyed(Run(e)!BlocksLogin(d("HOST_KEYTAB_WRONG_PRINCIPAL")), "client.host-keytab-problem")
           w == Run(e)!Warning(d("HOST_KEYTAB_PERMISSIONS"))
<1>1. Basic(e, t, a) /\ Basic(e, t, b) /\ Basic(e, t, c) /\ Basic(e, t, w)
  BY DEF Shape, Run!D, Run!Warning, Run!BlocksLogin, Run!BlocksRuntime, Run!Keyed, Basic, Calm
<1>2. PICK x \in {a, b, c} :
        Run(e)!KeytabRules(t) = Run(e)!When(Run(e)!Failed(t, "keytab"), x)
                                \o Run(e)!When(Run(e)!Outcome(t, "keytab") = "WARN", w)
  BY DEF Run!KeytabRules
<1> HIDE DEF a, b, c, w
<1>3. /\ Basics(e, t, Run(e)!When(Run(e)!Failed(t, "keytab"), x))
      /\ Basics(e, t, Run(e)!When(Run(e)!Outcome(t, "keytab") = "WARN", w))
  BY <1>1, BasicsWhen DEF Run!Failed
<1> QED
  BY <1>2, <1>3, BasicsJoin

LEMMA BasicRules ==
  ASSUME NEW e, NEW t
  PROVE  /\ Basics(e, t, Run(e)!BasicRules(t))
         /\ Run(e)!Failed(t, "dns.server") => \E d \in Members(Run(e)!BasicRules(t)) : d.symptom = "dns.server"
<1> DEFINE a == Run(e)!EnrollmentRules(t)
           b == Run(e)!DnsRules(t)
           c == Run(e)!NetworkRules(t)
           d == Run(e)!TimeRules(t)
           f == Run(e)!KeytabRules(t)
<1>1. Basics(e, t, a) /\ Basics(e, t, b) /\ Basics(e, t, c) /\ Basics(e, t, d) /\ Basics(e, t, f)
  BY Enrollments, Dns, Network, Time, Keytab
<1>2. Run(e)!Failed(t, "dns.server") => \E x \in Members(b) : x.symptom = "dns.server"
  BY Dns
<1>3. Run(e)!BasicRules(t) = a \o b \o c \o d \o f
  BY DEF Run!BasicRules
<1> HIDE DEF a, b, c, d, f
<1>4. Basics(e, t, a \o b) /\ Basics(e, t, a \o b \o c) /\ Basics(e, t, a \o b \o c \o d)
      /\ Basics(e, t, a \o b \o c \o d \o f)
  BY <1>1, BasicsJoin
<1>5. Members(b) \subseteq Members(a \o b) /\ Members(a \o b) \subseteq Members(a \o b \o c)
      /\ Members(a \o b \o c) \subseteq Members(a \o b \o c \o d)
      /\ Members(a \o b \o c \o d) \subseteq Members(a \o b \o c \o d \o f)
  BY <1>1, <1>4, Appended DEF Basics
<1> QED
  BY <1>2, <1>3, <1>4, <1>5

(* A failure that explains itself, and how every diagnosis leads to one: the*)
(* one it is related to, or the one that is related to.                    *)
Below == {"DNS", "NETWORK", "TLS", "TIME", "KEYTAB", "KERBEROS", "ENROLLMENT"}
Ground(d) == d.severity = "FAIL" /\ d.related = "none" /\ d.kind # "CONTRADICTING"
Leads(X, d) ==
  d.related # "none" =>
    \E u \in Members(X) : /\ u.code = d.related /\ u.severity = "FAIL" /\ u.kind # "CONTRADICTING"
                          /\ \/ u.related = "none"
                             \/ \E v \in Members(X) : v.code = u.related /\ Ground(v)
OfflineGround(X, d) ==
  d.code = "SSSD_OFFLINE" =>
    /\ d.severity = "FAIL" /\ d.kind # "CONTRADICTING"
    /\ d.related = "none" \/ \E v \in Members(X) : v.code = d.related /\ Ground(v)
NetFailure(d) == d.severity = "FAIL" /\ d.capability \in Below
Rooted(e, t, X) ==
  /\ Listed(X)
  /\ \A d \in Members(X) : Shape(d) /\ Calm(e, t, d) /\ Leads(X, d) /\ OfflineGround(X, d)
  /\ \A i \in DOMAIN X : NetFailure(X[i]) =>
       /\ X[i].kind # "CONTRADICTING"
       /\ X[i].related # "none" => \E j \in DOMAIN X : j < i /\ NetFailure(X[j])
Added(e, t, X, d) ==
  /\ Shape(d) /\ Calm(e, t, d) /\ Leads(X, d) /\ OfflineGround(X, d) /\ d.capability \notin Below

(* Later rules add to what is rooted, if each of theirs is.                *)
LEMMA Extended ==
  ASSUME NEW e, NEW t, NEW X, Rooted(e, t, X), NEW s, Listed(s), \A d \in Members(s) : Added(e, t, X \o s, d)
  PROVE  Rooted(e, t, X \o s)
<1> DEFINE Y == X \o s
<1>1. /\ Listed(Y) /\ Members(Y) = Members(X) \cup Members(s)
      /\ \A i \in DOMAIN X : i \in DOMAIN Y /\ Y[i] = X[i]
      /\ \A i \in DOMAIN Y : i \in DOMAIN X \/ Y[i] \in Members(s)
  BY Appended DEF Rooted
<1>2. \A d \in Members(s) : Added(e, t, Y, d)
  OBVIOUS
<1> HIDE DEF Y
<1>3. ASSUME NEW d \in Members(Y)
      PROVE  Shape(d) /\ Calm(e, t, d) /\ Leads(Y, d) /\ OfflineGround(Y, d)
  <2>1. CASE d \in Members(X)
    <3>1. Shape(d) /\ Calm(e, t, d) /\ Leads(X, d) /\ OfflineGround(X, d)
      BY <2>1 DEF Rooted
    <3> QED
      BY <1>1, <3>1 DEF Leads, OfflineGround
  <2>2. CASE d \in Members(s)
    BY <1>2, <2>2 DEF Added
  <2> QED
    BY <1>1, <1>3, <2>1, <2>2
<1>4. ASSUME NEW i \in DOMAIN Y, NetFailure(Y[i])
      PROVE  /\ Y[i].kind # "CONTRADICTING"
             /\ Y[i].related # "none" => \E j \in DOMAIN Y : j < i /\ NetFailure(Y[j])
  <2>1. i \in DOMAIN X
    BY <1>1, <1>2, <1>4 DEF Added, NetFailure
  <2>2. Y[i] = X[i]
    BY <1>1, <2>1
  <2>3. /\ X[i].kind # "CONTRADICTING"
        /\ X[i].related # "none" => \E j \in DOMAIN X : j < i /\ NetFailure(X[j])
    BY <1>4, <2>1, <2>2 DEF Rooted
  <2> QED
    BY <1>1, <2>2, <2>3
<1> QED
  BY <1>1, <1>3, <1>4 DEF Rooted, Y

(* The first of some places.                                               *)
LEMMA LeastNatural ==
  ASSUME NEW S \in SUBSET Nat, S # {} PROVE \E x \in S : \A y \in S : x <= y
<1>1. IsWellFoundedOn(OpToRel(<, Nat), Nat)
  BY NatLessThanWellFounded
<1>2. PICK x \in S : \A y \in S : ~(<<y, x>> \in OpToRel(<, Nat))
  BY <1>1, WFMin
<1>3. OpToRel(<, Nat) = {ss \in Nat \X Nat : ss[1] < ss[2]}
  BY DEF OpToRel
<1>4. \A y \in S : ~(y < x)
  BY <1>2, <1>3
<1> QED
  BY <1>4

(* What UpstreamNet names explains itself.                                 *)
LEMMA NetGround ==
  ASSUME NEW e, NEW t, NEW X, Rooted(e, t, X), Run(e)!UpstreamNet(X) # "none"
  PROVE  \E v \in Members(X) : v.code = Run(e)!UpstreamNet(X) /\ Ground(v)
<1> DEFINE S == {i \in DOMAIN X : /\ X[i].severity = "FAIL"
                                  /\ X[i].capability \in {"DNS", "NETWORK", "TLS", "TIME", "KEYTAB", "KERBEROS",
                                                          "ENROLLMENT"}}
           f == CHOOSE i \in S : \A j \in S : i <= j
<1>1. S # {} /\ Run(e)!UpstreamNet(X) = X[f].code
  BY DEF Run!UpstreamNet, Run!First
<1>2. S \in SUBSET Nat /\ DOMAIN X = 1..Len(X) /\ Len(X) \in Nat
  BY DEF Rooted, Listed
<1>3. \A i \in DOMAIN X : i \in S <=> NetFailure(X[i])
  BY DEF NetFailure, Below
<1> HIDE DEF S
<1>4. f \in S /\ \A j \in S : f <= j
  <2>1. \E i \in S : \A j \in S : i <= j
    BY <1>1, <1>2, LeastNatural
  <2> QED
    BY <2>1
<1> HIDE DEF f
<1>5. f \in DOMAIN X
  BY <1>4 DEF S
<1>6. Ground(X[f])
  <2>1. X[f].kind # "CONTRADICTING" /\ NetFailure(X[f])
    BY <1>3, <1>4, <1>5 DEF Rooted
  <2>2. ~ \E j \in DOMAIN X : j < f /\ NetFailure(X[j])
    BY <1>2, <1>3, <1>4, <1>5
  <2>3. X[f].related = "none"
    BY <1>5, <2>1, <2>2 DEF Rooted
  <2> QED
    BY <2>1, <2>3 DEF Ground, NetFailure
<1> QED
  BY <1>1, <1>5, <1>6 DEF Members

(* Blaming a record of the domain makes a failure of a warning, no more.   *)
LEMMA Raised ==
  ASSUME NEW e, NEW t, NEW B, Basics(e, t, B)
  PROVE  LET R == Run(e)!Raise(t, B) IN
         /\ Listed(R) /\ DOMAIN R = DOMAIN B
         /\ \A i \in DOMAIN B :
              /\ Shape(R[i]) /\ Calm(e, t, R[i]) /\ R[i].related = "none" /\ R[i].kind = "none"
              /\ R[i].code = B[i].code /\ R[i].capability = B[i].capability /\ R[i].symptom = B[i].symptom
              /\ B[i].severity = "FAIL" \/ B[i].code = Run(e)!SrvBlamed(t) => R[i].severity = "FAIL"
<1> DEFINE R == Run(e)!Raise(t, B)
<1>1. /\ B \in Seq(Members(B)) /\ DOMAIN B = 1..Len(B) /\ Len(B) \in Nat
      /\ \A i \in DOMAIN B : Basic(e, t, B[i])
  BY DEF Basics, Listed, Members
<1>2. DOMAIN R = DOMAIN B
  BY DEF Run!Raise
<1>3. Listed(R)
  <2>1. R = [i \in 1..Len(B) |-> R[i]]
    BY <1>1 DEF Run!Raise
  <2> HIDE DEF R
  <2>2. \A i \in 1..Len(B) : R[i] \in Members(R)
    BY <1>1, <1>2 DEF Members
  <2> QED
    BY <1>1, <2>1, <2>2 DEF Listed
<1>4. ASSUME NEW i \in DOMAIN B
      PROVE  /\ Shape(R[i]) /\ Calm(e, t, R[i]) /\ R[i].related = "none" /\ R[i].kind = "none"
             /\ R[i].code = B[i].code /\ R[i].capability = B[i].capability /\ R[i].symptom = B[i].symptom
             /\ B[i].severity = "FAIL" \/ B[i].code = Run(e)!SrvBlamed(t) => R[i].severity = "FAIL"
  <2>1. R[i] = IF B[i].code = Run(e)!SrvBlamed(t) /\ B[i].severity = "WARN"
               THEN [B[i] EXCEPT !.severity = "FAIL", !.blocks_runtime = TRUE] ELSE B[i]
    BY DEF Run!Raise
  <2> HIDE DEF R
  <2>2. Basic(e, t, B[i]) /\ Shape(B[i])
    BY <1>1 DEF Basic
  <2>3. CASE B[i].code = Run(e)!SrvBlamed(t) /\ B[i].severity = "WARN"
    <3>1. R[i] = [B[i] EXCEPT !.severity = "FAIL", !.blocks_runtime = TRUE]
      BY <2>1, <2>3
    <3>2. /\ DOMAIN R[i] = DOMAIN B[i] /\ R[i].severity = "FAIL" /\ R[i].related = B[i].related
          /\ R[i].kind = B[i].kind /\ R[i].code = B[i].code /\ R[i].capability = B[i].capability
          /\ R[i].symptom = B[i].symptom
          /\ R[i].blocks_runtime = TRUE /\ R[i].blocks_authentication = B[i].blocks_authentication
      BY <2>2, <3>1 DEF Shape
    <3>3. Run(e)!SrvBlamed(t) \in {"none", "DNS_SRV_MISSING", "DNS_SRV_QUERY_FAILED"}
      BY DEF Run!SrvBlamed
    <3>4. R[i].capability = "DNS"
      BY <2>2, <2>3, <3>2, <3>3 DEF Basic
    <3> QED
      BY <2>2, <3>2, <3>4 DEF Basic, Shape, Calm
  <2>4. CASE ~(B[i].code = Run(e)!SrvBlamed(t) /\ B[i].severity = "WARN")
    <3>1. R[i] = B[i]
      BY <2>1, <2>4
    <3> QED
      BY <2>2, <2>4, <3>1 DEF Basic, Shape
  <2> QED
    BY <2>3, <2>4
<1> QED
  BY <1>2, <1>3, <1>4

(* What a ticket fails of is one of the classes kinit is read into.        *)
KinitAnswers == {"ok", "clock_skew", "kdc_unreachable", "kdc_unresolvable", "principal_unknown", "key_rejected",
                 "other", "unasked"}

LEMMA KrbErrors ==
  ASSUME NEW e, NEW t, e.kinit \in KinitAnswers
  PROVE  Run(e)!KrbError(t) \in {"none", "clock_skew", "kdc_unreachable", "kdc_unresolvable", "principal_unknown",
                                 "key_rejected", "other"}
<1>1. Run(e)!CheckOf("krb") = Run(e)!KinitCheck
  BY DEF Run!CheckOf
<1>2. Run(e)!Field(Run(e)!KinitCheck, "error_class", "none")
        = IF e.kinit \in {"ok", "unasked"} THEN "none" ELSE e.kinit
  BY DEF Run!Field, Run!KinitCheck, Run!CheckResult, Run!NotRun
<1> QED
  BY <1>1, <1>2 DEF Run!KrbError, Run!Fact, KinitAnswers

(* What the failed ticket is put down to is a failure found before.        *)
Names(e, t, B, code) ==
  code # "none" =>
    \E i \in DOMAIN B : LET r == Run(e)!Raise(t, B)[i] IN r.code = code /\ NetFailure(r) /\ Ground(r)

(* A code is named only if it was found.                                   *)
LEMMA CodeFound ==
  ASSUME NEW e, NEW B, NEW code
  PROVE  /\ Run(e)!CodeIf(B, code) \in {"none", code}
         /\ Run(e)!CodeIf(B, code) # "none" => \E i \in DOMAIN B : B[i].code = code
BY DEF Run!CodeIf, Run!Codes

(* What a ticket may be put down to: DNS, a record, or the first of both.  *)
LEMMA Blamed ==
  ASSUME NEW e, NEW t, NEW B, Basics(e, t, B),
         Run(e)!Failed(t, "dns.server") => \E d \in Members(B) : d.symptom = "dns.server"
  PROVE  /\ Run(e)!Failed(t, "dns.server") => Names(e, t, B, Run(e)!DnsFail(t, B))
         /\ Names(e, t, B, Run(e)!CodeIf(B, Run(e)!SrvBlamed(t)))
         /\ Names(e, t, B, Run(e)!Upstream(t, B))
<1> DEFINE R == Run(e)!Raise(t, B)
<1>1. \A i \in DOMAIN B :
        /\ R[i].related = "none" /\ R[i].kind = "none" /\ R[i].code = B[i].code /\ R[i].capability = B[i].capability
        /\ B[i].severity = "FAIL" \/ B[i].code = Run(e)!SrvBlamed(t) => R[i].severity = "FAIL"
  BY Raised
<1> HIDE DEF R
<1>2. \A i \in DOMAIN B : Basic(e, t, B[i])
  BY DEF Basics, Members
<1>3. ASSUME NEW i \in DOMAIN B, B[i].capability \in Below,
             B[i].severity = "FAIL" \/ B[i].code = Run(e)!SrvBlamed(t)
      PROVE  Names(e, t, B, B[i].code)
  <2>1. R[i].code = B[i].code /\ NetFailure(R[i]) /\ Ground(R[i])
    BY <1>1, <1>3 DEF NetFailure, Ground
  <2> QED
    BY <2>1 DEF Names, R
<1>4. ASSUME Run(e)!Failed(t, "dns.server") PROVE Names(e, t, B, Run(e)!DnsFail(t, B))
  <2> DEFINE x == CHOOSE d \in Run(e)!Range(B) : d.symptom = "dns.server"
  <2>1. Run(e)!DnsFail(t, B) = x.code
    BY <1>4 DEF Run!DnsFail
  <2>2. x \in Members(B) /\ x.symptom = "dns.server"
    BY <1>4 DEF Run!Range, Members
  <2> HIDE DEF x
  <2>3. PICK i \in DOMAIN B : B[i] = x
    BY <2>2 DEF Members
  <2>4. B[i].severity = "FAIL" /\ B[i].capability \in Below
    BY <1>2, <2>2, <2>3 DEF Basic, Below
  <2> QED
    BY <1>3, <2>1, <2>3, <2>4
<1>5. Names(e, t, B, Run(e)!CodeIf(B, Run(e)!SrvBlamed(t)))
  <2>1. CASE Run(e)!CodeIf(B, Run(e)!SrvBlamed(t)) = "none"
    BY <2>1 DEF Names
  <2>2. CASE Run(e)!CodeIf(B, Run(e)!SrvBlamed(t)) # "none"
    <3>1. PICK i \in DOMAIN B : B[i].code = Run(e)!SrvBlamed(t)
      BY <2>2, CodeFound
    <3>2. Run(e)!CodeIf(B, Run(e)!SrvBlamed(t)) = B[i].code
      BY <2>2, <3>1, CodeFound
    <3>3. B[i].code \in {"none", "DNS_SRV_MISSING", "DNS_SRV_QUERY_FAILED"}
      BY <3>1 DEF Run!SrvBlamed
    <3>4. B[i].capability \in Below
      BY <1>2, <3>3 DEF Basic, Below
    <3> QED
      BY <1>3, <3>1, <3>2, <3>4
  <2> QED
    BY <2>1, <2>2
<1>6. Names(e, t, B, Run(e)!Upstream(t, B))
  <2>1. CASE Run(e)!Failed(t, "dns.server")
    BY <1>4, <2>1 DEF Run!Upstream
  <2>2. CASE ~Run(e)!Failed(t, "dns.server") /\ Run(e)!CodeIf(B, "SERVER_UNREACHABLE") # "none"
    <3>1. PICK i \in DOMAIN B : B[i].code = "SERVER_UNREACHABLE"
      BY <2>2, CodeFound
    <3>2. B[i].severity = "FAIL" /\ B[i].capability \in Below
      BY <1>2, <3>1 DEF Basic, Below
    <3>3. Run(e)!Upstream(t, B) = B[i].code
      BY <2>2, <3>1, CodeFound DEF Run!Upstream
    <3> QED
      BY <1>3, <3>2, <3>3
  <2>3. CASE ~Run(e)!Failed(t, "dns.server") /\ Run(e)!CodeIf(B, "SERVER_UNREACHABLE") = "none"
    BY <2>3 DEF Names, Run!Upstream
  <2> QED
    BY <2>1, <2>2, <2>3
<1> QED
  BY <1>4, <1>5, <1>6

(* The failed ticket: what kind of diagnosis it is.                        *)
Ticket(e, t, B, d) ==
  /\ Shape(d) /\ Calm(e, t, d) /\ d.severity = "FAIL" /\ d.kind # "CONTRADICTING" /\ d.code # "SSSD_OFFLINE"
  /\ Names(e, t, B, d.related)

LEMMA Tickets ==
  ASSUME NEW e, NEW t, NEW B, e.kinit \in KinitAnswers, Basics(e, t, B),
         Run(e)!Failed(t, "dns.server") => \E d \in Members(B) : d.symptom = "dns.server"
  PROVE  Run(e)!KerberosRule(t, B) = <<>> \/ \E d : Run(e)!KerberosRule(t, B) = <<d>> /\ Ticket(e, t, B, d)
<1> DEFINE k(code) == Run(e)!D(code, "KERBEROS", "krb")
           error == Run(e)!KrbError(t)
<1>1. Names(e, t, B, "none")
  BY DEF Names
<1>2. ASSUME NEW code, Names(e, t, B, code),
             NEW plain \in {Run(e)!BlocksLogin(k("KDC_NOT_RESOLVABLE")), Run(e)!BlocksLogin(k("KDC_UNREACHABLE")),
                            Run(e)!BlocksRuntime(k("KERBEROS_FAILED"))}
      PROVE  Ticket(e, t, B, Run(e)!Related(plain, code)) /\ Ticket(e, t, B, Run(e)!Unexplained(plain))
  <2>1. /\ Shape(plain) /\ plain.severity = "FAIL" /\ plain.kind = "none" /\ plain.code # "SSSD_OFFLINE"
        /\ plain.capability = "KERBEROS" /\ plain.related = "none"
    BY DEF Run!D, Run!BlocksLogin, Run!BlocksRuntime, Shape
  <2> QED
    BY <1>1, <1>2, <2>1 DEF Ticket, Run!Related, Run!Unexplained, Shape, Calm
<1>3. error \in {"none", "clock_skew"} => Run(e)!KerberosRule(t, B) = <<>>
  BY DEF Run!KerberosRule
<1>4. CASE error = "kdc_unresolvable"
  <2> DEFINE plain == Run(e)!BlocksLogin(k("KDC_NOT_RESOLVABLE"))
  <2>1. \/ /\ Run(e)!Failed(t, "dns.server")
           /\ Run(e)!KerberosRule(t, B) = <<Run(e)!Related(plain, Run(e)!DnsFail(t, B))>>
        \/ Run(e)!KerberosRule(t, B) = <<Run(e)!Related(plain, Run(e)!CodeIf(B, Run(e)!SrvBlamed(t)))>>
        \/ Run(e)!KerberosRule(t, B) = <<Run(e)!Unexplained(plain)>>
    BY <1>4 DEF Run!KerberosRule
  <2> HIDE DEF plain
  <2> QED
    BY <1>1, <1>2, <2>1, Blamed DEF plain
<1>5. CASE error = "kdc_unreachable"
  <2> DEFINE plain == Run(e)!BlocksLogin(k("KDC_UNREACHABLE"))
  <2>1. Run(e)!KerberosRule(t, B) = <<Run(e)!Related(plain, Run(e)!Upstream(t, B))>>
    BY <1>5 DEF Run!KerberosRule
  <2> QED
    BY <1>2, <2>1, Blamed
<1>6. CASE error = "other"
  <2> DEFINE plain == Run(e)!BlocksRuntime(k("KERBEROS_FAILED"))
  <2>1. \/ Run(e)!KerberosRule(t, B) = <<Run(e)!Related(plain, Run(e)!Upstream(t, B))>>
        \/ Run(e)!KerberosRule(t, B) = <<Run(e)!Unexplained(plain)>>
    BY <1>6 DEF Run!KerberosRule, Run!RelatedOrUnexplained
  <2> QED
    BY <1>1, <1>2, <2>1, Blamed
<1>7. CASE error = "principal_unknown"
  <2> DEFINE d == Run(e)!Keyed(Run(e)!BlocksLogin(Run(e)!D("HOST_PRINCIPAL_UNKNOWN", "ENROLLMENT", "krb")),
                               "client.host-principal-unknown")
  <2>1. Run(e)!KerberosRule(t, B) = <<d>>
    BY <1>7 DEF Run!KerberosRule
  <2>2. Ticket(e, t, B, d)
    BY <1>1 DEF Ticket, Run!D, Run!Keyed, Run!BlocksLogin, Shape, Calm
  <2> QED
    BY <2>1, <2>2
<1>8. CASE error = "key_rejected"
  <2> DEFINE d == Run(e)!Keyed(Run(e)!BlocksLogin(Run(e)!D("HOST_KEY_REJECTED", "KEYTAB", "krb")),
                               "client.host-keytab-problem")
  <2>1. Run(e)!KerberosRule(t, B) = <<d>>
    BY <1>8 DEF Run!KerberosRule
  <2>2. Ticket(e, t, B, d)
    BY <1>1 DEF Ticket, Run!D, Run!Keyed, Run!BlocksLogin, Shape, Calm
  <2> QED
    BY <2>1, <2>2
<1> QED
  BY <1>3, <1>4, <1>5, <1>6, <1>7, <1>8, KrbErrors

(* What is found up to the ticket is rooted.                               *)
LEMMA KerberosRooted ==
  ASSUME NEW e, NEW t, NEW B, e.kinit \in KinitAnswers, Basics(e, t, B),
         Run(e)!Failed(t, "dns.server") => \E d \in Members(B) : d.symptom = "dns.server"
  PROVE  Rooted(e, t, Run(e)!Kerberos(t, B))
<1> DEFINE R == Run(e)!Raise(t, B)
           K == Run(e)!KerberosRule(t, B)
           X == R \o K
<1>1. /\ Listed(R) /\ DOMAIN R = DOMAIN B
      /\ \A i \in DOMAIN R : /\ Shape(R[i]) /\ Calm(e, t, R[i]) /\ R[i].related = "none" /\ R[i].kind = "none"
                             /\ R[i].code # "SSSD_OFFLINE"
  <2>1. \A i \in DOMAIN B : B[i].code # "SSSD_OFFLINE"
    BY DEF Basics, Basic, Members
  <2> HIDE DEF R
  <2> QED
    BY <2>1, Raised DEF R
<1>2. K = <<>> \/ \E d : K = <<d>> /\ Ticket(e, t, B, d)
  BY Tickets
<1>3. Listed(K) /\ \A d \in Members(K) : Ticket(e, t, B, d)
  <2> HIDE DEF K
  <2> QED
    BY <1>2, Singleton, Nothing
<1> HIDE DEF R, K
<1>4. /\ Listed(X) /\ Members(X) = Members(R) \cup Members(K)
      /\ \A i \in DOMAIN R : i \in DOMAIN X /\ X[i] = R[i]
      /\ \A i \in DOMAIN X : i \in DOMAIN R \/ X[i] \in Members(K)
  BY <1>1, <1>3, Appended
<1>5. \A i \in DOMAIN R, j \in DOMAIN X : j \in DOMAIN R \/ i < j
  <2>1. DOMAIN R = 1..Len(R) /\ Len(R) \in Nat /\ DOMAIN X = 1..Len(X) /\ Len(X) \in Nat
    BY <1>1, <1>4 DEF Listed
  <2> HIDE DEF X
  <2> QED
    BY <2>1
<1> HIDE DEF X
<1>6. ASSUME NEW d \in Members(K)
      PROVE  d.related # "none" => \E i \in DOMAIN R : R[i].code = d.related /\ NetFailure(R[i]) /\ Ground(R[i])
  BY <1>1, <1>3 DEF Ticket, Names, R
<1>7. ASSUME NEW d \in Members(X)
      PROVE  Shape(d) /\ Calm(e, t, d) /\ Leads(X, d) /\ OfflineGround(X, d)
  <2>1. CASE d \in Members(R)
    BY <1>1, <2>1 DEF Members, Leads, OfflineGround
  <2>2. CASE d \in Members(K)
    <3>1. Shape(d) /\ Calm(e, t, d) /\ d.code # "SSSD_OFFLINE"
      BY <1>3, <2>2 DEF Ticket
    <3>2. Leads(X, d)
      <4> SUFFICES ASSUME d.related # "none" PROVE Leads(X, d)
        BY DEF Leads
      <4>1. PICK i \in DOMAIN R : R[i].code = d.related /\ Ground(R[i])
        BY <1>6, <2>2
      <4>2. R[i] \in Members(X)
        BY <1>4 DEF Members
      <4> QED
        BY <4>1, <4>2 DEF Leads, Ground
    <3> QED
      BY <3>1, <3>2 DEF OfflineGround
  <2> QED
    BY <1>4, <2>1, <2>2
<1>8. ASSUME NEW i \in DOMAIN X, NetFailure(X[i])
      PROVE  /\ X[i].kind # "CONTRADICTING"
             /\ X[i].related # "none" => \E j \in DOMAIN X : j < i /\ NetFailure(X[j])
  <2>1. CASE i \in DOMAIN R
    BY <1>1, <1>4, <2>1
  <2>2. CASE i \notin DOMAIN R
    <3>1. X[i] \in Members(K)
      BY <1>4, <2>2
    <3>2. X[i].kind # "CONTRADICTING"
      BY <1>3, <3>1 DEF Ticket
    <3>3. ASSUME X[i].related # "none" PROVE \E j \in DOMAIN X : j < i /\ NetFailure(X[j])
      <4>1. PICK j \in DOMAIN R : NetFailure(R[j])
        BY <1>6, <3>1, <3>3
      <4> QED
        BY <1>4, <1>5, <2>2, <4>1
    <3> QED
      BY <3>2, <3>3
  <2> QED
    BY <2>1, <2>2
<1>9. Rooted(e, t, X)
  BY <1>4, <1>7, <1>8 DEF Rooted
<1> QED
  BY <1>9 DEF Run!Kerberos, X, R, K

(* SSSD itself: its configuration, its cache database, its service.        *)
LEMMA SssdAdded ==
  ASSUME NEW e, NEW t, NEW X, Rooted(e, t, X)
  PROVE  Rooted(e, t, X \o Run(e)!SssdRules(t))
<1> DEFINE down       == Run(e)!Failed(t, "sssd.service")
           wrong      == Run(e)!Failed(t, "sssd.config")
           db         == down /\ Run(e)!DbSignalled(t) /\ ~wrong
           invalid    == Run(e)!D("SSSD_CONFIG_INVALID", "SSSD_CONFIG", "sssd.config")
           a == IF down THEN Run(e)!BlocksRuntime(invalid) ELSE invalid
           b == Run(e)!Keyed(Run(e)!BlocksRuntime(Run(e)!D("SSSD_CACHE_DB_ERROR", "CACHE", "sssd.service")),
                             "client.sssd-cache-db-error")
           plain == Run(e)!Keyed(Run(e)!BlocksLogin(Run(e)!D("SSSD_NOT_RUNNING", "SSSD_SERVICE", "sssd.service")),
                                 "client.sssd-not-running")
           c == IF wrong THEN Run(e)!Related(plain, "SSSD_CONFIG_INVALID")
                ELSE IF db THEN Run(e)!Related(plain, "SSSD_CACHE_DB_ERROR") ELSE plain
           s1 == Run(e)!When(wrong, a)
           s2 == Run(e)!When(db, b)
           s3 == Run(e)!When(down, c)
           S == s1 \o s2 \o s3
<1>1. Run(e)!SssdRules(t) = S
  BY DEF Run!SssdRules
<1>2. /\ Shape(a) /\ Ground(a) /\ a.code = "SSSD_CONFIG_INVALID" /\ a.capability = "SSSD_CONFIG"
      /\ wrong => Calm(e, t, a)
  BY DEF Run!D, Run!BlocksRuntime, Shape, Ground, Calm, LocalSteps
<1>3. /\ Shape(b) /\ Ground(b) /\ b.code = "SSSD_CACHE_DB_ERROR" /\ b.capability = "CACHE"
      /\ db => Calm(e, t, b)
  BY DEF Run!D, Run!BlocksRuntime, Run!Keyed, Shape, Ground, Calm, LocalSteps
<1>4. /\ Shape(c) /\ c.code = "SSSD_NOT_RUNNING" /\ c.capability = "SSSD_SERVICE" /\ (down => Calm(e, t, c))
      /\ c.related = IF wrong THEN "SSSD_CONFIG_INVALID" ELSE IF db THEN "SSSD_CACHE_DB_ERROR" ELSE "none"
  BY DEF Run!D, Run!BlocksLogin, Run!Keyed, Run!Related, Shape, Calm, LocalSteps
<1> HIDE DEF a, b, c
<1>5. /\ Listed(s1) /\ Members(s1) = (IF wrong THEN {a} ELSE {}) /\ Listed(s2) /\ Members(s2) = (IF db THEN {b} ELSE {})
      /\ Listed(s3) /\ Members(s3) = (IF down THEN {c} ELSE {})
  BY Perhaps DEF Run!Failed
<1> HIDE DEF s1, s2, s3
<1>6. Listed(S) /\ Members(S) = Members(s1) \cup Members(s2) \cup Members(s3)
  BY <1>5, Appended
<1> DEFINE Y == X \o S
<1> HIDE DEF S
<1>7. Listed(X) /\ Members(S) \subseteq Members(Y)
  BY <1>6, Appended DEF Rooted
<1> HIDE DEF Y
<1>8. ASSUME NEW d \in Members(S) PROVE Added(e, t, Y, d)
  <2>1. CASE d = a /\ wrong
    BY <1>2, <2>1 DEF Added, Ground, Leads, OfflineGround, Below
  <2>2. CASE d = b /\ db
    BY <1>3, <2>2 DEF Added, Ground, Leads, OfflineGround, Below
  <2>3. CASE d = c /\ down
    <3>1. /\ wrong => a \in Members(Y)
          /\ db => b \in Members(Y)
      BY <1>5, <1>6, <1>7
    <3>2. Leads(Y, c)
      BY <1>2, <1>3, <1>4, <3>1 DEF Leads, Ground
    <3> QED
      BY <1>4, <2>3, <3>2 DEF Added, OfflineGround, Below
  <2> QED
    BY <1>5, <1>6, <2>1, <2>2, <2>3
<1> QED
  BY <1>1, <1>6, <1>8, Extended DEF Y

(* One more diagnosis, if any.                                             *)
LEMMA OneMore ==
  ASSUME NEW e, NEW t, NEW X, Rooted(e, t, X), NEW s,
         s = <<>> \/ \E d : s = <<d>> /\ Shape(d) /\ Calm(e, t, d) /\ Leads(X, d) /\ OfflineGround(X, d)
                                      /\ d.capability \notin Below
  PROVE  Rooted(e, t, X \o s)
<1>1. /\ Listed(s)
      /\ \A d \in Members(s) : Shape(d) /\ Calm(e, t, d) /\ Leads(X, d) /\ OfflineGround(X, d)
                                        /\ d.capability \notin Below
  BY Singleton, Nothing
<1>2. Members(X) \subseteq Members(X \o s)
  BY <1>1, Appended DEF Rooted
<1>3. \A d \in Members(s) : Added(e, t, X \o s, d)
  BY <1>1, <1>2 DEF Added, Leads, OfflineGround
<1> QED
  BY <1>1, <1>3, Extended

(* What a later diagnosis may be related to.                               *)
LEMMA Attributed ==
  ASSUME NEW e, NEW t, NEW X, Rooted(e, t, X), NEW d,
         d.related \in {"none", Run(e)!UpstreamNet(X), Run(e)!CodeIf(X, "SSSD_OFFLINE")}
  PROVE  Leads(X, d)
<1>1. CASE d.related = Run(e)!UpstreamNet(X)
  BY <1>1, NetGround DEF Leads, Ground
<1>2. CASE d.related = Run(e)!CodeIf(X, "SSSD_OFFLINE") /\ d.related # "none"
  <2>1. PICK i \in DOMAIN X : X[i].code = "SSSD_OFFLINE"
    BY <1>2, CodeFound
  <2>2. X[i] \in Members(X) /\ OfflineGround(X, X[i]) /\ d.related = "SSSD_OFFLINE"
    BY <1>2, <2>1, CodeFound DEF Rooted, Members
  <2> QED
    BY <2>1, <2>2 DEF Leads, OfflineGround
<1> QED
  BY <1>1, <1>2 DEF Leads

(* The rules after it, one lemma for each, leave what is found rooted.     *)
LEMMA OfflineAdded ==
  ASSUME NEW e, NEW t, NEW X, Rooted(e, t, X)
  PROVE  Rooted(e, t, Run(e)!Offline(t, X))
<1> DEFINE p == Run(e)!BlocksRuntime(Run(e)!D("SSSD_OFFLINE", "SSSD_BACKEND", "sssd.domain"))
           net == Run(e)!UpstreamNet(X)
<1>1. \/ Run(e)!OfflineRule(t, X) = <<>>
      \/ \E d \in {p, Run(e)!Related(p, net), Run(e)!Unexplained(p)} : Run(e)!OfflineRule(t, X) = <<d>>
  BY DEF Run!OfflineRule, Run!RelatedOrUnexplained, Run!When
<1>2. /\ Shape(p) /\ p.severity = "FAIL" /\ p.kind = "none" /\ p.related = "none" /\ p.code = "SSSD_OFFLINE"
      /\ p.capability = "SSSD_BACKEND"
  BY DEF Run!D, Run!BlocksRuntime, Shape
<1> HIDE DEF p, net
<1>3. ASSUME NEW d \in {p, Run(e)!Related(p, net), Run(e)!Unexplained(p)}
      PROVE  /\ Shape(d) /\ d.severity = "FAIL" /\ d.kind # "CONTRADICTING" /\ d.related \in {"none", net}
             /\ d.capability = "SSSD_BACKEND"
  BY <1>2 DEF Run!Related, Run!Unexplained, Shape
<1>4. ASSUME NEW d \in {p, Run(e)!Related(p, net), Run(e)!Unexplained(p)}
      PROVE  Shape(d) /\ Calm(e, t, d) /\ Leads(X, d) /\ OfflineGround(X, d) /\ d.capability \notin Below
  BY <1>3, Attributed, NetGround DEF Calm, OfflineGround, Below, net
<1>5. \/ Run(e)!OfflineRule(t, X) = <<>>
      \/ \E d : /\ Run(e)!OfflineRule(t, X) = <<d>>
                /\ Shape(d) /\ Calm(e, t, d) /\ Leads(X, d) /\ OfflineGround(X, d) /\ d.capability \notin Below
  BY <1>1, <1>4
<1> QED
  BY <1>5, OneMore DEF Run!Offline

LEMMA UserAdded ==
  ASSUME NEW e, NEW t, NEW X, Rooted(e, t, X)
  PROVE  Rooted(e, t, Run(e)!User(t, X))
<1> DEFINE p(code, capability) == Run(e)!BlocksRuntime(Run(e)!D(code, capability, "id.user"))
           lookup == p("IDENTITY_LOOKUP_FAILS", "IDENTITY")
           Any == {Run(e)!Related(lookup, Run(e)!UpstreamNet(X)), Run(e)!Related(lookup, Run(e)!CodeIf(X, "SSSD_OFFLINE")),
                   Run(e)!Unexplained(lookup), p("USER_NOT_IN_IPA", "IDENTITY"), p("NAME_NOT_QUALIFIED", "IDENTITY"),
                   Run(e)!Keyed(p("SSSD_CACHE_DB_ERROR", "CACHE"), "client.sssd-cache-db-error"),
                   Run(e)!Keyed(p("SSSD_CACHE_INCONSISTENT", "CACHE"), "client.sssd-stale-user-entry")}
<1>1. \/ Run(e)!UserRule(t, X) = <<>>
      \/ Run(e)!Failed(t, "id.user") /\ \E d \in Any : Run(e)!UserRule(t, X) = <<d>>
  BY DEF Run!UserRule, Run!RelatedOrUnexplained
<1>2. ASSUME NEW d \in Any
      PROVE  /\ Shape(d) /\ d.capability \in {"IDENTITY", "CACHE"} /\ d.code # "SSSD_OFFLINE"
             /\ d.related \in {"none", Run(e)!UpstreamNet(X), Run(e)!CodeIf(X, "SSSD_OFFLINE")}
  BY DEF Run!D, Run!BlocksRuntime, Run!Related, Run!Unexplained, Run!Keyed, Shape
<1> HIDE DEF Any
<1>3. \/ Run(e)!UserRule(t, X) = <<>>
      \/ \E d : /\ Run(e)!UserRule(t, X) = <<d>>
                /\ Shape(d) /\ Calm(e, t, d) /\ Leads(X, d) /\ OfflineGround(X, d) /\ d.capability \notin Below
  BY <1>1, <1>2, Attributed DEF Calm, OfflineGround, Below, LocalSteps
<1> QED
  BY <1>3, OneMore DEF Run!User

LEMMA GroupAdded ==
  ASSUME NEW e, NEW t, NEW X, Rooted(e, t, X)
  PROVE  Rooted(e, t, Run(e)!Group(t, X))
<1> DEFINE p == Run(e)!BlocksRuntime(Run(e)!D("IDENTITY_LOOKUP_FAILS_GENERAL", "IDENTITY", "id.group"))
           Any == {Run(e)!Related(p, Run(e)!UpstreamNet(X)), Run(e)!Unexplained(p)}
<1>1. \/ Run(e)!GroupRule(t, X) = <<>>
      \/ Run(e)!Failed(t, "id.group") /\ \E d \in Any : Run(e)!GroupRule(t, X) = <<d>>
  BY DEF Run!GroupRule, Run!RelatedOrUnexplained, Run!When
<1>2. ASSUME NEW d \in Any
      PROVE  /\ Shape(d) /\ d.capability = "IDENTITY" /\ d.code # "SSSD_OFFLINE"
             /\ d.related \in {"none", Run(e)!UpstreamNet(X)}
  BY DEF Run!D, Run!BlocksRuntime, Run!Related, Run!Unexplained, Shape
<1> HIDE DEF Any
<1>3. \/ Run(e)!GroupRule(t, X) = <<>>
      \/ \E d : /\ Run(e)!GroupRule(t, X) = <<d>>
                /\ Shape(d) /\ Calm(e, t, d) /\ Leads(X, d) /\ OfflineGround(X, d) /\ d.capability \notin Below
  BY <1>1, <1>2, Attributed DEF Calm, OfflineGround, Below, LocalSteps
<1> QED
  BY <1>3, OneMore DEF Run!Group

LEMMA PamAdded ==
  ASSUME NEW e, NEW t, NEW X, Rooted(e, t, X)
  PROVE  Rooted(e, t, X \o Run(e)!PamStackRules(t))
<1> DEFINE p(code) == Run(e)!D(code, "PAM", "pam.stack")
           nss == Run(e)!BlocksRuntime(Run(e)!D("NSS_NOT_USING_SSSD", "NSS", "nss.system"))
           a == IF Run(e)!Failed(t, "nss.switch") THEN nss ELSE Run(e)!Unexplained(nss)
           b == IF Run(e)!Fact(t, "pam.stack", "auth_has_sss", FALSE)
                THEN Run(e)!Warning(p("PAM_ACCOUNT_WITHOUT_SSSD")) ELSE p("PAM_SERVICE_WITHOUT_SSSD")
           c == p("PAM_AUTH_WITHOUT_SSSD")
           s1 == Run(e)!When(Run(e)!Failed(t, "nss.system"), a)
           s2 == Run(e)!When(Run(e)!Failed(t, "pam.stack"), b)
           s3 == Run(e)!When(Run(e)!Outcome(t, "pam.stack") = "WARN", c)
           S == s1 \o s2 \o s3
           Y == X \o S
<1>1. Run(e)!PamStackRules(t) = S
  BY DEF Run!PamStackRules
<1> DEFINE Fine(d) == Shape(d) /\ d.related = "none" /\ d.code # "SSSD_OFFLINE" /\ d.capability \in {"NSS", "PAM"}
<1>2. Fine(a) /\ Fine(b) /\ Fine(c)
  <2>1. Fine(a)
    BY DEF Run!D, Run!BlocksRuntime, Run!Unexplained, Shape
  <2>2. Fine(b)
    BY DEF Run!D, Run!Warning, Shape
  <2>3. Fine(c)
    BY DEF Run!D, Shape
  <2> QED
    BY <2>1, <2>2, <2>3
<1>3. (Run(e)!Failed(t, "nss.system") => Calm(e, t, a)) /\ Calm(e, t, b) /\ Calm(e, t, c)
  BY DEF Run!D, Run!BlocksRuntime, Run!Unexplained, Run!Warning, Calm, LocalSteps
<1> HIDE DEF a, b, c
<1>4. /\ Listed(s1) /\ Listed(s2) /\ Listed(s3)
      /\ \A d \in Members(s1) \cup Members(s2) \cup Members(s3) : d \in {a, b, c} /\ Calm(e, t, d)
  <2>1. /\ Listed(s1) /\ Members(s1) = IF Run(e)!Failed(t, "nss.system") THEN {a} ELSE {}
        /\ Listed(s2) /\ Members(s2) \subseteq {b} /\ Listed(s3) /\ Members(s3) \subseteq {c}
    BY Perhaps DEF Run!Failed
  <2> HIDE DEF s1, s2, s3
  <2> QED
    BY <1>3, <2>1
<1> HIDE DEF s1, s2, s3
<1>5. Listed(S) /\ Members(S) = Members(s1) \cup Members(s2) \cup Members(s3)
  BY <1>4, Appended
<1> HIDE DEF S
<1>6. \A d \in Members(S) : Added(e, t, Y, d)
  BY <1>2, <1>4, <1>5 DEF Added, Leads, OfflineGround, Below
<1> QED
  BY <1>1, <1>5, <1>6, Extended

LEMMA AccountAdded ==
  ASSUME NEW e, NEW t, NEW X, Rooted(e, t, X)
  PROVE  Rooted(e, t, Run(e)!Account(t, X))
<1> DEFINE p(code) == Run(e)!BlocksRuntime(Run(e)!D(code, "PAM", "pam.acct"))
           offline == Run(e)!CodeIf(X, "SSSD_OFFLINE")
           net == Run(e)!UpstreamNet(X)
           Any == {p("RUNTIME_ACCOUNT_DENIED_LOCAL"),
                   [p("RUNTIME_DENIED_HBAC_ALLOWS") EXCEPT !.kind = "CONTRADICTING"],
                   Run(e)!Related(p("RUNTIME_ACCOUNT_DENIED"), net), Run(e)!Related(p("RUNTIME_ACCOUNT_DENIED"), offline),
                   Run(e)!Related(p("RUNTIME_ACCOUNT_UNAVAILABLE"), offline),
                   Run(e)!Unexplained(p("RUNTIME_ACCOUNT_UNAVAILABLE")), Run(e)!Unexplained(p("RUNTIME_ACCOUNT_FAILED"))}
<1>1. \/ Run(e)!AccountRule(t, X) = <<>>
      \/ Run(e)!Failed(t, "pam.acct") /\ \E d \in Any : Run(e)!AccountRule(t, X) = <<d>>
  BY DEF Run!AccountRule, Run!RelatedOrUnexplained, Run!When
<1>2. ASSUME NEW d \in Any
      PROVE  /\ Shape(d) /\ d.capability = "PAM" /\ d.code # "SSSD_OFFLINE" /\ d.related \in {"none", net, offline}
  BY DEF Run!D, Run!BlocksRuntime, Run!Related, Run!Unexplained, Shape
<1> HIDE DEF Any
<1>3. \/ Run(e)!AccountRule(t, X) = <<>>
      \/ \E d : /\ Run(e)!AccountRule(t, X) = <<d>>
                /\ Shape(d) /\ Calm(e, t, d) /\ Leads(X, d) /\ OfflineGround(X, d) /\ d.capability \notin Below
  BY <1>1, <1>2, Attributed DEF Calm, OfflineGround, Below, LocalSteps
<1> QED
  BY <1>3, OneMore DEF Run!Account

(* Everything a client is diagnosed with.                                  *)
LEMMA FoundRooted ==
  ASSUME NEW e, NEW t, e.kinit \in KinitAnswers
  PROVE  Rooted(e, t, Run(e)!Found(t))
<1> DEFINE B == Run(e)!BasicRules(t)
           K == Run(e)!Kerberos(t, B)
           S == K \o Run(e)!SssdRules(t)
           G == Run(e)!Group(t, Run(e)!User(t, Run(e)!Offline(t, S)))
<1>1. CASE e.enroll = "absent"
  <2> DEFINE d == Run(e)!NotEnrolled
  <2>1. Run(e)!Found(t) = <<d>>
    BY <1>1 DEF Run!Found
  <2>2. /\ Shape(d) /\ Calm(e, t, d) /\ d.related = "none" /\ d.kind = "none" /\ d.code # "SSSD_OFFLINE"
    BY <1>1 DEF Run!NotEnrolled, Run!D, Run!BlocksLogin, Run!Keyed, Shape, Calm
  <2> HIDE DEF d
  <2>3. Listed(<<d>>) /\ Members(<<d>>) = {d} /\ DOMAIN <<d>> = {1} /\ <<d>>[1] = d
    BY Singleton
  <2> QED
    BY <2>1, <2>2, <2>3 DEF Rooted, Leads, OfflineGround
<1>2. CASE e.enroll # "absent"
  <2>1. Rooted(e, t, K)
    BY BasicRules, KerberosRooted
  <2> HIDE DEF K
  <2>2. Rooted(e, t, S)
    BY <2>1, SssdAdded
  <2> HIDE DEF S
  <2>3. Rooted(e, t, G)
    BY <2>2, OfflineAdded, UserAdded, GroupAdded
  <2> HIDE DEF G
  <2>4. Rooted(e, t, Run(e)!Account(t, G \o Run(e)!PamStackRules(t)))
    BY <2>3, PamAdded, AccountAdded
  <2> QED
    BY <1>2, <2>4 DEF Run!Found, G, S, K
<1> QED
  BY <1>1, <1>2

(* A diagnosis of the report, and the finding it is made of.               *)
Shows(e, X, i, d) ==
  /\ Shape(d)
  /\ d.code = X[i].code /\ d.capability = X[i].capability /\ d.symptom = X[i].symptom /\ d.severity = X[i].severity
  /\ d.kind = X[i].kind /\ d.blocks_runtime = X[i].blocks_runtime
  /\ d.blocks_authentication = X[i].blocks_authentication
  /\ d.related = IF X[i].related \in Run(e)!Codes(X) THEN X[i].related ELSE "none"
  /\ d.role = "RELATED" => d.related # "none"
  /\ Ground(d) => d.role \in {"PRIMARY", "INDEPENDENT", "UNDIAGNOSED"}

(* The report shows every finding, and nothing else.                       *)
LEMMA RolesShow ==
  ASSUME NEW e, NEW X, \A i \in DOMAIN X : Shape(X[i])
  PROVE  /\ \A d \in Run(e)!Roles(X) : \E i \in DOMAIN X : Shows(e, X, i, d)
         /\ \A i \in DOMAIN X : \E d \in Run(e)!Roles(X) : Shows(e, X, i, d)
<1> DEFINE ds     == [i \in DOMAIN X |-> IF X[i].related \in Run(e)!Codes(X) THEN X[i]
                                         ELSE Run(e)!Related(X[i], "none")]
           causes == {i \in DOMAIN ds : Run(e)!RoleOf(ds[i]) = "CAUSE"}
           before(i, j) == \/ Run(e)!Layer(ds[i].capability) < Run(e)!Layer(ds[j].capability)
                           \/ Run(e)!Layer(ds[i].capability) = Run(e)!Layer(ds[j].capability) /\ i < j
           role(i) == CASE i \notin causes                                      -> Run(e)!RoleOf(ds[i])
                        [] i \in causes /\ \A j \in causes \ {i} : before(i, j) -> "PRIMARY"
                        [] OTHER                                                -> "INDEPENDENT"
           shown(i) == [ds[i] EXCEPT !.role = role(i)]
<1>1. Run(e)!Roles(X) = {shown(i) : i \in DOMAIN ds}
  BY DEF Run!Roles
<1>2. DOMAIN ds = DOMAIN X
  OBVIOUS
<1>3. ASSUME NEW i \in DOMAIN X
      PROVE  /\ Shape(ds[i]) /\ ds[i].code = X[i].code /\ ds[i].capability = X[i].capability
             /\ ds[i].symptom = X[i].symptom /\ ds[i].severity = X[i].severity /\ ds[i].kind = X[i].kind
             /\ ds[i].blocks_runtime = X[i].blocks_runtime /\ ds[i].blocks_authentication = X[i].blocks_authentication
             /\ ds[i].related = IF X[i].related \in Run(e)!Codes(X) THEN X[i].related ELSE "none"
  BY DEF Run!Related, Shape
<1>4. ASSUME NEW i \in DOMAIN X
      PROVE  /\ role(i) = "RELATED" => ds[i].related # "none"
             /\ Ground(ds[i]) => role(i) \in {"PRIMARY", "INDEPENDENT", "UNDIAGNOSED"}
  <2>1. /\ Run(e)!RoleOf(ds[i]) = "RELATED" => ds[i].related # "none"
        /\ Ground(ds[i]) => Run(e)!RoleOf(ds[i]) \in {"CAUSE", "UNDIAGNOSED"}
    <3> DEFINE d == ds[i]
    <3> HIDE DEF d
    <3>1. /\ Run(e)!RoleOf(d) = "RELATED" => d.related # "none"
          /\ Ground(d) => Run(e)!RoleOf(d) \in {"CAUSE", "UNDIAGNOSED"}
      BY DEF Run!RoleOf, Ground
    <3> QED
      BY <3>1 DEF d
  <2>2. i \in DOMAIN ds
    BY <1>2
  <2> HIDE DEF ds, before
  <2>3. CASE i \notin causes
    BY <2>1, <2>2, <2>3
  <2>4. CASE i \in causes
    BY <2>4
  <2> QED
    BY <2>3, <2>4
<1> HIDE DEF ds, role
<1>5. ASSUME NEW i \in DOMAIN X PROVE Shows(e, X, i, shown(i))
  <2>1. Shape(ds[i])
    BY <1>3
  <2> DEFINE d == shown(i)
  <2>2. /\ DOMAIN d = DOMAIN ds[i] /\ d.role = role(i) /\ d.code = ds[i].code /\ d.capability = ds[i].capability
        /\ d.symptom = ds[i].symptom /\ d.severity = ds[i].severity /\ d.related = ds[i].related
        /\ d.kind = ds[i].kind /\ d.blocks_runtime = ds[i].blocks_runtime
        /\ d.blocks_authentication = ds[i].blocks_authentication
    BY <2>1 DEF Shape
  <2> HIDE DEF d
  <2>3. Shape(d)
    BY <2>1, <2>2 DEF Shape
  <2>4. Ground(d) <=> Ground(ds[i])
    BY <2>2 DEF Ground
  <2>5. Shows(e, X, i, d)
    BY <1>3, <1>4, <2>2, <2>3, <2>4 DEF Shows
  <2> QED
    BY <2>5 DEF d
<1> HIDE DEF shown
<1> QED
  BY <1>1, <1>2, <1>5

(* What the report calls RELATED has its failure in the report.            *)
LEMMA RelatedReport ==
  ASSUME NEW e, NEW t, e.kinit \in KinitAnswers,
         NEW ds, ds = Run(e)!Roles(Run(e)!Found(t)), NEW d \in ds, d.role = "RELATED"
  PROVE  \E u \in ds : /\ u.code = d.related /\ u.severity = "FAIL"
                       /\ \/ u.role \in {"PRIMARY", "INDEPENDENT", "UNDIAGNOSED"}
                          \/ \E v \in ds : v.code = u.related /\ v.role # "RELATED" /\ v.severity = "FAIL"
<1> DEFINE X == Run(e)!Found(t)
<1>1. Rooted(e, t, X)
  BY FoundRooted
<1> HIDE DEF X
<1>2. \A i \in DOMAIN X : X[i] \in Members(X) /\ Shape(X[i])
  BY <1>1 DEF Rooted, Members
<1>3. /\ \A x \in ds : \E i \in DOMAIN X : Shows(e, X, i, x)
      /\ \A i \in DOMAIN X : \E x \in ds : Shows(e, X, i, x)
  BY <1>2, RolesShow DEF X
<1>4. \A i \in DOMAIN X : X[i].code \in Run(e)!Codes(X)
  BY DEF Run!Codes
<1>5. PICK i \in DOMAIN X : Shows(e, X, i, d)
  BY <1>3
<1>6. X[i].related # "none" /\ d.related = X[i].related
  BY <1>5 DEF Shows
<1>7. PICK j \in DOMAIN X :
        /\ X[j].code = d.related /\ X[j].severity = "FAIL" /\ X[j].kind # "CONTRADICTING"
        /\ X[j].related = "none" \/ \E v \in Members(X) : v.code = X[j].related /\ Ground(v)
  BY <1>1, <1>2, <1>6 DEF Rooted, Leads, Members
<1>8. PICK u \in ds : Shows(e, X, j, u)
  BY <1>3
<1>9. CASE X[j].related = "none"
  BY <1>7, <1>8, <1>9 DEF Shows, Ground
<1>10. CASE X[j].related # "none"
  <2>1. PICK k \in DOMAIN X : X[k].code = X[j].related /\ Ground(X[k])
    BY <1>7, <1>10 DEF Members
  <2>2. PICK v \in ds : Shows(e, X, k, v)
    BY <1>3
  <2>3. u.related = X[j].related
    BY <1>4, <1>8, <2>1 DEF Shows
  <2>4. v.code = u.related /\ v.role # "RELATED" /\ v.severity = "FAIL"
    BY <2>1, <2>2, <2>3 DEF Shows, Ground
  <2> QED
    BY <1>7, <1>8, <2>4 DEF Shows
<1> QED
  BY <1>9, <1>10

----------------------------------------------------------------------------
(* The plan of a client, and that it names no step twice.                  *)
LEMMA ThePlan ==
  ASSUME NEW e
  PROVE  LET P == Run(e)!Plan IN
    /\ Len(P) = 28 /\ DOMAIN P = 1..28
    /\ P[1] = "enroll" /\ P[2] = "env" /\ P[3] = "sssd" /\ P[4] = "dns.resolvers" /\ P[5] = "dns.server"
    /\ P[6] = "dns.srv_ldap" /\ P[7] = "dns.srv_kerberos" /\ P[8] = "net.https" /\ P[9] = "net.ldap"
    /\ P[10] = "net.kdc" /\ P[11] = "tls" /\ P[12] = "time.server" /\ P[13] = "keytab" /\ P[14] = "krb"
    /\ P[15] = "time.local" /\ P[16] = "sssd.service" /\ P[17] = "sssd.config" /\ P[18] = "sssd.domain"
    /\ P[19] = "id.user" /\ P[20] = "id.group" /\ P[21] = "ipa.user" /\ P[22] = "nss.system"
    /\ P[23] = "nss.switch" /\ P[24] = "pam.stack" /\ P[25] = "pam.acct" /\ P[26] = "cache.entry"
    /\ P[27] = "sssd.logs" /\ P[28] = "cache.files"
BY DEF Run!Plan

LEMMA NoStepTwice ==
  ASSUME NEW e, NEW i \in 1..28, NEW j \in 1..28, Run(e)!Plan[i] = Run(e)!Plan[j]
  PROVE  i = j
<1> DEFINE P == Run(e)!Plan
<1>1. /\ P[1] = "enroll" /\ P[2] = "env" /\ P[3] = "sssd" /\ P[4] = "dns.resolvers" /\ P[5] = "dns.server"
    /\ P[6] = "dns.srv_ldap" /\ P[7] = "dns.srv_kerberos" /\ P[8] = "net.https" /\ P[9] = "net.ldap"
    /\ P[10] = "net.kdc" /\ P[11] = "tls" /\ P[12] = "time.server" /\ P[13] = "keytab" /\ P[14] = "krb"
    /\ P[15] = "time.local" /\ P[16] = "sssd.service" /\ P[17] = "sssd.config" /\ P[18] = "sssd.domain"
    /\ P[19] = "id.user" /\ P[20] = "id.group" /\ P[21] = "ipa.user" /\ P[22] = "nss.system"
    /\ P[23] = "nss.switch" /\ P[24] = "pam.stack" /\ P[25] = "pam.acct" /\ P[26] = "cache.entry"
    /\ P[27] = "sssd.logs" /\ P[28] = "cache.files"
  BY ThePlan
<1> HIDE DEF P
<1> QED
  BY <1>1 DEF P

(* The trace is the end of a walk along the plan.                          *)
Walk(e, w, m) == w = [n \in 0..m |-> IF n = 0 THEN <<>> ELSE Run(e)!Visited(w[n - 1], Run(e)!Plan[n])]

LEMMA WalkExists == ASSUME NEW e PROVE \E w : Walk(e, w, 28)
<1> DEFINE S == {m \in 0..28 : ~ \E w : Walk(e, w, m)}
<1> SUFFICES ASSUME S # {} PROVE FALSE
  OBVIOUS
<1>1. PICK m \in S : \A k \in S : m <= k
  <2>1. S \in SUBSET Nat
    OBVIOUS
  <2> HIDE DEF S
  <2> QED
    BY <2>1, LeastNatural
<1>2. m # 0
  <2>1. Walk(e, [n \in 0..0 |-> <<>>], 0)
    BY DEF Walk
  <2> QED
    BY <2>1
<1>3. m \in 1..28 /\ m - 1 \in 0..28 /\ m - 1 \notin S
  BY <1>1, <1>2
<1>4. PICK w : Walk(e, w, m - 1)
  BY <1>3
<1> DEFINE v == [n \in 0..m |-> IF n < m THEN w[n] ELSE Run(e)!Visited(w[m - 1], Run(e)!Plan[m])]
<1>5. Walk(e, v, m)
  <2>1. ASSUME NEW n \in 0..m PROVE v[n] = IF n = 0 THEN <<>> ELSE Run(e)!Visited(v[n - 1], Run(e)!Plan[n])
    <3>1. CASE n = m
      <4>1. v[n] = Run(e)!Visited(w[m - 1], Run(e)!Plan[m]) /\ v[n - 1] = w[m - 1] /\ n # 0
        BY <1>3, <3>1
      <4> HIDE DEF v
      <4> QED
        BY <3>1, <4>1
    <3>2. CASE n # m
      <4>1. n \in 0..(m - 1) /\ v[n] = w[n] /\ (n # 0 => v[n - 1] = w[n - 1])
        BY <1>3, <3>2
      <4> HIDE DEF v
      <4> QED
        BY <1>3, <1>4, <4>1 DEF Walk
    <3> QED
      BY <3>1, <3>2
  <2>2. v = [n \in 0..m |-> v[n]]
    OBVIOUS
  <2> HIDE DEF v
  <2> QED
    BY <2>1, <2>2 DEF Walk
<1> QED
  BY <1>1, <1>5

(* What is known of the trace when a step is visited.                      *)
Behind(e, t, n) ==
  /\ DOMAIN t = {Run(e)!Plan[i] : i \in 1..n}
  /\ \A i \in 1..n : t[Run(e)!Plan[i]] = Run(e)!Trace[Run(e)!Plan[i]]

(* The walk leaves behind it what it ends with.                            *)
LEMMA TraceWalked ==
  ASSUME NEW e
  PROVE  /\ Behind(e, Run(e)!Trace, 28)
         /\ \A n \in 1..28 : \E t : /\ Behind(e, t, n - 1)
                                    /\ Run(e)!Trace[Run(e)!Plan[n]] = Run(e)!Visit(t, Run(e)!Plan[n])
<1> DEFINE P == Run(e)!Plan
           W == CHOOSE w : Walk(e, w, Len(P))
<1>0. Len(P) = 28
  BY ThePlan
<1>1. Walk(e, W, 28)
  <2> HIDE DEF P
  <2>1. \E w : Walk(e, w, Len(P))
    BY <1>0, WalkExists
  <2>2. Walk(e, W, Len(P))
    BY <2>1
  <2> QED
    BY <1>0, <2>2
<1>2. Run(e)!Trace = W[28]
  <2>1. Run(e)!Trace = W[Len(P)]
    BY DEF Run!Trace, Walk
  <2> QED
    BY <1>0, <2>1
<1> HIDE DEF W
<1>3. W[0] = <<>> /\ \A n \in 1..28 : W[n] = Run(e)!Visited(W[n - 1], P[n])
  BY <1>1 DEF Walk
<1> HIDE DEF P
<1> DEFINE Good(n) == /\ DOMAIN W[n] = {P[i] : i \in 1..n}
                      /\ \A i \in 1..n : W[n][P[i]] = W[i][P[i]]
           S == {n \in 0..28 : ~Good(n)}
<1>4. \A n \in 0..28 : Good(n)
  <2> SUFFICES ASSUME S # {} PROVE FALSE
    OBVIOUS
  <2>1. PICK n \in S : \A k \in S : n <= k
    <3>1. S \in SUBSET Nat
      OBVIOUS
    <3> HIDE DEF S
    <3> QED
      BY <3>1, LeastNatural
  <2>2. n # 0
    <3>1. DOMAIN <<>> = {} /\ 1..0 = {}
      OBVIOUS
    <3>2. Good(0)
      BY <1>3, <3>1
    <3> QED
      BY <3>2
  <2>3. n \in 1..28 /\ Good(n - 1)
    BY <2>1, <2>2
  <2>4. W[n] = Run(e)!Visited(W[n - 1], P[n])
    BY <1>3, <2>3
  <2>5. DOMAIN W[n] = DOMAIN W[n - 1] \cup {P[n]} /\ \A s \in DOMAIN W[n - 1] : W[n][s] = W[n - 1][s]
    BY <2>4 DEF Run!Visited
  <2>6. 1..n = (1..(n - 1)) \cup {n}
    BY <2>3
  <2> HIDE DEF S
  <2>7. DOMAIN W[n] = {P[i] : i \in 1..n}
    BY <2>3, <2>5, <2>6
  <2>8. \A i \in 1..n : W[n][P[i]] = W[i][P[i]]
    BY <2>3, <2>5, <2>6
  <2> QED
    BY <2>1, <2>7, <2>8 DEF S
<1>5. ASSUME NEW n \in 1..28
      PROVE  Behind(e, W[n - 1], n - 1) /\ Run(e)!Trace[P[n]] = Run(e)!Visit(W[n - 1], P[n])
  <2>1. Good(28) /\ Good(n - 1) /\ n - 1 \in 0..28 /\ n \in 1..28
    <3>1. n - 1 \in 0..28 /\ 28 \in 0..28
      OBVIOUS
    <3> HIDE DEF Good
    <3> QED
      BY <1>4, <3>1
  <2>2. \A i \in 1..28 : Run(e)!Trace[P[i]] = W[i][P[i]]
    BY <1>2, <2>1
  <2>3. Behind(e, W[n - 1], n - 1)
    <3>1. \A i \in 1..(n - 1) : i \in 1..28 /\ i # n
      OBVIOUS
    <3>2. \A i \in 1..(n - 1) : W[n - 1][P[i]] = Run(e)!Trace[P[i]]
      <4> SUFFICES ASSUME NEW i \in 1..(n - 1) PROVE W[n - 1][P[i]] = Run(e)!Trace[P[i]]
        OBVIOUS
      <4>1. W[n - 1][P[i]] = W[i][P[i]]
        BY <2>1
      <4> QED
        BY <2>2, <3>1, <4>1
    <3>3. DOMAIN W[n - 1] = {P[i] : i \in 1..(n - 1)}
      BY <2>1
    <3> QED
      BY <3>2, <3>3 DEF Behind, P
  <2>4. P[n] \notin DOMAIN W[n - 1]
    <3>1. \A i \in 1..(n - 1) : i \in 1..28 /\ i # n
      OBVIOUS
    <3>2. \A i \in 1..(n - 1) : P[i] # P[n]
      BY <3>1, NoStepTwice DEF P
    <3> QED
      BY <2>1, <3>2
  <2>5. W[n][P[n]] = Run(e)!Visit(W[n - 1], P[n])
    <3>1. W[n] = Run(e)!Visited(W[n - 1], P[n])
      BY <1>3
    <3> QED
      BY <3>1, <2>4 DEF Run!Visited
  <2> QED
    BY <2>2, <2>3, <2>5
<1>6. Behind(e, Run(e)!Trace, 28)
  <2>1. Good(28)
    <3>1. 28 \in 0..28
      OBVIOUS
    <3> HIDE DEF Good
    <3> QED
      BY <1>4, <3>1
  <2>2. DOMAIN Run(e)!Trace = {P[i] : i \in 1..28}
    BY <1>2, <2>1
  <2> QED
    BY <2>2 DEF Behind, P
<1> QED
  BY <1>5, <1>6 DEF P

(* A step fails by what its check answered.                                *)
LEMMA FailsByAnswer ==
  ASSUME NEW e, NEW n \in 1..28, Run(e)!Failed(Run(e)!Trace, Run(e)!Plan[n])
  PROVE  \E t : Run(e)!Classify(t, Run(e)!Plan[n], Run(e)!CheckOf(Run(e)!Plan[n]).fields) = "FAIL"
<1>1. PICK t : Run(e)!Trace[Run(e)!Plan[n]] = Run(e)!Visit(t, Run(e)!Plan[n])
  BY TraceWalked
<1>2. Run(e)!Visit(t, Run(e)!Plan[n]).outcome = "FAIL"
  BY <1>1 DEF Run!Failed, Run!Outcome
<1> QED
  BY <1>2 DEF Run!Visit, Run!Skip

(* On this host nothing is wrong: whatever is wrong is on the way to IPA.  *)
HealthyHere(e) ==
  /\ e.enroll = "whole" /\ e.sssd = "active" /\ e.unit = "active" /\ e.config = "valid" /\ e.acct = "success"
  /\ e.sss_user = "found" /\ e.sss_group = "found" /\ e.nss_user = "found"

LEMMA LocalAnswers ==
  ASSUME NEW e, HealthyHere(e), NEW s \in LocalSteps, NEW t
  PROVE  Run(e)!Classify(t, s, Run(e)!CheckOf(s).fields) = "PASS"
<1>1. CASE s = "sssd"
  BY <1>1 DEF HealthyHere, Run!Classify, Run!CheckOf, Run!SssdConfCheck, Run!CheckResult, Run!CSssdConf
<1>2. CASE s = "sssd.service"
  BY <1>2 DEF HealthyHere, Run!Classify, Run!CheckOf, Run!UnitCheck, Run!CheckResult, Run!CUnit, Run!PassIf
<1>3. CASE s = "sssd.config"
  BY <1>3 DEF HealthyHere, Run!Classify, Run!CheckOf, Run!ConfigCheck, Run!CheckResult, Run!PassIf
<1>4. CASE s \in {"id.user", "id.group", "nss.system"}
  BY <1>4 DEF HealthyHere, Run!Classify, Run!CheckOf, Run!GetentCheck, Run!CheckResult, Run!PassIf
<1>5. CASE s = "pam.acct"
  BY <1>5 DEF HealthyHere, Run!Classify, Run!CheckOf, Run!UserChecksCheck, Run!CheckResult, Run!PassIf
<1> QED
  BY <1>1, <1>2, <1>3, <1>4, <1>5 DEF LocalSteps

(* Then no step of this host fails.                                        *)
LEMMA NothingLocal ==
  ASSUME NEW e, HealthyHere(e), NEW s \in LocalSteps
  PROVE  ~Run(e)!Failed(Run(e)!Trace, s)
<1>1. \E n \in 1..28 : Run(e)!Plan[n] = s
  BY ThePlan DEF LocalSteps
<1> QED
  BY <1>1, FailsByAnswer, LocalAnswers

(* What breaks only the way to IPA never makes a login fail for certain.   *)
LEMMA RuntimeReport ==
  ASSUME NEW e, HealthyHere(e), e.kinit \in KinitAnswers
  PROVE  Run(e)!Investigation.runtime # "FAIL"
<1> DEFINE X  == Run(e)!Found(Run(e)!Trace)
           ds == Run(e)!Roles(X)
<1>1. Run(e)!Investigation.runtime = Run(e)!Runtime(ds)
  BY DEF Run!Investigation, Run!Explained, Run!Concluded
<1>2. \A i \in DOMAIN X : X[i] \in Members(X) /\ Shape(X[i]) /\ Calm(e, Run(e)!Trace, X[i])
  BY FoundRooted DEF Rooted, Members
<1> HIDE DEF X
<1>3. ASSUME NEW d \in ds PROVE ~Run(e)!RuntimeBlocker(d)
  <2>1. PICK i \in DOMAIN X : Shows(e, X, i, d)
    BY <1>2, RolesShow
  <2>2. Calm(e, Run(e)!Trace, d) /\ d.blocks_runtime \in BOOLEAN
    BY <1>2, <2>1 DEF Shows, Calm, Shape
  <2>3. e.enroll # "absent" /\ \A s \in LocalSteps : ~Run(e)!Failed(Run(e)!Trace, s)
    BY NothingLocal DEF HealthyHere
  <2> QED
    BY <2>2, <2>3 DEF Calm, Run!RuntimeBlocker, Run!AuthPathOnly
<1> HIDE DEF ds
<1>4. Run(e)!Runtime(ds) # "FAIL"
  BY <1>3 DEF Run!Runtime
<1> QED
  BY <1>1, <1>4

(* No failure that affects logins is missing from both verdicts.           *)
LEMMA VerdictsReport ==
  ASSUME NEW e, NEW d \in Run(e)!Investigation.diagnoses,
         d.severity = "FAIL", d.blocks_runtime \/ d.blocks_authentication
  PROVE  "FAIL" \in {Run(e)!Investigation.runtime, Run(e)!Investigation.authentication}
<1> DEFINE ds == Run(e)!Roles(Run(e)!Found(Run(e)!Trace))
<1>1. /\ Run(e)!Investigation.runtime = Run(e)!Runtime(ds) /\ Run(e)!Investigation.diagnoses = ds
      /\ Run(e)!Investigation.authentication = Run(e)!Authentication(ds)
  BY DEF Run!Investigation, Run!Explained, Run!Concluded
<1> HIDE DEF ds
<1>2. CASE Run(e)!RuntimeBlocker(d)
  BY <1>1, <1>2 DEF Run!Runtime
<1>3. CASE ~Run(e)!RuntimeBlocker(d)
  <2>1. Run(e)!OnlinePathBroken(d)
    BY <1>3 DEF Run!OnlinePathBroken
  <2> QED
    BY <1>1, <2>1 DEF Run!Authentication
<1> QED
  BY <1>2, <1>3

----------------------------------------------------------------------------
(* Lists of rules find nothing only if each of them finds nothing.         *)
LEMMA Empty2 ==
  ASSUME NEW r, NEW s, Listed(r), Listed(s), r \o s = <<>> PROVE r = <<>> /\ s = <<>>
BY Appended
LEMMA Empty3 ==
  ASSUME NEW r, NEW s, NEW u, Listed(r), Listed(s), Listed(u), r \o s \o u = <<>>
  PROVE  r = <<>> /\ s = <<>> /\ u = <<>>
<1>1. Listed(r \o s)
  BY Appended
<1> QED
  BY <1>1, Empty2

(* What the first rules say when they find nothing.                        *)
QuietBasics(e, t) ==
  /\ ~Run(e)!Failed(t, "enroll") /\ ~Run(e)!Failed(t, "sssd") /\ Run(e)!Outcome(t, "sssd") # "WARN"
  /\ ~Run(e)!Failed(t, "dns.server") /\ \A s \in {"dns.srv_ldap", "dns.srv_kerberos"} : ~Run(e)!Failed(t, s)
  /\ Run(e)!Outcome(t, "dns.server") = "PASS" /\ Run(e)!Outcome(t, "net.https") = "FAIL"
       => Run(e)!Outcome(t, "net.ldap") \notin {"PASS", "FAIL"}
  /\ Run(e)!Outcome(t, "net.https") = "PASS" => Run(e)!Outcome(t, "net.ldap") # "FAIL"
  /\ ~Run(e)!Failed(t, "tls") /\ Run(e)!Outcome(t, "time.server") \notin {"WARN", "FAIL"}
  /\ Run(e)!KrbError(t) # "clock_skew"
  /\ ~Run(e)!Failed(t, "keytab") /\ Run(e)!Outcome(t, "keytab") # "WARN"

LEMMA NoBasics ==
  ASSUME NEW e, NEW t, Run(e)!BasicRules(t) = <<>> PROVE QuietBasics(e, t)
<1> DEFINE a == Run(e)!EnrollmentRules(t)
           b == Run(e)!DnsRules(t)
           c == Run(e)!NetworkRules(t)
           d == Run(e)!TimeRules(t)
           f == Run(e)!KeytabRules(t)
<1>1. Listed(a) /\ Listed(b) /\ Listed(c) /\ Listed(d) /\ Listed(f)
  BY Enrollments, Dns, Network, Time, Keytab DEF Basics
<1>2. a \o b \o c \o d \o f = <<>>
  BY DEF Run!BasicRules
<1> HIDE DEF a, b, c, d, f
<1>3. a = <<>> /\ b = <<>> /\ c = <<>> /\ d = <<>> /\ f = <<>>
  <2>1. Listed(a \o b \o c)
    BY <1>1, Appended
  <2> QED
    BY <1>1, <1>2, <2>1, Empty3
<1>4. /\ ~Run(e)!Failed(t, "enroll") /\ ~Run(e)!Failed(t, "sssd") /\ Run(e)!Outcome(t, "sssd") # "WARN"
  <2> DEFINE x == Run(e)!D("CLIENT_CONFIG_INCOMPLETE", "ENROLLMENT", "enroll")
             y == Run(e)!BlocksLogin(Run(e)!D("SSSD_NOT_CONFIGURED", "SSSD_CONFIG", "sssd"))
             z == Run(e)!Warning(Run(e)!D("HOSTNAME_MISMATCH", "SSSD_CONFIG", "sssd"))
             p == Run(e)!When(Run(e)!Failed(t, "enroll"), x)
             q == Run(e)!When(Run(e)!Failed(t, "sssd"), y)
             r == Run(e)!When(Run(e)!Outcome(t, "sssd") = "WARN", z)
  <2>1. p \o q \o r = <<>>
    BY <1>3 DEF Run!EnrollmentRules, a
  <2>2. /\ Listed(p) /\ (p = <<>> => ~Run(e)!Failed(t, "enroll"))
        /\ Listed(q) /\ (q = <<>> => ~Run(e)!Failed(t, "sssd"))
        /\ Listed(r) /\ (r = <<>> => Run(e)!Outcome(t, "sssd") # "WARN")
    BY Perhaps DEF Run!Failed
  <2> HIDE DEF p, q, r
  <2> QED
    BY <2>1, <2>2, Empty3
<1>5. ~Run(e)!Failed(t, "dns.server") /\ \A s \in {"dns.srv_ldap", "dns.srv_kerberos"} : ~Run(e)!Failed(t, s)
  <2>1. ~Run(e)!Failed(t, "dns.server")
    BY <1>3, Nothing, Dns DEF b
  <2> DEFINE m == {s \in Run(e)!SrvSteps : Run(e)!Failed(t, s) /\ Run(e)!SrvKind(t, s) # "missing"}
             n == {s \in Run(e)!SrvSteps : Run(e)!Failed(t, s) /\ Run(e)!SrvKind(t, s) = "missing"}
             p == Run(e)!SrvRule(t, m, "DNS_SRV_QUERY_FAILED")
             q == Run(e)!SrvRule(t, n, "DNS_SRV_MISSING")
  <2>2. p \o q = <<>>
    BY <1>3, <2>1 DEF Run!DnsRules, b
  <2>3. (p = <<>> => m = {}) /\ (q = <<>> => n = {})
    <3> HIDE DEF m, n
    <3> QED
      BY DEF Run!SrvRule, Run!When
  <2>4. Listed(p) /\ Listed(q)
    BY SrvRules DEF Basics
  <2> HIDE DEF p, q
  <2>5. m = {} /\ n = {}
    BY <2>2, <2>3, <2>4, Empty2
  <2> QED
    BY <2>1, <2>5 DEF Run!SrvSteps
<1>6. LET https == Run(e)!Outcome(t, "net.https")
          ldap  == Run(e)!Outcome(t, "net.ldap")
      IN  /\ ~(Run(e)!Outcome(t, "dns.server") = "PASS" /\ https = "FAIL" /\ ldap = "FAIL")
          /\ ~(ldap = "FAIL" /\ https = "PASS") /\ ~(https = "FAIL" /\ ldap = "PASS") /\ ~Run(e)!Failed(t, "tls")
  <2> DEFINE https == Run(e)!Outcome(t, "net.https")
             ldap  == Run(e)!Outcome(t, "net.ldap")
             w == Run(e)!BlocksLogin(Run(e)!D("SERVER_UNREACHABLE", "NETWORK", "net.https"))
             x == Run(e)!BlocksRuntime(Run(e)!D("LDAP_UNREACHABLE", "NETWORK", "net.ldap"))
             y == Run(e)!Warning(Run(e)!D("HTTPS_UNREACHABLE", "NETWORK", "net.https"))
             z == Run(e)!BlocksRuntime(Run(e)!D("CA_TRUST_FAILED", "TLS", "tls"))
             o == Run(e)!When(Run(e)!Outcome(t, "dns.server") = "PASS" /\ https = "FAIL" /\ ldap = "FAIL", w)
             p == Run(e)!When(ldap = "FAIL" /\ https = "PASS", x)
             q == Run(e)!When(https = "FAIL" /\ ldap = "PASS", y)
             r == Run(e)!When(Run(e)!Failed(t, "tls"), z)
  <2>1. o \o p \o q \o r = <<>>
    BY <1>3 DEF Run!NetworkRules, c
  <2>2. /\ Listed(o) /\ (o = <<>> => ~(Run(e)!Outcome(t, "dns.server") = "PASS" /\ https = "FAIL" /\ ldap = "FAIL"))
        /\ Listed(p) /\ (p = <<>> => ~(ldap = "FAIL" /\ https = "PASS"))
        /\ Listed(q) /\ (q = <<>> => ~(https = "FAIL" /\ ldap = "PASS"))
        /\ Listed(r) /\ (r = <<>> => ~Run(e)!Failed(t, "tls"))
    BY Perhaps DEF Run!Failed
  <2> HIDE DEF o, p, q, r
  <2>3. Listed(o \o p)
    BY <2>2, Appended
  <2>4. o = <<>> /\ p = <<>> /\ q = <<>> /\ r = <<>>
    BY <2>1, <2>2, <2>3, Empty2, Empty3
  <2> QED
    BY <2>2, <2>4
<1>7. Run(e)!Outcome(t, "time.server") \notin {"WARN", "FAIL"} /\ Run(e)!KrbError(t) # "clock_skew"
  <2> DEFINE server == Run(e)!Outcome(t, "time.server")
             skewed == server = "FAIL" \/ Run(e)!KrbError(t) = "clock_skew"
             x == Run(e)!Keyed(Run(e)!BlocksLogin(Run(e)!D("CLOCK_SKEW", "TIME",
                               IF server = "FAIL" THEN "time.server" ELSE "krb")), "client.clock-skew")
             y == Run(e)!Warning(Run(e)!D("CLOCK_DRIFT", "TIME", "time.server"))
             z == Run(e)!Warning(Run(e)!D("NTP_NOT_SYNCHRONIZED", "TIME", "time.local"))
             p == Run(e)!When(skewed, x)
             q == Run(e)!When(server = "WARN" /\ ~skewed, y)
             r == Run(e)!When(Run(e)!Outcome(t, "time.local") = "WARN" /\ ~skewed, z)
  <2>1. p \o q \o r = <<>>
    BY <1>3 DEF Run!TimeRules, d
  <2>2. /\ Listed(p) /\ (p = <<>> => ~skewed)
        /\ Listed(q) /\ (q = <<>> => ~(server = "WARN" /\ ~skewed)) /\ Listed(r)
    BY Perhaps
  <2> HIDE DEF p, q, r
  <2>3. p = <<>> /\ q = <<>>
    BY <2>1, <2>2, Empty3
  <2> QED
    BY <2>2, <2>3
<1>8. ~Run(e)!Failed(t, "keytab") /\ Run(e)!Outcome(t, "keytab") # "WARN"
  <2>1. PICK x, y : f = Run(e)!When(Run(e)!Failed(t, "keytab"), x)
                        \o Run(e)!When(Run(e)!Outcome(t, "keytab") = "WARN", y)
    BY DEF Run!KeytabRules, f
  <2> DEFINE p == Run(e)!When(Run(e)!Failed(t, "keytab"), x)
             q == Run(e)!When(Run(e)!Outcome(t, "keytab") = "WARN", y)
  <2>2. /\ Listed(p) /\ (p = <<>> => ~Run(e)!Failed(t, "keytab"))
        /\ Listed(q) /\ (q = <<>> => Run(e)!Outcome(t, "keytab") # "WARN")
    BY Perhaps DEF Run!Failed
  <2>3. p \o q = <<>>
    BY <1>3, <2>1
  <2> HIDE DEF p, q
  <2> QED
    BY <2>2, <2>3, Empty2
<1> QED
  BY <1>4, <1>5, <1>6, <1>7, <1>8 DEF QuietBasics

(* What the rules after them say when they find nothing either.            *)
Quiet(e, t) ==
  /\ QuietBasics(e, t) /\ Run(e)!KrbError(t) = "none"
  /\ \A s \in {"sssd.config", "sssd.service", "sssd.domain", "id.group", "nss.system", "pam.stack", "pam.acct"} :
       ~Run(e)!Failed(t, s)
  /\ ~Run(e)!UserGiven \/ ~Run(e)!Failed(t, "id.user")
  /\ Run(e)!Outcome(t, "pam.stack") # "WARN"

(* Lists of at most one rule, and of three.                                *)
LEMMA OneOrNone ==
  ASSUME NEW r, NEW s, Listed(r), s = <<>> \/ \E d : s = <<d>>, r \o s = <<>> PROVE r = <<>> /\ s = <<>>
BY Singleton, Nothing, Empty2

LEMMA ThreeRules ==
  ASSUME NEW e, NEW c1 \in BOOLEAN, NEW c2 \in BOOLEAN, NEW c3 \in BOOLEAN, NEW x, NEW y, NEW z, NEW s,
         s = Run(e)!When(c1, x) \o Run(e)!When(c2, y) \o Run(e)!When(c3, z)
  PROVE  Listed(s) /\ (s = <<>> => ~c1 /\ ~c2 /\ ~c3)
<1> DEFINE p == Run(e)!When(c1, x)
           q == Run(e)!When(c2, y)
           r == Run(e)!When(c3, z)
<1>1. Listed(p) /\ Listed(q) /\ Listed(r) /\ (p = <<>> => ~c1) /\ (q = <<>> => ~c2) /\ (r = <<>> => ~c3)
  BY Perhaps
<1>2. s = p \o q \o r
  OBVIOUS
<1> HIDE DEF p, q, r
<1>3. Listed(p \o q)
  BY <1>1, Appended
<1>4. Listed(s)
  BY <1>1, <1>2, <1>3, Appended
<1> QED
  BY <1>1, <1>2, <1>4, Empty3

(* The rules of SSSD and of PAM that find nothing.                         *)
LEMMA SssdQuiet ==
  ASSUME NEW e, NEW t
  PROVE  /\ Listed(Run(e)!SssdRules(t))
         /\ Run(e)!SssdRules(t) = <<>> => ~Run(e)!Failed(t, "sssd.config") /\ ~Run(e)!Failed(t, "sssd.service")
<1> DEFINE down == Run(e)!Failed(t, "sssd.service")
           db   == down /\ Run(e)!DbSignalled(t) /\ ~Run(e)!Failed(t, "sssd.config")
<1>1. \E x, y, z : Run(e)!SssdRules(t)
        = Run(e)!When(Run(e)!Failed(t, "sssd.config"), x) \o Run(e)!When(db, y) \o Run(e)!When(down, z)
  BY DEF Run!SssdRules
<1>2. down \in BOOLEAN /\ db \in BOOLEAN /\ Run(e)!Failed(t, "sssd.config") \in BOOLEAN
  BY DEF Run!Failed
<1> HIDE DEF db
<1> QED
  BY <1>1, <1>2, ThreeRules

LEMMA StackQuiet ==
  ASSUME NEW e, NEW t
  PROVE  /\ Listed(Run(e)!PamStackRules(t))
         /\ Run(e)!PamStackRules(t) = <<>> =>
              /\ ~Run(e)!Failed(t, "nss.system") /\ ~Run(e)!Failed(t, "pam.stack")
              /\ Run(e)!Outcome(t, "pam.stack") # "WARN"
<1> DEFINE d(code) == Run(e)!D(code, "PAM", "pam.stack")
           nss == Run(e)!BlocksRuntime(Run(e)!D("NSS_NOT_USING_SSSD", "NSS", "nss.system"))
           x == IF Run(e)!Failed(t, "nss.switch") THEN nss ELSE Run(e)!Unexplained(nss)
           y == IF Run(e)!Fact(t, "pam.stack", "auth_has_sss", FALSE)
                THEN Run(e)!Warning(d("PAM_ACCOUNT_WITHOUT_SSSD")) ELSE d("PAM_SERVICE_WITHOUT_SSSD")
           z == d("PAM_AUTH_WITHOUT_SSSD")
           warns == Run(e)!Outcome(t, "pam.stack") = "WARN"
<1>1. Run(e)!PamStackRules(t)
        = Run(e)!When(Run(e)!Failed(t, "nss.system"), x) \o Run(e)!When(Run(e)!Failed(t, "pam.stack"), y)
          \o Run(e)!When(warns, z)
  BY DEF Run!PamStackRules
<1>2. Run(e)!Failed(t, "nss.system") \in BOOLEAN /\ Run(e)!Failed(t, "pam.stack") \in BOOLEAN /\ warns \in BOOLEAN
  BY DEF Run!Failed
<1> HIDE DEF x, y, z, warns
<1>3. /\ Listed(Run(e)!PamStackRules(t))
      /\ Run(e)!PamStackRules(t) = <<>> =>
           ~Run(e)!Failed(t, "nss.system") /\ ~Run(e)!Failed(t, "pam.stack") /\ ~warns
  BY <1>1, <1>2, ThreeRules
<1> QED
  BY <1>3 DEF warns

(* What each later rule adds to a list, if its step failed.                *)
LEMMA RuleLists ==
  ASSUME NEW e, NEW t, NEW X
  PROVE  /\ Run(e)!OfflineRule(t, X) = <<>> \/ \E d : Run(e)!OfflineRule(t, X) = <<d>>
         /\ Run(e)!OfflineRule(t, X) = <<>> => ~Run(e)!Failed(t, "sssd.domain")
         /\ Run(e)!UserRule(t, X) = <<>> \/ \E d : Run(e)!UserRule(t, X) = <<d>>
         /\ Run(e)!UserRule(t, X) = <<>> => ~Run(e)!UserGiven \/ ~Run(e)!Failed(t, "id.user")
         /\ Run(e)!GroupRule(t, X) = <<>> \/ \E d : Run(e)!GroupRule(t, X) = <<d>>
         /\ Run(e)!GroupRule(t, X) = <<>> /\ X = <<>> => ~Run(e)!Failed(t, "id.group")
         /\ Run(e)!AccountRule(t, X) = <<>> \/ \E d : Run(e)!AccountRule(t, X) = <<d>>
         /\ Run(e)!AccountRule(t, X) = <<>> => ~Run(e)!Failed(t, "pam.acct")
<1>1. \A d : <<d>> # <<>>
  BY Singleton
<1>2. X = <<>> => Run(e)!Codes(X) = {}
  <2>1. DOMAIN <<>> = {}
    OBVIOUS
  <2> QED
    BY <2>1 DEF Run!Codes
<1>3. \A c, d : Run(e)!When(c, d) = IF c THEN <<d>> ELSE <<>>
  BY DEF Run!When
<1>4. PICK d1 : Run(e)!OfflineRule(t, X) = Run(e)!When(Run(e)!Failed(t, "sssd.domain"), d1)
  BY DEF Run!OfflineRule
<1>5. \/ Run(e)!UserRule(t, X) = <<>> /\ (~Run(e)!UserGiven \/ ~Run(e)!Failed(t, "id.user"))
      \/ \E d : Run(e)!UserRule(t, X) = <<d>>
  BY DEF Run!UserRule
<1>6. PICK d2 : Run(e)!GroupRule(t, X)
                  = Run(e)!When(Run(e)!Failed(t, "id.group")
                                /\ Run(e)!Codes(X) \cap {"SSSD_OFFLINE", "SSSD_NOT_RUNNING"} = {}, d2)
  BY DEF Run!GroupRule
<1>7. PICK d3 : Run(e)!AccountRule(t, X) = Run(e)!When(Run(e)!Failed(t, "pam.acct"), d3)
  BY DEF Run!AccountRule
<1>8. /\ Run(e)!OfflineRule(t, X) = <<>> \/ \E d : Run(e)!OfflineRule(t, X) = <<d>>
      /\ Run(e)!OfflineRule(t, X) = <<>> => ~Run(e)!Failed(t, "sssd.domain")
  BY <1>1, <1>3, <1>4
<1>9. /\ Run(e)!GroupRule(t, X) = <<>> \/ \E d : Run(e)!GroupRule(t, X) = <<d>>
      /\ Run(e)!GroupRule(t, X) = <<>> /\ X = <<>> => ~Run(e)!Failed(t, "id.group")
  BY <1>1, <1>2, <1>3, <1>6
<1>10. /\ Run(e)!AccountRule(t, X) = <<>> \/ \E d : Run(e)!AccountRule(t, X) = <<d>>
       /\ Run(e)!AccountRule(t, X) = <<>> => ~Run(e)!Failed(t, "pam.acct")
  BY <1>1, <1>3, <1>7
<1> QED
  BY <1>1, <1>5, <1>8, <1>9, <1>10

(* Nothing found, nothing failed: the whole of the rules.                  *)
LEMMA NoKerberos ==
  ASSUME NEW e, NEW t, NEW B, e.kinit \in KinitAnswers, Run(e)!KrbError(t) # "clock_skew",
         Run(e)!KerberosRule(t, B) = <<>>
  PROVE  Run(e)!KrbError(t) = "none"
<1>1. \A d : <<d>> # <<>>
  BY Singleton
<1> QED
  BY <1>1, KrbErrors DEF Run!KerberosRule

LEMMA NothingFound ==
  ASSUME NEW e, NEW t, e.kinit \in KinitAnswers, Run(e)!Found(t) = <<>>
  PROVE  e.enroll # "absent" /\ Quiet(e, t)
<1>1. e.enroll # "absent"
  BY Singleton DEF Run!Found
<1> DEFINE B == Run(e)!BasicRules(t)
           R == Run(e)!Raise(t, B)
           k == Run(e)!KerberosRule(t, B)
           K == R \o k
           s == Run(e)!SssdRules(t)
           S == K \o s
           O == S \o Run(e)!OfflineRule(t, S)
           U == O \o Run(e)!UserRule(t, O)
           G == U \o Run(e)!GroupRule(t, U)
           m == Run(e)!PamStackRules(t)
           M == G \o m
<1>2. M \o Run(e)!AccountRule(t, M) = <<>>
  BY <1>1 DEF Run!Found, Run!Account, Run!Group, Run!User, Run!Offline, Run!Kerberos
<1>3. Basics(e, t, B) /\ Listed(R) /\ DOMAIN R = DOMAIN B
  BY BasicRules, Raised
<1>4. Rooted(e, t, K)
  BY BasicRules, KerberosRooted DEF Run!Kerberos
<1>5. k = <<>> \/ \E d : k = <<d>>
  BY BasicRules, Tickets
<1>6. Rooted(e, t, S)
  <2> HIDE DEF K
  <2> QED
    BY <1>4, SssdAdded
<1>7. Rooted(e, t, O) /\ Rooted(e, t, U) /\ Rooted(e, t, G) /\ Rooted(e, t, M)
  <2> HIDE DEF S
  <2>1. Rooted(e, t, O)
    BY <1>6, OfflineAdded DEF Run!Offline
  <2> HIDE DEF O
  <2>2. Rooted(e, t, U)
    BY <2>1, UserAdded DEF Run!User
  <2> HIDE DEF U
  <2>3. Rooted(e, t, G)
    BY <2>2, GroupAdded DEF Run!Group
  <2> HIDE DEF G
  <2> QED
    BY <2>1, <2>2, <2>3, PamAdded
<1>8. Listed(K) /\ Listed(S) /\ Listed(O) /\ Listed(U) /\ Listed(G) /\ Listed(M)
  <2> HIDE DEF K, S, O, U, G, M
  <2> QED
    BY <1>4, <1>6, <1>7 DEF Rooted
<1>9. Listed(s) /\ Listed(m)
  BY SssdQuiet, StackQuiet
<1>10. M = <<>> /\ Run(e)!AccountRule(t, M) = <<>>
  <2> HIDE DEF M
  <2> QED
    BY <1>2, <1>8, OneOrNone, RuleLists
<1>11. G = <<>> /\ m = <<>>
  <2>1. G \o m = <<>>
    BY <1>10
  <2> HIDE DEF G, m
  <2> QED
    BY <1>8, <1>9, <2>1, Empty2
<1>12. U = <<>> /\ Run(e)!GroupRule(t, U) = <<>>
  <2>1. U \o Run(e)!GroupRule(t, U) = <<>>
    BY <1>11
  <2> HIDE DEF U
  <2> QED
    BY <1>8, <2>1, OneOrNone, RuleLists
<1>13. O = <<>> /\ Run(e)!UserRule(t, O) = <<>>
  <2>1. O \o Run(e)!UserRule(t, O) = <<>>
    BY <1>12
  <2> HIDE DEF O
  <2> QED
    BY <1>8, <2>1, OneOrNone, RuleLists
<1>14. S = <<>> /\ Run(e)!OfflineRule(t, S) = <<>>
  <2>1. S \o Run(e)!OfflineRule(t, S) = <<>>
    BY <1>13
  <2> HIDE DEF S
  <2> QED
    BY <1>8, <2>1, OneOrNone, RuleLists
<1>15. K = <<>> /\ s = <<>>
  <2>1. K \o s = <<>>
    BY <1>14
  <2> HIDE DEF K, s
  <2> QED
    BY <1>8, <1>9, <2>1, Empty2
<1>16. R = <<>> /\ k = <<>>
  <2>1. R \o k = <<>>
    BY <1>15
  <2> HIDE DEF R, k
  <2> QED
    BY <1>3, <1>5, <2>1, OneOrNone
<1>17. B = <<>>
  <2> HIDE DEF R, B
  <2>1. DOMAIN R = {}
    BY <1>16
  <2>2. B \in Seq(Members(B)) /\ DOMAIN B = {}
    BY <1>3, <2>1 DEF Basics, Listed
  <2> QED
    BY <2>2
<1> HIDE DEF M, G, U, O, S, K, R
<1>18. QuietBasics(e, t)
  BY <1>17, NoBasics
<1>19. Run(e)!KrbError(t) = "none"
  BY <1>16, <1>18, NoKerberos DEF QuietBasics
<1> HIDE DEF B
<1>20. /\ ~Run(e)!Failed(t, "sssd.config") /\ ~Run(e)!Failed(t, "sssd.service")
       /\ ~Run(e)!Failed(t, "nss.system") /\ ~Run(e)!Failed(t, "pam.stack") /\ Run(e)!Outcome(t, "pam.stack") # "WARN"
  BY <1>11, <1>15, SssdQuiet, StackQuiet
<1>21. /\ ~Run(e)!Failed(t, "sssd.domain") /\ ~Run(e)!Failed(t, "id.group") /\ ~Run(e)!Failed(t, "pam.acct")
       /\ ~Run(e)!UserGiven \/ ~Run(e)!Failed(t, "id.user")
  BY <1>10, <1>12, <1>13, <1>14, RuleLists
<1> QED
  BY <1>1, <1>18, <1>19, <1>20, <1>21 DEF Quiet

----------------------------------------------------------------------------
(* Two traces that say the same of the steps a visit reads.                *)
Agree(e, t, u, step) ==
  /\ \A i \in DOMAIN Run(e)!Requires(step) : t[Run(e)!Requires(step)[i][1]] = u[Run(e)!Requires(step)[i][1]]
  /\ step \in Run(e)!NeedsSssctl => t["env"] = u["env"]
  /\ step \in {"sssd.logs", "cache.files"} => t["sssd"] = u["sssd"]
  /\ Run(e)!Gate(t, step) = Run(e)!Gate(u, step)
  /\ \A f : Run(e)!Classify(t, step, f) = Run(e)!Classify(u, step, f)

LEMMA RequiresOf ==
  ASSUME NEW e, NEW step
  PROVE  DOMAIN Run(e)!Requires(step) \subseteq {1, 2}
<1>1. \A x, y : DOMAIN <<>> = {} /\ DOMAIN <<x>> = {1} /\ DOMAIN <<x, y>> = {1, 2}
  OBVIOUS
<1>2. Run(e)!Requires(step) = <<>> \/ (\E x : Run(e)!Requires(step) = <<x>>) \/ \E x, y : Run(e)!Requires(step) = <<x, y>>
  BY DEF Run!Requires
<1> QED
  BY <1>1, <1>2

(* They make the same of that step.                                        *)
LEMMA VisitAgrees ==
  ASSUME NEW e, NEW t, NEW u, NEW step, Agree(e, t, u, step)
  PROVE  Run(e)!Visit(t, step) = Run(e)!Visit(u, step)
<1> DEFINE R == Run(e)!Requires(step)
           M == Run(e)!Unmet(t, step)
           f == CHOOSE i \in M : \A j \in M : i <= j
<1>1. \A i \in DOMAIN R : Run(e)!Outcome(t, R[i][1]) = Run(e)!Outcome(u, R[i][1])
  BY DEF Agree, Run!Outcome
<1>2. Run(e)!Unmet(u, step) = M
  BY <1>1 DEF Run!Unmet
<1>3. ASSUME M # {} PROVE t[R[Run(e)!First(M)][1]] = u[R[Run(e)!First(M)][1]]
  <2>1. Run(e)!First(M) = f
    BY DEF Run!First
  <2>2. M \subseteq DOMAIN R /\ M \in SUBSET Nat
    BY RequiresOf DEF Run!Unmet
  <2> HIDE DEF M
  <2>3. f \in M
    BY <1>3, <2>2, LeastNatural
  <2> HIDE DEF f
  <2> QED
    BY <2>1, <2>2, <2>3 DEF Agree
<1>4. step \in Run(e)!NeedsSssctl => Run(e)!Fact(t, "env", "sssd", "unknown") = Run(e)!Fact(u, "env", "sssd", "unknown")
  BY DEF Agree, Run!Fact, Run!Ran
<1>5. step \in {"sssd.logs", "cache.files"} => Run(e)!SssdDomainKnown(t) = Run(e)!SssdDomainKnown(u)
  BY DEF Agree, Run!SssdDomainKnown, Run!Ran
<1>6. /\ Run(e)!Gate(t, step) = Run(e)!Gate(u, step)
      /\ Run(e)!Classify(t, step, Run(e)!CheckOf(step).fields) = Run(e)!Classify(u, step, Run(e)!CheckOf(step).fields)
  BY DEF Agree
<1> HIDE DEF M
<1> QED
  BY <1>2, <1>3, <1>4, <1>5, <1>6 DEF Run!Visit, M

(* The steps whose outcome or facts decide a visit.                        *)
ReadBy(step) ==
  CASE step \in {"dns.server", "keytab"}                   -> {"enroll"}
    [] step \in {"dns.srv_ldap", "dns.srv_kerberos"}       -> {"enroll", "sssd"}
    [] step \in {"net.https", "net.ldap", "net.kdc"}       -> {"dns.server"}
    [] step \in {"tls", "time.server"}                     -> {"net.https"}
    [] step = "krb"                                        -> {"keytab"}
    [] step = "time.local"                                 -> {"time.server", "krb"}
    [] step = "sssd.config"                                -> {"env"}
    [] step = "sssd.domain"                                -> {"env", "sssd", "sssd.service"}
    [] step = "id.user"                                    -> {"sssd.service"}
    [] step = "id.group"                                   -> {"sssd.service", "id.user"}
    [] step = "ipa.user"                                   -> {"tls", "krb", "id.user"}
    [] step = "nss.system"                                 -> {"id.user"}
    [] step = "nss.switch"                                 -> {"nss.system"}
    [] step = "pam.acct"                                   -> {"env", "sssd.service", "id.user", "pam.stack"}
    [] step = "cache.entry"                                -> {"env", "sssd.domain", "id.user", "ipa.user"}
    [] step = "sssd.logs"                                  -> {"sssd", "sssd.service", "sssd.domain", "id.group", "pam.acct",
                                                               "cache.entry"}
    [] step = "cache.files"                                -> {"sssd", "cache.entry", "sssd.logs"}
    [] step \in {"enroll", "env", "sssd", "dns.resolvers", "sssd.service", "pam.stack"} -> {}
(* The steps of the plan.                                                  *)
PlanSteps == {"enroll", "env", "sssd", "dns.resolvers", "dns.server", "dns.srv_ldap", "dns.srv_kerberos", "net.https",
              "net.ldap", "net.kdc", "tls", "time.server", "keytab", "krb", "time.local", "sssd.service", "sssd.config",
              "sssd.domain", "id.user", "id.group", "ipa.user", "nss.system", "nss.switch", "pam.stack", "pam.acct",
              "cache.entry", "sssd.logs", "cache.files"}

(* A visit reads no other step.                                            *)
LEMMA GateReads ==
  ASSUME NEW e, NEW t, NEW u, NEW step \in PlanSteps, \A x \in ReadBy(step) : t[x] = u[x]
  PROVE  Run(e)!Gate(t, step) = Run(e)!Gate(u, step)
<1>1. CASE step \in {"dns.srv_ldap", "dns.srv_kerberos"}
  BY <1>1 DEF ReadBy, Run!Gate, Run!GSrv, Run!Fact, Run!Ran
<1>2. CASE step = "time.local"
  BY <1>2 DEF ReadBy, Run!Gate, Run!GChrony, Run!Fact, Run!Ran, Run!Outcome
<1>3. CASE step = "id.group"
  BY <1>3 DEF ReadBy, Run!Gate, Run!GGroup, Run!Outcome
<1>4. CASE step \in {"ipa.user", "nss.system", "nss.switch"}
  BY <1>4 DEF ReadBy, Run!Gate, Run!Outcome
<1>5. CASE step = "pam.acct"
  BY <1>5 DEF ReadBy, Run!Gate, Run!GUserChecks, Run!Fact, Run!Ran, Run!Outcome
<1>6. CASE step = "cache.entry"
  BY <1>6 DEF ReadBy, Run!Gate, Run!GCache, Run!Fact, Run!Ran, Run!Outcome
<1>7. CASE step = "sssd.logs"
  BY <1>7 DEF ReadBy, Run!Gate, Run!GLogs, Run!Ran, Run!Outcome
<1>8. CASE step = "cache.files"
  BY <1>8 DEF ReadBy, Run!Gate, Run!GCacheFiles, Run!Fact, Run!Ran
<1>9. CASE step \in PlanSteps \ {"dns.srv_ldap", "dns.srv_kerberos", "time.local", "id.group", "ipa.user", "nss.system",
                                 "nss.switch", "pam.acct", "cache.entry", "sssd.logs", "cache.files"}
  BY <1>9 DEF PlanSteps, Run!Gate
<1> QED
  BY <1>1, <1>2, <1>3, <1>4, <1>5, <1>6, <1>7, <1>8, <1>9

LEMMA ReadsAgree ==
  ASSUME NEW e, NEW t, NEW u, NEW step \in PlanSteps, \A x \in ReadBy(step) : t[x] = u[x]
  PROVE  Agree(e, t, u, step)
<1>1. \A i \in DOMAIN Run(e)!Requires(step) : Run(e)!Requires(step)[i][1] \in ReadBy(step)
  <2>1. \A i \in DOMAIN <<>> : FALSE
    OBVIOUS
  <2>2. \A x : DOMAIN <<x>> = {1}
    OBVIOUS
  <2>3. \A x, y : DOMAIN <<x, y>> = {1, 2}
    OBVIOUS
  <2>4. CASE step \in {"dns.server", "keytab", "dns.srv_ldap", "dns.srv_kerberos"}
    BY <2>2, <2>4 DEF Run!Requires, ReadBy
  <2>5. CASE step \in {"net.https", "net.ldap", "net.kdc", "tls", "time.server", "krb"}
    BY <2>2, <2>5 DEF Run!Requires, ReadBy
  <2>6. CASE step \in {"id.user", "id.group", "pam.acct"}
    BY <2>2, <2>6 DEF Run!Requires, ReadBy
  <2>7. CASE step = "sssd.domain"
    BY <2>3, <2>7 DEF Run!Requires, ReadBy
  <2>8. CASE step = "ipa.user"
    BY <2>3, <2>8 DEF Run!Requires, ReadBy
  <2>9. CASE step \in {"enroll", "env", "sssd", "dns.resolvers", "time.local", "sssd.service", "sssd.config", "nss.system",
                       "nss.switch", "pam.stack", "cache.entry", "sssd.logs", "cache.files"}
    <3>1. Run(e)!Requires(step) = <<>>
      BY <2>9 DEF Run!Requires
    <3> QED
      BY <2>1, <3>1
  <2> QED
    BY <2>4, <2>5, <2>6, <2>7, <2>8, <2>9 DEF PlanSteps
<1>2. /\ step \in Run(e)!NeedsSssctl => "env" \in ReadBy(step)
      /\ step \in {"sssd.logs", "cache.files"} => "sssd" \in ReadBy(step)
  BY DEF Run!NeedsSssctl, ReadBy
<1>3. ASSUME NEW f PROVE Run(e)!Classify(t, step, f) = Run(e)!Classify(u, step, f)
  <2>1. CASE step \in {"dns.srv_ldap", "dns.srv_kerberos"}
    BY <2>1 DEF ReadBy, Run!Classify, Run!CSrv, Run!Fact, Run!Ran
  <2>2. CASE step \notin {"dns.srv_ldap", "dns.srv_kerberos"}
    BY <2>2 DEF PlanSteps, Run!Classify
  <2> QED
    BY <2>1, <2>2
<1> QED
  BY <1>1, <1>2, <1>3, GateReads DEF Agree

(* The plan reads nothing that comes later.                                *)
LEMMA ReadsEarlier ==
  ASSUME NEW e, NEW n \in 1..28
  PROVE  Run(e)!Plan[n] \in PlanSteps /\ \A x \in ReadBy(Run(e)!Plan[n]) : \E i \in 1..(n - 1) : Run(e)!Plan[i] = x
<1> DEFINE P == Run(e)!Plan
<1>1. /\ P[1] = "enroll" /\ P[2] = "env" /\ P[3] = "sssd" /\ P[4] = "dns.resolvers" /\ P[5] = "dns.server"
    /\ P[6] = "dns.srv_ldap" /\ P[7] = "dns.srv_kerberos" /\ P[8] = "net.https" /\ P[9] = "net.ldap"
    /\ P[10] = "net.kdc" /\ P[11] = "tls" /\ P[12] = "time.server" /\ P[13] = "keytab" /\ P[14] = "krb"
    /\ P[15] = "time.local" /\ P[16] = "sssd.service" /\ P[17] = "sssd.config" /\ P[18] = "sssd.domain"
    /\ P[19] = "id.user" /\ P[20] = "id.group" /\ P[21] = "ipa.user" /\ P[22] = "nss.system"
    /\ P[23] = "nss.switch" /\ P[24] = "pam.stack" /\ P[25] = "pam.acct" /\ P[26] = "cache.entry"
    /\ P[27] = "sssd.logs" /\ P[28] = "cache.files"
  BY ThePlan
<1> HIDE DEF P
<1>2. P[n] \in PlanSteps
  BY <1>1 DEF PlanSteps
<1> DEFINE Early(k) == \A x \in ReadBy(P[k]) : \E i \in 1..(k - 1) : P[i] = x
<1>3. Early(1) /\ Early(2) /\ Early(3) /\ Early(4) /\ Early(16) /\ Early(24)
  BY <1>1 DEF ReadBy
<1>4. Early(5) /\ Early(6) /\ Early(7) /\ Early(13)
  BY <1>1 DEF ReadBy
<1>5. Early(8) /\ Early(9) /\ Early(10)
  BY <1>1 DEF ReadBy
<1>6. Early(11) /\ Early(12)
  BY <1>1 DEF ReadBy
<1>7. Early(14)
  BY <1>1 DEF ReadBy
<1>8. Early(15)
  BY <1>1 DEF ReadBy
<1>9. Early(17)
  BY <1>1 DEF ReadBy
<1>10. Early(18)
  BY <1>1 DEF ReadBy
<1>11. Early(19)
  BY <1>1 DEF ReadBy
<1>12. Early(20)
  BY <1>1 DEF ReadBy
<1>13. Early(21)
  BY <1>1 DEF ReadBy
<1>14. Early(22) /\ Early(23)
  BY <1>1 DEF ReadBy
<1>15. Early(25)
  BY <1>1 DEF ReadBy
<1>16. Early(26)
  BY <1>1 DEF ReadBy
<1>17. Early(27)
  BY <1>1 DEF ReadBy
<1>18. Early(28)
  BY <1>1 DEF ReadBy
<1> HIDE DEF Early
<1>19. Early(n)
  BY <1>3, <1>4, <1>5, <1>6, <1>7, <1>8, <1>9, <1>10, <1>11, <1>12, <1>13, <1>14, <1>15, <1>16, <1>17, <1>18
<1> QED
  BY <1>2, <1>19 DEF Early, P

(* Every step of the finished trace is what a visit makes of that trace.   *)
LEMMA Settled ==
  ASSUME NEW e, NEW step \in PlanSteps
  PROVE  Run(e)!Trace[step] = Run(e)!Visit(Run(e)!Trace, step)
<1> DEFINE P == Run(e)!Plan
           T == Run(e)!Trace
<1>1. PICK n \in 1..28 : P[n] = step
  BY ThePlan DEF PlanSteps
<1>2. PICK t : Behind(e, t, n - 1) /\ T[P[n]] = Run(e)!Visit(t, P[n])
  BY TraceWalked
<1> HIDE DEF P, T
<1>3. \A x \in ReadBy(step) : t[x] = T[x]
  <2>1. \A x \in ReadBy(step) : \E i \in 1..(n - 1) : P[i] = x
    BY <1>1, ReadsEarlier DEF P
  <2> QED
    BY <1>2, <2>1 DEF Behind, P, T
<1>4. Agree(e, t, T, step)
  BY <1>3, ReadsAgree
<1> QED
  BY <1>1, <1>2, <1>4, VisitAgrees DEF T

(* The step ran, and its answer was classified.                            *)
Answered(e, step) ==
  LET t == Run(e)!Trace IN
  /\ Run(e)!Unmet(t, step) = {} /\ Run(e)!Gate(t, step) = "run" /\ Run(e)!CheckOf(step).status = "OK"
  /\ Run(e)!Outcome(t, step) = Run(e)!Classify(t, step, Run(e)!CheckOf(step).fields)
  /\ Run(e)!Outcome(t, step) # "UNKNOWN"
  /\ step \in Run(e)!NeedsRoot => e.euid = "root"
  /\ step \in Run(e)!NeedsSssctl => Run(e)!Fact(t, "env", "sssd", "unknown") = "sssd_2"
  /\ ~Run(e)!CutOff(step)

(* A step that leaves no gap waits for one that leaves none, is not needed,*)
(* or was answered.                                                        *)
LEMMA NoGap ==
  ASSUME NEW e, e.enroll # "absent", NEW step \in PlanSteps \ {"sssd.logs", "cache.files"}, ~Run(e)!Trace[step].gap
  PROVE  LET t == Run(e)!Trace IN
         \/ \E i \in DOMAIN Run(e)!Requires(step) :
              LET r == Run(e)!Requires(step)[i] IN Run(e)!Outcome(t, r[1]) \notin r[2] /\ ~t[r[1]].gap
         \/ Run(e)!Gate(t, step) \notin {"run", "on purpose"}
         \/ Answered(e, step)
<1> DEFINE t == Run(e)!Trace
           R == Run(e)!Requires(step)
           M == Run(e)!Unmet(t, step)
           f == CHOOSE i \in M : \A j \in M : i <= j
<1>1. t[step] = Run(e)!Visit(t, step)
  BY Settled
<1>2. CASE M # {}
  <2>1. t[step].gap = t[R[Run(e)!First(M)][1]].gap /\ Run(e)!First(M) = f
    BY <1>1, <1>2 DEF Run!Visit, Run!Skip, Run!First
  <2>2. M \subseteq DOMAIN R /\ M \in SUBSET Nat
    BY RequiresOf DEF Run!Unmet
  <2>3. \A i \in M : Run(e)!Outcome(t, R[i][1]) \notin R[i][2]
    BY DEF Run!Unmet
  <2> HIDE DEF M
  <2>4. f \in M
    BY <1>2, <2>2, LeastNatural
  <2> HIDE DEF f
  <2> QED
    BY <2>1, <2>2, <2>3, <2>4
<1>3. ASSUME M = {}, Run(e)!Gate(t, step) = "on purpose" PROVE FALSE
  <2> DEFINE c == step \in Run(e)!NeedsSssctl /\ Run(e)!Fact(t, "env", "sssd", "unknown") # "sssd_2"
  <2>1. t[step] = IF c THEN Run(e)!Skip(TRUE) ELSE Run(e)!Skip(Run(e)!Gate(t, step) = "on purpose")
    BY <1>1, <1>3 DEF Run!Visit
  <2> HIDE DEF c
  <2>2. Run(e)!Skip(TRUE).gap /\ Run(e)!Skip(Run(e)!Gate(t, step) = "on purpose").gap
    BY <1>3 DEF Run!Skip
  <2> QED
    BY <2>1, <2>2
<1>4. CASE M = {} /\ Run(e)!Gate(t, step) = "run"
  <2> DEFINE c1 == step \in Run(e)!NeedsSssctl /\ Run(e)!Fact(t, "env", "sssd", "unknown") # "sssd_2"
             c2 == step \in Run(e)!NeedsRoot /\ e.euid # "root"
             c3 == Run(e)!CutOff(step)
             c4 == Run(e)!CheckOf(step).status # "OK"
             o  == Run(e)!Classify(t, step, Run(e)!CheckOf(step).fields)
             no == [outcome |-> "UNKNOWN", gap |-> TRUE]
             yes == [outcome |-> o, gap |-> o = "UNKNOWN"]
  <2>1. t[step] = IF c1 THEN Run(e)!Skip(TRUE) ELSE IF c2 THEN Run(e)!Skip(TRUE) ELSE IF c3 THEN Run(e)!Skip(TRUE)
                  ELSE IF c4 THEN no ELSE yes
    BY <1>1, <1>4 DEF Run!Visit
  <2>2. Run(e)!Skip(TRUE).gap /\ no.gap
    BY DEF Run!Skip
  <2>3. yes.outcome = o /\ (yes.gap <=> o = "UNKNOWN")
    OBVIOUS
  <2> HIDE DEF c1, c2, c3, c4, no, yes
  <2>4. ~c1 /\ ~c2 /\ ~c3 /\ ~c4
    BY <2>1, <2>2
  <2>5. t[step].outcome = o /\ o # "UNKNOWN"
    BY <2>1, <2>3, <2>4
  <2> QED
    BY <1>4, <2>4, <2>5 DEF Answered, Run!Outcome, c1, c2, c3, c4
<1> QED
  BY <1>2, <1>3, <1>4

(* A step that ran was answered.                                           *)
LEMMA RanAnswered ==
  ASSUME NEW e, NEW step \in PlanSteps \ {"sssd.logs", "cache.files"},
         Run(e)!Outcome(Run(e)!Trace, step) \notin {"SKIPPED", "UNKNOWN"}
  PROVE  Answered(e, step)
<1> DEFINE t == Run(e)!Trace
           c0 == step # "enroll" /\ e.enroll = "absent"
           m  == Run(e)!Unmet(t, step) # {}
           c1 == step \in Run(e)!NeedsSssctl /\ Run(e)!Fact(t, "env", "sssd", "unknown") # "sssd_2"
           g  == Run(e)!Gate(t, step) # "run"
           c2 == step \in Run(e)!NeedsRoot /\ e.euid # "root"
           c3 == Run(e)!CutOff(step)
           c4 == Run(e)!CheckOf(step).status # "OK"
           o  == Run(e)!Classify(t, step, Run(e)!CheckOf(step).fields)
           no == [outcome |-> "UNKNOWN", gap |-> TRUE]
           yes == [outcome |-> o, gap |-> o = "UNKNOWN"]
           x  == Run(e)!Skip(t[Run(e)!Requires(step)[Run(e)!First(Run(e)!Unmet(t, step))][1]].gap)
           y  == Run(e)!Skip(Run(e)!Gate(t, step) = "on purpose")
<1>1. t[step] = Run(e)!Visit(t, step)
  BY Settled
<1>2. t[step] = IF c0 THEN Run(e)!Skip(FALSE) ELSE IF m THEN x ELSE IF c1 THEN Run(e)!Skip(TRUE)
                ELSE IF g THEN y ELSE IF c2 THEN Run(e)!Skip(TRUE) ELSE IF c3 THEN Run(e)!Skip(TRUE)
                ELSE IF c4 THEN no ELSE yes
  BY <1>1 DEF Run!Visit
<1>3. /\ Run(e)!Skip(TRUE).outcome = "SKIPPED" /\ Run(e)!Skip(FALSE).outcome = "SKIPPED" /\ no.outcome = "UNKNOWN"
      /\ x.outcome = "SKIPPED" /\ y.outcome = "SKIPPED" /\ yes.outcome = o
  BY DEF Run!Skip
<1>4. t[step].outcome \notin {"SKIPPED", "UNKNOWN"}
  BY DEF Run!Outcome
<1> HIDE DEF t, c0, m, c1, g, c2, c3, c4, no, yes, x, y, o
<1>5. ~c0 /\ ~m /\ ~c1 /\ ~g /\ ~c2 /\ ~c3 /\ ~c4
  BY <1>2, <1>3, <1>4
<1>6. t[step].outcome = o
  BY <1>2, <1>3, <1>5
<1> QED
  BY <1>4, <1>5, <1>6 DEF Answered, Run!Outcome, t, m, c1, g, c2, c3, c4, o

(* A step that nothing keeps from running fails only by its answer.        *)
LEMMA RunsFree ==
  ASSUME NEW e, e.enroll # "absent",
         NEW step \in PlanSteps \ (Run(e)!NeedsRoot \cup Run(e)!NeedsSssctl \cup {"sssd.logs", "cache.files"}),
         Run(e)!Unmet(Run(e)!Trace, step) = {}, Run(e)!Gate(Run(e)!Trace, step) = "run", ~Run(e)!CutOff(step),
         Run(e)!CheckOf(step).status = "OK"
  PROVE  Run(e)!Outcome(Run(e)!Trace, step)
           = Run(e)!Classify(Run(e)!Trace, step, Run(e)!CheckOf(step).fields)
<1> DEFINE t == Run(e)!Trace
           o == Run(e)!Classify(t, step, Run(e)!CheckOf(step).fields)
<1>1. t[step] = Run(e)!Visit(t, step)
  BY Settled
<1>2. t[step] = [outcome |-> o, gap |-> o = "UNKNOWN"]
  BY <1>1 DEF Run!Visit
<1> HIDE DEF o
<1> QED
  BY <1>2 DEF Run!Outcome, o

(* Where the budget cut a run off, every later step was cut off.           *)
ReachedAnswers == {"all", "pam_acct", "sssd_domain", "krb", "tls"}

LEMMA Places ==
  ASSUME NEW e
  PROVE  /\ Run(e)!Index("dns.srv_ldap") = 6 /\ Run(e)!Index("dns.srv_kerberos") = 7 /\ Run(e)!Index("tls") = 11
         /\ Run(e)!Index("krb") = 14 /\ Run(e)!Index("sssd.domain") = 18 /\ Run(e)!Index("nss.system") = 22
         /\ Run(e)!Index("pam.acct") = 25
<1>1. ASSUME NEW n \in 1..28 PROVE Run(e)!Index(Run(e)!Plan[n]) = n
  <2> DEFINE P == Run(e)!Plan
             x == CHOOSE i \in 1..28 : P[i] = P[n]
  <2>1. Run(e)!Index(P[n]) = x
    BY ThePlan DEF Run!Index
  <2> HIDE DEF P
  <2>2. x \in 1..28 /\ P[x] = P[n]
    OBVIOUS
  <2> HIDE DEF x
  <2>3. x = n
    BY <2>2, NoStepTwice DEF P
  <2> QED
    BY <2>1, <2>3 DEF P
<1> QED
  BY <1>1, ThePlan

LEMMA Reach ==
  ASSUME NEW e, e.reached \in ReachedAnswers
  PROVE  /\ ~Run(e)!CutOff("dns.srv_ldap") /\ ~Run(e)!CutOff("dns.srv_kerberos")
         /\ ~Run(e)!CutOff("sssd.domain") => ~Run(e)!CutOff("nss.system")
         /\ ~Run(e)!CutOff("pam.acct") => e.reached = "all"
<1> DEFINE r == CASE e.reached = "pam_acct"    -> "pam.acct"
                  [] e.reached = "sssd_domain" -> "sssd.domain"
                  [] OTHER                     -> e.reached
<1>1. \A step : Run(e)!CutOff(step) <=> e.reached # "all" /\ Run(e)!Index(step) >= Run(e)!Index(r)
  BY DEF Run!CutOff
<1>2. e.reached # "all" => r \in {"pam.acct", "sssd.domain", "krb", "tls"}
  BY DEF ReachedAnswers
<1> HIDE DEF r
<1> QED
  BY <1>1, <1>2, Places

----------------------------------------------------------------------------
(* A run with nothing found and no gap.                                    *)
Clean(e) ==
  /\ e.enroll # "absent" /\ Quiet(e, Run(e)!Trace) /\ \A s \in Run(e)!Essential : ~Run(e)!Trace[s].gap
  /\ e.unit # "activating"
Passes(e, step) == Run(e)!Outcome(Run(e)!Trace, step) = "PASS"

(* The preconditions of a step, one after the other.                       *)
LEMMA AllMet ==
  ASSUME NEW t, NEW R,
         \/ R = <<>>
         \/ \E r, a : R = <<<<r, a>>>> /\ t[r].outcome \in a
         \/ \E r, a, q, b : R = <<<<r, a>>, <<q, b>>>> /\ t[r].outcome \in a /\ t[q].outcome \in b
  PROVE  \A i \in DOMAIN R : t[R[i][1]].outcome \in R[i][2]
<1>1. CASE R = <<>>
  <2>1. DOMAIN <<>> = {}
    OBVIOUS
  <2> QED
    BY <1>1, <2>1
<1>2. CASE \E r, a : R = <<<<r, a>>>> /\ t[r].outcome \in a
  BY <1>2
<1>3. CASE \E r, a, q, b : R = <<<<r, a>>, <<q, b>>>> /\ t[r].outcome \in a /\ t[q].outcome \in b
  BY <1>3
<1> QED
  BY <1>1, <1>2, <1>3

(* An essential step with nothing in its way was answered.                 *)
LEMMA MustAnswer ==
  ASSUME NEW e, Clean(e), NEW step \in Run(e)!Essential,
         \/ Run(e)!Requires(step) = <<>>
         \/ \E r, a : Run(e)!Requires(step) = <<<<r, a>>>> /\ Run(e)!Outcome(Run(e)!Trace, r) \in a
         \/ \E r, a, q, b : /\ Run(e)!Requires(step) = <<<<r, a>>, <<q, b>>>>
                            /\ Run(e)!Outcome(Run(e)!Trace, r) \in a /\ Run(e)!Outcome(Run(e)!Trace, q) \in b,
         Run(e)!Gate(Run(e)!Trace, step) \in {"run", "on purpose"}
  PROVE  Answered(e, step)
<1>1. step \in PlanSteps \ {"sssd.logs", "cache.files"} /\ ~Run(e)!Trace[step].gap /\ e.enroll # "absent"
  BY DEF Clean, Run!Essential, PlanSteps
<1>2. \A i \in DOMAIN Run(e)!Requires(step) :
        Run(e)!Outcome(Run(e)!Trace, Run(e)!Requires(step)[i][1]) \in Run(e)!Requires(step)[i][2]
  BY AllMet DEF Run!Outcome
<1> QED
  BY <1>1, <1>2, NoGap

(* The host is enrolled, SSSD is set up, the server has an address.        *)
LEMMA CleanSetup ==
  ASSUME NEW e, Clean(e)
  PROVE  /\ Passes(e, "enroll") /\ e.enroll # "incomplete"
         /\ Passes(e, "sssd") /\ e.sssd = "active" /\ e.euid = "root"
         /\ Passes(e, "dns.server") /\ e.address = "resolves"
<1> DEFINE t == Run(e)!Trace
<1>1. /\ Run(e)!Outcome(t, "enroll") # "FAIL" /\ Run(e)!Outcome(t, "sssd") \notin {"WARN", "FAIL"}
      /\ Run(e)!Outcome(t, "dns.server") # "FAIL"
  BY DEF Clean, Quiet, QuietBasics, Run!Failed
<1>2. Passes(e, "enroll") /\ e.enroll # "incomplete"
  <2>1. Run(e)!Requires("enroll") = <<>> /\ Run(e)!Gate(t, "enroll") = "run" /\ "enroll" \in Run(e)!Essential
    BY DEF Run!Requires, Run!Gate, Run!Essential
  <2>2. Answered(e, "enroll")
    BY <2>1, MustAnswer
  <2>3. \A f : Run(e)!Classify(t, "enroll", f) = IF f.conf_present /\ ~f.missing THEN "PASS" ELSE "FAIL"
    BY DEF Run!Classify, Run!CConfig, Run!PassIf
  <2>4. Run(e)!CheckOf("enroll").fields.missing <=> e.enroll = "incomplete"
    BY DEF Run!CheckOf, Run!ConfCheck, Run!CheckResult
  <2> HIDE DEF t
  <2> QED
    BY <1>1, <2>2, <2>3, <2>4 DEF Answered, Passes, t
<1>3. Passes(e, "sssd") /\ e.sssd = "active" /\ e.euid = "root"
  <2>1. Run(e)!Requires("sssd") = <<>> /\ Run(e)!Gate(t, "sssd") = "run" /\ "sssd" \in Run(e)!Essential
        /\ "sssd" \in Run(e)!NeedsRoot
    BY DEF Run!Requires, Run!Gate, Run!Essential, Run!NeedsRoot
  <2>2. Answered(e, "sssd")
    BY <2>1, MustAnswer
  <2>3. \A f : Run(e)!Classify(t, "sssd", f)
                 = IF f.state = "active" THEN "PASS" ELSE IF f.state = "other_host" THEN "WARN" ELSE "FAIL"
    BY DEF Run!Classify, Run!CSssdConf
  <2>4. Run(e)!CheckOf("sssd").status = "OK" => Run(e)!CheckOf("sssd").fields.state = e.sssd
    BY DEF Run!CheckOf, Run!SssdConfCheck, Run!CheckResult, Run!NotRun
  <2> HIDE DEF t
  <2> QED
    BY <1>1, <2>1, <2>2, <2>3, <2>4 DEF Answered, Passes, t
<1>4. Passes(e, "dns.server") /\ e.address = "resolves"
  <2>1. Run(e)!Requires("dns.server") = <<<<"enroll", {"PASS", "WARN"}>>>> /\ Run(e)!Gate(t, "dns.server") = "run"
        /\ "dns.server" \in Run(e)!Essential
    BY DEF Run!Requires, Run!Passish, Run!Gate, Run!Essential
  <2>2. Answered(e, "dns.server")
    BY <1>2, <2>1, MustAnswer DEF Passes
  <2>3. \A f : Run(e)!Classify(t, "dns.server", f) = IF f.resolved THEN "PASS" ELSE "FAIL"
    BY DEF Run!Classify, Run!PassIf
  <2>4. Run(e)!CheckOf("dns.server").status = "OK" =>
          (Run(e)!CheckOf("dns.server").fields.resolved <=> e.address = "resolves")
    BY DEF Run!CheckOf, Run!AddressCheck, Run!CheckResult, Run!NotRun
  <2> HIDE DEF t
  <2> QED
    BY <1>1, <2>2, <2>3, <2>4 DEF Answered, Passes, t
<1> QED
  BY <1>2, <1>3, <1>4

(* The server answers on both ports, its certificate and its clock.        *)
LEMMA CleanNetwork ==
  ASSUME NEW e, Clean(e)
  PROVE  e.https = "open" /\ e.ldap = "open" /\ e.certificate = "verified" /\ e.date = "near"
<1> DEFINE t == Run(e)!Trace
<1>1. Passes(e, "dns.server") /\ e.enroll # "absent"
  BY CleanSetup DEF Clean
<1>2. /\ Run(e)!Outcome(t, "net.https") = "FAIL" => Run(e)!Outcome(t, "net.ldap") \notin {"PASS", "FAIL"}
      /\ Run(e)!Outcome(t, "net.https") = "PASS" => Run(e)!Outcome(t, "net.ldap") # "FAIL"
      /\ Run(e)!Outcome(t, "tls") # "FAIL" /\ Run(e)!Outcome(t, "time.server") \notin {"WARN", "FAIL"}
  BY <1>1 DEF Clean, Quiet, QuietBasics, Run!Failed, Passes
<1>3. ASSUME NEW s \in {"net.https", "net.ldap"}
      PROVE  /\ Run(e)!Requires(s) = <<<<"dns.server", {"PASS"}>>>> /\ Run(e)!Gate(t, s) = "run"
             /\ \A f : Run(e)!Classify(t, s, f) = IF f.state = "open" THEN "PASS" ELSE "FAIL"
             /\ Run(e)!CheckOf(s).status = "OK" => Run(e)!CheckOf(s).fields.state = IF s = "net.ldap" THEN e.ldap ELSE e.https
  BY DEF Run!Requires, Run!Gate, Run!Classify, Run!PassIf, Run!CheckOf, Run!TcpCheck, Run!CheckResult, Run!NotRun
<1>4. Answered(e, "net.ldap")
  <2>1. "net.ldap" \in Run(e)!Essential
    BY DEF Run!Essential
  <2> QED
    BY <1>1, <1>3, <2>1, MustAnswer DEF Passes
<1>5. Run(e)!Outcome(t, "net.ldap") = IF e.ldap = "open" THEN "PASS" ELSE "FAIL"
  <2> HIDE DEF t
  <2> QED
    BY <1>3, <1>4 DEF Answered, t
<1>6. ASSUME ~t["net.https"].gap
      PROVE  Answered(e, "net.https")
  <2>1. "net.https" \in PlanSteps \ {"sssd.logs", "cache.files"}
    BY DEF PlanSteps
  <2>2. \A i \in DOMAIN Run(e)!Requires("net.https") :
          t[Run(e)!Requires("net.https")[i][1]].outcome \in Run(e)!Requires("net.https")[i][2]
    <3> HIDE DEF t
    <3> QED
      BY <1>1, <1>3, AllMet DEF Passes, Run!Outcome, t
  <2> QED
    BY <1>1, <1>3, <1>6, <2>1, <2>2, NoGap DEF Run!Outcome
<1>7. ASSUME NEW s \in {"tls", "time.server"} PROVE Answered(e, s) /\ Passes(e, "net.https")
  <2>1. s \in PlanSteps \ {"sssd.logs", "cache.files"} /\ ~t[s].gap
    BY DEF Run!Essential, PlanSteps, Clean
  <2>2. Run(e)!Requires(s) = <<<<"net.https", {"PASS"}>>>> /\ Run(e)!Gate(t, s) = "run"
    BY DEF Run!Requires, Run!Gate
  <2>3. DOMAIN Run(e)!Requires(s) = {1} /\ Run(e)!Requires(s)[1][1] = "net.https" /\ Run(e)!Requires(s)[1][2] = {"PASS"}
    BY <2>2
  <2>4. (Run(e)!Outcome(t, "net.https") # "PASS" /\ ~t["net.https"].gap) \/ Answered(e, s)
    <3> HIDE DEF t
    <3> QED
      BY <1>1, <2>1, <2>2, <2>3, NoGap DEF t
  <2>5. CASE Run(e)!Outcome(t, "net.https") # "PASS" /\ ~t["net.https"].gap
    <3>1. Run(e)!Outcome(t, "net.https") = "FAIL"
      <4>1. Answered(e, "net.https")
        BY <1>6, <2>5
      <4> HIDE DEF t
      <4> QED
        BY <1>3, <2>5, <4>1 DEF Answered, t
    <3> QED
      BY <1>2, <1>5, <3>1
  <2>6. CASE Answered(e, s)
    BY <2>3, <2>6 DEF Answered, Passes, Run!Unmet
  <2> QED
    BY <2>4, <2>5, <2>6
<1>8. Passes(e, "net.https") /\ Answered(e, "net.https") /\ e.https = "open" /\ e.ldap = "open"
  <2>1. Passes(e, "net.https")
    BY <1>7
  <2>2. Answered(e, "net.https")
    BY <2>1, RanAnswered DEF Passes, PlanSteps
  <2> HIDE DEF t
  <2> QED
    BY <1>2, <1>3, <1>5, <2>1, <2>2 DEF Answered, Passes, t
<1>9. e.certificate = "verified"
  <2>1. \A f : Run(e)!Classify(t, "tls", f) = Run(e)!CTls(f)
    BY DEF Run!Classify
  <2>2. /\ Run(e)!CheckOf("tls").status = "OK" => Run(e)!CheckOf("tls").fields.tls = e.certificate
        /\ \A f : Run(e)!CTls(f) \in {"PASS", "FAIL", "UNKNOWN"} /\ (Run(e)!CTls(f) = "PASS" => f.tls = "verified")
    BY DEF Run!CheckOf, Run!HttpsCheck, Run!CheckResult, Run!NotRun, Run!CTls
  <2>3. Answered(e, "tls")
    BY <1>7
  <2> HIDE DEF t
  <2> QED
    BY <1>2, <2>1, <2>2, <2>3 DEF Answered, t
<1>10. e.date = "near"
  <2>1. \A f : Run(e)!Classify(t, "time.server", f) = Run(e)!CTime(f)
    BY DEF Run!Classify
  <2>2. /\ Run(e)!CheckOf("time.server").status = "OK" => Run(e)!CheckOf("time.server").fields.offset = e.date
        /\ \A f : /\ Run(e)!CTime(f) \in {"PASS", "WARN", "FAIL", "UNKNOWN"}
                  /\ Run(e)!CTime(f) = "PASS" => f.offset = "near"
    BY <1>9 DEF Run!CheckOf, Run!HttpsCheck, Run!CheckResult, Run!NotRun, Run!CTime
  <2>3. Answered(e, "time.server")
    BY <1>7
  <2> HIDE DEF t
  <2> QED
    BY <1>2, <2>1, <2>2, <2>3 DEF Answered, t
<1> QED
  BY <1>8, <1>9, <1>10

(* The host's key is good, and a ticket was obtained with it.              *)
LEMMA CleanKerberos ==
  ASSUME NEW e, Clean(e), e.kinit \in KinitAnswers
  PROVE  e.keytab \notin {"loose", "missing", "unreadable", "other_principal", "unasked"} /\ e.kinit = "ok"
<1> DEFINE t == Run(e)!Trace
<1>1. Passes(e, "enroll")
  BY CleanSetup
<1>2. Run(e)!Outcome(t, "keytab") \notin {"WARN", "FAIL"} /\ Run(e)!KrbError(t) = "none"
  BY DEF Clean, Quiet, QuietBasics, Run!Failed
<1>3. Passes(e, "keytab") /\ e.keytab \notin {"loose", "missing", "unreadable", "other_principal", "unasked"}
  <2>1. Run(e)!Requires("keytab") = <<<<"enroll", {"PASS", "WARN"}>>>> /\ Run(e)!Gate(t, "keytab") = "run"
        /\ "keytab" \in Run(e)!Essential
    BY DEF Run!Requires, Run!Passish, Run!Gate, Run!Essential
  <2>2. Answered(e, "keytab")
    BY <1>1, <2>1, MustAnswer DEF Passes
  <2>3. \A f : Run(e)!Classify(t, "keytab", f)
                 = IF ~f.present \/ ~f.readable \/ f.principals = {} THEN "FAIL" ELSE IF ~f.loose THEN "PASS" ELSE "WARN"
    BY DEF Run!Classify, Run!CKeytab, Run!PassIf
  <2>4. Run(e)!CheckOf("keytab").status = "OK" =>
          LET f == Run(e)!CheckOf("keytab").fields IN
          /\ e.keytab # "unasked"
          /\ f.present <=> e.keytab # "missing"
          /\ f.principals # {} <=> e.keytab \in {"ok", "loose"}
          /\ f.loose <=> e.keytab = "loose"
    BY DEF Run!CheckOf, Run!KeytabCheck, Run!CheckResult, Run!NotRun
  <2> HIDE DEF t
  <2> QED
    BY <1>2, <2>2, <2>3, <2>4 DEF Answered, Passes, t
<1>4. e.kinit = "ok"
  <2>1. Run(e)!Requires("krb") = <<<<"keytab", {"PASS", "WARN"}>>>> /\ Run(e)!Gate(t, "krb") = "run"
        /\ "krb" \in Run(e)!Essential
    BY DEF Run!Requires, Run!Passish, Run!Gate, Run!Essential
  <2>2. Answered(e, "krb")
    BY <1>3, <2>1, MustAnswer DEF Passes
  <2>3. \A f : Run(e)!Classify(t, "krb", f) = IF f.ok THEN "PASS" ELSE "FAIL"
    BY DEF Run!Classify, Run!PassIf
  <2>4. /\ Run(e)!CheckOf("krb").status = "OK" => (Run(e)!CheckOf("krb").fields.ok <=> e.kinit = "ok")
        /\ Run(e)!CheckOf("krb").status = "OK" /\ e.kinit # "ok" => Run(e)!CheckOf("krb").fields.error_class = e.kinit
    BY DEF Run!CheckOf, Run!KinitCheck, Run!CheckResult, Run!NotRun
  <2>5. Run(e)!Outcome(t, "krb") = "FAIL" /\ Run(e)!CheckOf("krb").status = "OK"
          => Run(e)!KrbError(t) = Run(e)!CheckOf("krb").fields.error_class
    BY DEF Run!KrbError, Run!Failed, Run!Fact, Run!Field, Run!Ran, Run!Outcome
  <2> HIDE DEF t
  <2> QED
    BY <1>2, <2>2, <2>3, <2>4, <2>5 DEF Answered, KinitAnswers, t
<1> QED
  BY <1>3, <1>4

(* SSSD runs, with a valid configuration, online.                          *)
LEMMA CleanSssd ==
  ASSUME NEW e, Clean(e)
  PROVE  /\ Passes(e, "sssd.service") /\ e.unit = "active" /\ e.config = "valid" /\ e.domain = "Online"
         /\ e.env = "sssd_2" /\ ~Run(e)!CutOff("sssd.domain")
<1> DEFINE t == Run(e)!Trace
<1>1. Passes(e, "sssd")
  BY CleanSetup
<1>2. /\ Run(e)!Outcome(t, "sssd.service") # "FAIL" /\ Run(e)!Outcome(t, "sssd.config") # "FAIL"
      /\ Run(e)!Outcome(t, "sssd.domain") # "FAIL"
  BY DEF Clean, Quiet, Run!Failed
<1>3. Passes(e, "sssd.service") /\ e.unit = "active"
  <2>1. Run(e)!Requires("sssd.service") = <<>> /\ Run(e)!Gate(t, "sssd.service") = "run"
        /\ "sssd.service" \in Run(e)!Essential
    BY DEF Run!Requires, Run!Gate, Run!Essential
  <2>2. Answered(e, "sssd.service")
    BY <2>1, MustAnswer
  <2>3. \A f : Run(e)!Classify(t, "sssd.service", f)
                 = IF f.load_state # "loaded" THEN "FAIL"
                   ELSE IF f.active_state = "active" THEN "PASS" ELSE IF f.active_state = "activating" THEN "WARN" ELSE "FAIL"
    BY DEF Run!Classify, Run!CUnit, Run!PassIf
  <2>4. Run(e)!CheckOf("sssd.service").status = "OK" =>
          LET f == Run(e)!CheckOf("sssd.service").fields IN
          /\ f.load_state = IF e.unit = "masked" THEN "masked" ELSE "loaded"
          /\ e.unit # "masked" => f.active_state = e.unit
    BY DEF Run!CheckOf, Run!UnitCheck, Run!CheckResult, Run!NotRun
  <2> HIDE DEF t
  <2> QED
    BY <1>2, <2>2, <2>3, <2>4 DEF Answered, Passes, Clean, t
<1>4. e.config = "valid" /\ e.env = "sssd_2"
  <2>1. Run(e)!Requires("sssd.config") = <<>> /\ Run(e)!Gate(t, "sssd.config") = "run"
        /\ "sssd.config" \in Run(e)!Essential /\ "sssd.config" \in Run(e)!NeedsSssctl
    BY DEF Run!Requires, Run!Gate, Run!Essential, Run!NeedsSssctl
  <2>2. Answered(e, "sssd.config")
    BY <2>1, MustAnswer
  <2>3. \A f : Run(e)!Classify(t, "sssd.config", f) = IF f.valid THEN "PASS" ELSE "FAIL"
    BY DEF Run!Classify, Run!PassIf
  <2>4. Run(e)!CheckOf("sssd.config").status = "OK" =>
          (Run(e)!CheckOf("sssd.config").fields.valid <=> e.config = "valid")
    BY DEF Run!CheckOf, Run!ConfigCheck, Run!CheckResult, Run!NotRun
  <2>5. Run(e)!Fact(t, "env", "sssd", "unknown") \in {"unknown", e.env}
    BY DEF Run!Fact, Run!Field, Run!CheckOf, Run!VersionsCheck, Run!CheckResult
  <2> HIDE DEF t
  <2> QED
    BY <1>2, <2>1, <2>2, <2>3, <2>4, <2>5 DEF Answered, t
<1>5. e.domain = "Online" /\ ~Run(e)!CutOff("sssd.domain")
  <2>1. Run(e)!Requires("sssd.domain") = <<<<"sssd.service", {"PASS"}>>, <<"sssd", {"PASS", "WARN"}>>>>
        /\ Run(e)!Gate(t, "sssd.domain") = "run" /\ "sssd.domain" \in Run(e)!Essential
    BY DEF Run!Requires, Run!Passish, Run!Gate, Run!Essential
  <2>2. Answered(e, "sssd.domain")
    BY <1>1, <1>3, <2>1, MustAnswer DEF Passes
  <2>3. \A f : Run(e)!Classify(t, "sssd.domain", f) = IF f.online THEN "PASS" ELSE "FAIL"
    BY DEF Run!Classify, Run!PassIf
  <2>4. Run(e)!CheckOf("sssd.domain").status = "OK" =>
          (Run(e)!CheckOf("sssd.domain").fields.online <=> e.domain = "Online")
    BY DEF Run!CheckOf, Run!DomainCheck, Run!CheckResult, Run!NotRun
  <2> HIDE DEF t
  <2> QED
    BY <1>2, <2>2, <2>3, <2>4 DEF Answered, t
<1> QED
  BY <1>3, <1>4, <1>5

(* The records of the domain are asked for where SSSD uses them, and are   *)
(* found.                                                                  *)
LEMMA CleanRecords ==
  ASSUME NEW e, Clean(e), e.reached \in ReachedAnswers, e.ipa_server \in {"srv", "both"}
  PROVE  e.resolv_conf # "empty" /\ e.srv_ldap = "found" /\ e.srv_kerberos = "found"
<1> DEFINE t == Run(e)!Trace
<1>1. Passes(e, "enroll") /\ Passes(e, "sssd") /\ e.sssd = "active" /\ e.enroll # "absent"
  BY CleanSetup DEF Clean
<1>2. Run(e)!Fact(t, "sssd", "uses_srv", "unknown") = "yes"
  BY <1>1 DEF Passes, Run!Fact, Run!Ran, Run!Outcome, Run!Field, Run!CheckOf, Run!SssdConfCheck, Run!CheckResult
<1>3. ASSUME NEW s \in {"dns.srv_ldap", "dns.srv_kerberos"}
      PROVE  /\ e.resolv_conf # "empty"
             /\ IF s = "dns.srv_ldap" THEN e.srv_ldap = "found" ELSE e.srv_kerberos = "found"
  <2>1. Run(e)!Requires(s) = <<<<"enroll", {"PASS", "WARN"}>>>>
    BY DEF Run!Requires, Run!Passish
  <2>2. \A i \in DOMAIN Run(e)!Requires(s) : t[Run(e)!Requires(s)[i][1]].outcome \in Run(e)!Requires(s)[i][2]
    <3> HIDE DEF t
    <3> QED
      BY <1>1, <2>1, AllMet DEF Passes, Run!Outcome, t
  <2>3. Run(e)!Unmet(t, s) = {}
    BY <2>2 DEF Run!Unmet, Run!Outcome
  <2>4. Run(e)!Gate(t, s) = "run"
    BY <1>2 DEF Run!Gate, Run!GSrv, Run!Needed
  <2>5. s \in PlanSteps \ (Run(e)!NeedsRoot \cup Run(e)!NeedsSssctl \cup {"sssd.logs", "cache.files"})
    BY DEF PlanSteps, Run!NeedsRoot, Run!NeedsSssctl
  <2>6. ~Run(e)!CutOff(s)
    BY Reach
  <2>7. /\ Run(e)!CheckOf(s).status = "OK"
        /\ Run(e)!CheckOf(s).fields.found
             => e.resolv_conf # "empty" /\ IF s = "dns.srv_ldap" THEN e.srv_ldap = "found" ELSE e.srv_kerberos = "found"
    BY DEF Run!CheckOf, Run!SrvCheck, Run!CheckResult
  <2>8. Run(e)!Outcome(t, s) = Run(e)!Classify(t, s, Run(e)!CheckOf(s).fields)
    BY <1>1, <2>3, <2>4, <2>5, <2>6, <2>7, RunsFree
  <2>9. \A f : Run(e)!Classify(t, s, f) = IF f.found THEN "PASS" ELSE "FAIL"
    BY <1>2 DEF Run!Classify, Run!CSrv, Run!PassIf
  <2>10. Run(e)!Outcome(t, s) # "FAIL"
    BY DEF Clean, Quiet, QuietBasics, Run!Failed
  <2> HIDE DEF t
  <2> QED
    BY <2>7, <2>8, <2>9, <2>10
<1> QED
  BY <1>3

(* The identity asked about resolves.                                      *)
LEMMA CleanIdentity ==
  ASSUME NEW e, Clean(e)
  PROVE  /\ e.request = "host" => e.sss_group = "found"
         /\ e.request # "host" => Passes(e, "id.user") /\ e.sss_user = "found"
<1> DEFINE t == Run(e)!Trace
<1>1. Passes(e, "sssd.service") /\ Run(e)!Outcome(t, "id.group") # "FAIL"
      /\ (e.request # "host" => Run(e)!Outcome(t, "id.user") # "FAIL")
  BY CleanSssd DEF Clean, Quiet, Run!Failed, Run!UserGiven
<1>2. ASSUME NEW s \in {"id.user", "id.group"}, Run(e)!Gate(t, s) = "run", Run(e)!Outcome(t, s) # "FAIL"
      PROVE  Passes(e, s) /\ IF s = "id.user" THEN e.sss_user = "found" ELSE e.sss_group = "found"
  <2>1. Run(e)!Requires(s) = <<<<"sssd.service", {"PASS"}>>>> /\ s \in Run(e)!Essential
    BY DEF Run!Requires, Run!Essential
  <2>2. Answered(e, s)
    BY <1>1, <1>2, <2>1, MustAnswer DEF Passes
  <2>3. \A f : Run(e)!Classify(t, s, f) = IF f.found THEN "PASS" ELSE "FAIL"
    BY DEF Run!Classify, Run!PassIf
  <2>4. Run(e)!CheckOf(s).status = "OK" /\ Run(e)!CheckOf(s).fields.found =>
          IF s = "id.user" THEN e.sss_user = "found" ELSE e.sss_group = "found"
    BY DEF Run!CheckOf, Run!GetentCheck, Run!CheckResult, Run!NotRun
  <2> HIDE DEF t
  <2> QED
    BY <1>2, <2>2, <2>3, <2>4 DEF Answered, Passes, t
<1>3. CASE e.request = "host"
  <2>1. Run(e)!Gate(t, "id.group") = "run"
    BY <1>3 DEF Run!Gate, Run!GGroup, Run!UserGiven, Run!Needed
  <2> QED
    BY <1>1, <1>2, <1>3, <2>1
<1>4. CASE e.request # "host"
  <2>1. Run(e)!Gate(t, "id.user") = "run"
    BY <1>4 DEF Run!Gate, Run!UserGiven, Run!Needed
  <2> QED
    BY <1>1, <1>2, <1>4, <2>1
<1> QED
  BY <1>3, <1>4

(* The user SSSD knows is not missing from the whole name service.         *)
LEMMA CleanNss ==
  ASSUME NEW e, Clean(e), e.reached \in ReachedAnswers, e.request # "host"
  PROVE  e.nss_user # "not_found"
<1> DEFINE t == Run(e)!Trace
<1> SUFFICES ASSUME e.nss_user = "not_found" PROVE FALSE
  OBVIOUS
<1>1. Passes(e, "id.user") /\ ~Run(e)!CutOff("nss.system") /\ e.enroll # "absent"
  BY CleanIdentity, CleanSssd, Reach DEF Clean
<1>2. Run(e)!Unmet(t, "nss.system") = {}
  <2>1. Run(e)!Requires("nss.system") = <<>>
    BY DEF Run!Requires
  <2>2. \A i \in DOMAIN Run(e)!Requires("nss.system") :
          t[Run(e)!Requires("nss.system")[i][1]].outcome \in Run(e)!Requires("nss.system")[i][2]
    <3> HIDE DEF t
    <3> QED
      BY <2>1, AllMet
  <2> QED
    BY <2>2 DEF Run!Unmet, Run!Outcome
<1>3. Run(e)!Gate(t, "nss.system") = "run"
  BY <1>1 DEF Run!Gate, Run!UserGiven, Run!Needed, Passes
<1>4. "nss.system" \in PlanSteps \ (Run(e)!NeedsRoot \cup Run(e)!NeedsSssctl \cup {"sssd.logs", "cache.files"})
  BY DEF PlanSteps, Run!NeedsRoot, Run!NeedsSssctl
<1>5. Run(e)!CheckOf("nss.system").status = "OK" /\ ~Run(e)!CheckOf("nss.system").fields.found
  BY DEF Run!CheckOf, Run!GetentCheck, Run!CheckResult
<1>6. Run(e)!Outcome(t, "nss.system") = Run(e)!Classify(t, "nss.system", Run(e)!CheckOf("nss.system").fields)
  BY <1>1, <1>2, <1>3, <1>4, <1>5, RunsFree
<1>7. \A f : Run(e)!Classify(t, "nss.system", f) = IF f.found THEN "PASS" ELSE "FAIL"
  BY DEF Run!Classify, Run!PassIf
<1>8. Run(e)!Outcome(t, "nss.system") # "FAIL"
  BY DEF Clean, Quiet, Run!Failed
<1> HIDE DEF t
<1> QED
  BY <1>5, <1>6, <1>7, <1>8

(* The service admits the user: the stack was read to its end, and asking  *)
(* it counts no failed login.                                              *)
LEMMA CleanLogin ==
  ASSUME NEW e, Clean(e), e.reached \in ReachedAnswers, e.request \in {"login", "other"}
  PROVE  /\ e.pam \notin {"account_only", "auth_only", "neither", "counting", "too_deep", "unasked"}
         /\ e.acct = "success" /\ e.reached = "all"
<1> DEFINE t == Run(e)!Trace
<1>1. Passes(e, "sssd.service") /\ Passes(e, "id.user")
  BY CleanIdentity, CleanSssd
<1>2. Run(e)!Outcome(t, "pam.stack") \notin {"WARN", "FAIL"} /\ Run(e)!Outcome(t, "pam.acct") # "FAIL"
  BY DEF Clean, Quiet, Run!Failed
<1>3. Passes(e, "pam.stack") /\ e.pam \notin {"account_only", "auth_only", "neither", "unasked"}
  <2>1. Run(e)!Requires("pam.stack") = <<>> /\ Run(e)!Gate(t, "pam.stack") = "run" /\ "pam.stack" \in Run(e)!Essential
    BY DEF Run!Requires, Run!Gate, Run!ServiceGiven, Run!Needed, Run!Essential
  <2>2. Answered(e, "pam.stack")
    BY <2>1, MustAnswer
  <2>3. \A f : Run(e)!Classify(t, "pam.stack", f)
                 = IF ~f.account_has_sss THEN "FAIL" ELSE IF f.auth_has_sss THEN "PASS" ELSE "WARN"
    BY DEF Run!Classify, Run!CPamStack, Run!PassIf
  <2>4. Run(e)!CheckOf("pam.stack").status = "OK" =>
          LET f == Run(e)!CheckOf("pam.stack").fields IN
          /\ e.pam # "unasked"
          /\ f.account_has_sss <=> e.pam \notin {"auth_only", "neither"}
          /\ f.auth_has_sss <=> e.pam \notin {"account_only", "neither"}
    BY DEF Run!CheckOf, Run!PamStackCheck, Run!CheckResult, Run!NotRun
  <2> HIDE DEF t
  <2> QED
    BY <1>2, <2>2, <2>3, <2>4 DEF Answered, Passes, t
<1>4. /\ Run(e)!Gate(t, "pam.acct") = IF e.pam \in {"counting", "too_deep"} THEN "on purpose" ELSE "run"
  <2>1. /\ Run(e)!Fact(t, "pam.stack", "complete", FALSE) <=> e.pam # "too_deep"
        /\ Run(e)!Fact(t, "pam.stack", "faillock", FALSE) <=> e.pam = "counting"
    BY <1>3 DEF Passes, Run!Fact, Run!Ran, Run!Outcome, Run!Field, Run!CheckOf, Run!PamStackCheck, Run!CheckResult
  <2> QED
    BY <1>1, <2>1 DEF Passes, Run!Gate, Run!GUserChecks, Run!UserGiven, Run!ServiceGiven
<1>5. Answered(e, "pam.acct")
  <2>1. Run(e)!Requires("pam.acct") = <<<<"sssd.service", {"PASS"}>>>> /\ "pam.acct" \in Run(e)!Essential
    BY DEF Run!Requires, Run!Essential
  <2> QED
    BY <1>1, <1>4, <2>1, MustAnswer DEF Passes
<1>6. e.acct = "success"
  <2>1. \A f : Run(e)!Classify(t, "pam.acct", f) = IF f.result_class = "success" THEN "PASS" ELSE "FAIL"
    BY DEF Run!Classify, Run!PassIf
  <2>2. Run(e)!CheckOf("pam.acct").status = "OK" => Run(e)!CheckOf("pam.acct").fields.result_class = e.acct
    BY DEF Run!CheckOf, Run!UserChecksCheck, Run!CheckResult, Run!NotRun
  <2> HIDE DEF t
  <2> QED
    BY <1>2, <1>5, <2>1, <2>2 DEF Answered, t
<1>7. e.pam \notin {"counting", "too_deep"}
  BY <1>4, <1>5 DEF Answered
<1>8. e.reached = "all"
  BY <1>5, Reach DEF Answered
<1> QED
  BY <1>3, <1>6, <1>7, <1>8

(* A report that says HEALTHY comes of a run with nothing found and no gap.*)
LEMMA HealthyReport ==
  ASSUME NEW e, e.kinit \in KinitAnswers, e.unit # "activating", Run(e)!Investigation.status = "HEALTHY"
  PROVE  Clean(e)
<1> DEFINE t  == Run(e)!Trace
           X  == Run(e)!Found(t)
           ds == Run(e)!Roles(X)
           gaps == {s \in Run(e)!Essential : t[s].gap}
<1>1. Run(e)!Investigation.status = Run(e)!Status(ds, gaps)
  BY DEF Run!Investigation, Run!Explained, Run!Concluded
<1>2. ds = {} /\ gaps = {}
  <2> HIDE DEF ds, gaps
  <2> QED
    BY <1>1 DEF Run!Status
<1>3. X = <<>>
  <2>1. Listed(X) /\ \A i \in DOMAIN X : Shape(X[i])
    BY FoundRooted DEF Rooted, Members
  <2> HIDE DEF X
  <2>2. \A i \in DOMAIN X : \E d \in ds : Shows(e, X, i, d)
    BY <2>1, RolesShow
  <2>3. DOMAIN X = {}
    BY <1>2, <2>2
  <2> QED
    BY <2>1, <2>3 DEF Listed
<1>4. e.enroll # "absent" /\ Quiet(e, t)
  BY <1>3, NothingFound
<1> QED
  BY <1>2, <1>4 DEF Clean
=============================================================================
