---------------------------- MODULE ClientVerify ----------------------------
(***************************************************************************)
(* "ipa-diagnose client" and "client --verify" (client/cli.py and          *)
(* client/verify.py) as processes that share the saved result without a    *)
(* lock: each loads it, investigates, compares, and replaces the file      *)
(* through a temporary file named after its process id, which a crash      *)
(* leaves behind for the next process with that id.                        *)
(***************************************************************************)
EXTENDS Naturals, Sequences, FiniteSets

CONSTANTS Pid,
          Hosts,            \* bound: the ways a host is set up, [ipa_server, names]
          Parts,            \* the parts of the evidence that may be found wrong
          FewFaults,        \* bound: <<part, answer>> found while commands overlap or after a crash
          MaxFaults,        \* bound: different faults in all results in play
          MaxCommands(_),   \* bound: commands started on such a host
          None, Damaged, Partial

VARIABLES host,       \* how this host is set up
          file,       \* the saved result: None, Damaged, or a result
          temp,       \* per process id: None, Partial or a result
          command,    \* per process id: None or the command running under it
          started     \* commands started so far
vars == <<host, file, temp, command, started>>

Run(e) == INSTANCE ClientReport WITH seen <- e
C      == INSTANCE ClientChecks WITH seen <- None

(* The setup of a host is no fault, and the request is the command's.      *)
ASSUME ClientAssumption ==
  /\ Hosts \subseteq [ipa_server : {"srv", "fixed", "both"}, names : {"short", "qualified"}]
  /\ Parts \subseteq C!Part \ {"request", "ipa_server", "names"}

(* One answer for a part hides another; what is found of this host with    *)
(* these faults, for this request.                                         *)
Over(f, g) == [part \in DOMAIN f \cup DOMAIN g |-> IF part \in DOMAIN f THEN f[part] ELSE g[part]]
Evidence(faults, request) == Over(faults, Over([request |-> request], Over(host, C!Healthy)))

Wrong(part)  == {C!Answers[part][i] : i \in 2..Len(C!Answers[part])}
OneFault     == {<<>>} \cup UNION {[{part} -> Wrong(part)] : part \in Parts}
TwoFaults    == {Over(f, g) : f, g \in OneFault}
Pairs(r)     == {<<part, r.faults[part]>> : part \in DOMAIN r.faults}
                \cup IF r.request = "login" THEN {} ELSE {<<"request", r.request>>}

----------------------------------------------------------------------------
(* to_state, load: what is kept of a result.                               *)
Kept(c)   == [faults |-> c.faults, request |-> c.request, fixes |-> c.fixes,
              diagnoses |-> {[code |-> d.code, capability |-> d.capability, symptom |-> d.symptom] :
                             d \in c.report.diagnoses}]
Codes(ds) == {d.code : d \in ds}

Unread(f)  == f \in {None, Damaged, Partial}
Active     == {p \in Pid : command[p] # None}
Concluded(p) == command[p] # None /\ command[p].pc # "loaded"
InPlay ==
  UNION ({Pairs(f) : f \in {g \in {file} \cup {temp[p] : p \in Pid} : ~Unread(g)}}
         \cup {Pairs(command[p].previous) : p \in {q \in Active : command[q].previous # None}}
         \cup {Pairs(command[p]) : p \in {q \in Active : Concluded(q)}})

(* What may be found next to what is in play: any of it again, and as many *)
(* new faults as the bound leaves.                                         *)
Faults ==
  LET again == {<<>>} \cup {[part \in {pair[1]} |-> pair[2]] : pair \in {x \in InPlay : x[1] \in Parts}}
      room  == MaxFaults - Cardinality(InPlay)
      new   == IF room = 0 THEN {<<>>} ELSE IF room = 1 THEN OneFault ELSE TwoFaults
  IN  {Over(f, Over(g, h)) : f, g \in again, h \in new}

(* A symptom whose answer depends on the user or the service asked about.  *)
AnyInput == {}     \* mutant: what was found for another user is compared too
InputDependent == {"id.user", "id.group", "nss.system", "pam.stack", "pam.acct"}

(* compare: what became of one earlier diagnosis.  recheck is what the     *)
(* rebuilt criteria of its fix answer: "pass", "fail" or "unasked".        *)
Compared(old, previous, request, report, recheck) ==
  CASE previous.request # request /\ old.symptom \in InputDependent                     -> "UNABLE_TO_VERIFY"
    [] ~(previous.request # request /\ old.symptom \in InputDependent) ->
         IF old.code \in Codes(report.diagnoses) THEN "STILL_PRESENT"
         ELSE IF report.outcomes[old.symptom] # "PASS" THEN "UNABLE_TO_VERIFY"
         ELSE IF \E d \in report.diagnoses : d.capability = old.capability /\ d.severity = "FAIL" THEN "CHANGED"
         ELSE IF old.code \in previous.fixes /\ recheck = "unasked" THEN "UNABLE_TO_VERIFY"
         ELSE IF old.code \in previous.fixes /\ recheck = "fail" THEN "PARTIALLY_RESOLVED"
         ELSE "RESOLVED"
Items(previous, request, report, recheck) ==
  IF previous = None THEN {}
  ELSE {[code |-> old.code, outcome |-> Compared(old, previous, request, report, recheck)] : old \in previous.diagnoses}

Outcomes(items) == {i.outcome : i \in items}
NewConditions(previous, report) ==
  previous # None /\ \E d \in report.diagnoses : d.severity = "FAIL" /\ d.code \notin Codes(previous.diagnoses)
ExitCode(previous, items, report) ==
  IF Outcomes(items) \cap {"STILL_PRESENT", "PARTIALLY_RESOLVED"} # {} \/ NewConditions(previous, report) THEN 1
  ELSE IF Outcomes(items) \cap {"UNABLE_TO_VERIFY", "CHANGED"} # {} THEN 4
  ELSE Run(None)!Exit(report.status)
Saves(c) == ~c.access /\ Outcomes(c.items) \subseteq {"RESOLVED"}

----------------------------------------------------------------------------
Init ==
  /\ host \in Hosts
  /\ file = None
  /\ temp = [p \in Pid |-> None]
  /\ command = [p \in Pid |-> None]
  /\ started = 0

Alone(p) == Active \subseteq {p} /\ \A q \in Pid : temp[q] = None
(* Bound: unless few faults are in play, one command and one --verify of   *)
(* its result, with nothing else going on.                                 *)
MayStart(p, compares) ==
  /\ command[p] = None
  /\ started < MaxCommands(host)
  /\ InPlay \subseteq FewFaults \/ (Alone(p) /\ started = 1 /\ compares)

(* With --verify the saved result is loaded first; without one, or without *)
(* --verify, there is nothing to compare with.                             *)
Start(p, previous) ==
  /\ MayStart(p, previous # None)
  /\ previous = None \/ (~Unread(file) /\ previous = file)
  /\ command' = [command EXCEPT ![p] = [pc |-> "loaded", previous |-> previous, access |-> FALSE]]
  /\ started' = started + 1
  /\ UNCHANGED <<host, file, temp>>
(* access/runtime.py: "access --runtime" investigates an enrolled host for *)
(* one login, with FreeIPA's own decision, and saves nothing.              *)
StartAccess(p) ==
  /\ MayStart(p, FALSE)
  /\ command' = [command EXCEPT ![p] = [pc |-> "loaded", previous |-> None, access |-> TRUE]]
  /\ started' = started + 1
  /\ UNCHANGED <<host, file, temp>>
(* --verify with a saved result that cannot be read: exit 4, nothing else. *)
Refuse(p) == MayStart(p, FALSE) /\ file = Damaged /\ started' = started + 1 /\ UNCHANGED <<host, file, temp, command>>

(* investigate, compare: the faults are what the checks find while they    *)
(* run.  --verify without --user asks about what the saved result did.     *)
Shown(report) == [status |-> report.status, diagnoses |-> report.diagnoses, runtime |-> report.runtime,
                  authentication |-> report.authentication]
Comparison(c, faults, request, report, fixes, recheck) ==
  LET items == Items(c.previous, request, report, recheck) IN
  [pc |-> "concluded", previous |-> c.previous, access |-> c.access, faults |-> faults, request |-> request,
   fixes |-> fixes, report |-> Shown(report), items |-> items, exit |-> ExitCode(c.previous, items, report)]
Conclude(p, faults, request) ==
  LET c     == command[p]
      pairs == Pairs([faults |-> faults, request |-> request])
  IN  /\ c.access => request = "login" /\ <<"enroll", "absent">> \notin pairs
      /\ "hbac" \in DOMAIN faults => c.access
      /\ Cardinality(InPlay \cup pairs) <= MaxFaults
      /\ pairs \subseteq FewFaults \/ (Alone(p) /\ started <= 2)
      /\ \E report \in {Run(Evidence(faults, request))!Investigation} :
         \E fixes \in {{}, report.fixable}, recheck \in {"pass", "fail", "unasked"} :
           command' = [command EXCEPT ![p] = Comparison(c, faults, request, report, fixes, recheck)]
      /\ UNCHANGED <<host, file, temp, started>>

Leave(p) == command' = [command EXCEPT ![p] = None]
Step(p, from, to) == /\ command[p] # None /\ command[p].pc = from
                     /\ command' = [command EXCEPT ![p].pc = to]

(* save: O_EXCL fails, and nothing is saved, where a crashed process with  *)
(* this id left its temporary file; any other failure removes the file.    *)
Keep(p) == /\ Concluded(p) /\ command[p].pc = "concluded" /\ (~Saves(command[p]) \/ temp[p] # None)
           /\ Leave(p) /\ UNCHANGED <<host, file, temp, started>>
Open(p) == /\ Step(p, "concluded", "opened") /\ Saves(command[p]) /\ temp[p] = None
           /\ temp' = [temp EXCEPT ![p] = Partial]
           /\ UNCHANGED <<host, file, started>>
Write(p) == /\ Step(p, "opened", "written")
            /\ temp' = [temp EXCEPT ![p] = Kept(command[p])]
            /\ UNCHANGED <<host, file, started>>
ReplaceUnwritten(p) ==     \* mutant: the file is replaced before it is written
  /\ Concluded(p) /\ command[p].pc = "opened"
  /\ file' = temp[p]
  /\ temp' = [temp EXCEPT ![p] = None]
  /\ Leave(p) /\ UNCHANGED <<host, started>>
Replace(p) ==
  /\ Concluded(p) /\ command[p].pc = "written"
  /\ file' = temp[p]
  /\ temp' = [temp EXCEPT ![p] = None]
  /\ Leave(p) /\ UNCHANGED <<host, started>>
FailToSave(p) ==
  /\ Concluded(p) /\ command[p].pc \in {"opened", "written"}
  /\ temp' = [temp EXCEPT ![p] = None]
  /\ Leave(p) /\ UNCHANGED <<host, file, started>>
Crash(p) == /\ command[p] # None /\ InPlay \subseteq FewFaults
            /\ Leave(p) /\ UNCHANGED <<host, file, temp, started>>
(* The saved result is truncated or edited by someone else.                *)
Damage == ~Unread(file) /\ InPlay \subseteq FewFaults /\ file' = Damaged /\ UNCHANGED <<host, temp, command, started>>

Next ==
  Damage \/ \E p \in Pid :
    \/ Start(p, None) \/ Start(p, file) \/ StartAccess(p) \/ Refuse(p)
    \/ /\ command[p] # None /\ command[p].pc = "loaded"
       /\ \E faults \in Faults, request \in {"login", "user", "host", "other"} : Conclude(p, faults, request)
    \/ Keep(p) \/ Open(p) \/ Write(p) \/ Replace(p) \/ FailToSave(p) \/ Crash(p)
Spec == Init /\ [][Next]_vars
----------------------------------------------------------------------------
(* Properties.                                                             *)
Reports == {command[p] : p \in {q \in Active : command[q].pc = "concluded"}}

(* run.py:_completeness, _status: a run that says HEALTHY found nothing    *)
(* wrong, and missed no answer, in any part its request depends on; but    *)
(* for a unit that is just starting (HealthyMeansLookedUp below).          *)
DependsOn(c) ==
  {"enroll", "env", "euid", "sssd", "address", "https", "ldap", "certificate", "date", "keytab", "kinit",
   "unit", "config", "domain"}
  \cup CASE c.request = "host" -> {"sss_group"} [] c.request = "user" -> {"sss_user"}
         [] c.request \in {"login", "other"} -> {"sss_user", "pam", "acct", "reached"}
  \cup IF host.ipa_server = "fixed" THEN {} ELSE {"resolv_conf", "srv_ldap", "srv_kerberos"}
HealthyIsEarned ==
  \A c \in Reports :
    c.report.status = "HEALTHY" /\ <<"unit", "activating">> \notin Pairs(c) =>
      /\ DOMAIN c.faults \cap DependsOn(c) = {}
      /\ c.request # "host" => <<"nss_user", "not_found">> \notin Pairs(c)

(* diagnose.py:_roles: a diagnosis shown as following from another follows *)
(* from a failure, and in the end from one that follows from nothing.      *)
RelatedToAFailure ==
  \A c \in Reports : \A d \in c.report.diagnoses :
    d.role = "RELATED" =>
      \E u \in c.report.diagnoses : /\ u.code = d.related /\ u.severity = "FAIL"
                                    /\ \/ u.role \in {"PRIMARY", "INDEPENDENT", "UNDIAGNOSED"}
                                       \/ \E v \in c.report.diagnoses : v.code = u.related /\ v.role # "RELATED"
                                                                     /\ v.severity = "FAIL"

(* run.py:_runtime_blocker, _online_path_broken: what breaks only the way  *)
(* to IPA never makes a login fail for certain, and no failure that        *)
(* affects logins is missing from both verdicts.                           *)
OnlineParts == {"resolv_conf", "address", "srv_ldap", "srv_kerberos", "https", "ldap", "kdc", "certificate", "date",
                "keytab", "kinit", "chrony", "domain"}
VerdictsHonest ==
  \A c \in Reports :
    /\ DOMAIN c.faults \subseteq OnlineParts => c.report.runtime # "FAIL"
    /\ \A d \in c.report.diagnoses :
         d.severity = "FAIL" /\ (d.blocks_runtime \/ d.blocks_authentication)
           => "FAIL" \in {c.report.runtime, c.report.authentication}

(* verify.py:compare: a diagnosis called RESOLVED is not made of the       *)
(* evidence either, with what the checks did not answer now, or answered   *)
(* about another user, still as it was answered then.                      *)
NoAnswer == {"unasked", "silent"}
OfUser   == {"sss_user", "api_user", "nss_user", "pam", "acct", "cache_entry"}
Standing(c) ==
  LET then == c.previous.faults
      kept == {part \in DOMAIN then : \/ part \in DOMAIN c.faults /\ c.faults[part] \in NoAnswer
                                      \/ part \in OfUser /\ c.request # c.previous.request}
  IN  Over([part \in kept |-> then[part]],
           [part \in DOMAIN c.faults \ {"euid", "env", "reached"} |-> c.faults[part]])
ResolvedMeansGone ==
  \A c \in Reports : \A i \in c.items :
    i.outcome = "RESOLVED" =>
      i.code \notin Codes(Run(Evidence(Standing(c), c.previous.request))!Diagnoses)

(* verify.py:save, cli.py: crashes, process ids used again and commands    *)
(* that overlap leave the promise of the baseline whole.                   *)
Saved        == IF Unread(file) THEN file ELSE Codes(file.diagnoses)
PendingOf(p) ==
  IF ~Concluded(p) \/ ~Saves(command[p]) THEN None
  ELSE [codes |-> Codes(command[p].report.diagnoses),
        basis |-> IF command[p].previous = None THEN {} ELSE Codes(command[p].previous.diagnoses)]
Pending      == [p \in Pid |-> PendingOf(p)]
Baseline == INSTANCE Ledger WITH Command <- Pid, Lost <- Damaged, entry <- Saved, pending <- Pending
BaselineHolds == Baseline!Spec

(* exit-codes.md: HEALTHY says that every expected piece of evidence was   *)
(* collected, so whether identities resolve was asked.                     *)
HealthyMeansLookedUp ==
  \A c \in Reports :
    c.report.status = "HEALTHY" =>
      LET outcomes == Run(Evidence(c.faults, c.request))!Investigation.outcomes
      IN  outcomes[IF c.request = "host" THEN "id.group" ELSE "id.user"] = "PASS"
=============================================================================
