--------------------------- MODULE ServerBaseline ---------------------------
(***************************************************************************)
(* The saved report of server mode: what a plain ipa-diagnose writes, what *)
(* ipa-diagnose verify concludes from it, and which fix records are        *)
(* carried from one saved report to the next (verify.py, cli.py).          *)
(*                                                                         *)
(* The host is part of the model: which conditions hold on it (broken) and *)
(* which of the fixes are not in effect on it (unapplied).  A look at the  *)
(* host shows every condition that holds unless its evidence is missing.   *)
(***************************************************************************)
EXTENDS Naturals

CONSTANTS
  Fault,        \* conditions of the host, each with a diagnosis of its own
  Crash,        \* the diagnosis "healthcheck-check-failed"
  Fixable,      \* the conditions a fix may be shown for
  Collected,    \* the conditions of packs with a collector besides ipa-healthcheck
  Tiers         \* how the rule of each condition may report it

Condition == Fault \cup {Crash}

(* How a diagnosis is reported: PRIMARY or SECONDARY_INDEPENDENT ("root"   *)
(* when DIAGNOSED, "unsure" when not), or as a symptom or warning.         *)
RootTier == {"root", "unsure"}
Sure     == {"root", "lesser"}
Present  == {"root", "unsure", "lesser", "vague"}
Tier     == Present \cup {"absent"}

ASSUME BaselineAssumption ==
  /\ Fixable \subseteq Fault /\ Collected \subseteq Fault /\ Crash \notin Fault
  /\ Tiers \in [Condition -> SUBSET Present] /\ Tiers[Crash] \cap Sure = {}

Outcome == {"RESOLVED", "STILL_PRESENT", "PARTIALLY_RESOLVED", "UNABLE_TO_VERIFY", "CHANGED"}

(* The file: "good", of another host or mode ("foreign"), with malformed   *)
(* verification data ("damaged"), or not to be read.  "was" holds the      *)
(* diagnoses together with the carried ones, "fixes" the fix records.      *)
File   == [state: {"none", "good", "foreign", "damaged", "unreadable"},
           was: [Condition -> Tier], fixes: SUBSET Fixable]
Report == [found: [Condition -> Tier], offered: SUBSET Fixable, base: {"full", "partial", "none"},
           gaps: SUBSET Collected, broken: SUBSET Fault]
Items  == [Condition -> Outcome \cup {"none"}]

Nothing  == [c \in Condition |-> "absent"]
NoItems  == [c \in Condition |-> "none"]
NoFile   == [state |-> "none", was |-> Nothing, fixes |-> {}]
NoReport == [found |-> Nothing, offered |-> {}, base |-> "full", gaps |-> {}, broken |-> {}]
Idle     == [pc |-> "idle", mode |-> "plain", rep |-> NoReport, items |-> NoItems, exit |-> 0, draft |-> NoFile]

VARIABLES
  broken, unapplied,    \* the host
  altered,              \* fixes whose procedure or target is no longer the one that was shown
  file,                 \* last_report.json
  run,                  \* the command that is running
  shown,                \* history: fixes recorded in this file and still not applied
  uncheckable           \* history: those of them whose checks a plain run could not rebuild

vars == <<broken, unapplied, altered, file, run, shown, uncheckable>>
host == <<broken, unapplied, altered>>

Init ==
  /\ broken = {} /\ unapplied = {} /\ altered = {}
  /\ file = NoFile /\ run = Idle /\ shown = {} /\ uncheckable = {}

----------------------------------------------------------------------------
(* The host and its administrator. *)

Breaks(c) ==
  /\ broken' = broken \cup {c}
  /\ unapplied' = unapplied \cup ({c} \cap Fixable)
  /\ UNCHANGED <<altered, file, run, shown, uncheckable>>

(* The condition goes without the fix: a service started but not repaired. *)
Clears(c) == broken' = broken \ {c} /\ UNCHANGED <<unapplied, altered, file, run, shown, uncheckable>>

Repairs(c) ==
  /\ broken' = broken \ {c} /\ unapplied' = unapplied \ {c} /\ shown' = shown \ {c}
  /\ UNCHANGED <<altered, file, run, uncheckable>>

(* A new package or another target for the fix, between two commands. *)
Alters(c) ==
  /\ run.pc = "idle" /\ altered' = altered \cup {c}
  /\ UNCHANGED <<broken, unapplied, file, run, shown, uncheckable>>

(* The host is renamed, the file is damaged or cannot be read any more. *)
Spoils(state) ==
  /\ file.state = "good" /\ file' = [file EXCEPT !.state = state] /\ shown' = {}
  /\ UNCHANGED <<host, run, uncheckable>>

Host ==
  \/ \E c \in Fault : Breaks(c) \/ Clears(c) \/ Repairs(c)
  \/ \E c \in Fixable : Alters(c)
  \/ \E state \in {"foreign", "damaged", "unreadable"} : Spoils(state)

----------------------------------------------------------------------------
(* A command looks at the host: collection, diagnosis and resolution.      *)

Missable(c, found, base, gaps) == base # "full" \/ c \in gaps \/ found[Crash] # "absent"

Findings(base, gaps) ==
  {found \in [Condition -> Tier] :
     /\ \A c \in Condition : found[c] \in Tiers[c] \cup {"absent"}
     /\ \A c \in Fault : IF found[c] # "absent" THEN c \in broken
                         ELSE c \in broken => Missable(c, found, base, gaps)}

(* _apply_completeness over _overall_status, as an exit code; an unsure    *)
(* primary may be a WARNING, and CRITICAL (2) counts as DEGRADED (1).      *)
FreshCodes(found, base, gaps) ==
  LET unverified == IF base = "none" THEN 3 ELSE 4
      anything   == \E c \in Condition : found[c] # "absent"
      unsure     == \E c \in Condition : found[c] = "unsure"
  IN  IF anything THEN {1} \cup (IF unsure THEN {unverified} ELSE {})
      ELSE IF base = "full" /\ gaps = {} THEN {0, 4}
      ELSE {unverified}

(* Deliberately wrong: a fix for whatever is reported. *)
OfferAny(found) == {c \in Condition : found[c] # "absent"}

(* A fix is shown only for a DIAGNOSED condition.  "lesser" stands for the *)
(* warnings, which may have one, and the symptoms, which have none: the    *)
(* sets offered include more than the resolution engine can show.          *)
Offerable(found) == {c \in Fixable \cap unapplied : found[c] \in Sure}

Look(mode) ==
  /\ run.pc = "idle"
  /\ \E base \in {"full", "partial", "none"}, gaps \in SUBSET Collected :
     \E found \in Findings(base, gaps) :
     \E offered \in SUBSET Offerable(found) :
       run' = [Idle EXCEPT !.pc = IF mode = "verify" THEN "looked" ELSE "answered", !.mode = mode,
                           !.rep = [found |-> found, offered |-> offered, base |-> base, gaps |-> gaps,
                                    broken |-> broken]]
  /\ UNCHANGED <<host, file, shown, uncheckable>>

----------------------------------------------------------------------------
(* Asking a fix's own checks: rebuild_verify, then evaluate_verify.  The   *)
(* rebuild itself needs answers of checks and so may fail on any day.      *)

Answers(c) ==
  IF c \in altered THEN {"unbuildable", "changed"}
  ELSE {"unbuildable", "unanswered", IF c \in unapplied THEN "fail" ELSE "pass"}

CheckResults == {res \in [Fixable -> {"unbuildable", "changed", "unanswered", "fail", "pass"}] :
                   \A c \in Fixable : res[c] \in Answers(c)}

Usable == file.state = "good"

FixOutcome(c, res) ==
  IF c \notin file.fixes THEN "RESOLVED"
  ELSE CASE res[c] \in {"unbuildable", "unanswered"} -> "UNABLE_TO_VERIFY"
         [] res[c] = "changed"                       -> "CHANGED"
         [] res[c] = "pass"                          -> "RESOLVED"
         [] OTHER                                    -> "PARTIALLY_RESOLVED"

(* Deliberately wrong: a crashed check is taken for one that found nothing. *)
BlindGap(c, rep) == rep.base # "full" \/ c \in rep.gaps

(* The fresh evidence cannot show that the condition is gone. *)
Gap(c, rep) == rep.base # "full" \/ c \in rep.gaps \/ (rep.found[c] = "absent" /\ rep.found[Crash] # "absent")

Compared(c, rep, res) ==
  LET was == file.was[c]  now == rep.found[c] IN
  IF was = "absent"                   THEN "none"
  ELSE IF ~Usable \/ Gap(c, rep)      THEN "UNABLE_TO_VERIFY"
  ELSE IF now = "absent"              THEN FixOutcome(c, res)
  ELSE IF \/ was \in RootTier /\ now \notin RootTier
          \/ was \in Sure /\ now \notin Sure THEN "PARTIALLY_RESOLVED"
  ELSE "STILL_PRESENT"

NewConditions(rep) == {c \in Condition : file.was[c] = "absent" /\ rep.found[c] \in RootTier}

(* Deliberately wrong: only the fresh report decides once nothing is left. *)
ExitOnFresh(items, rep, fresh) ==
  IF (\E c \in Condition : items[c] \in {"STILL_PRESENT", "PARTIALLY_RESOLVED"}) \/ NewConditions(rep) # {}
  THEN IF fresh \in 1 .. 3 THEN fresh ELSE 1
  ELSE fresh

ExitCode(items, rep, fresh) ==
  IF file.state = "none" THEN fresh
  ELSE IF (\E c \in Condition : items[c] \in {"STILL_PRESENT", "PARTIALLY_RESOLVED"}) \/ NewConditions(rep) # {}
  THEN IF fresh \in 1 .. 3 THEN fresh ELSE 1
  ELSE IF (\E c \in Condition : items[c] \in {"UNABLE_TO_VERIFY", "CHANGED"}) \/ rep.base # "full" \/ rep.gaps # {}
  THEN 4
  ELSE fresh

(* verify: load, compare, print, exit code; an unreadable file ends it.    *)
Compare ==
  /\ run.pc = "looked"
  /\ \E res \in CheckResults, fresh \in FreshCodes(run.rep.found, run.rep.base, run.rep.gaps) :
       LET items == [c \in Condition |-> Compared(c, run.rep, res)] IN
       run' = IF file.state = "unreadable" THEN Idle
              ELSE [run EXCEPT !.pc = "answered", !.items = items, !.exit = ExitCode(items, run.rep, fresh)]
  /\ UNCHANGED <<host, file, shown, uncheckable>>

(* Deliberately wrong: what could not be verified is not kept. *)
KeepProblems == \E c \in Condition : run.items[c] \in {"STILL_PRESENT", "PARTIALLY_RESOLVED"}

(* keep_baseline: something is neither confirmed nor in the fresh report.  *)
KeepBaseline == \E c \in Condition : run.items[c] \notin {"none", "RESOLVED"} /\ run.rep.found[c] = "absent"

Leave ==
  /\ run.pc = "answered" /\ (KeepBaseline \/ run.rep.base = "none")
  /\ run' = Idle
  /\ UNCHANGED <<host, file, shown, uncheckable>>

(* Deliberately wrong: a diagnosis that is still there keeps its own fix.  *)
CarriedGone(res) ==
  {c \in file.fixes :
     /\ Usable /\ c \notin run.rep.offered /\ run.items[c] # "RESOLVED"
     /\ run.rep.found[c] = "absent" /\ res[c] \in {"unanswered", "fail"}}

(* carry_forward_fixes *)
Carried(res) ==
  {c \in file.fixes :
     /\ Usable /\ c \notin run.rep.offered /\ run.items[c] # "RESOLVED"
     /\ run.rep.found[c] = "absent" => res[c] \in {"unanswered", "fail"}}

(* Deliberately wrong: the record is carried without its diagnosis. *)
FreshOnly(kept) == run.rep.found

(* The diagnoses of the new report, with those of carried records. *)
Diagnoses(kept) ==
  [c \in Condition |-> IF run.rep.found[c] # "absent" THEN run.rep.found[c]
                       ELSE IF c \in kept THEN file.was[c] ELSE "absent"]

(* _save_baseline loads the file again and asks the checks again.          *)
Prepare ==
  /\ run.pc = "answered" /\ ~KeepBaseline /\ run.rep.base # "none"
  /\ \E res \in CheckResults :
       LET kept == Carried(res) IN
       /\ run' = [run EXCEPT !.pc = "writing", !.rep = [NoReport EXCEPT !.offered = run.rep.offered],
                             !.draft = [state |-> "good", was |-> Diagnoses(kept),
                                        fixes |-> run.rep.offered \cup kept]]
       /\ uncheckable' = uncheckable \cup {c \in file.fixes : run.rep.found[c] = "absent" /\ res[c] = "unbuildable"}
  /\ UNCHANGED <<host, file, shown>>

(* save_report is atomic and ignores every error. *)
Write ==
  /\ run.pc = "writing" /\ run' = Idle
  /\ \/ /\ file' = run.draft
        /\ shown' = (shown \cup run.rep.offered) \cap unapplied
        /\ uncheckable' = uncheckable \ run.rep.offered
        /\ altered' = altered \ run.rep.offered
     \/ UNCHANGED <<file, shown, uncheckable, altered>>
  /\ UNCHANGED <<broken, unapplied>>

Command == (\E mode \in {"plain", "verify"} : Look(mode)) \/ Compare \/ Leave \/ Prepare \/ Write

Next == Host \/ Command

Spec == Init /\ [][Next]_vars

----------------------------------------------------------------------------
TypeOK ==
  /\ broken \subseteq Fault /\ unapplied \subseteq Fixable /\ altered \subseteq Fixable
  /\ file \in File /\ shown \subseteq unapplied /\ uncheckable \subseteq Fixable
  /\ run \in [pc: {"idle", "looked", "answered", "writing"}, mode: {"plain", "verify"}, rep: Report,
              items: Items, exit: 0 .. 4, draft: File]

(* Fixes a later verify must still know of: recorded, not applied, not     *)
(* altered since, and not dropped by a run that could not rebuild them.    *)
Owed == shown \ (altered \cup uncheckable)

Verified == run.pc = "answered" /\ run.mode = "verify"

(* docs/verification.md and docs/resolution.md: RESOLVED is said only of a *)
(* condition that was not there when the host was looked at, and whose     *)
(* fix, if one was shown, is in effect - whatever failed to be collected,  *)
(* crashed, timed out or was saved in between.                             *)
ResolvedMeansGone ==
  Verified => \A c \in Fault : run.items[c] = "RESOLVED" => c \notin run.rep.broken \cup Owed

(* docs/verification.md: verify exits 0 only if all is resolved on         *)
(* complete evidence; then no condition at all held on the host and no     *)
(* fix that was shown is outstanding.                                      *)
ExitZeroMeansClean ==
  Verified /\ run.exit = 0 => run.rep.broken = {} /\ Owed = {}

(* docs/resolution.md: no sequence of plain runs, partial runs, verifies   *)
(* and failed saves forgets a fix that was shown and not applied, unless a *)
(* run found that its checks cannot be rebuilt.                            *)
FixesKept == Usable => Owed \subseteq file.fixes

(* A record whose diagnosis is missing makes verify call the file damaged: *)
(* the program must never write one.                                       *)
RecordsHaveDiagnoses == \A c \in file.fixes : file.was[c] # "absent"

(* keep_baseline: a verify replaces the saved diagnoses only by a report   *)
(* in which each of them is confirmed RESOLVED or still recorded.          *)
VerifyForgetsNothing ==
  [][run.mode = "verify" /\ run.pc = "writing" =>
       \A c \in Condition : file.was[c] # "absent" /\ file'.was[c] = "absent" => run.items[c] = "RESOLVED"]_vars

(* docs/resolution.md says that a plain run keeps a record so that "a      *)
(* later verify neither forgets an unapplied fix": but a check that cannot *)
(* be asked just then, when the criteria are rebuilt, drops the record of  *)
(* a fix that is neither applied nor altered.                              *)
FixesNeverForgotten == Usable => shown \ altered \subseteq file.fixes
=============================================================================
