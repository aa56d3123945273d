------------------------- MODULE ServerBaselineProofs -------------------------
(***************************************************************************)
(* Proofs about ServerBaseline for every set of conditions, every choice   *)
(* of the rules' tiers and any number of commands.                         *)
(***************************************************************************)
EXTENDS ServerBaseline, TLAPS

(* What a look at the host can and cannot have missed.                     *)
Seen(rep) ==
  /\ rep.found[Crash] \notin Sure
  /\ \A c \in Fault : IF rep.found[c] # "absent" THEN c \in rep.broken
                      ELSE c \in rep.broken => Missable(c, rep.found, rep.base, rep.gaps)
  /\ \A c \in rep.offered : rep.found[c] \in Sure

(* What stays true of the items of a verify while it decides what to save. *)
Justified ==
  /\ \A c \in Condition : run.items[c] = "RESOLVED" =>
       run.rep.found[c] = "absent" /\ ~Gap(c, run.rep) /\ c \notin Owed
  /\ \A c \in Condition : run.items[c] = "none" => file.was[c] = "absent"
  /\ run.exit = 0 => run.rep.broken = {} /\ Owed = {}

(* What the prepared report, if it is written, does to the promises below. *)
DraftOK ==
  /\ run.draft.state = "good"
  /\ run.rep.offered \cup Owed \subseteq run.draft.fixes
  /\ \A c \in run.draft.fixes : run.draft.was[c] # "absent"
  /\ run.mode = "verify" =>
       \A c \in Condition : file.was[c] # "absent" /\ run.draft.was[c] = "absent" => run.items[c] = "RESOLVED"

(* The saved report on its own.                                            *)
FileOK ==
  /\ RecordsHaveDiagnoses /\ FixesKept
  /\ ~Usable => shown = {}

Progress ==
  /\ run.pc \in {"looked", "answered"} => Seen(run.rep)
  /\ run.pc = "looked" => run.mode = "verify"
  /\ run.pc = "answered" /\ run.mode = "plain" => \A c \in Condition : run.items[c] = "none"
  /\ Verified => Justified
  /\ run.pc = "writing" => DraftOK

(* The inductive invariant.                                                *)
IInv == TypeOK /\ FileOK /\ Progress

----------------------------------------------------------------------------
(* The constants, and the fields of the two records.                       *)
LEMMA Names ==
  /\ Fixable \subseteq Fault /\ Collected \subseteq Fault /\ Fault \subseteq Condition
  /\ Crash \in Condition /\ Tiers[Crash] \cap Sure = {}
BY BaselineAssumption DEF Condition

LEMMA IdleType ==
  /\ NoFile \in File /\ NoReport \in Report /\ NoItems \in Items
  /\ Idle \in [pc: {"idle", "looked", "answered", "writing"}, mode: {"plain", "verify"}, rep: Report,
               items: Items, exit: 0 .. 4, draft: File]
<1>1. Nothing \in [Condition -> Tier]
  BY DEF Nothing, Tier
<1>2. NoFile \in File
  BY <1>1 DEF NoFile, File
<1>3. NoReport \in Report
  BY <1>1 DEF NoReport, Report
<1>4. NoItems \in Items
  BY DEF NoItems, Items
<1> QED
  BY <1>2, <1>3, <1>4 DEF Idle

LEMMA InitInv == Init => IInv
<1> SUFFICES ASSUME Init PROVE IInv
  OBVIOUS
<1>1. TypeOK
  BY IdleType DEF Init, TypeOK
<1>2. FileOK
  BY DEF Init, FileOK, RecordsHaveDiagnoses, FixesKept, Usable, NoFile
<1>3. Progress
  BY DEF Init, Progress, Verified, Idle
<1> QED
  BY <1>1, <1>2, <1>3 DEF IInv

----------------------------------------------------------------------------
(* What the host and its administrator do never adds to what is owed, so   *)
(* that what a command has concluded stays true while it goes on.          *)
LEMMA HostShape ==
  ASSUME TypeOK, Host
  PROVE  /\ run' = run /\ file'.was = file.was /\ file'.fixes = file.fixes
         /\ file' = file \/ (file'.state # "good" /\ shown' = {})
         /\ shown' \subseteq shown /\ Owed' \subseteq Owed
         /\ TypeOK'
<1>1. ASSUME NEW c \in Fault, Breaks(c) \/ Clears(c) \/ Repairs(c)
      PROVE  /\ UNCHANGED <<run, file, altered, uncheckable>> /\ shown' \subseteq shown
             /\ broken' \subseteq Fault /\ unapplied' \subseteq Fixable /\ shown' \subseteq unapplied'
  BY <1>1 DEF Breaks, Clears, Repairs, TypeOK
<1>2. ASSUME NEW c \in Fixable, Alters(c)
      PROVE  /\ UNCHANGED <<broken, unapplied, run, file, shown, uncheckable>>
             /\ altered \subseteq altered' /\ altered' \subseteq Fixable
  BY <1>2 DEF Alters, TypeOK
<1>3. ASSUME NEW state \in {"foreign", "damaged", "unreadable"}, Spoils(state)
      PROVE  /\ UNCHANGED <<broken, unapplied, altered, run, uncheckable>> /\ shown' = {}
             /\ file' \in File /\ file'.was = file.was /\ file'.fixes = file.fixes /\ file'.state # "good"
  BY <1>3 DEF Spoils, TypeOK, File, host
<1> QED
  BY <1>1, <1>2, <1>3 DEF Host, TypeOK, Owed

LEMMA HostStep == IInv /\ Host => IInv'
<1> SUFFICES ASSUME IInv, Host PROVE IInv'
  OBVIOUS
<1>1. TypeOK'
  BY HostShape DEF IInv
<1>2. FileOK'
  BY HostShape DEF IInv, FileOK, RecordsHaveDiagnoses, FixesKept, Usable, Owed
<1>3. Progress'
  <2>1. Verified' => Justified'
    BY HostShape DEF IInv, Progress, Verified, Justified, Gap
  <2>2. run'.pc = "writing" => DraftOK'
    BY HostShape DEF IInv, Progress, DraftOK
  <2> QED
    BY <2>1, <2>2, HostShape DEF IInv, Progress, Seen, Missable
<1> QED
  BY <1>1, <1>2, <1>3 DEF IInv

----------------------------------------------------------------------------
(* A look: what the command has in hand when it answers.                   *)
LEMMA LookStep == ASSUME IInv, NEW mode \in {"plain", "verify"}, Look(mode) PROVE IInv'
<1>0. PICK base \in {"full", "partial", "none"}, gaps \in SUBSET Collected :
        \E found \in Findings(base, gaps) : \E offered \in SUBSET Offerable(found) :
          run' = [Idle EXCEPT !.pc = IF mode = "verify" THEN "looked" ELSE "answered", !.mode = mode,
                              !.rep = [found |-> found, offered |-> offered, base |-> base,
                                       gaps |-> gaps, broken |-> broken]]
  BY Zenon DEF Look
<1>1. PICK found \in Findings(base, gaps), offered \in SUBSET Condition :
        /\ offered \subseteq Offerable(found)
        /\ run' = [Idle EXCEPT !.pc = IF mode = "verify" THEN "looked" ELSE "answered", !.mode = mode,
                               !.rep = [found |-> found, offered |-> offered, base |-> base,
                                        gaps |-> gaps, broken |-> broken]]
  BY <1>0, Names DEF Offerable
<1> DEFINE rep == [found |-> found, offered |-> offered, base |-> base, gaps |-> gaps, broken |-> broken]
<1>2. found \in [Condition -> Tier] /\ found[Crash] \notin Sure
  <2>1. found \in [Condition -> Tier] /\ found[Crash] \in Tiers[Crash] \cup {"absent"}
    BY <1>1, Names DEF Findings
  <2> QED
    BY <2>1, Names DEF Sure
<1>3. rep \in Report
  BY <1>1, <1>2, Names DEF Report, Offerable, IInv, TypeOK
<1>4. Seen(rep)
  BY <1>1, <1>2 DEF Seen, Findings, Offerable
<1>5. /\ run' \in [pc: {"idle", "looked", "answered", "writing"}, mode: {"plain", "verify"}, rep: Report,
                   items: Items, exit: 0 .. 4, draft: File]
      /\ run'.pc = (IF mode = "verify" THEN "looked" ELSE "answered") /\ run'.mode = mode
      /\ run'.rep = rep /\ run'.items = NoItems
  BY <1>1, <1>3, IdleType DEF Idle
<1>6. UNCHANGED <<broken, unapplied, altered, file, shown, uncheckable>>
  BY DEF Look, host
<1>7. TypeOK' /\ FileOK'
  BY <1>5, <1>6 DEF IInv, TypeOK, FileOK, RecordsHaveDiagnoses, FixesKept, Usable, Owed
<1>8. Progress'
  BY <1>4, <1>5 DEF Progress, Verified, NoItems, Seen, Missable
<1> QED
  BY <1>7, <1>8 DEF IInv

----------------------------------------------------------------------------
(* Clean evidence that shows nothing was taken of a clean host.            *)
LEMMA CleanMeansClean ==
  ASSUME NEW rep \in Report, Seen(rep), 0 \in FreshCodes(rep.found, rep.base, rep.gaps)
  PROVE  rep.broken = {}
<1>1. /\ \A c \in Condition : rep.found[c] = "absent"
      /\ rep.base = "full" /\ rep.gaps = {}
  BY DEF FreshCodes
<1>2. ASSUME NEW c \in rep.broken PROVE FALSE
  BY <1>1, Names DEF Seen, Missable, Report
<1> QED
  BY <1>2

(* A condition is said to be RESOLVED only on evidence that could show it, *)
(* and of a fix that is on record only once its own check has passed.      *)
LEMMA ComparedResolved ==
  ASSUME IInv, NEW res \in CheckResults, NEW c \in Condition,
         Compared(c, run.rep, res) = "RESOLVED"
  PROVE  run.rep.found[c] = "absent" /\ ~Gap(c, run.rep) /\ c \notin Owed
<1>1. /\ file.was[c] # "absent" /\ Usable /\ ~Gap(c, run.rep)
      /\ run.rep.found[c] = "absent" /\ FixOutcome(c, res) = "RESOLVED"
  BY DEF Compared
<1>2. CASE c \notin file.fixes
  BY <1>1, <1>2 DEF IInv, FileOK, FixesKept
<1>3. CASE c \in file.fixes
  <2>1. c \in Fixable
    BY <1>3 DEF IInv, TypeOK, File
  <2>2. res[c] = "pass" /\ res[c] \in Answers(c)
    BY <1>1, <1>3, <2>1 DEF FixOutcome, CheckResults
  <2>3. c \notin unapplied
    BY <2>2 DEF Answers
  <2> QED
    BY <1>1, <2>3 DEF IInv, TypeOK, Owed
<1> QED
  BY <1>2, <1>3

LEMMA ComparedType ==
  ASSUME NEW res, NEW rep, NEW c \in Condition
  PROVE  /\ Compared(c, rep, res) \in Outcome \cup {"none"}
         /\ Compared(c, rep, res) = "none" => file.was[c] = "absent"
<1>1. FixOutcome(c, res) \in Outcome
  BY DEF FixOutcome, Outcome
<1> QED
  BY <1>1 DEF Compared, Outcome

LEMMA CompareStep == ASSUME IInv, Compare PROVE IInv'
<1>1. PICK res \in CheckResults, fresh \in FreshCodes(run.rep.found, run.rep.base, run.rep.gaps) :
        run' = IF file.state = "unreadable" THEN Idle
               ELSE [run EXCEPT !.pc = "answered", !.items = [c \in Condition |-> Compared(c, run.rep, res)],
                                !.exit = ExitCode([c \in Condition |-> Compared(c, run.rep, res)], run.rep, fresh)]
  BY DEF Compare
<1> DEFINE items == [c \in Condition |-> Compared(c, run.rep, res)]
<1>2. /\ UNCHANGED <<broken, unapplied, altered, file, shown, uncheckable>>
      /\ run.pc = "looked" /\ run.mode = "verify" /\ Seen(run.rep) /\ run.rep \in Report
  BY DEF Compare, host, IInv, Progress, TypeOK
<1>3. FileOK'
  BY <1>2 DEF IInv, FileOK, RecordsHaveDiagnoses, FixesKept, Usable, Owed
<1>4. CASE file.state = "unreadable"
  <2>1. run' = Idle
    BY <1>1, <1>4
  <2> QED
    BY <1>2, <1>3, <2>1, IdleType DEF IInv, TypeOK, Progress, Verified, Idle
<1>5. CASE file.state # "unreadable"
  <2>1. items \in Items
    BY ComparedType DEF Items
  <2>2. fresh \in 0 .. 4
    BY DEF FreshCodes
  <2>3. ExitCode(items, run.rep, fresh) \in 0 .. 4
    BY <2>2 DEF ExitCode
  <2>4. /\ run' \in [pc: {"idle", "looked", "answered", "writing"}, mode: {"plain", "verify"}, rep: Report,
                     items: Items, exit: 0 .. 4, draft: File]
        /\ run'.pc = "answered" /\ run'.mode = "verify" /\ run'.rep = run.rep /\ run'.items = items
        /\ run'.exit = ExitCode(items, run.rep, fresh)
    BY <1>1, <1>2, <1>5, <2>1, <2>3 DEF IInv, TypeOK
  <2>5. TypeOK'
    BY <1>2, <2>4 DEF IInv, TypeOK
  <2>6. \A c \in Condition : items[c] = "RESOLVED" =>
          run.rep.found[c] = "absent" /\ ~Gap(c, run.rep) /\ c \notin Owed
    BY ComparedResolved
  <2>7. \A c \in Condition : items[c] = "none" => file.was[c] = "absent"
    BY ComparedType
  <2>8. ASSUME run'.exit = 0 PROVE run.rep.broken = {} /\ Owed = {}
    <3>1. fresh = 0 /\ run.rep.broken = {}
      BY <1>2, <2>2, <2>4, <2>8, CleanMeansClean DEF ExitCode
    <3>2. CASE ~Usable
      BY <3>1, <3>2 DEF IInv, FileOK, Owed
    <3>3. CASE Usable
      <4>1. \A c \in Condition : items[c] \in {"none", "RESOLVED"}
        <5>1. file.state # "none"
          BY <3>3 DEF Usable
        <5>2. \A c \in Condition : items[c] \notin {"STILL_PRESENT", "PARTIALLY_RESOLVED", "UNABLE_TO_VERIFY", "CHANGED"}
          BY <2>4, <2>8, <5>1 DEF ExitCode
        <5> QED
          BY <2>1, <5>2 DEF Items, Outcome
      <4>2. ASSUME NEW c \in Owed PROVE FALSE
        <5>1. c \in file.fixes /\ c \in Condition /\ file.was[c] # "absent"
          BY <3>3, Names DEF IInv, FileOK, FixesKept, RecordsHaveDiagnoses, TypeOK, File
        <5> QED
          BY <2>6, <2>7, <4>1, <5>1
      <4> QED
        BY <3>1, <4>2
    <3> QED
      BY <3>2, <3>3
  <2>9. Justified'
    BY <1>2, <2>4, <2>6, <2>7, <2>8 DEF Justified, Gap, Owed
  <2>10. Progress'
    BY <1>2, <2>4, <2>9 DEF Progress, Seen, Missable
  <2> QED
    BY <1>3, <2>5, <2>10 DEF IInv
<1> QED
  BY <1>4, <1>5

----------------------------------------------------------------------------
(* A verify that keeps the saved report leaves everything as it was.       *)
LEMMA LeaveStep == IInv /\ Leave => IInv'
<1> SUFFICES ASSUME IInv, Leave PROVE IInv'
  OBVIOUS
<1>1. run' = Idle /\ UNCHANGED <<broken, unapplied, altered, file, shown, uncheckable>>
  BY DEF Leave, host
<1>2. TypeOK' /\ FileOK'
  BY <1>1, IdleType DEF IInv, TypeOK, FileOK, RecordsHaveDiagnoses, FixesKept, Usable, Owed
<1>3. Progress'
  BY <1>1 DEF Progress, Verified, Idle
<1> QED
  BY <1>2, <1>3 DEF IInv

(* Every fix that is still owed is a record of the report being prepared:  *)
(* it is offered afresh, or its diagnosis is still found, or its own check *)
(* says again that it is not in effect.                                    *)
LEMMA OwedIsCarried ==
  ASSUME IInv, run.pc = "answered", NEW res \in CheckResults, NEW c \in shown,
         c \notin altered, c \notin uncheckable,
         ~(c \in file.fixes /\ run.rep.found[c] = "absent" /\ res[c] = "unbuildable")
  PROVE  c \in run.rep.offered \cup Carried(res)
<1>1. Usable /\ c \in Owed /\ c \in file.fixes /\ c \in unapplied /\ c \in Fixable /\ c \in Condition
  BY Names DEF IInv, FileOK, FixesKept, Owed, TypeOK
<1>2. run.items[c] # "RESOLVED"
  BY <1>1 DEF IInv, TypeOK, Progress, Verified, Justified
<1>3. res[c] \in {"unbuildable", "unanswered", "fail"}
  BY <1>1 DEF CheckResults, Answers
<1> QED
  BY <1>1, <1>2, <1>3 DEF Carried

LEMMA PrepareStep == IInv /\ Prepare => IInv'
<1> SUFFICES ASSUME IInv, Prepare PROVE IInv'
  OBVIOUS
<1>1. PICK res \in CheckResults :
        /\ run' = [run EXCEPT !.pc = "writing", !.rep = [NoReport EXCEPT !.offered = run.rep.offered],
                              !.draft = [state |-> "good", was |-> Diagnoses(Carried(res)),
                                         fixes |-> run.rep.offered \cup Carried(res)]]
        /\ uncheckable' = uncheckable \cup {c \in file.fixes : run.rep.found[c] = "absent"
                                                                 /\ res[c] = "unbuildable"}
  BY DEF Prepare
<1> DEFINE kept  == Carried(res)
           draft == [state |-> "good", was |-> Diagnoses(kept), fixes |-> run.rep.offered \cup kept]
<1>2. /\ UNCHANGED <<broken, unapplied, altered, file, shown>>
      /\ run.pc = "answered" /\ ~KeepBaseline /\ Seen(run.rep)
      /\ run \in [pc: {"idle", "looked", "answered", "writing"}, mode: {"plain", "verify"}, rep: Report,
                  items: Items, exit: 0 .. 4, draft: File]
      /\ run.rep \in Report /\ file \in File
  BY DEF Prepare, host, IInv, Progress, TypeOK
<1>3. kept \subseteq file.fixes /\ kept \subseteq Fixable /\ run.rep.offered \subseteq Fixable
  BY <1>2 DEF Carried, File, Report
<1>4. draft \in File
  <2>1. Diagnoses(kept) \in [Condition -> Tier]
    BY <1>2 DEF Diagnoses, File, Report, Tier
  <2> QED
    BY <1>3, <2>1 DEF File
<1>5. [NoReport EXCEPT !.offered = run.rep.offered] \in Report
  BY <1>3, IdleType DEF Report
<1>6. /\ run' \in [pc: {"idle", "looked", "answered", "writing"}, mode: {"plain", "verify"}, rep: Report,
                   items: Items, exit: 0 .. 4, draft: File]
      /\ run'.pc = "writing" /\ run'.draft = draft /\ run'.rep.offered = run.rep.offered
      /\ run'.mode = run.mode /\ run'.items = run.items
  BY <1>1, <1>2, <1>4, <1>5, IdleType DEF Report
<1>7. uncheckable' \subseteq Fixable /\ uncheckable \subseteq uncheckable'
  BY <1>1, <1>2 DEF IInv, TypeOK, File
<1>8. TypeOK'
  BY <1>2, <1>6, <1>7 DEF IInv, TypeOK
<1>9. FileOK'
  BY <1>2, <1>7 DEF IInv, FileOK, RecordsHaveDiagnoses, FixesKept, Usable, Owed
<1>10. DraftOK'
  <2>1. Owed' \subseteq run.rep.offered \cup kept
    <3> SUFFICES ASSUME NEW c \in Owed' PROVE c \in run.rep.offered \cup kept
      OBVIOUS
    <3>1. /\ c \in shown /\ c \notin altered /\ c \notin uncheckable
          /\ ~(c \in file.fixes /\ run.rep.found[c] = "absent" /\ res[c] = "unbuildable")
      BY <1>1, <1>2 DEF Owed
    <3> QED
      BY <1>2, <3>1, OwedIsCarried
  <2>2. ASSUME NEW c \in run.rep.offered \cup kept PROVE draft.was[c] # "absent"
    <3>1. c \in Condition
      BY <1>3, Names
    <3>2. c \in kept => file.was[c] # "absent"
      BY <1>3 DEF IInv, FileOK, RecordsHaveDiagnoses
    <3>3. c \in run.rep.offered => run.rep.found[c] # "absent"
      BY <1>2 DEF Seen, Sure
    <3> QED
      BY <3>1, <3>2, <3>3 DEF Diagnoses
  <2>3. ASSUME run.mode = "verify", NEW c \in Condition, file.was[c] # "absent", draft.was[c] = "absent"
        PROVE  run.items[c] = "RESOLVED"
    <3>1. run.rep.found[c] = "absent"
      BY <2>3 DEF Diagnoses
    <3>2. run.items[c] \in {"none", "RESOLVED"}
      BY <1>2, <3>1 DEF KeepBaseline
    <3> QED
      BY <1>2, <2>3, <3>2 DEF IInv, Progress, Verified, Justified
  <2> QED
    BY <1>2, <1>6, <2>1, <2>2, <2>3 DEF DraftOK
<1> QED
  BY <1>6, <1>8, <1>9, <1>10 DEF IInv, Progress, Verified

(* A save that fails leaves everything; one that succeeds makes the draft  *)
(* the saved report and its fixes fresh ones.                              *)
LEMMA WriteStep == IInv /\ Write => IInv'
<1> SUFFICES ASSUME IInv, Write PROVE IInv'
  OBVIOUS
<1>1. run' = Idle /\ run.pc = "writing" /\ UNCHANGED <<broken, unapplied>> /\ DraftOK
  BY DEF Write, IInv, Progress
<1>2. Progress'
  BY <1>1 DEF Progress, Verified, Idle
<1>3. CASE UNCHANGED <<file, shown, uncheckable, altered>>
  BY <1>1, <1>2, <1>3, IdleType DEF IInv, TypeOK, FileOK, RecordsHaveDiagnoses, FixesKept, Usable, Owed
<1>4. CASE /\ file' = run.draft /\ shown' = (shown \cup run.rep.offered) \cap unapplied
           /\ uncheckable' = uncheckable \ run.rep.offered /\ altered' = altered \ run.rep.offered
  <2>1. TypeOK'
    BY <1>1, <1>4, IdleType DEF IInv, TypeOK
  <2>2. Owed' \subseteq run.rep.offered \cup Owed
    BY <1>1, <1>4 DEF Owed
  <2>3. FileOK'
    BY <1>1, <1>4, <2>2 DEF FileOK, DraftOK, RecordsHaveDiagnoses, FixesKept, Usable
  <2> QED
    BY <1>2, <2>1, <2>3 DEF IInv
<1> QED
  BY <1>3, <1>4 DEF Write

LEMMA InvStep == IInv /\ [Next]_vars => IInv'
<1> SUFFICES ASSUME IInv, [Next]_vars PROVE IInv'
  OBVIOUS
<1>1. CASE Host
  BY <1>1, HostStep
<1>2. CASE Command
  BY <1>2, LookStep, CompareStep, LeaveStep, PrepareStep, WriteStep DEF Command
<1>3. CASE UNCHANGED vars
  BY <1>3 DEF vars, IInv, TypeOK, FileOK, RecordsHaveDiagnoses, FixesKept, Usable, Owed, Progress, Seen,
             Missable, Verified, Justified, Gap, DraftOK
<1> QED
  BY <1>1, <1>2, <1>3 DEF Next

LEMMA InvCorrect == Spec => []IInv
BY InitInv, InvStep, PTL DEF Spec

----------------------------------------------------------------------------
(* Every command of verify.py and cli.py keeps the saved report, the fix   *)
(* records and its own conclusions well formed.                            *)
THEOREM TypeCorrect == Spec => []TypeOK
<1>1. IInv => TypeOK
  BY DEF IInv
<1> QED
  BY <1>1, InvCorrect, PTL

(* RESOLVED is never said of a condition that held when the host was       *)
(* looked at, nor of one whose fix is still owed (verify.py, compare).     *)
THEOREM ResolvedCorrect == Spec => []ResolvedMeansGone
<1>1. IInv => ResolvedMeansGone
  <2> SUFFICES ASSUME IInv, Verified, NEW c \in Fault, run.items[c] = "RESOLVED"
               PROVE  c \notin run.rep.broken \cup Owed
    BY DEF ResolvedMeansGone
  <2>1. /\ Seen(run.rep) /\ run.rep.found[c] = "absent" /\ ~Gap(c, run.rep) /\ c \notin Owed
    BY Names DEF IInv, Progress, Verified, Justified
  <2> QED
    BY <2>1 DEF Seen, Missable, Gap
<1> QED
  BY <1>1, InvCorrect, PTL

(* verify exits 0 only on a host without a condition and without a fix     *)
(* that is owed (verify.py, the exit code of a verification).              *)
THEOREM ExitZeroCorrect == Spec => []ExitZeroMeansClean
<1>1. IInv => ExitZeroMeansClean
  BY DEF IInv, Progress, Justified, ExitZeroMeansClean
<1> QED
  BY <1>1, InvCorrect, PTL

(* carry_forward_fixes keeps every fix that is owed on record, whatever    *)
(* runs, verifies, failed saves and changes of the host come in between.   *)
THEOREM FixesKeptCorrect == Spec => []FixesKept
<1>1. IInv => FixesKept
  BY DEF IInv, FileOK
<1> QED
  BY <1>1, InvCorrect, PTL

(* No record is written without its diagnosis (carry_forward_fixes).       *)
THEOREM RecordsCorrect == Spec => []RecordsHaveDiagnoses
<1>1. IInv => RecordsHaveDiagnoses
  BY DEF IInv, FileOK
<1> QED
  BY <1>1, InvCorrect, PTL

(* keep_baseline: a verify drops a saved diagnosis only if it found it     *)
(* RESOLVED.                                                               *)
THEOREM VerifyForgetsNothingCorrect == Spec => VerifyForgetsNothing
<1>1. ASSUME IInv, [Next]_vars, run.mode = "verify", run.pc = "writing", NEW c \in Condition,
             file.was[c] # "absent", file'.was[c] = "absent"
      PROVE  run.items[c] = "RESOLVED"
  <2>1. DraftOK
    BY <1>1 DEF IInv, Progress
  <2>2. file' = run.draft \/ file'.was = file.was
    <3>1. CASE Host
      BY <1>1, <3>1, HostShape DEF IInv
    <3>2. CASE Write
      BY <3>2 DEF Write
    <3>3. CASE \/ \E mode \in {"plain", "verify"} : Look(mode)
               \/ Compare \/ Leave \/ Prepare
      BY <1>1, <3>3 DEF Look, Compare, Leave, Prepare
    <3>4. CASE UNCHANGED vars
      BY <3>4 DEF vars
    <3> QED
      BY <1>1, <3>1, <3>2, <3>3, <3>4 DEF Next, Command
  <2> QED
    BY <1>1, <2>1, <2>2 DEF DraftOK
<1>2. IInv /\ [Next]_vars =>
        [run.mode = "verify" /\ run.pc = "writing" =>
           \A c \in Condition : file.was[c] # "absent" /\ file'.was[c] = "absent" => run.items[c] = "RESOLVED"]_vars
  BY <1>1
<1> QED
  BY <1>2, InvCorrect, PTL DEF Spec, VerifyForgetsNothing

=============================================================================
