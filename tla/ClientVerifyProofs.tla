------------------------- MODULE ClientVerifyProofs -------------------------
(***************************************************************************)
(* Proofs about ClientVerify for any number of processes, whatever their   *)
(* checks find: the saved result keeps the promise of Ledger.              *)
(***************************************************************************)
EXTENDS ClientReportProofs

(* The markers are told apart from every result: the code has None, an     *)
(* exception or a truncated file where they stand.                         *)
MarkersApart ==
  /\ \A codes, basis : [codes |-> codes, basis |-> basis] # None
  /\ \A faults, request, fixes, diagnoses :
       ~Unread([faults |-> faults, request |-> request, fixes |-> fixes, diagnoses |-> diagnoses])

(* What a command that has compared knows, and what it may put on disk.    *)
Whole(c) ==
  \E pc, previous, access, faults, request, fixes, report, items, exit :
    c = [pc |-> pc, previous |-> previous, access |-> access, faults |-> faults, request |-> request,
         fixes |-> fixes, report |-> report, items |-> items, exit |-> exit]
Replaceable(c) ==
  Saves(c) /\ c.previous # None => Codes(c.previous.diagnoses) \cap Codes(c.report.diagnoses) = {}
Saving(p) ==
  Concluded(p) =>
    /\ Whole(command[p]) /\ Replaceable(command[p])
    /\ command[p].pc \in {"concluded", "opened", "written"}
    /\ command[p].pc # "concluded" => Saves(command[p])
    /\ command[p].pc = "written" => temp[p] = Kept(command[p])
Tidy ==
  /\ command = [p \in Pid |-> command[p]]
  /\ temp = [p \in Pid |-> temp[p]]
  /\ \A p \in Pid : Saving(p)

----------------------------------------------------------------------------
(* A command that saves found none of the earlier diagnoses again.         *)
LEMMA ResolvedIsGone ==
  ASSUME NEW old, NEW previous, NEW request, NEW report, NEW recheck,
         Compared(old, previous, request, report, recheck) = "RESOLVED"
  PROVE  old.code \notin Codes(report.diagnoses)
BY DEF Compared

LEMMA SavesMeansGone ==
  ASSUME NEW previous, NEW request, NEW report, NEW recheck, previous # None,
         Outcomes(Items(previous, request, report, recheck)) \subseteq {"RESOLVED"}
  PROVE  Codes(previous.diagnoses) \cap Codes(report.diagnoses) = {}
<1> SUFFICES ASSUME NEW old \in previous.diagnoses PROVE old.code \notin Codes(report.diagnoses)
  BY DEF Codes
<1>1. [code |-> old.code, outcome |-> Compared(old, previous, request, report, recheck)]
        \in Items(previous, request, report, recheck)
  BY DEF Items
<1>2. Compared(old, previous, request, report, recheck) = "RESOLVED"
  BY <1>1 DEF Outcomes
<1> QED
  BY <1>2, ResolvedIsGone

(* What a step of p leaves alone in every other command.                   *)
Others(p) == \A q \in Pid \ {p} : command'[q] = command[q] /\ temp'[q] = temp[q]

LEMMA OthersStay ==
  ASSUME Tidy, NEW p \in Pid, Others(p),
         command' = [q \in Pid |-> command'[q]], temp' = [q \in Pid |-> temp'[q]], Saving(p)'
  PROVE  Tidy'
<1>1. ASSUME NEW q \in Pid, q # p PROVE Saving(q)'
  BY <1>1 DEF Tidy, Others, Saving, Concluded
<1> QED
  BY <1>1 DEF Tidy

(* The next place of a command that keeps what it concluded.               *)
LEMMA StepShape ==
  ASSUME Tidy, NEW p \in Pid, NEW from, NEW to, Step(p, from, to), from # "loaded", to # "loaded"
  PROVE  /\ Concluded(p) /\ command' = [q \in Pid |-> command'[q]]
         /\ \A q \in Pid \ {p} : command'[q] = command[q]
         /\ Whole(command'[p]) /\ command'[p].pc = to
         /\ Saves(command'[p]) = Saves(command[p])
         /\ Replaceable(command'[p]) /\ Kept(command'[p]) = Kept(command[p])
         /\ command'[p].previous = command[p].previous /\ command'[p].report = command[p].report
         /\ command'[p].faults = command[p].faults /\ command'[p].request = command[p].request
<1>1. Concluded(p) /\ Saving(p) /\ command' = [command EXCEPT ![p].pc = to] /\ command = [q \in Pid |-> command[q]]
  BY DEF Step, Concluded, Tidy
<1>2. PICK pc, previous, access, faults, request, fixes, report, items, exit :
        command[p] = [pc |-> pc, previous |-> previous, access |-> access, faults |-> faults, request |-> request,
                      fixes |-> fixes, report |-> report, items |-> items, exit |-> exit]
  BY <1>1 DEF Saving, Whole
<1>3. command'[p] = [pc |-> to, previous |-> previous, access |-> access, faults |-> faults, request |-> request,
                     fixes |-> fixes, report |-> report, items |-> items, exit |-> exit]
  BY <1>1, <1>2
<1>4. Whole(command'[p])
  BY <1>3 DEF Whole, Comparison
<1>5. /\ command' = [q \in Pid |-> command'[q]]
      /\ \A q \in Pid \ {p} : command'[q] = command[q]
  BY <1>1
<1>6. /\ command'[p].pc = to
      /\ command'[p].previous = command[p].previous /\ command'[p].report = command[p].report
      /\ command'[p].access = command[p].access /\ command'[p].items = command[p].items
      /\ command'[p].faults = command[p].faults /\ command'[p].request = command[p].request
      /\ command'[p].fixes = command[p].fixes
  BY <1>2, <1>3
<1>7. Saves(command'[p]) = Saves(command[p])
  BY <1>6 DEF Saves
<1>8. Replaceable(command'[p])
  BY <1>1, <1>6, <1>7 DEF Saving, Replaceable
<1>9. Kept(command'[p]) = Kept(command[p])
  BY <1>6 DEF Kept
<1> QED
  BY <1>1, <1>4, <1>5, <1>6, <1>7, <1>8, <1>9

(* Comparing: a command that is about to save settled what it found.       *)
LEMMA ConcludeShape ==
  ASSUME Tidy, NEW p \in Pid, NEW faults, NEW request, Conclude(p, faults, request)
  PROVE  /\ command' = [q \in Pid |-> command'[q]]
         /\ \A q \in Pid \ {p} : command'[q] = command[q]
         /\ Whole(command'[p]) /\ command'[p].pc = "concluded" /\ Replaceable(command'[p])
<1>1. PICK report, fixes, recheck :
        command' = [command EXCEPT ![p] = Comparison(command[p], faults, request, report, fixes, recheck)]
  BY DEF Conclude
<1>2. /\ command' = [q \in Pid |-> command'[q]]
      /\ \A q \in Pid \ {p} : command'[q] = command[q]
      /\ command'[p] = Comparison(command[p], faults, request, report, fixes, recheck)
  BY <1>1 DEF Tidy
<1>3. Whole(command'[p])
  BY <1>2 DEF Whole, Comparison
<1>4. /\ command'[p].pc = "concluded"
      /\ command'[p].previous = command[p].previous
      /\ command'[p].items = Items(command[p].previous, request, report, recheck)
      /\ command'[p].report = Shown(report)
  BY <1>2 DEF Comparison
<1>5. command'[p].report.diagnoses = report.diagnoses
  BY <1>4 DEF Shown
<1>6. Replaceable(command'[p])
  BY <1>4, <1>5, SavesMeansGone DEF Replaceable, Saves
<1> QED
  BY <1>2, <1>3, <1>4, <1>6

(* A command that begins has concluded nothing; one that ends is no more.  *)
LEMMA StartShape ==
  ASSUME Tidy, NEW p \in Pid, NEW previous, Start(p, previous) \/ StartAccess(p)
  PROVE  /\ ~Concluded(p) /\ ~Concluded(p)' /\ Others(p) /\ UNCHANGED <<file, temp>>
         /\ command' = [q \in Pid |-> command'[q]]
<1>1. command[p] = None /\ UNCHANGED <<file, temp>>
  BY DEF Start, StartAccess, MayStart
<1>2. PICK access : command' = [command EXCEPT ![p] = [pc |-> "loaded", previous |-> IF access THEN None ELSE previous,
                                                        access |-> access]]
  BY DEF Start, StartAccess
<1>3. command'[p].pc = "loaded" /\ command' = [q \in Pid |-> command'[q]]
  BY <1>2 DEF Tidy
<1> QED
  BY <1>1, <1>2, <1>3 DEF Concluded, Others, Tidy

LEMMA LeaveShape ==
  ASSUME Tidy, NEW p \in Pid, Leave(p)
  PROVE  /\ ~Concluded(p)' /\ command' = [q \in Pid |-> command'[q]]
         /\ \A q \in Pid \ {p} : command'[q] = command[q]
BY DEF Leave, Tidy, Concluded

LEMMA TempShape ==
  ASSUME Tidy, NEW p \in Pid, NEW v, temp' = temp \/ temp' = [temp EXCEPT ![p] = v]
  PROVE  temp' = [q \in Pid |-> temp'[q]] /\ \A q \in Pid \ {p} : temp'[q] = temp[q]
BY DEF Tidy

LEMMA TidyStep ==
  ASSUME Tidy, [Next]_vars
  PROVE  Tidy'
<1>1. CASE UNCHANGED vars \/ Damage
  BY <1>1 DEF vars, Damage, Tidy, Saving, Concluded
<1> SUFFICES ASSUME NEW p \in Pid,
               \/ Start(p, None) \/ Start(p, file) \/ StartAccess(p) \/ Refuse(p)
               \/ \E faults, request : command[p] # None /\ command[p].pc = "loaded" /\ Conclude(p, faults, request)
               \/ Keep(p) \/ Open(p) \/ Write(p) \/ Replace(p) \/ FailToSave(p) \/ Crash(p)
             PROVE  Tidy'
  BY <1>1 DEF Next
<1>2. CASE Start(p, None) \/ Start(p, file) \/ StartAccess(p)
  <2>1. ~Concluded(p)' /\ Others(p) /\ temp' = temp /\ command' = [q \in Pid |-> command'[q]]
    BY <1>2, StartShape
  <2> QED
    BY <2>1, TempShape, OthersStay DEF Saving
<1>3. CASE Refuse(p)
  BY <1>3 DEF Refuse, Tidy, Saving, Concluded
<1>4. CASE \E faults, request : command[p] # None /\ command[p].pc = "loaded" /\ Conclude(p, faults, request)
  <2>1. PICK faults, request : Conclude(p, faults, request)
    BY <1>4
  <2>2. temp' = temp
    BY <2>1 DEF Conclude
  <2>3. Saving(p)'
    BY <2>1, ConcludeShape DEF Saving
  <2> QED
    BY <2>1, <2>2, <2>3, ConcludeShape, TempShape, OthersStay DEF Others
<1>5. CASE Keep(p) \/ Replace(p) \/ FailToSave(p) \/ Crash(p)
  <2>1. Leave(p) /\ (temp' = temp \/ temp' = [temp EXCEPT ![p] = None])
    BY <1>5 DEF Keep, Replace, FailToSave, Crash
  <2> QED
    BY <2>1, LeaveShape, TempShape, OthersStay DEF Saving, Others
<1>6. CASE Open(p)
  <2>1. Step(p, "concluded", "opened") /\ Saves(command[p]) /\ temp' = [temp EXCEPT ![p] = Partial]
    BY <1>6 DEF Open
  <2>2. Saving(p)'
    BY <2>1, StepShape DEF Saving
  <2> QED
    BY <2>1, <2>2, StepShape, TempShape, OthersStay DEF Others
<1>7. CASE Write(p)
  <2>1. Step(p, "opened", "written") /\ temp' = [temp EXCEPT ![p] = Kept(command[p])]
    BY <1>7 DEF Write
  <2>2. Saves(command[p])
    BY <2>1, StepShape DEF Tidy, Saving, Step
  <2>3. temp'[p] = Kept(command[p])
    BY <2>1 DEF Tidy
  <2>4. Saving(p)'
    BY <2>1, <2>2, <2>3, StepShape DEF Saving
  <2> QED
    BY <2>1, <2>4, StepShape, TempShape, OthersStay DEF Others
<1> QED
  BY <1>2, <1>3, <1>4, <1>5, <1>6, <1>7

----------------------------------------------------------------------------
(* Every step of a command is a step of Ledger, or changes nothing in it.  *)

LEMMA PendingStays ==
  ASSUME NEW p \in Pid, Others(p)
  PROVE  \A q \in Pid \ {p} : Pending'[q] = Pending[q]
BY DEF Pending, PendingOf, Concluded, Others

LEMMA LedgerAbandon ==
  ASSUME NEW p \in Pid, Others(p), file' = file, ~Concluded(p)'
  PROVE  [Baseline!Next]_<<Saved, Pending>>
<1>1. Pending'[p] = None /\ Saved' = Saved
  BY DEF Pending, PendingOf, Saved, Concluded
<1>2. CASE Pending[p] = None
  BY <1>1, <1>2, PendingStays DEF Pending
<1>3. CASE Pending[p] # None
  BY <1>1, <1>3, PendingStays DEF Baseline!Next, Baseline!Abandon
<1> QED
  BY <1>2, <1>3

LEMMA LedgerStay ==
  ASSUME NEW p \in Pid, Others(p), file' = file, PendingOf(p)' = PendingOf(p)
  PROVE  [Baseline!Next]_<<Saved, Pending>>
<1>1. Pending'[p] = Pending[p] /\ Saved' = Saved
  BY DEF Pending, Saved
<1>2. Pending' = Pending
  BY <1>1, PendingStays DEF Pending
<1> QED
  BY <1>1, <1>2

(* What a command that has concluded puts on disk is what Ledger publishes.*)
LEMMA LedgerReplace ==
  ASSUME MarkersApart, Tidy, NEW p \in Pid, Replace(p)
  PROVE  Baseline!Next
<1>1. Concluded(p) /\ command[p].pc = "written" /\ file' = temp[p] /\ Leave(p) /\ temp' = [temp EXCEPT ![p] = None]
  BY DEF Replace
<1>2. Saves(command[p]) /\ temp[p] = Kept(command[p])
  BY <1>1 DEF Tidy, Saving
<1>3. Pending[p] # None /\ Pending[p].codes = Codes(command[p].report.diagnoses)
  BY <1>1, <1>2 DEF Pending, PendingOf, MarkersApart
<1>4. ~Unread(file') /\ Codes(file'.diagnoses) = Codes(command[p].report.diagnoses)
  <2>1. ~Unread(Kept(command[p]))
    BY DEF Kept, MarkersApart
  <2>2. Codes(Kept(command[p]).diagnoses) = Codes(command[p].report.diagnoses)
    <3> DEFINE ds      == command[p].report.diagnoses
               Short(d) == [code |-> d.code, capability |-> d.capability, symptom |-> d.symptom]
    <3>1. Kept(command[p]).diagnoses = {Short(d) : d \in ds}
      BY DEF Kept
    <3>2. \A d \in ds : Short(d).code = d.code
      OBVIOUS
    <3> HIDE DEF Short, ds
    <3>3. Codes({Short(d) : d \in ds}) = Codes(ds)
      BY <3>2 DEF Codes
    <3> QED
      BY <3>1, <3>3 DEF ds
  <2> QED
    BY <1>1, <1>2, <2>1, <2>2
<1>5. Saved' = Pending[p].codes
  BY <1>3, <1>4 DEF Saved, Unread
<1>6. Others(p) /\ Pending'[p] = None
  BY <1>1, LeaveShape, TempShape DEF Others, Pending, PendingOf
<1> QED
  BY <1>3, <1>5, <1>6, PendingStays DEF Baseline!Next, Baseline!Publish

(* Concluding is Ledger's Conclude, if there is something to save.         *)
LEMMA LedgerConclude ==
  ASSUME MarkersApart, Tidy, NEW p \in Pid, NEW faults, NEW request,
         command[p] # None, command[p].pc = "loaded", Conclude(p, faults, request)
  PROVE  [Baseline!Next]_<<Saved, Pending>>
<1>1. /\ Others(p) /\ file' = file /\ Replaceable(command'[p])
  <2>1. file' = file /\ temp' = temp
    BY DEF Conclude
  <2> QED
    BY <2>1, ConcludeShape DEF Others
<1>2. Pending[p] = None
  BY DEF Pending, PendingOf, Concluded
<1>3. CASE Pending'[p] = None
  <2>1. Pending' = Pending /\ Saved' = Saved
    BY <1>1, <1>2, <1>3, PendingStays DEF Pending, Saved
  <2> QED
    BY <2>1
<1>4. CASE Pending'[p] # None
  <2>1. /\ Saves(command'[p])
        /\ Pending'[p] = [codes |-> Codes(command'[p].report.diagnoses),
                          basis |-> IF command'[p].previous = None THEN {} ELSE Codes(command'[p].previous.diagnoses)]
    BY <1>4 DEF Pending, PendingOf
  <2>2. Pending'[p].basis \cap Pending'[p].codes = {}
    BY <1>1, <2>1 DEF Replaceable
  <2>3. DOMAIN Pending'[p] = {"codes", "basis"}
    BY <2>1
  <2>4. Saved' = Saved
    BY <1>1 DEF Saved
  <2> QED
    BY <1>1, <1>2, <1>4, <2>2, <2>3, <2>4, PendingStays
      DEF Baseline!Next, Baseline!Conclude, Baseline!Result, Baseline!Settled
<1> QED
  BY <1>3, <1>4

LEMMA LedgerStep ==
  ASSUME MarkersApart, Tidy, [Next]_vars
  PROVE  [Baseline!Next]_<<Saved, Pending>>
<1>1. CASE UNCHANGED vars
  BY <1>1 DEF vars, Saved, Pending, PendingOf, Concluded
<1>2. CASE Damage
  <2>1. file' = Damaged /\ command' = command
    BY <1>2 DEF Damage
  <2>2. Saved' = Damaged /\ Pending' = Pending
    BY <2>1 DEF Saved, Unread, Pending, PendingOf, Concluded
  <2> QED
    BY <2>2 DEF Baseline!Next, Baseline!Lose
<1> SUFFICES ASSUME NEW p \in Pid,
               \/ Start(p, None) \/ Start(p, file) \/ StartAccess(p) \/ Refuse(p)
               \/ \E faults, request : command[p] # None /\ command[p].pc = "loaded" /\ Conclude(p, faults, request)
               \/ Keep(p) \/ Open(p) \/ Write(p) \/ Replace(p) \/ FailToSave(p) \/ Crash(p)
             PROVE  [Baseline!Next]_<<Saved, Pending>>
  BY <1>1, <1>2 DEF Next
<1>3. CASE Start(p, None) \/ Start(p, file) \/ StartAccess(p)
  BY <1>3, StartShape, LedgerAbandon
<1>4. CASE Refuse(p)
  BY <1>4 DEF Refuse, Saved, Pending, PendingOf, Concluded
<1>5. CASE \E faults, request : command[p] # None /\ command[p].pc = "loaded" /\ Conclude(p, faults, request)
  BY <1>5, LedgerConclude
<1>6. CASE Keep(p) \/ FailToSave(p) \/ Crash(p)
  <2>1. Leave(p) /\ file' = file /\ (temp' = temp \/ temp' = [temp EXCEPT ![p] = None])
    BY <1>6 DEF Keep, FailToSave, Crash
  <2> QED
    BY <2>1, LeaveShape, TempShape, LedgerAbandon DEF Others
<1>7. CASE Replace(p)
  BY <1>7, LedgerReplace
<1>8. CASE Open(p) \/ Write(p)
  <2>1. PICK from, to : Step(p, from, to) /\ from # "loaded" /\ to # "loaded"
    BY <1>8 DEF Open, Write
  <2>2. file' = file /\ \E v : temp' = [temp EXCEPT ![p] = v]
    BY <1>8 DEF Open, Write
  <2>3. Others(p)
    BY <2>1, <2>2, StepShape, TempShape DEF Others
  <2>4. CASE Concluded(p)'
    BY <2>1, <2>2, <2>3, <2>4, StepShape, LedgerStay DEF PendingOf
  <2>5. CASE ~Concluded(p)'
    BY <2>2, <2>3, <2>5, LedgerAbandon
  <2> QED
    BY <2>4, <2>5
<1> QED
  BY <1>3, <1>4, <1>5, <1>6, <1>7, <1>8

----------------------------------------------------------------------------
LEMMA TidyInit == Init => Tidy
BY DEF Init, Tidy, Saving, Concluded

(* verify.py:save, cli.py: crashes, process ids used again and commands    *)
(* that overlap leave the promise of the baseline whole: the file only     *)
(* ever becomes one command's whole result, and a command that compared    *)
(* puts its own there only when none of the earlier diagnoses is left.     *)
THEOREM BaselineCorrect == ASSUME MarkersApart PROVE Spec => BaselineHolds
<1>1. Init => Baseline!Init
  BY DEF Init, Baseline!Init, Pending, PendingOf, Concluded
<1>2. Tidy /\ [Next]_vars => [Baseline!Next]_<<Saved, Pending>>
  BY LedgerStep
<1>3. Tidy /\ [Next]_vars => Tidy'
  BY TidyStep
<1> QED
  BY <1>1, <1>2, <1>3, TidyInit, PTL DEF Spec, BaselineHolds, Baseline!Spec

----------------------------------------------------------------------------
(* Only what may be found wrong is found wrong.                            *)
FaultsFit(f) == DOMAIN f \subseteq Parts /\ \A part \in DOMAIN f : f[part] \in Wrong(part)
Fits(r)      == Unread(r) \/ FaultsFit(r.faults)
Requests     == {"login", "user", "host", "other"}

(* A command shows the report of what it found.                            *)
Reported(c) ==
  /\ FaultsFit(c.faults) /\ c.request \in Requests
  /\ c.report = Shown(Run(Evidence(c.faults, c.request))!Investigation)
Remembers(c) == c.previous = None \/ FaultsFit(c.previous.faults)
Truth ==
  /\ host \in Hosts /\ Fits(file)
  /\ \A p \in Pid : /\ Fits(temp[p])
                    /\ Concluded(p) => Reported(command[p])
                    /\ command[p] # None => Remembers(command[p])

(* What the saved result found wrong fits, and so does what is put into play.*)
LEMMA PairsFit ==
  ASSUME NEW r, FaultsFit(r.faults), NEW x \in Pairs(r), x[1] \in Parts
  PROVE  x[2] \in Wrong(x[1])
BY ClientAssumption DEF Pairs, FaultsFit

LEMMA InPlayFits ==
  ASSUME Truth, NEW x \in InPlay, x[1] \in Parts
  PROVE  x[2] \in Wrong(x[1])
<1>1. \/ \E g \in {file} \cup {temp[p] : p \in Pid} : ~Unread(g) /\ x \in Pairs(g)
      \/ \E p \in Pid : command[p] # None /\ command[p].previous # None /\ x \in Pairs(command[p].previous)
      \/ \E p \in Pid : Concluded(p) /\ x \in Pairs(command[p])
  BY DEF InPlay, Active
<1>2. \A g \in {file} \cup {temp[p] : p \in Pid} : Fits(g)
  BY DEF Truth
<1>3. \E r : FaultsFit(r.faults) /\ x \in Pairs(r)
  BY <1>1, <1>2 DEF Truth, Fits, Remembers, Reported
<1> QED
  BY <1>3, PairsFit

LEMMA OverFits ==
  ASSUME NEW f, NEW g, FaultsFit(f), FaultsFit(g) PROVE FaultsFit(Over(f, g))
BY DEF FaultsFit, Over

LEMMA OneFaultFits == ASSUME NEW f \in OneFault PROVE FaultsFit(f)
<1>1. CASE f = <<>>
  <2>1. DOMAIN <<>> = {}
    OBVIOUS
  <2> QED
    BY <1>1, <2>1 DEF FaultsFit
<1>2. CASE \E part \in Parts : f \in [{part} -> Wrong(part)]
  BY <1>2 DEF FaultsFit
<1> QED
  BY <1>1, <1>2 DEF OneFault

(* So do the faults a command draws.                                       *)
LEMMA FaultsDrawn ==
  ASSUME Truth, NEW f \in Faults PROVE FaultsFit(f)
<1> DEFINE again == {<<>>} \cup {[part \in {pair[1]} |-> pair[2]] : pair \in {x \in InPlay : x[1] \in Parts}}
<1>1. PICK a \in again, b \in again, h \in OneFault \cup TwoFaults : f = Over(a, Over(b, h))
  <2> DEFINE room == MaxFaults - Cardinality(InPlay)
             new  == IF room = 0 THEN {<<>>} ELSE IF room = 1 THEN OneFault ELSE TwoFaults
  <2>1. Faults = {Over(a, Over(b, h)) : a \in again, b \in again, h \in new}
    BY DEF Faults
  <2>2. new \subseteq OneFault \cup TwoFaults
    BY DEF OneFault
  <2> HIDE DEF again, new
  <2> QED
    BY <2>1, <2>2
<1>2. \A c \in again : FaultsFit(c)
  <2>1. FaultsFit(<<>>)
    BY OneFaultFits DEF OneFault
  <2>2. ASSUME NEW pair \in InPlay, pair[1] \in Parts PROVE FaultsFit([part \in {pair[1]} |-> pair[2]])
    BY <2>2, InPlayFits DEF FaultsFit
  <2> QED
    BY <2>1, <2>2
<1> HIDE DEF again
<1>3. FaultsFit(h)
  BY OneFaultFits, OverFits DEF TwoFaults
<1> QED
  BY <1>1, <1>2, <1>3, OverFits

(* Truth holds at first, and every step keeps it.                          *)
LEMMA TruthInit == Init => Truth
BY DEF Init, Truth, Fits, Unread, Concluded

(* Whoever is not at work stays as he was.                                 *)
LEMMA TruthElsewhere ==
  ASSUME Truth, NEW p \in Pid, Others(p), host' = host, Fits(file)', Fits(temp[p])',
         Concluded(p)' => Reported(command[p])', command'[p] # None => Remembers(command'[p])
  PROVE  Truth'
<1>1. ASSUME NEW q \in Pid, q # p
      PROVE  /\ Fits(temp[q])' /\ (Concluded(q)' => Reported(command[q])')
             /\ command'[q] # None => Remembers(command'[q])
  <2>1. command'[q] = command[q] /\ temp'[q] = temp[q]
    BY <1>1 DEF Others
  <2> QED
    BY <2>1 DEF Truth, Fits, FaultsFit, Unread, Concluded, Reported, Evidence, Remembers
<1> QED
  BY <1>1 DEF Truth, Remembers, FaultsFit

LEMMA TruthStep ==
  ASSUME Tidy, Truth, [Next]_vars PROVE Truth'
<1>1. CASE UNCHANGED vars
  BY <1>1 DEF vars, Truth, Fits, FaultsFit, Unread, Concluded, Reported, Evidence, Remembers
<1>2. CASE Damage
  <2>1. host' = host /\ temp' = temp /\ command' = command /\ file' = Damaged
    BY <1>2 DEF Damage
  <2> QED
    BY <2>1 DEF Truth, Fits, FaultsFit, Unread, Concluded, Reported, Evidence, Remembers
<1> SUFFICES ASSUME NEW p \in Pid,
               \/ Start(p, None) \/ Start(p, file) \/ StartAccess(p) \/ Refuse(p)
               \/ /\ command[p] # None /\ command[p].pc = "loaded"
                  /\ \E faults \in Faults, request \in Requests : Conclude(p, faults, request)
               \/ Keep(p) \/ Open(p) \/ Write(p) \/ Replace(p) \/ FailToSave(p) \/ Crash(p)
             PROVE  Truth'
  BY <1>1, <1>2 DEF Next, Requests
<1>3. Fits(file) /\ Fits(temp[p]) /\ (file' = file => Fits(file)') /\ (temp'[p] = temp[p] => Fits(temp[p])')
  BY DEF Truth, Fits, FaultsFit, Unread
<1>4. CASE Start(p, None) \/ Start(p, file) \/ StartAccess(p)
  <2>1. ~Concluded(p)' /\ Others(p) /\ file' = file /\ temp' = temp /\ host' = host
    BY <1>4, StartShape DEF Start, StartAccess
  <2>2. Remembers(command'[p])
    <3>1. PICK previous, access :
            /\ command'[p] = [pc |-> "loaded", previous |-> previous, access |-> access]
            /\ previous = None \/ (~Unread(file) /\ previous = file)
      BY <1>4 DEF Start, StartAccess, Tidy
    <3> QED
      BY <1>3, <3>1 DEF Remembers, Fits
  <2> QED
    BY <1>3, <2>1, <2>2, TruthElsewhere
<1>5. CASE Refuse(p)
  BY <1>5 DEF Refuse, Truth, Fits, FaultsFit, Unread, Concluded, Reported, Evidence, Remembers
<1>6. CASE /\ command[p] # None /\ command[p].pc = "loaded"
           /\ \E faults \in Faults, request \in Requests : Conclude(p, faults, request)
  <2>1. PICK faults \in Faults, request \in Requests : Conclude(p, faults, request)
    BY <1>6
  <2>2. host' = host /\ file' = file /\ temp' = temp /\ Others(p)
    BY <2>1, ConcludeShape DEF Conclude, Others
  <2>3. PICK fixes, recheck :
          command'[p] = Comparison(command[p], faults, request, Run(Evidence(faults, request))!Investigation, fixes, recheck)
    BY <2>1 DEF Conclude, Tidy
  <2>4. /\ command'[p].previous = command[p].previous /\ command'[p].faults = faults /\ command'[p].request = request
        /\ command'[p].report = Shown(Run(Evidence(faults, request))!Investigation)
    BY <2>3 DEF Comparison
  <2>5. FaultsFit(faults)
    BY FaultsDrawn
  <2>6. Evidence(faults, request)' = Evidence(faults, request)
    BY <2>2 DEF Evidence
  <2>7. Reported(command[p])'
    BY <2>2, <2>4, <2>5 DEF Reported, Evidence
  <2>8. Remembers(command'[p])
    BY <1>6, <2>4 DEF Truth, Remembers
  <2> QED
    BY <1>3, <2>2, <2>7, <2>8, TruthElsewhere
<1>7. CASE Keep(p) \/ Replace(p) \/ FailToSave(p) \/ Crash(p)
  <2>1. /\ Leave(p) /\ (temp' = temp \/ temp' = [temp EXCEPT ![p] = None]) /\ host' = host
        /\ file' = file \/ file' = temp[p]
    BY <1>7 DEF Keep, Replace, FailToSave, Crash
  <2>2. Others(p) /\ ~Concluded(p)' /\ command'[p] = None
    BY <2>1, LeaveShape, TempShape DEF Others, Leave, Tidy
  <2>3. temp'[p] = temp[p] \/ temp'[p] = None
    BY <2>1 DEF Tidy
  <2>4. Fits(file)' /\ Fits(temp[p])'
    BY <1>3, <2>1, <2>3 DEF Fits, Unread, FaultsFit
  <2> QED
    BY <2>1, <2>2, <2>4, TruthElsewhere
<1>8. CASE Open(p) \/ Write(p)
  <2>1. PICK from, to : Step(p, from, to) /\ from # "loaded" /\ to # "loaded"
    BY <1>8 DEF Open, Write
  <2>2. host' = host /\ file' = file /\ \E v : temp' = [temp EXCEPT ![p] = v] /\ v \in {Partial, Kept(command[p])}
    BY <1>8 DEF Open, Write
  <2>3. Others(p) /\ Concluded(p) /\ command'[p].previous = command[p].previous
        /\ command'[p].report = command[p].report
        /\ command'[p].faults = command[p].faults /\ command'[p].request = command[p].request
    BY <2>1, <2>2, StepShape, TempShape DEF Others
  <2>4. command[p] # None /\ Reported(command[p]) /\ Remembers(command[p])
    BY <2>3 DEF Truth, Concluded
  <2>5. Reported(command[p])' /\ Remembers(command'[p])
    BY <2>2, <2>3, <2>4 DEF Reported, Remembers, Evidence, FaultsFit
  <2>6. Fits(Kept(command[p]))
    BY <2>4 DEF Kept, Fits, Reported
  <2>7. temp'[p] \in {Partial, Kept(command[p])}
    BY <2>2 DEF Tidy
  <2>8. Fits(temp[p])'
    BY <2>6, <2>7 DEF Fits, Unread, FaultsFit
  <2> QED
    BY <1>3, <2>2, <2>3, <2>5, <2>8, TruthElsewhere
<1> QED
  BY <1>4, <1>5, <1>6, <1>7, <1>8

OfTheHost == {"request", "ipa_server", "names"}

(* What is found of a part: what is wrong with it, or the healthy answer.  *)
LEMMA EvidenceIs ==
  ASSUME host \in Hosts, NEW f, NEW request, NEW part \in C!Part \ OfTheHost
  PROVE  Evidence(f, request)[part] = IF part \in DOMAIN f THEN f[part] ELSE C!Healthy[part]
<1>1. DOMAIN host = {"ipa_server", "names"}
  BY ClientAssumption
<1>2. DOMAIN C!Healthy = C!Part
  BY DEF C!Healthy
<1>3. Over(host, C!Healthy)[part] = C!Healthy[part] /\ part \in DOMAIN Over(host, C!Healthy)
  BY <1>1, <1>2 DEF Over, OfTheHost
<1> DEFINE g == Over([request |-> request], Over(host, C!Healthy))
<1>4. g[part] = C!Healthy[part] /\ part \in DOMAIN g
  BY <1>3 DEF Over, OfTheHost
<1> HIDE DEF g
<1>5. Over(f, g)[part] = IF part \in DOMAIN f THEN f[part] ELSE g[part]
  BY <1>4 DEF Over
<1> QED
  BY <1>4, <1>5 DEF Evidence, g

LEMMA EvidenceOfHost ==
  ASSUME host \in Hosts, NEW f, FaultsFit(f), NEW request
  PROVE  LET e == Evidence(f, request) IN e.request = request /\ e.ipa_server = host.ipa_server
<1>1. DOMAIN host = {"ipa_server", "names"} /\ DOMAIN f \cap OfTheHost = {}
  BY ClientAssumption DEF FaultsFit, OfTheHost
<1> QED
  BY <1>1 DEF Evidence, Over, OfTheHost

LEMMA HealthyAnswers ==
  /\ C!Healthy["enroll"] = "whole" /\ C!Healthy["sssd"] = "active" /\ C!Healthy["unit"] = "active"
  /\ C!Healthy["config"] = "valid" /\ C!Healthy["acct"] = "success" /\ C!Healthy["sss_user"] = "found"
  /\ C!Healthy["sss_group"] = "found" /\ C!Healthy["nss_user"] = "found" /\ C!Healthy["kinit"] = "ok"
  /\ {"enroll", "sssd", "unit", "config", "acct", "sss_user", "sss_group", "nss_user", "kinit"} \subseteq C!Part
BY DEF C!Healthy, C!Part, C!Answers

(* A ticket is answered in one of the ways kinit is read.                  *)
LEMMA KinitFits ==
  ASSUME host \in Hosts, NEW f, FaultsFit(f), NEW request
  PROVE  Evidence(f, request).kinit \in KinitAnswers
<1>1. "kinit" \in C!Part \ OfTheHost /\ C!Healthy["kinit"] = "ok"
  BY HealthyAnswers DEF OfTheHost
<1>2. Wrong("kinit") \subseteq KinitAnswers
  <2> DEFINE a == <<"ok", "clock_skew", "kdc_unreachable", "kdc_unresolvable", "principal_unknown", "key_rejected",
                 "other", "unasked">>
  <2>1. C!Answers["kinit"] = a
    BY DEF C!Answers
  <2>2. Len(a) = 8 /\ \A i \in 2..8 : a[i] \in KinitAnswers
    BY DEF KinitAnswers
  <2> HIDE DEF a
  <2> QED
    BY <2>1, <2>2 DEF Wrong
<1>3. "kinit" \in DOMAIN f => f["kinit"] \in Wrong("kinit")
  BY DEF FaultsFit
<1> QED
  BY <1>1, <1>2, <1>3, EvidenceIs DEF KinitAnswers

(* The report a command shows is the investigation of that evidence.       *)
LEMMA ReportIs ==
  ASSUME Truth, NEW c \in Reports
  PROVE  LET e == Evidence(c.faults, c.request) IN
         /\ host \in Hosts /\ FaultsFit(c.faults) /\ c.request \in Requests /\ e.kinit \in KinitAnswers
         /\ c.report.diagnoses = Run(e)!Investigation.diagnoses
         /\ c.report.status = Run(e)!Investigation.status
         /\ c.report.runtime = Run(e)!Investigation.runtime
         /\ c.report.authentication = Run(e)!Investigation.authentication
         /\ c.report.diagnoses = Run(e)!Roles(Run(e)!Found(Run(e)!Trace))
<1>1. Reported(c) /\ host \in Hosts
  BY DEF Truth, Reports, Active, Concluded
<1>2. \A e : Run(e)!Investigation.diagnoses = Run(e)!Roles(Run(e)!Found(Run(e)!Trace))
  BY DEF Run!Investigation, Run!Explained, Run!Concluded
<1> QED
  BY <1>1, <1>2, KinitFits DEF Reported, Shown

(* What Truth says of the reports.                                         *)
LEMMA RelatedInTruth == ASSUME Truth PROVE RelatedToAFailure
<1> SUFFICES ASSUME NEW c \in Reports, NEW d \in c.report.diagnoses, d.role = "RELATED"
             PROVE  \E u \in c.report.diagnoses : /\ u.code = d.related /\ u.severity = "FAIL"
                                    /\ \/ u.role \in {"PRIMARY", "INDEPENDENT", "UNDIAGNOSED"}
                                       \/ \E v \in c.report.diagnoses : v.code = u.related /\ v.role # "RELATED"
                                                                     /\ v.severity = "FAIL"
  BY DEF RelatedToAFailure
<1> DEFINE e == Evidence(c.faults, c.request)
           ds == c.report.diagnoses
<1>1. e.kinit \in KinitAnswers /\ ds = Run(e)!Roles(Run(e)!Found(Run(e)!Trace))
  BY ReportIs
<1> HIDE DEF e
<1> QED
  BY <1>1, RelatedReport

LEMMA VerdictsInTruth == ASSUME Truth PROVE VerdictsHonest
<1> SUFFICES ASSUME NEW c \in Reports
             PROVE  /\ DOMAIN c.faults \subseteq OnlineParts => c.report.runtime # "FAIL"
                    /\ \A d \in c.report.diagnoses :
                         d.severity = "FAIL" /\ (d.blocks_runtime \/ d.blocks_authentication)
                           => "FAIL" \in {c.report.runtime, c.report.authentication}
  BY DEF VerdictsHonest
<1> DEFINE e == Evidence(c.faults, c.request)
<1>1. /\ host \in Hosts /\ e.kinit \in KinitAnswers /\ c.report.diagnoses = Run(e)!Investigation.diagnoses
      /\ c.report.runtime = Run(e)!Investigation.runtime
      /\ c.report.authentication = Run(e)!Investigation.authentication
  BY ReportIs
<1>2. ASSUME DOMAIN c.faults \subseteq OnlineParts PROVE HealthyHere(e)
  <2>1. \A part \in {"enroll", "sssd", "unit", "config", "acct", "sss_user", "sss_group", "nss_user"} :
          part \in C!Part \ OfTheHost /\ part \notin DOMAIN c.faults
    BY <1>2, HealthyAnswers DEF OnlineParts, OfTheHost
  <2>2. \A part \in {"enroll", "sssd", "unit", "config", "acct", "sss_user", "sss_group", "nss_user"} :
          e[part] = C!Healthy[part]
    BY <1>1, <2>1, EvidenceIs
  <2> HIDE DEF e
  <2> QED
    BY <2>2, HealthyAnswers DEF HealthyHere
<1> HIDE DEF e
<1> QED
  BY <1>1, <1>2, RuntimeReport, VerdictsReport

(* The strengthening holds of every behaviour.                             *)
LEMMA TruthHolds == Spec => [](Tidy /\ Truth)
<1>1. Tidy /\ Truth /\ [Next]_vars => (Tidy /\ Truth)'
  BY TidyStep, TruthStep
<1> QED
  BY <1>1, TidyInit, TruthInit, PTL DEF Spec

(* Every diagnosis a report calls RELATED leads to a failure that stands by*)
(* itself: the codes it names are in the same report, after _dedupe and _roles*)
(* (diagnose.py), whatever was found before it.                            *)
THEOREM RelatedCorrect == Spec => []RelatedToAFailure
BY TruthHolds, RelatedInTruth, PTL
(* A failure that affects logins shows in a verdict, and one that only breaks*)
(* the way to IPA fails no local login for certain (_runtime_blocker,      *)
(* _online_path_broken and _status of client/run.py).                      *)
THEOREM VerdictsCorrect == Spec => []VerdictsHonest
BY TruthHolds, VerdictsInTruth, PTL

(* The wrong answers of a part are all but the first.                      *)
LEMMA AllButFirst ==
  ASSUME NEW part, NEW h, NEW a, NEW b, NEW c, NEW d, NEW f, NEW g, NEW k
  PROVE  /\ C!Answers[part] = <<h, a>> => Wrong(part) = {a}
         /\ C!Answers[part] = <<h, a, b>> => Wrong(part) = {a, b}
         /\ C!Answers[part] = <<h, a, b, c>> => Wrong(part) = {a, b, c}
         /\ C!Answers[part] = <<h, a, b, c, d>> => Wrong(part) = {a, b, c, d}
         /\ C!Answers[part] = <<h, a, b, c, d, f>> => Wrong(part) = {a, b, c, d, f}
         /\ C!Answers[part] = <<h, a, b, c, d, f, g>> => Wrong(part) = {a, b, c, d, f, g}
         /\ C!Answers[part] = <<h, a, b, c, d, f, g, k>> => Wrong(part) = {a, b, c, d, f, g, k}
<1> DEFINE x == C!Answers[part]
<1> HIDE DEF x
<1>1. Wrong(part) = {x[i] : i \in 2..Len(x)}
  BY DEF Wrong, x
<1>2. ASSUME x = <<h, a>> PROVE Wrong(part) = {a}
  <2>1. Len(x) = 2 /\ x[2] = a
    BY <1>2
  <2> QED
    BY <1>1, <2>1
<1>3. ASSUME x = <<h, a, b>> PROVE Wrong(part) = {a, b}
  <2>1. Len(x) = 3 /\ x[2] = a /\ x[3] = b
    BY <1>3
  <2> QED
    BY <1>1, <2>1
<1>4. ASSUME x = <<h, a, b, c>> PROVE Wrong(part) = {a, b, c}
  <2>1. Len(x) = 4 /\ x[2] = a /\ x[3] = b /\ x[4] = c
    BY <1>4
  <2> QED
    BY <1>1, <2>1
<1>5. ASSUME x = <<h, a, b, c, d>> PROVE Wrong(part) = {a, b, c, d}
  <2>1. Len(x) = 5 /\ x[2] = a /\ x[3] = b /\ x[4] = c /\ x[5] = d
    BY <1>5
  <2> QED
    BY <1>1, <2>1
<1>6. ASSUME x = <<h, a, b, c, d, f>> PROVE Wrong(part) = {a, b, c, d, f}
  <2>1. Len(x) = 6 /\ x[2] = a /\ x[3] = b /\ x[4] = c /\ x[5] = d /\ x[6] = f
    BY <1>6
  <2> QED
    BY <1>1, <2>1
<1>7. ASSUME x = <<h, a, b, c, d, f, g>> PROVE Wrong(part) = {a, b, c, d, f, g}
  <2>1. Len(x) = 7 /\ x[2] = a /\ x[3] = b /\ x[4] = c /\ x[5] = d /\ x[6] = f /\ x[7] = g
    BY <1>7
  <2> QED
    BY <1>1, <2>1
<1>8. ASSUME x = <<h, a, b, c, d, f, g, k>> PROVE Wrong(part) = {a, b, c, d, f, g, k}
  <2>1. Len(x) = 8 /\ x[2] = a /\ x[3] = b /\ x[4] = c /\ x[5] = d /\ x[6] = f /\ x[7] = g /\ x[8] = k
    BY <1>8
  <2> QED
    BY <1>1, <2>1
<1> QED
  BY <1>2, <1>3, <1>4, <1>5, <1>6, <1>7, <1>8 DEF x

LEMMA WrongAnswers ==
  /\ Wrong("euid") = {"other"} /\ Wrong("reached") = {"pam_acct", "sssd_domain", "krb", "tls"}
  /\ Wrong("enroll") = {"absent", "incomplete"} /\ Wrong("env") = {"sssd_1", "unknown"}
  /\ Wrong("sssd") = {"absent", "unparsable", "no_ipa_domain", "inactive", "other_host", "unasked"}
  /\ Wrong("resolv_conf") = {"empty"} /\ Wrong("address") = {"none", "unasked"}
  /\ Wrong("srv_ldap") = {"NXDOMAIN", "TIMEOUT", "SERVFAIL"} /\ Wrong("srv_kerberos") = {"NXDOMAIN", "TIMEOUT", "SERVFAIL"}
  /\ Wrong("https") = {"closed", "unasked"} /\ Wrong("ldap") = {"closed", "unasked"}
  /\ Wrong("certificate") = {"untrusted", "no_ca_file", "silent", "unasked"}
  /\ Wrong("date") = {"drift", "skew", "none"}
  /\ Wrong("keytab") = {"loose", "missing", "unreadable", "other_principal", "unasked"}
  /\ Wrong("kinit") = {"clock_skew", "kdc_unreachable", "kdc_unresolvable", "principal_unknown", "key_rejected", "other", "unasked"}
  /\ Wrong("unit") = {"activating", "failed", "masked", "unasked"} /\ Wrong("config") = {"issues", "unasked"}
  /\ Wrong("domain") = {"Offline", "unasked"} /\ Wrong("sss_user") = {"not_found", "unasked"}
  /\ Wrong("sss_group") = {"not_found", "unasked"}
  /\ Wrong("pam") = {"account_only", "auth_only", "neither", "counting", "too_deep", "unasked"}
  /\ Wrong("acct") = {"permission_denied", "authinfo_unavail", "user_unknown", "unasked"}
<1>1. /\ C!Answers["euid"] = <<"root", "other">>
      /\ C!Answers["reached"] = <<"all", "pam_acct", "sssd_domain", "krb", "tls">>
      /\ C!Answers["enroll"] = <<"whole", "absent", "incomplete">>
      /\ C!Answers["env"] = <<"sssd_2", "sssd_1", "unknown">>
      /\ C!Answers["sssd"] = <<"active", "absent", "unparsable", "no_ipa_domain", "inactive", "other_host", "unasked">>
      /\ C!Answers["resolv_conf"] = <<"resolvers", "empty">>
      /\ C!Answers["address"] = <<"resolves", "none", "unasked">>
      /\ C!Answers["srv_ldap"] = <<"found", "NXDOMAIN", "TIMEOUT", "SERVFAIL">>
      /\ C!Answers["srv_kerberos"] = <<"found", "NXDOMAIN", "TIMEOUT", "SERVFAIL">>
      /\ C!Answers["https"] = <<"open", "closed", "unasked">>
      /\ C!Answers["ldap"] = <<"open", "closed", "unasked">>
      /\ C!Answers["certificate"] = <<"verified", "untrusted", "no_ca_file", "silent", "unasked">>
      /\ C!Answers["date"] = <<"near", "drift", "skew", "none">>
      /\ C!Answers["keytab"] = <<"ok", "loose", "missing", "unreadable", "other_principal", "unasked">>
      /\ C!Answers["kinit"] = <<"ok", "clock_skew", "kdc_unreachable", "kdc_unresolvable", "principal_unknown",
                                "key_rejected", "other", "unasked">>
      /\ C!Answers["unit"] = <<"active", "activating", "failed", "masked", "unasked">>
      /\ C!Answers["config"] = <<"valid", "issues", "unasked">>
      /\ C!Answers["domain"] = <<"Online", "Offline", "unasked">>
      /\ C!Answers["sss_user"] = <<"found", "not_found", "unasked">>
      /\ C!Answers["sss_group"] = <<"found", "not_found", "unasked">>
      /\ C!Answers["pam"] = <<"both", "account_only", "auth_only", "neither", "counting", "too_deep", "unasked">>
      /\ C!Answers["acct"] = <<"success", "permission_denied", "authinfo_unavail", "user_unknown", "unasked">>
  BY DEF C!Answers
<1>2. /\ Wrong("euid") = {"other"} /\ Wrong("reached") = {"pam_acct", "sssd_domain", "krb", "tls"}
      /\ Wrong("enroll") = {"absent", "incomplete"} /\ Wrong("env") = {"sssd_1", "unknown"}
      /\ Wrong("sssd") = {"absent", "unparsable", "no_ipa_domain", "inactive", "other_host", "unasked"}
  BY <1>1, AllButFirst
<1>3. /\ Wrong("resolv_conf") = {"empty"} /\ Wrong("address") = {"none", "unasked"}
      /\ Wrong("srv_ldap") = {"NXDOMAIN", "TIMEOUT", "SERVFAIL"} /\ Wrong("srv_kerberos") = {"NXDOMAIN", "TIMEOUT", "SERVFAIL"}
  BY <1>1, AllButFirst
<1>4. /\ Wrong("https") = {"closed", "unasked"} /\ Wrong("ldap") = {"closed", "unasked"}
      /\ Wrong("certificate") = {"untrusted", "no_ca_file", "silent", "unasked"}
      /\ Wrong("date") = {"drift", "skew", "none"}
  BY <1>1, AllButFirst
<1>5. /\ Wrong("keytab") = {"loose", "missing", "unreadable", "other_principal", "unasked"}
      /\ Wrong("kinit") = {"clock_skew", "kdc_unreachable", "kdc_unresolvable", "principal_unknown", "key_rejected", "other", "unasked"}
      /\ Wrong("unit") = {"activating", "failed", "masked", "unasked"} /\ Wrong("config") = {"issues", "unasked"}
  BY <1>1, AllButFirst
<1>6. /\ Wrong("domain") = {"Offline", "unasked"} /\ Wrong("sss_user") = {"not_found", "unasked"}
      /\ Wrong("sss_group") = {"not_found", "unasked"}
      /\ Wrong("pam") = {"account_only", "auth_only", "neither", "counting", "too_deep", "unasked"}
      /\ Wrong("acct") = {"permission_denied", "authinfo_unavail", "user_unknown", "unasked"}
  BY <1>1, AllButFirst
<1> QED
  BY <1>2, <1>3, <1>4, <1>5, <1>6

LEMMA HealthyInTruth == ASSUME Truth PROVE HealthyIsEarned
<1> SUFFICES ASSUME NEW c \in Reports, c.report.status = "HEALTHY", <<"unit", "activating">> \notin Pairs(c)
             PROVE  /\ DOMAIN c.faults \cap DependsOn(c) = {}
                    /\ c.request # "host" => <<"nss_user", "not_found">> \notin Pairs(c)
  BY DEF HealthyIsEarned
<1> DEFINE e == Evidence(c.faults, c.request)
           f == c.faults
<1>1. /\ host \in Hosts /\ FaultsFit(f) /\ c.request \in Requests /\ e.kinit \in KinitAnswers
      /\ Run(e)!Investigation.status = "HEALTHY"
  BY ReportIs
<1>2. e.request = c.request /\ e.ipa_server = host.ipa_server /\ host.ipa_server \in {"srv", "fixed", "both"}
  BY <1>1, EvidenceOfHost, ClientAssumption
<1>3. \A part \in C!Part \ OfTheHost : e[part] = IF part \in DOMAIN f THEN f[part] ELSE C!Healthy[part]
  BY <1>1, EvidenceIs
<1>4. \A part \in DOMAIN f : part \in C!Part \ OfTheHost /\ f[part] \in Wrong(part) /\ e[part] = f[part]
                              /\ <<part, f[part]>> \in Pairs(c)
  BY <1>1, <1>3, ClientAssumption DEF FaultsFit, OfTheHost, Pairs
<1>5. e.unit # "activating" /\ e.reached \in ReachedAnswers
  <2>1. C!Healthy["unit"] = "active" /\ C!Healthy["reached"] = "all" /\ {"unit", "reached"} \subseteq C!Part \ OfTheHost
    BY DEF C!Healthy, C!Part, C!Answers, OfTheHost
  <2> HIDE DEF e
  <2> QED
    BY <1>3, <1>4, <2>1, WrongAnswers DEF ReachedAnswers
<1>6. c.request # "host" => c.request \in {"login", "user", "other"}
  BY <1>1 DEF Requests
<1> HIDE DEF e
<1>7. Clean(e)
  BY <1>1, <1>5, HealthyReport
<1>8. \A part \in {"enroll", "sssd", "euid", "address"} : part \notin DOMAIN f
  <2>1. e.enroll \notin Wrong("enroll") /\ e.sssd \notin Wrong("sssd") /\ e.euid \notin Wrong("euid") /\ e.address \notin Wrong("address")
    BY <1>7, CleanSetup, WrongAnswers DEF Clean
  <2> QED
    BY <1>4, <2>1
<1>9. \A part \in {"https", "ldap", "certificate", "date"} : part \notin DOMAIN f
  <2>1. e.https \notin Wrong("https") /\ e.ldap \notin Wrong("ldap") /\ e.certificate \notin Wrong("certificate") /\ e.date \notin Wrong("date")
    BY <1>7, CleanNetwork, WrongAnswers
  <2> QED
    BY <1>4, <2>1
<1>10. \A part \in {"keytab", "kinit"} : part \notin DOMAIN f
  <2>1. e.keytab \notin Wrong("keytab") /\ e.kinit \notin Wrong("kinit")
    BY <1>1, <1>7, CleanKerberos, WrongAnswers
  <2> QED
    BY <1>4, <2>1
<1>11. \A part \in {"env", "unit", "config", "domain"} : part \notin DOMAIN f
  <2>1. e.env \notin Wrong("env") /\ e.unit \notin Wrong("unit") /\ e.config \notin Wrong("config") /\ e.domain \notin Wrong("domain")
    BY <1>7, CleanSssd, WrongAnswers
  <2> QED
    BY <1>4, <2>1
<1>12. ASSUME host.ipa_server # "fixed"
       PROVE  \A part \in {"resolv_conf", "srv_ldap", "srv_kerberos"} : part \notin DOMAIN f
  <2>1. e.ipa_server \in {"srv", "both"}
    BY <1>2, <1>12
  <2>2. e.resolv_conf \notin Wrong("resolv_conf") /\ e.srv_ldap \notin Wrong("srv_ldap")
        /\ e.srv_kerberos \notin Wrong("srv_kerberos")
    BY <1>5, <1>7, <2>1, CleanRecords, WrongAnswers
  <2> QED
    BY <1>4, <2>2
<1>13. /\ c.request = "host" => "sss_group" \notin DOMAIN f
       /\ c.request # "host" => "sss_user" \notin DOMAIN f
  <2>1. /\ c.request = "host" => e.sss_group \notin Wrong("sss_group")
        /\ c.request # "host" => e.sss_user \notin Wrong("sss_user")
    BY <1>2, <1>7, CleanIdentity, WrongAnswers
  <2> QED
    BY <1>4, <2>1
<1>14. ASSUME c.request \in {"login", "other"}
       PROVE  \A part \in {"pam", "acct", "reached"} : part \notin DOMAIN f
  <2>1. e.pam \notin Wrong("pam") /\ e.acct \notin Wrong("acct") /\ e.reached \notin Wrong("reached")
    BY <1>2, <1>5, <1>7, <1>14, CleanLogin, WrongAnswers
  <2> QED
    BY <1>4, <2>1
<1>15. ASSUME c.request # "host" PROVE <<"nss_user", "not_found">> \notin Pairs(c)
  <2>1. e.nss_user # "not_found"
    BY <1>2, <1>5, <1>7, <1>15, CleanNss
  <2>2. <<"nss_user", "not_found">> \in Pairs(c) => "nss_user" \in DOMAIN f /\ f["nss_user"] = "not_found"
    BY DEF Pairs
  <2> QED
    BY <1>4, <2>1, <2>2
<1>16. \A part \in DependsOn(c) : part \notin DOMAIN f
  <2>1. CASE c.request = "host"
    BY <1>8, <1>9, <1>10, <1>11, <1>12, <1>13, <2>1 DEF DependsOn
  <2>2. CASE c.request = "user"
    BY <1>8, <1>9, <1>10, <1>11, <1>12, <1>13, <2>2 DEF DependsOn
  <2>3. CASE c.request \in {"login", "other"}
    BY <1>8, <1>9, <1>10, <1>11, <1>12, <1>13, <1>14, <2>3 DEF DependsOn
  <2> QED
    BY <1>6, <2>1, <2>2, <2>3
<1> QED
  BY <1>15, <1>16

(* A report says HEALTHY only if every answer it rests on was healthy: no  *)
(* check that failed, was skipped or was cut off by the budget is taken for a*)
(* pass (_completeness and _status of client/run.py).                      *)
THEOREM HealthyCorrect == Spec => []HealthyIsEarned
BY TruthHolds, HealthyInTruth, PTL
=============================================================================
