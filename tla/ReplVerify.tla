----------------------------- MODULE ReplVerify -----------------------------
(***************************************************************************)
(* `ipa-diagnose replication` and `replication --verify` over time: runs   *)
(* of the command read agreements and causes that change under them, and   *)
(* share one saved baseline file (replication/cli.py, verify.py).          *)
(*                                                                         *)
(* A finding is <<code, subject>>: a FAILING or TRANSIENT agreement (kind  *)
(* TRANSIENT, also "not reproduced"), or a CAUSE.  How a cause is found    *)
(* and whether other checks left a gap is any choice of the run; causes of *)
(* one subject or one peer are told apart because compare() does.          *)
(***************************************************************************)
EXTENDS Integers

CONSTANTS
  Agreement, Cause, Proc,
  Explains,    \* cause -> agreements whose failure it explains
  SubjectOf,   \* cause -> its subject, "server:..." or "pair:..."
  PeerOf,      \* cause -> the peer of a PEER_/PAIR_ code, or "local"
  Fixable,     \* causes a fix with checks of its own is offered for
  Window,      \* CONVERGENCE_WINDOW, in ticks
  MaxTime,     \* bound on the clock
  SaveFails    \* whether a save may fail (save() ignores every OSError)

ASSUME VerifyAssumption ==
  /\ Explains \in [Cause -> SUBSET Agreement]
  /\ Fixable \subseteq Cause
  /\ Window \in Nat \ {0} /\ MaxTime \in Nat \ {0} /\ SaveFails \in BOOLEAN

Time    == 1 .. MaxTime
Never   == 0
Symptom == {"FAILING", "TRANSIENT"} \X Agreement
Root    == {"CAUSE"} \X Cause
Finding == Symptom \cup Root
Scope   == {"every"} \cup Agreement          \* --peer: one agreement's peer

Seen    == {"OK", "BUSY", "TRANSIENT", "FAILING", "UNOBSERVED"}   \* TRANSIENT: also "not reproduced"
Result  == {"RESOLVED", "PENDING", "STILL_PRESENT", "CHANGED", "PARTIALLY_RESOLVED", "UNABLE_TO_VERIFY"}

NotPending == [f \in Symptom |-> Never]

(* What load() returns of a saved run; at = Never: there is none. *)
Baseline   == [at : Time \cup {Never}, scope : Scope, found : SUBSET Finding,
               pending : [Symptom -> Time \cup {Never}]]
NoBaseline == [at |-> Never, scope |-> "every", found |-> {}, pending |-> NotPending]

(* What one investigation saw.  readable: collector_ok of compare(); end:  *)
(* of an agreement whose last session succeeded.                           *)
Observation   == [server : BOOLEAN, readable : BOOLEAN, scope : Scope,
                  seen : [Agreement -> Seen], end : [Agreement -> Time \cup {Never}],
                  answered : SUBSET Cause, present : SUBSET Cause]
NoObservation == [server |-> FALSE, readable |-> FALSE, scope |-> "every",
                  seen |-> [a \in Agreement |-> "UNOBSERVED"], end |-> [a \in Agreement |-> Never],
                  answered |-> {}, present |-> {}]

(* What the checks of the fix shown for a cause say; "pass" without a fix. *)
FixResults == {r \in [Cause -> {"pass", "fail", "unknown"}] : \A c \in Cause \ Fixable : r[c] = "pass"}

VARIABLES
  now,
  session,    \* agreement -> [ok, end]: how and when its last session ended
  faults,     \* the causes present in the environment
  saved,      \* the baseline file
  phase,      \* process -> "idle", "looking" or "concluding"
  mode,       \* process -> "plain" or "verify"
  base, obs,  \* process -> what it loaded; what it saw
  first       \* history: when a symptom of this baseline was first answered PENDING

vars  == <<now, session, faults, saved, phase, mode, base, obs, first>>

InScope(scope) == IF scope = "every" THEN Agreement ELSE {scope}

----------------------------------------------------------------------------
(* compare(): one earlier finding at a time, symptoms before causes.       *)

Fails(o)   == {<<"FAILING", a>> : a \in {b \in Agreement : o.seen[b] = "FAILING"}}
                \cup {<<"CAUSE", c>> : c \in o.present}
FoundBy(o) == Fails(o)
                \cup {<<"TRANSIENT", a>> : a \in {b \in Agreement : o.seen[b] = "TRANSIENT"}}

(* Deliberately wrong: any successful session counts as a fresh one. *)
AnySuccess(b, o, a) == IF o.seen[a] = "BUSY" THEN "NO_FRESH" ELSE o.seen[a]

(* agreement_state.  compare() calls a recovered agreement CHANGED if some  *)
(* other failure has its subject; diagnose.py gives an agreement that is   *)
(* OK no failure under its own name, so that case is left out.             *)
AgreementState(b, o, a) ==
  IF o.seen[a] = "BUSY" \/ (o.seen[a] = "OK" /\ o.end[a] <= b.at) THEN "NO_FRESH" ELSE o.seen[a]

(* Deliberately wrong: every comparison starts the window anew. *)
SinceNow(b, f, t) == t

Since(b, f, t) == IF b.pending[f] # Never THEN b.pending[f] ELSE t
Pending(b, f, t, still) == IF t >= Since(b, f, t) + Window THEN still ELSE "PENDING"

SymptomResult(b, o, t, f) ==
  LET st == AgreementState(b, o, f[2]) IN
  IF o.scope # b.scope \/ ~o.readable THEN "UNABLE_TO_VERIFY"
  ELSE IF f \in Fails(o)              THEN "STILL_PRESENT"
  ELSE CASE st = "OK"        -> "RESOLVED"
         [] st = "NO_FRESH"  -> Pending(b, f, t, "UNABLE_TO_VERIFY")
         [] st = "TRANSIENT" -> Pending(b, f, t, "STILL_PRESENT")
         [] st = "FAILING"   -> "CHANGED"
         [] OTHER            -> "UNABLE_TO_VERIFY"

(* Deliberately wrong: the same peer under another subject is not seen. *)
MovedOnSubject(b, o, c) == \E k \in o.present \ {c} : SubjectOf[k] = SubjectOf[c]

(* Another failure of the same subject or, for a peer-side cause, a new    *)
(* one about the same peer.                                                *)
Moved(b, o, c) ==
  \/ \E k \in o.present \ {c} : SubjectOf[k] = SubjectOf[c]
  \/ PeerOf[c] # "local" /\ \E k \in o.present \ {c} : PeerOf[k] = PeerOf[c] /\ <<"CAUSE", k>> \notin b.found

(* Deliberately wrong: the agreements a cause explained are forgotten. *)
NothingOpen(b, o, t, c) == {}

(* The failing agreements the cause explained that are not resolved.       *)
Open(b, o, t, c) == {s \in Symptom \cap b.found : s[1] = "FAILING" /\ s[2] \in Explains[c]
                                                  /\ SymptomResult(b, o, t, s) # "RESOLVED"}

(* fixes: what the checks of the fix shown for each cause say now.         *)
CauseResult(b, o, t, c, fixes) ==
  LET open == Open(b, o, t, c)
  IN  IF o.scope # b.scope \/ ~o.readable          THEN "UNABLE_TO_VERIFY"
      ELSE IF c \in o.present                      THEN "STILL_PRESENT"
      ELSE IF c \notin o.answered                  THEN "UNABLE_TO_VERIFY"
      ELSE IF Moved(b, o, c)                       THEN "CHANGED"
      ELSE CASE fixes[c] = "unknown" -> "UNABLE_TO_VERIFY"
             [] fixes[c] = "fail"    -> "PARTIALLY_RESOLVED"
             [] OTHER -> IF open = {} THEN "RESOLVED" ELSE SymptomResult(b, o, t, CHOOSE s \in open : TRUE)

Items(b, o, t, fixes) ==
  [f \in b.found |-> IF f \in Symptom THEN SymptomResult(b, o, t, f)
                     ELSE CauseResult(b, o, t, f[2], fixes)]

PendingNow(b, o, t) ==
  [f \in Symptom |-> IF f \in b.found /\ SymptomResult(b, o, t, f) = "PENDING"
                     THEN Since(b, f, t) ELSE Never]

Outcomes(items) == {items[f] : f \in DOMAIN items}
NewFailures(b, o) == Fails(o) \ b.found

(* EXIT[_status()] of the fresh investigation; gap: some check left one,   *)
(* an unobserved reverse direction for instance; see ReplReport.           *)
FreshCode(o, gap) ==
  IF o.server /\ Fails(o) # {} THEN 1
  ELSE IF ~o.server \/ gap \/ ~o.readable \/ FoundBy(o) # {} THEN 4
  ELSE 0

ExitCode(b, o, items, gap) ==
  LET outs == Outcomes(items) IN
  IF outs \cap {"STILL_PRESENT", "PARTIALLY_RESOLVED"} # {} \/ NewFailures(b, o) # {} THEN 1
  ELSE IF "PENDING" \in outs                                                         THEN 3
  ELSE IF outs \cap {"UNABLE_TO_VERIFY", "CHANGED"} # {}                             THEN 4
  ELSE FreshCode(o, gap)

----------------------------------------------------------------------------
(* The environment: sessions end, faults come and go, time passes.         *)

Init ==
  /\ now = 1
  /\ session = [a \in Agreement |-> [ok |-> TRUE, end |-> 1]] /\ faults = {}
  /\ saved = NoBaseline
  /\ phase = [p \in Proc |-> "idle"] /\ mode = [p \in Proc |-> "plain"]
  /\ base = [p \in Proc |-> NoBaseline] /\ obs = [p \in Proc |-> NoObservation]
  /\ first = NotPending

Tick ==
  /\ now < MaxTime /\ now' = now + 1
  /\ UNCHANGED <<session, faults, saved, phase, mode, base, obs, first>>

SessionEnds ==
  /\ \E a \in Agreement, good \in BOOLEAN : session' = [session EXCEPT ![a] = [ok |-> good, end |-> now]]
  /\ UNCHANGED <<now, faults, saved, phase, mode, base, obs, first>>

FaultChanges ==
  /\ \E c \in Cause : faults' = IF c \in faults THEN faults \ {c} ELSE faults \cup {c}
  /\ UNCHANGED <<now, session, saved, phase, mode, base, obs, first>>

----------------------------------------------------------------------------
(* One run of the command (cli.run): load, investigate, conclude and save. *)
(* A damaged file ends a comparison at once and changes nothing.           *)

Load(p) ==
  /\ phase[p] = "idle"
  /\ \E m \in {"plain", "verify"} :
       /\ mode' = [mode EXCEPT ![p] = m]
       /\ base' = [base EXCEPT ![p] = IF m = "verify" THEN saved ELSE NoBaseline]
  /\ phase' = [phase EXCEPT ![p] = "looking"]
  /\ UNCHANGED <<now, session, faults, saved, obs, first>>

(* What an agreement whose last session ended so can look like now.        *)
Looks(s) == {"TRANSIENT", "UNOBSERVED"} \cup IF s.ok THEN {"OK", "BUSY"} ELSE {"FAILING"}

(* An investigation that was answered so, at this moment.                  *)
Observed(scope, server, readable, answered, seen) ==
  [server |-> server, readable |-> readable, scope |-> scope, seen |-> seen,
   end |-> [a \in Agreement |-> IF seen[a] \in {"OK", "BUSY"} THEN session[a].end ELSE Never],
   answered |-> answered, present |-> faults \cap answered]

Look(p) ==
  /\ phase[p] = "looking"
  /\ \E scope \in IF base[p].scope = "every" THEN Scope ELSE Agreement,  \* --verify defaults to its base's scope
        server, readable \in BOOLEAN, answered \in SUBSET Cause, seen \in [Agreement -> Seen] :
       /\ readable => server
       /\ ~server => answered = {}                 \* the plan stops at its first step
       /\ \A a \in Agreement : seen[a] \in IF readable /\ a \in InScope(scope)
                                           THEN Looks(session[a]) ELSE {"UNOBSERVED"}
       /\ obs' = [obs EXCEPT ![p] = Observed(scope, server, readable, answered, seen)]
  /\ phase' = [phase EXCEPT ![p] = "concluding"]
  /\ UNCHANGED <<now, session, faults, saved, mode, base, first>>

(* to_state(): what a run saves of itself. *)
State(o) == [at |-> now, scope |-> o.scope, found |-> FoundBy(o), pending |-> NotPending]

(* save() replaces the whole file, or fails without a word.                *)
Save(b) == saved' = b \/ (SaveFails /\ saved' = saved)

Leave(p) ==
  /\ phase' = [phase EXCEPT ![p] = "idle"] /\ mode' = [mode EXCEPT ![p] = "plain"]
  /\ base' = [base EXCEPT ![p] = NoBaseline] /\ obs' = [obs EXCEPT ![p] = NoObservation]
  /\ UNCHANGED <<now, session, faults>>

(* A run without --verify, or with nothing to compare with.                *)
ConcludePlain(p) ==
  /\ phase[p] = "concluding" /\ (mode[p] = "plain" \/ base[p].at = Never)
  /\ IF obs[p].server \/ mode[p] = "verify" THEN Save(State(obs[p])) ELSE saved' = saved
  /\ first' = IF saved' = saved THEN first ELSE NotPending
  /\ Leave(p)

Comparing(p) == phase[p] = "concluding" /\ mode[p] = "verify" /\ base[p].at # Never

(* Deliberately wrong: the kept baseline is dated now. *)
KeptToday(b, o) == [b EXCEPT !.pending = PendingNow(b, o, now), !.at = now]

(* What a comparison with a PENDING item saves: the same baseline, with    *)
(* the times its symptoms became PENDING.  With every item RESOLVED it     *)
(* saves itself, and otherwise nothing.                                    *)
Kept(b, o) == [b EXCEPT !.pending = PendingNow(b, o, now)]

(* Deliberately wrong: a finding that could not be checked is let go. *)
SettledAsFarAsKnown(outs) == outs \subseteq {"RESOLVED", "UNABLE_TO_VERIFY"}

Settled(outs) == outs \subseteq {"RESOLVED"}

ConcludeVerify(p) ==
  /\ Comparing(p)
  /\ \E fixes \in FixResults :
       LET b    == base[p]
           outs == Outcomes(Items(b, obs[p], now, fixes))
       IN  \/ /\ "PENDING" \in outs
              /\ Save(Kept(b, obs[p]))
              /\ first' = [f \in Symptom |->
                             IF /\ PendingNow(b, obs[p], now)[f] # Never /\ first[f] = Never
                                /\ saved' = Kept(b, obs[p])
                             THEN now ELSE first[f]]
           \/ /\ Settled(outs)
              /\ Save(State(obs[p]))
              /\ first' = IF saved' = saved THEN first ELSE NotPending
           \/ /\ "PENDING" \notin outs /\ ~Settled(outs)
              /\ UNCHANGED <<saved, first>>
  /\ Leave(p)

Run(p) == Load(p) \/ Look(p) \/ ConcludePlain(p) \/ ConcludeVerify(p)

Next == Tick \/ SessionEnds \/ FaultChanges \/ \E p \in Proc : Run(p)

Spec == Init /\ [][Next]_vars

TypeOK ==
  /\ now \in Time
  /\ session \in [Agreement -> [ok : BOOLEAN, end : Time]]
  /\ faults \subseteq Cause
  /\ saved \in Baseline
  /\ phase \in [Proc -> {"idle", "looking", "concluding"}]
  /\ mode \in [Proc -> {"plain", "verify"}]
  /\ base \in [Proc -> Baseline]
  /\ obs \in [Proc -> Observation]
  /\ first \in [Symptom -> Time \cup {Never}]
  /\ \A p \in Proc : Comparing(p) =>
       \A fixes \in FixResults : Outcomes(Items(base[p], obs[p], now, fixes)) \subseteq Result

----------------------------------------------------------------------------
(* The properties speak of the answer a comparison would print now: it is  *)
(* a function of what the process loaded, what it saw and the clock.       *)
Green(p, a)     == obs[p].seen[a] = "OK" /\ obs[p].end[a] > base[p].at
Recovered(p)    == \A a \in Agreement : <<"FAILING", a>> \in base[p].found => Green(p, a)
Absent(p, c)    == c \in obs[p].answered \ obs[p].present
Answer(p, fixes) == Items(base[p], obs[p], now, fixes)

(* "RESOLVED" is never a guess: an agreement has reported a successful     *)
(* session that ended after the saved result; a cause was looked for and   *)
(* is absent, and has not just changed its shape: nothing else fails about *)
(* its subject, and nothing new about the peer it was about; the checks of *)
(* its fix pass, and every failing agreement it explained is green again   *)
(* (compare, agreement_state).                                             *)
ResolvedMeansGone ==
  \A p \in Proc : Comparing(p) => \A fixes \in FixResults, f \in base[p].found :
    Answer(p, fixes)[f] = "RESOLVED" =>
      IF f \in Symptom THEN Green(p, f[2])
      ELSE /\ Absent(p, f[2]) /\ fixes[f[2]] = "pass"
           /\ \A k \in obs[p].present : SubjectOf[k] # SubjectOf[f[2]]
           /\ \A k \in obs[p].present : PeerOf[k] = PeerOf[f[2]] /\ PeerOf[k] # "local" => <<"CAUSE", k>> \in base[p].found
           /\ \A a \in Explains[f[2]] : <<"FAILING", a>> \in base[p].found => Green(p, a)

(* --verify exits 0 only when everything found last time is gone, nothing  *)
(* failing or unsettled is there now, and no check is missing; never while *)
(* PENDING, in particular (exit_code, cli.run).                            *)
ExitZeroMeansRecovered ==
  \A p \in Proc : Comparing(p) => \A fixes \in FixResults, gap \in BOOLEAN :
    ExitCode(base[p], obs[p], Answer(p, fixes), gap) = 0 =>
      /\ Recovered(p) /\ \A c \in Cause : <<"CAUSE", c>> \in base[p].found => Absent(p, c) /\ fixes[c] = "pass"
      /\ obs[p].present = {} /\ ~gap
      /\ \A a \in InScope(obs[p].scope) : obs[p].seen[a] \notin {"FAILING", "TRANSIENT"}

(* A finding is not lost: it leaves the baseline only through a run that   *)
(* was not a comparison, or a comparison that saw every finding of the     *)
(* baseline gone (cli.run's saves).  For one process at a time.            *)
FindingsKept ==
  [][\A f \in saved.found \ saved'.found :
       \E p \in Proc : /\ phase[p] = "concluding" /\ phase'[p] = "idle"
                      /\ Comparing(p) => /\ Recovered(p)
                                         /\ \A c \in Cause : <<"CAUSE", c>> \in saved.found => Absent(p, c)]_vars

(* The time "a fresh session" is measured from stays while a comparison is *)
(* open: a comparison moves it only when nothing found is left, and no run *)
(* moves it back (cli.run saves the old baseline with a PENDING one).      *)
(* For one process at a time.                                              *)
ReferenceStands ==
  [][saved'.at # saved.at =>
       /\ saved'.at > saved.at
       /\ \A p \in Proc : Comparing(p) /\ phase'[p] = "idle" => Recovered(p)]_vars

(* PENDING is bounded by CONVERGENCE_WINDOW from its first answer (the     *)
(* first a save recorded), as docs/verification.md says: of every finding, *)
(* and of an agreement that is all a baseline found wrong (compare's       *)
(* pending, cli.run).                                                      *)
InTime(p, f) == SymptomResult(base[p], obs[p], now, f) = "PENDING" /\ first[f] # Never => now < first[f] + Window

WindowBounded ==
  \A p \in Proc : Comparing(p) => \A f \in base[p].found \cap Symptom : InTime(p, f)

WindowBoundedAlone ==
  \A p \in Proc, f \in Symptom : Comparing(p) /\ base[p].found = {f} => InTime(p, f)
=============================================================================
