# A TLA+ development of ipa-diagnose

ipa-diagnose examines a FreeIPA server or client: it runs read-only checks, decides what is wrong and
what could not be checked, sometimes shows a fix, and later verifies whether the problem is gone. Its
promises are about restraint: *could not check* is never *healthy*, an unanswered question is never a
failure, RESOLVED is never a guess, and a run ends within its budgets whatever the checks do.
These modules state those promises over the code's own control flow. They are model-checked by TLC on
small instances. For the planner, the replication command, its status and its verification, the client's baseline, the
server's baseline and the server report most of them are also proved by TLAPS, for every value of the constants (section 5).

Paths below are relative to `src/ipa_diagnose/` in the repository.

## 1. Inventory

The program is a single-threaded command-line tool. Three things make it hard all the same: the
environment changes between any two checks; every check may time out, fail, answer nonsense or be
interrupted; and commands run at different times share baseline files on disk.

| Component | State | Operations | Hard behaviour | What makes it correct |
|---|---|---|---|---|
| planner (`planner/core.py`) | records, counters, stop reason, per-subject stop, enumerations | `visit`, `run_plan`, `_subjects` | retries, interrupts, two budgets, time slices, skips that chain | bounded, every step decided once, never on a guess, omissions visible |
| check runner (`resolution/checks.py`) | cache of results, execution count | `Runner.run`, `_execute` | several steps share a question; a retry refreshes the cache | one answer per question |
| client mode (`client/`) | trace, diagnoses, verdicts; saved result | `investigate`, `diagnose`, `compare`, `save` | faults that hide or imply each other; gaps behind skips; another user asked about; crashes while saving | healthy only when looked at; a failure explained by failures; RESOLVED means gone; only whole results on disk |
| replication mode (`replication/run.py`, `plan.py`, `diagnose.py`) | trace, diagnoses, topology, status | `investigate` | partial enumerations, chains of skips, directions that cannot be seen | healthy only when everything essential was seen |
| replication verification (`replication/verify.py`, `cli.py`) | baseline file: findings, time, PENDING windows | `compare`, `exit_code`, `save`, `load` | sessions that predate the repair, causes that change shape, runs over days | RESOLVED means gone, nothing is forgotten, windows end |
| causal chains, safety gate (`replication/causal.py`, `safety.py`) | chains of a report, the trace | `check_chain`, `resolution_gate`, `check_offered` | an unsound chain costs the whole diagnosis; evidence ages between diagnosis and fix | every chain sound; no fix for a state that is over |
| environment graph (`environment/graph.py`, `replication/graph_build.py`, `topology.py`) | entities, facts, relations, enumerations | `build`, `set_enumeration`, `absent`, `articulation_points` | partial lists, a bound on entities, several components | absence only from a complete list; exactly the cut servers |
| server mode (`evidence/collect.py`, `engine/`, `verify.py`, `cli.py`) | evidence bundle, diagnoses, baseline with fix records | `collect`, `build_report`, `compare`, `carry_forward_fixes` | failed collectors, demotions among diagnoses, carried fixes | priorities well-founded, fixes confirmed before they are dropped |
| resolution (`resolution/engine.py`, `knowledge.py`) | procedures, resolution status | `resolve_diagnosis`, `rebuild_verify`, `evaluate_verify` | unknown preconditions | a fix is offered only when each gate holds |
| access questions (`access/`) | relations read from LDAP | `evaluate` | incomplete relations | unknown stays unknown |
| support bundle (`bundle/`) | staging directory, archive | `build`, `pack`, `selftest` | partial writes | no archive that fails its own test |
| AI, privacy, rendering | none that decides | | | AI never takes part in a decision |

Interaction: a mode builds a plan and hands it to the planner; the planner asks the runner; the mode turns
the trace into diagnoses and a status; the command saves a baseline; a later `--verify` loads it, runs the
whole investigation again and compares. The only shared mutable state between commands is the baseline file,
written without a lock by an atomic rename.

## 2. Modules

| Module | Models | Kind |
|---|---|---|
| `Planner` | `planner/core.py`; `Runner.run` of `resolution/checks.py` | state machine, proved |
| `MCPlanner` | a plan of a listing step, a template and three ordinary steps | instance |
| `PlannerProofs` | | theorems about `Planner` |
| `ReplReport` (extends `Planner`) | `replication/run.py`: `_gap`, `_completeness`, `_status` over a finished run | composition |
| `MCReplReport` | the replication plan cut to eight steps | instance |
| `ReplReportProofs` | | theorem about `ReplReport` |
| `ReplStatus` | `replication/status.py` | tables |
| `ReplChecks` (extends it) | `replication/checks.py`: what each check reads of what it finds | operators |
| `ReplTrace` (extends it) | `replication/plan.py`: classifiers and gates; the outcome and the gaps of each step | operators |
| `Causal` | `replication/causal.py` | relation |
| `ReplDiagnose` (extends `ReplTrace`, `Causal`) | `replication/diagnose.py` | operators |
| `ReplContext` (extends `ReplTrace`) | `replication/topology.py`, `graph_build.py`, `environment/graph.py` | recursive functions |
| `ReplFix` (extends both) | `replication/run.py`, `safety.py`: one command up to the fix it prints | state machine |
| `MCReplFix` | one consumer of both suffixes, four servers | instance |
| `ReplFixProofs` | | theorems about `ReplFix` and what it is made of |
| `ReplVerify` | `replication/verify.py`, `replication/cli.py`, the agreements underneath | state machine |
| `MCReplVerify` | agreements alone; one agreement with two causes about its peer | instances |
| `ReplVerifyProofs` | | theorems about `ReplVerify` |
| `ClientChecks` | `resolution/client_checks.py`: what each check reads of what it finds | operators |
| `ClientTrace` (extends it) | `client/plan.py`, walked once | operators |
| `ClientDiagnose` (extends it) | `client/diagnose.py` | operators |
| `ClientReport` (extends it) | `client/run.py`: gaps, verdicts, status | operators |
| `Ledger` | what a saved baseline promises | abstract specification |
| `ClientVerify` (instances `ClientReport`, `Ledger`) | `client/cli.py`, `client/verify.py`, `access/runtime.py`; processes and their files | state machine, refines `Ledger` |
| `MCClientVerify` | two process ids, three kinds of host | instance |
| `ClientReportProofs` | | lemmas about the report of a client, for any evidence |
| `ClientVerifyProofs` (extends it) | | theorems about `ClientVerify`, the refinement of `Ledger` |
| `ServerBaseline` | `verify.py`, the baseline half of `cli.py`, the host underneath | state machine |
| `MCServerBaseline` | a stopped service with a fix, a condition another collector finds | instance |
| `ServerBaselineProofs` | | theorems about `ServerBaseline` |
| `Evidence` | `evidence/collect.py`, `evidence/model.py`, `evidence/healthcheck.py` | state machine |
| `Packs` (extends it) | `engine/packs/*.py`: what each rule says of the evidence | operators |
| `Correlate` (extends it) | `engine/correlate.py`, `engine/unexplained.py`, `engine/run.py` | state machine |
| `MCCorrelate` | the findings that meet in the rules of several packs | instance |
| `CorrelateProofs` | | theorems about `Correlate` |

### Planner

`records` is `ctx.records`; `executed`, `stop_reason` are `_Run`'s; `subject_stop`, `subject_start`,
`unfinished`, `enumerations` the locals of `run_plan`; `cache`, `runs` the `Runner`'s. `pc` stands for where
the two loops and `visit` are: opening an item, starting a subject, visiting, running, holding a result, done.
Each early return of `visit` is one action and the actions are guarded in the code's order
(`RunStopped`, `SkipBlocked`, `SkipNotApplicable`, `SkipNotNeeded`, `SkipPrivilege`, `StepBudgetUsedUp`,
`TimeBudgetUsedUp`, `SkipNoValue`, `Start`); the retry loop is `UseCached`, `Execute`, `Interrupted`, `Retry`,
`Conclude`. Making the record, skipping it and moving on is one step, as nothing in the code comes between.

Abstractions. A check answers, times out or gives no answer (a rejected parameter included); what a classifier
makes of an answer is any outcome of `Answers[step]`, or UNKNOWN for evidence of the wrong shape; a gate says
anything its kind can say; a stop hook may speak with the outcomes in `Stops[step]`; the listing of a source
step is any set of names with any of them invalid. `PlanAssumption` is what `validate_plan` enforces.
A template's `complete_fact` is taken from its source step, as every plan in the code has it; the cut of a list
at 1000 entries is left out; an interrupt anywhere but inside `runner.run` leaves the program and is not a step.

### ReplReport

One more action after `pc = "done"`: `Report` computes the status word from the records. `Gaps` is `_gap` as a
recursive function over instances; `Complete` is `_completeness` without `--peer`; `StatusOf` is `_status`.
Of `diagnose()` only what the status depends on is kept: a FAIL of a local root is always reported, so is a
reverse direction that was read and is not green; beyond that it may report anything. `_gap` gives up after 20 skips
in a row; no chain of requirements of the plan is that long, and the model has no such limit. `ReplicationPlan` is what
the module takes of the plan itself.

### ReplVerify

The environment ends sessions (`SessionEnds`), lets causes come and go (`FaultChanges`) and time pass (`Tick`)
at any moment, also between two steps of a run. A run is `Load`, `Look`, then `ConcludePlain` or
`ConcludeVerify`; the latter two contain everything `cli.run` does after the investigation, with the save in the
same step, as nothing reads the file in between in a single process. `Items`, `SymptomResult`, `CauseResult`,
`AgreementState`, `PendingNow`, `ExitCode` are `compare` and `exit_code`, agreement findings first.
The answers are a function of what was loaded, what was seen and the clock, so the properties speak of every
state in which a comparison is about to be printed.

Abstractions. `host_changed` and an unreadable collector both make every item UNABLE_TO_VERIFY and are one
flag; TRANSIENT also stands for a failure recorded but not reproduced; an agreement that is gone is UNOBSERVED; a
recovered agreement is never CHANGED, as `diagnose.py` makes no failure under the name of one that is OK;
the rule that a clock difference must have been measured again is part of `answered`; a damaged file ends a
comparison at once and changes nothing. Causes explain agreements, not other causes. Whether some unrelated
check left a gap (`gap`) is free; `ReplReport` is about that. `first` is a history variable.

### ServerBaseline

The host is modelled: conditions break, clear by themselves or are repaired at any moment (`Breaks`, `Clears`,
`Repairs`), a package or target may change between two commands (`Alters`), and the file may be spoiled (`Spoils`).
A command is `Look` (collect and diagnose), for verify `Compare`, then `Leave` or `Prepare` and `Write`: what is
saved is decided from the file and the checks as they answer at `Prepare`, seconds after the look, and `Write`
replaces the file or, as `save_report` swallows every error, does not. `Compared`, `FixOutcome` and `ExitCode` are
`compare`, `_fix_outcome` and the exit of `cmd_verify`; `Carried` and `Diagnoses` are `carry_forward_fixes` and
`carried_diagnoses`; `KeepBaseline` is `keep_baseline`.

Abstractions. Status and priority are one value: reported as a root problem, confirmed (`root`) or not (`unsure`), or
below that (`lesser`: warnings and symptoms; `vague`). `was` holds the diagnoses of the file together with the carried ones. A look shows each
condition that holds unless evidence is missing: no healthcheck (`base`), another collector failed (`gaps`), or a
check crashed. Which fixes are shown is any subset of those that may be, a
symptom among them: more than `resolve_diagnosis` can show, which refuses a fix to a symptom. Left out: files edited record by record,
diagnoses a later version no longer knows, reports of v0.1.3, the exit code of a plain run, and a second command
while one runs. `shown` and `uncheckable` are history variables.

### Evidence, Packs, Correlate

`CollectEvidence` is `collect_evidence`: ipa-healthcheck reports findings, or fails in each of the ways
`_collect_healthcheck` knows (`HealthcheckEnds`); the collectors that a pack with a finding triggers, and those that
always run, yield items or fail (`CollectorFails`), and `Level` is what is left of completeness. A finding is its
check, its rank and what it says, one word of those the rules look for; an item is its category and what it says.
`Packs` has one operator per rule; a rule answers with a set of at most one diagnosis: its code, status, confidence
class, evidence class, causes. `Diagnose` takes the answers of all rules and `Unclaimed`'s safety nets
(`unexplained_finding_diagnoses`), `BuildReport` is `build_report`; `Candidate`, `Absorbs` and `Causes` are the
three passes of `_demote_via_causality`.

Abstractions. A score matters only against another score, and every confirmed diagnosis (confidence MEDIUM or more)
scores above every unconfirmed one (LOW or less) of the same evidence class: 2.1 at least against 1.77 at most for
hard evidence, 1.4 against 0.89 otherwise. Among equals any may lead. Which checks a stopped service explains is any
subset of the stopped services. Ids of findings are unique: `parse_healthcheck_results` makes them so. A note in
`why`, titles and the order of the printed list are left out.

### Replication mode: ReplStatus to ReplFix

`seen` says how each part of this server and its peers is found; a check reads it (`ReplChecks`), a step of the plan
classifies what it read or is skipped (`ReplTrace`), and `ReplDiagnose` turns the records into diagnoses, a code and a
subject each, and chains of links owned by them. Answers of different checks are independent, because they are asked at
different moments: a peer that refuses one connection may accept the next, and the recorded status of an agreement
need not fit what is reproduced now. Within `diagnose` every branch of `_agreement` is an operator that says when it is
taken. `ReplFix` composes it: `Deviate` and `Rewire` put any `MaxFindings` deviations from a healthy server and any
topology in place, `Diagnose` is `investigate` up to the status, `Gate`, `Reask` and `Resolve` are `_resolve`,
`resolution_gate` and `check_offered` for the one procedure replication mode may print. Meanwhile the unit may come up
or fail, time passes and the clock is stepped.

Abstractions. The planner's budgets are one bit per subject (`Dropped`); `Planner` and `ReplReport` have them in full.
Agreements are those of one consumer, whose own entries differ by suffix; the second suffix varies in what
matters together (`Quiet`). Numbers are the classes the code compares them with: a clock is near, off, or beyond the
Kerberos tolerance. Titles, next steps and handoff notes are left out; facts of the graph too, which nothing decides by.

### Client mode: ClientChecks to ClientVerify

The same shape, one command being the operator `Investigation` of what is seen. `ClientTrace` walks `client_plan` once:
requirements, privilege, `sssctl` being old, the step at which the budget or an interrupt cut the run off, gates, then
the check and its classifier; each record carries whether `_unexplained_gap` counts it. `ClientDiagnose` has the rules in
the code's order, later ones reading the diagnoses of earlier ones, and `Raise` for the one rule that makes a warning of
an earlier one a failure. `ClientVerify` has the processes: `Start` (load), `Conclude` (investigate, compare), `Keep`,
`Open`, `Write`, `Replace`, `FailToSave`, which are the steps of `save`; a `Crash` at any point leaves the temporary
file behind under its process id, ids are used again, commands overlap, and `Damage` is anybody else writing the file.
`StartAccess` is `access --runtime`, which investigates and saves nothing.

`Ledger` is what the file promises: it holds whole results only, each concluded by one command; and a command that
compared replaces it only if none of the earlier diagnoses is in its result. `BaselineHolds` is the refinement: `file`
is the entry, a command between its conclusion and its end is pending.

Abstractions. `request` is the kind of question (a host, a user, a login, the login of another user). Which fixes are
prepared is none or all that may be. A rule that raises an exception (EVIDENCE_UNUSABLE) and a state location that is
not this user's are left out; the latter is a save that never happens.

## 3. Runs

| Run | Question | Bounds |
|---|---|---|
| `planner` | order of decisions, budgets, retries, cache, interrupts, enumerations, isolation, termination | 5 steps, 3 names with room for 2, budget of 4 checks for 8 instances, 1 s and a slice of 1 s against checks of up to 2 s, two steps that share a question and retry |
| `repl_report` | is a healthy word always earned, whatever was skipped or cut short? | 8 steps, budget of 7, 2 names, room for 1, checks of 1 s against a limit and a slice of 1 s |
| `repl_fix` | one replication command: chains, causes, absence, status, graph, topology, fix | any 2 deviations (3 when one is a clock or a keytab answer), 2 suffixes, 4 servers with any segments, 16 entities, one change of unit or clock |
| `repl_skew49` | finding, section 6 | the same |
| `repl_verify` | one agreement, two causes about its peer, one with a fix; saves that fail | clock of 3, window of 1: before, inside and past a window, and again |
| `repl_verify_window` | finding, section 6 | two agreements, no causes |
| `client` | one client command, and --verify of it, with everything between | see below |
| `client_settling` | finding, section 6 | one deviation |
| `server_baseline` | what RESOLVED and exit 0 mean over any sequence of commands, what the file must still know | 2 conditions and a crashed check, one with a fix, one of a separate collector; no bound on the number of commands |
| `server_baseline_forget` | finding, section 6 | the same |
| `correlate` | demotion, priority, visibility of findings, overall status | 3 findings and items of one run out of those listed; a net quotes 1 finding |
| `correlate_wins` | finding, section 6 | the same |

Why the bounds are enough. The planner's decisions look at one step, its requirements and its own subject; the template
has a step that depends on its sibling, a subject that may be stopped before the next one, and more names than room.
In `repl_verify` comparisons treat each finding alone except for explained agreements and causes of one peer, for which
two suffice; the clock matters only through "before the baseline", "after it", "within the window" and "past it". The
two causes have different subjects and the same peer, so TLC exercises only the second disjunct of `Moved`; the proof
of `ResolvedMeansGone` covers both.
In `server_baseline` each diagnosis is compared alone and only a crashed check ties them together, so two conditions,
one with and one without a fix and a collector of its own, give every case of `Compared`; the state space is finite
without a bound on commands. In `correlate` a demotion relates two diagnoses, and three pieces of evidence make every
chain and every triangle the rules allow.

In `repl_fix` and `client` the interesting cases are pairs: a fault that hides, explains or contradicts another.
`client` allows `MaxFaults` = 2 different deviations in all results in play together, a request other than a login
counting as one. So a single command sees any two faults; a comparison sees any one fault before and any other after.
Overlapping commands, crashes, damage and a third command are explored with the three faults of `MCFewFaults` (one
with a fix, one without, one of a unit), as they do not depend on which diagnoses a result has; other faults run one
command and one `--verify` of its result. Hosts that find their servers otherwise start one command.

`CHECK_DEADLOCK FALSE` is said where the system really stops: a planner run ends, one report is made, commands and
the clock are bounded.

Fairness. Only `Termination` needs it: `WF_vars(Next)` says that the single-threaded loop goes on. The code
justifies it, since every check has a declared timeout (`CheckSpec.timeout`) and nothing else waits.

## 4. Properties

Planner: `NeverOnAGuess` (a check ran only on accepted requirements and known parameters, of its own
subject), `BudgetsHold`, `StopIsFinal`, `RecordsStand`, `NothingOmitted`, `CompleteMeansAll` (an enumeration
that stays COMPLETE was whole and fully visited), `SubjectIsolation`, `OneAnswerPerQuestion`,
`TimeoutRetried`, `Termination`.

Replication: `HealthyMeansVerified` (no gap is lost behind skips, budgets and partial lists), `HealthyMeansHealthy`
(what HEALTHY says of every agreement, in both directions), `ChainsSound` (no mix of findings makes `check_chain`
refuse a chain, for which `investigate` gives up the whole diagnosis), `CausesReported`, `FailuresReported` (nothing that fails is dropped by a budget or explained away),
`AbsenceIsReal` and `GraphHonest` (nothing is called missing because a read was cut), `CutServers` (against a reference
definition by reachability), `FixOfDownUnit`; `ResolvedMeansGone` (seen gone, and not merely moved to another subject or shape), `ExitZeroMeansRecovered`, `FindingsKept`,
`ReferenceStands`, `WindowBoundedAlone`.

Client: `HealthyIsEarned`, `RelatedToAFailure`, `VerdictsHonest`, `ResolvedMeansGone` (a diagnosis called RESOLVED would
not be made either if every unanswered check still answered as before), `BaselineHolds`.

Server: `ResolvedMeansGone`, `ExitZeroMeansClean`, `FixesKept` (no sequence of runs forgets a fix that was shown and
not applied, except as section 6 says), `RecordsHaveDiagnoses` (the program never writes what it would call damage),
`VerifyForgetsNothing`; `SymptomsGrounded` (following causes upwards ends at a real problem shown as such),
`RealProblemLeads`, `FailuresShown`, `StatusHonest`.

`TypeOK` of `ReplVerify` and `Correlate` is proved and not run; that of `ReplFix` is there for a reader. The runs spend
their time on the others.

Each property of a passing run has a mutant in `PROJECT.json`: a plausible bug in one definition with which TLC
finds the property violated. The operators marked "Deliberately wrong" or "mutant" exist only for that.

## 5. Proofs

Every listed theorem is of the form `Spec => []P` or `Spec => P`, for all values of the constants that the named
assumptions of the modules allow; TLC evaluates those assumptions on each instance. The inductive invariants named below also hold of every state TLC
reaches in the instances of section 3 (of `Tidy` all but `Whole`, which quantifies over everything).

### Planner

From `PlanAssumption` and `BudgetAssumption`: `TypeOK`, `BudgetsHold`, `StopIsFinal`, `RecordsStand`, `NeverOnAGuess`,
`TimeoutRetried`, `OneAnswerPerQuestion`, `NothingOmitted`, `CompleteMeansAll`, `SubjectIsolation` (`PlannerProofs`).
None is inductive. The argument, one strengthening on another:

1. `IType` with `LoopOK`: types, and where the walk is. The bound on `attempts` needs the position in the retry
   loop: with a result in hand at least one attempt was made, and a run is entered again only after a timeout
   with a retry left.
2. `Spending`: how many executions and how much time the current visit can still add; `executed` bounds `runs`
   only with the attempts of the visit in progress.
3. `NoneAfterStop`: once a stop reason is set the walk is never inside the retry loop.
4. `Fresh`: an instance that is decided lies behind the walk - in an earlier item, an earlier step of this
   subject, or a subject no longer in `left`. This uses that ids are unique over the plan and gives `RecordsStand`.
5. `Standing`: what a decided step relied on stays as it was, from 4 and the order of requirements.
6. `Remembered`: the cache holds what the records of that question say, and a timeout that was retried is
   replaced there.
7. `Covered`: the converse of 4, what lies behind the walk is decided; at the end everything does.
8. `ListsSound`: an enumeration that says COMPLETE has every name of its source, and no step of its subjects was cut
   short. While the template is walked this is known only of the subjects not in `unfinished`, which the code turns into
   PARTIAL at the end of the template, not before.
9. `Isolated`: a subject is stopped by its own hook or its own slice, and a slice is used up only after a check of that
   subject ran, because the clock of a subject starts with it.

### Replication status (`ReplReportProofs`)

`HealthyMeansVerified` for every plan that `ReplicationPlan` describes, with any number of agreements and any budgets.
That assumption is read off `replication_plan()`: no essential local step has a gate, each requires only essential local
steps and accepts their PASS and WARN, one that can FAIL is among those `_local` reports, only "server" ends the run,
and "principals" is the step right before the only template. The proof uses each conjunct; the last one is subtle. A run
that stops before the template leaves an enumeration NOT_ASKED, which `_completeness` does not count. What counts
instead is "principals", skipped as stopped in that case and, unlike the template, asked about
(`LastStopped`, `NotAsked`). `Traced` adds to the planner's invariants what the record of a local step means
(`LocalRecord`: skipped only when stopped, without privilege, or blocked by a step that was refused) and that a stop
by a hook is the "server" step's FAIL (`HookMeans`), which is why such stops need not be gaps. The recursion of `_gap`
is met by `GapsFixed`: a function that satisfies it exists, as the least set closed under its rules, so the one chosen
satisfies it; and since requirements lie earlier in the plan, the first essential step to be skipped has nothing that
could have blocked it (`LocalsPassed`).

### Replication command (`ReplFixProofs`)

For any agreements and servers and any answers of the checks, not just two deviations: `FixOfDownUnit`, `ChainsSound`,
`CausesReported`, `FailuresReported`, `AbsenceIsReal`, `HealthyMeansHealthy`, `GraphHonest`. There are three invariants. `Typed`: every
part of what is seen is one of the answers its check has. `Watched`: the states of the unit seen since the diagnosis,
and that the answer the safety gate holds is one of them and was not "active"; this gives `FixOfDownUnit`. `Stated`: once
the command has concluded, its diagnoses, chains and status still are what follows from what was seen, which the `Same`
lemmas establish operator by operator: nothing that changes later is read by `diagnose`. The other six theorems are then
facts about the operators of `ReplDiagnose` and `ReplTrace` in one state:

- chains: each search starts at a link that may follow the status and goes on along the edges of the capability graph
  (`Rooted`, `Linked`), so `check_chain` finds no wrong edge, no empty evidence and no layer out of order;
- absence: each of the three shapes of a diagnosis (`Root`, `Warning`, `Symptomatic`) names something as absent only from
  a listing that was read and complete;
- causes: everything in `related` was put into the report with the diagnosis, and the rank by which the report chooses
  what leads has a least element among the failures;
- failures: an agreement read here whose session did not succeed takes some branch of `_agreement`, and each branch
  reports it or, if the budget dropped it, `Dropped` does;
- health: with no diagnosis at all and nothing incomplete, every branch that would report something was not taken;
- the graph: an enumeration that says COMPLETE was read whole, and nothing added up to then was dropped by the bound, so
  what was listed is among its members (`CompleteIsWhole`, `WholeRead`); which of the entities the bound cuts off does not
  matter, only that the order of adding puts every listed agreement and principal in its turn (`AgreementsAdded`).

### Replication verification (`ReplVerifyProofs`)

`TypeOK`, `ResolvedMeansGone` and `ExitZeroMeansRecovered` for any number of overlapping processes: the invariant is only
`VarsOK`, as the answers are a function of what was loaded and seen. `FindingsKept`, `ReferenceStands` and
`WindowBoundedAlone` are proved under `OneProcess`, and they do need it: two commands share the file without a lock, and one
that loaded an older baseline writes its own over a newer one (hazard at `replication/cli.py:148`). Their invariant
adds that what a comparison holds is what is saved (`Loaded`), that saved times are not ahead of the clock (`Past`), and
that the only finding of a baseline, once PENDING, is saved with the time of its first answer (`Timed`). `Past` is why a
baseline's time moves forward strictly when it moves; `Timed` fails for baselines with more findings, which is the finding
of `repl_verify_window`.

### Client baseline (`ClientVerifyProofs`)

`BaselineHolds`: `ClientVerify` implements `Ledger`. Each step of the code maps to a step of the ledger or a stutter:
`Conclude` of a command that saves makes its result pending, `Replace` writes it, a crash, a failed save and the end of a
command drop what is pending, damage is damage. The invariant `Tidy` says that a concluded command holds the whole result
of one investigation, that one which compared and saves found none of the earlier diagnoses again, and that one which has
written finds its own result in its temporary file, whatever others and earlier crashes left there. `MarkersApart` says that the markers of the model (no file,
a truncated one, a damaged one) are no results, which holds by construction in the code (`None`, an exception, a file
that does not parse) and cannot be said of model values as an assumption TLC evaluates, as it quantifies over
everything.

### Client reports (`ClientReportProofs`, `ClientVerifyProofs`)

`RelatedToAFailure`, `VerdictsHonest` and `HealthyIsEarned` for any hosts, any number of faults and of processes, from
`ClientAssumption` (the setup of a host is no fault, and the request is the command's). The invariant is `Truth`: whatever
is saved, half written or loaded names only answers a check can give, and a command that has concluded shows the
report of what it found. The theorems are then facts about the operator `Investigation`, for any evidence:

- the trace. The walk over the plan is a recursive function; `TraceWalked` says what it has left behind at each step, and as
  no step reads a later one (`ReadsEarlier`), the finished trace is a fixpoint: every step is what a visit makes of the
  whole trace (`Settled`). Everything later is argued on that trace, without induction.
- what is found. `Rooted` is kept by each rule in the order of `diagnose`: what a diagnosis is related to is in the list, a
  failure, and follows from nothing or from something that does; among the failures of the way to IPA each is preceded by
  the one it is put down to, so the first of them (`UpstreamNet`) stands by itself (`NetGround`).
- roles and verdicts. `_roles` shows every finding and nothing else (`RolesShow`). A failure that breaks logins for certain
  and is not about the way to IPA comes of a step that fails on the host itself (`Calm`, `NothingLocal`).
- health. HEALTHY means nothing found and no gap (`Clean`). Rule by rule, nothing found means that nothing the rules look
  at failed (`NothingFound`); a step without a gap was answered, or not needed, or waits for such a step (`NoGap`); along
  the plan each part the request depends on was therefore asked and answered healthily (`CleanSetup` to `CleanLogin`).
  The exception of the property, a unit that is activating, is needed at `sssd.service` (section 6, `client_settling`).

### Server baseline (`ServerBaselineProofs`)

`TypeOK`, `ResolvedMeansGone`, `ExitZeroMeansClean`, `FixesKept`, `RecordsHaveDiagnoses`, `VerifyForgetsNothing` for any
conditions, rules and number of commands. `IInv` adds to the types what a look can have missed (`Seen`), why each answer
was given (`Justified`) and what the draft about to be written does to the promises (`DraftOK`). The last two must survive
whatever happens to the host between the answer and the write; they do because a change of the host only ever
removes something from what is owed (`HostShape`).

### Server report (`CorrelateProofs`)

`TypeOK`, `SymptomsGrounded`, `RealProblemLeads`, `FailuresShown`, `StatusHonest` for every set of findings and items and
any limit of quotes. `IInv` says what is known of each diagnosis, whichever of the rules gave it (`Known`), that no rule
has two (`OneEach`), that each ERROR finding is answered (`AllAnswered`), and that the report is what `build_report`
makes of these for some leader (`Built`). There is no circle of excuses because `Height` orders the rules along what
they may declare as upstream or imply (`CandidateLower`, `ChainEnds`); a cause is always
a real problem on ERROR evidence (`CauseIsReal`), so the end of the chain is one. `FailuresShown` is about findings of WARNING too: they are listed as undiagnosed when
no rule cites them. A conjunct of `EvidenceAssumption` carries weight: only checks of services say "not running".

### Not proved

- `Termination`: liveness.
- `CutServers`: what a depth-first search over any topology computes. TLC compares it with reachability for every
  topology of four servers.
- `ResolvedMeansGone` of the client, which is not a theorem: section 6 has a counterexample with three faults. TLC checks it
  for every two.

## 6. Where code and documents disagree

`repl_verify_window`. `docs/verification.md` bounds PENDING by ten minutes "from its first answer", and
`replication/cli.py` says it keeps "the time PENDING started, so the window stays bounded". What is saved is the
pending map of the current comparison only, so a finding that is answered otherwise once, while another is
PENDING, loses its start and gets a new window. With one finding (`WindowBoundedAlone`) the bound holds.

`repl_skew49`. `causal.py` describes the discriminator `status-invalid-credentials-gssapi` as a recorded status of LDAP 49
that is reproduced now. The branch of `_agreement` for a measured clock difference tests only the reproduction.
Connection failures and timeouts are TRANSPORT and were dealt with before it; but an agreement whose recorded status is
missing, unclassified, a TLS failure, a denied access or a purged changelog gets a chain that says its status was 49.
For a purged changelog the diagnosis its own status calls for, `REPLICA_NEEDS_ADMIN_ACTION`, is then not given.

`client_settling`. HEALTHY means that "every expected piece of evidence was collected". While the SSSD unit is
activating, `sssd.service` is WARN, the lookups behind it are skipped as blocked, `_unexplained_gap` ends at the WARN
and takes it for an explanation, and no rule is about that WARN: HEALTHY, exit 0, with no identity looked up.

`server_baseline_forget`. `docs/resolution.md` says that a plain run "keeps a fix record (and its diagnosis) until a
verify confirms it", so that a later verify never forgets an unapplied fix. Before saving, `carry_forward_fixes`
rebuilds the criteria of each record whose diagnosis is absent, with fresh checks; a check without an answer on that
day makes the criteria unbuildable, which is taken for damage, and the record is dropped. `FixesKept` holds with
exactly those fixes excepted.

`correlate_wins`. `docs/release-notes-0.1.3.md` and `tests/adversarial/test_status_policy.py` say that a diagnosed
problem makes the status DEGRADED or CRITICAL. `_overall_status` asks the PRIMARY diagnosis only, and a diagnosis of
severity ERROR that rests on WARNING evidence (wrong mode of a file) is ranked below any unexplained ERROR finding:
the report lists the diagnosed problem, and the status is NOT_FULLY_VERIFIED, exit 4.

Met in reading, or as an exception a property states, and without a run:

- `docs/architecture.md` gives `dns.srv-autodiscovery` as an example of a diagnosis that is never folded into
  `dns.named-service-down` of the same pack; `_IMPLICIT_RULE_UPSTREAMS` does fold it.
- `docs/verification.md` says exit 3 of verify means that there is no baseline, `docs/exit-codes.md` (and `ExitCode`)
  that it may also come with one, when the fresh report is UNKNOWN.
- Replication mode takes a Directory Server that is activating (`c_unit`: WARN) for neither a diagnosis nor a gap: the
  status is HEALTHY, where `docs/exit-codes.md` has HEALTHY_WITH_WARNINGS. A clock that could not be read is no gap.
- An agreement that only waits for its next session (busy, backing off) and is cut off by the budget is left out of
  the report; NOT_FULLY_VERIFIED is all that says so. `FailuresReported` excepts it.
- `client/verify.py:91` says that a baseline which cannot be written "only means --verify has nothing to compare with".
  If an older one exists, `--verify` compares with that: after a crash, a process with the same id cannot create its
  temporary file and its save is skipped silently.
- In client mode `getent` without an answer (nss.system UNKNOWN) is no essential step, so the status may be HEALTHY; a
  closed KDC port alone is not held against health either, as the host's own ticket shows that some KDC answered.
- With three faults, beyond the bound of `client`, CLOCK_SKEW that was seen both by HTTPS and by Kerberos is called
  RESOLVED when the HTTPS clock is right and `kinit` then gives no answer, unless a fix was offered.

## 7. Not modelled, and the plan

Not to be modelled: the transport of checks and collectors (I/O), parsing (LDIF, command output), string rewriting
(sanitizing, privacy), rendering, AI providers (they decide nothing), the texts of rules and procedures.

Left for later, in order:

1. Proofs: `CutServers` for any topology; `ResolvedMeansGone` of the client with its exception stated.
2. `Resolution`: the gates of `resolve_diagnosis` for every procedure; they are modelled for one (`ReplFix`) and as answers
   in the two baselines.
3. `Access`: how unknown relations make an answer unknown (`access/evaluate.py`).
4. `Bundle`: the staging directory, the archive and its self-test.
5. The server baseline and the replication baseline over the same write protocol as `ClientVerify`, with two commands.
