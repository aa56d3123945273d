--------------------------- MODULE ReplFixProofs ---------------------------
(***************************************************************************)
(* Proofs about "ipa-diagnose replication", for any agreements and servers *)
(* and for any answers of the checks, however many differ from a healthy   *)
(* server's.                                                               *)
(***************************************************************************)
EXTENDS ReplFix, WellFoundedInduction, TLAPS

(* What the checks may have been answered.                                 *)
Typed == \A p \in Part : seen[p] \in RangeOf(Answers(p))

LEMMA LocalTyped ==
  ASSUME Typed, NEW kind \in DOMAIN LocalAnswers
  PROVE  Local(kind) \in RangeOf(LocalAnswers[kind])
<1>1. Asked(kind, Here) \in Part
  BY DEF Part
<1>2. Answers(Asked(kind, Here)) = LocalAnswers[kind]
  BY DEF Answers, Asked
<1> QED
  BY <1>1, <1>2 DEF Typed, Local

LEMMA PeerTyped ==
  ASSUME Typed, NEW kind \in DOMAIN PeerAnswers, NEW a \in Agreement
  PROVE  At(kind, a) \in RangeOf(PeerAnswers[kind])
<1>1. Asked(kind, PeerOf(a)) \in Part
  BY DEF Part
<1>2. PeerOf(a) # Here /\ PeerOf(a)[1] = "host"
  BY DEF PeerOf, Here
<1>3. Answers(Asked(kind, PeerOf(a))) = PeerAnswers[kind]
  BY <1>2 DEF Answers, Asked
<1>4. At(kind, a) = seen[Asked(kind, PeerOf(a))]
  BY DEF At
<1> QED
  BY <1>1, <1>3, <1>4 DEF Typed

LEMMA AgreementTyped ==
  ASSUME Typed, NEW kind \in DOMAIN AgreementAnswers, NEW a \in Agreement
  PROVE  At(kind, a) \in RangeOf(AgreementAnswers[kind]) \cup RangeOf(QuietAnswers[kind])
<1>1. Asked(kind, a) \in Part
  BY DEF Part
<1>2. a # Here /\ a[1] # "host"
  BY AgreementsAssumption DEF AgreementsAssumption, Agreement, Here
<1>3. Answers(Asked(kind, a)) \in {AgreementAnswers[kind], QuietAnswers[kind]}
  BY <1>2 DEF Answers, Asked
<1>4. At(kind, a) = seen[Asked(kind, a)]
  BY DEF At, AgreementAnswers, PeerAnswers
<1> QED
  BY <1>1, <1>3, <1>4 DEF Typed

(* The members of a short list, one by one.                                *)
LEMMA Listing ==
  /\ \A a, b : RangeOf(<<a, b>>) = {a, b}
  /\ \A a, b, c : RangeOf(<<a, b, c>>) = {a, b, c}
  /\ \A a, b, c, d : RangeOf(<<a, b, c, d>>) = {a, b, c, d}
  /\ \A a, b, c, d, e : RangeOf(<<a, b, c, d, e>>) = {a, b, c, d, e}
  /\ RangeOf(Append(Reads, "bad_name")) = {"whole", "not_manager", "cut", "refused", "bad_name"}
BY DEF RangeOf, Reads

----------------------------------------------------------------------------
(* The fix.  The unit has been in every state that "during" holds, the     *)
(* cache says one of them once it was asked again, and only a unit that is *)
(* not known to be up is asked about.                                      *)

States == {"active", "activating", "inactive", "masked", "unasked"}

Watched ==
  /\ Typed /\ DOMAIN seen = Part
  /\ unit \in States /\ cache \in States
  /\ pc \in {"gated", "asked"} => unit \in during
  /\ pc = "asked" => cache \in during /\ cache # "unasked" /\ UnitFields(cache).active # "active"
  /\ fix = "offered" => pc = "done"
  /\ FixOfDownUnit

LEMMA StatesAre == RangeOf(UnitAnswers) = States
BY Listing DEF UnitAnswers, States

LEMMA InitTyped == Init => Typed
<1> SUFFICES ASSUME Init PROVE Typed
  OBVIOUS
<1>1. \A p \in Part : seen[p] = Answers(p)[1]
  BY DEF Init, Healthy
<1>2. \A p \in Part : 1 \in DOMAIN Answers(p)
  <2> SUFFICES ASSUME NEW p \in Part PROVE 1 \in DOMAIN Answers(p)
    OBVIOUS
  <2>1. \A k \in DOMAIN LocalAnswers : 1 \in DOMAIN LocalAnswers[k]
    BY DEF LocalAnswers, UnitAnswers, Reads
  <2>2. \A k \in DOMAIN PeerAnswers : 1 \in DOMAIN PeerAnswers[k]
    BY DEF PeerAnswers
  <2>3. \A k \in DOMAIN AgreementAnswers : 1 \in DOMAIN AgreementAnswers[k] /\ 1 \in DOMAIN QuietAnswers[k]
    BY DEF AgreementAnswers, QuietAnswers
  <2>4. \A a \in Agreement : a # Here /\ a[1] # "host" /\ PeerOf(a) # Here /\ PeerOf(a)[1] = "host"
    BY AgreementsAssumption DEF AgreementsAssumption, Agreement, Here, PeerOf
  <2>5. \/ \E k \in DOMAIN LocalAnswers : p = Asked(k, Here)
        \/ \E k \in DOMAIN PeerAnswers, a \in Agreement : p = Asked(k, PeerOf(a))
        \/ \E k \in DOMAIN AgreementAnswers, a \in Agreement : p = Asked(k, a)
    BY DEF Part
  <2> QED
    BY <2>1, <2>2, <2>3, <2>4, <2>5 DEF Answers, Asked
<1> QED
  BY <1>1, <1>2 DEF Typed, RangeOf

LEMMA DeviateTyped ==
  ASSUME Typed, NEW p \in Part, NEW i \in 2..Len(Answers(p)), DOMAIN seen = Part, seen' = [seen EXCEPT ![p] = Answers(p)[i]]
  PROVE  Typed'
BY DEF Typed, RangeOf

LEMMA InitWatched == Init => Watched
BY InitTyped DEF Init, Watched, States, FixOfDownUnit, Healthy

LEMMA StepWatched == Watched /\ [Next]_vars => Watched'
<1> SUFFICES ASSUME Watched, [Next]_vars PROVE Watched'
  OBVIOUS
<1> USE DEF Watched
<1>1. CASE Deviate
  <2>1. DOMAIN seen' = Part /\ Typed'
    BY <1>1, DeviateTyped DEF Deviate
  <2> QED
    BY <1>1, <2>1 DEF Deviate, FixOfDownUnit
<1>2. ASSUME UNCHANGED seen PROVE Typed' /\ DOMAIN seen' = Part
  BY <1>2 DEF Typed
<1>3. CASE Rewire
  BY <1>2, <1>3 DEF Rewire, FixOfDownUnit
<1>4. CASE Diagnose
  <2>1. \A d : Local(UnitOf(d)) \in States
    <3>1. \A d : UnitOf(d) \in {"ds", "kdc"}
      BY DEF UnitOf
    <3>2. LocalAnswers["ds"] = UnitAnswers /\ LocalAnswers["kdc"] = UnitAnswers /\ {"ds", "kdc"} \subseteq DOMAIN LocalAnswers
      BY DEF LocalAnswers
    <3> QED
      BY <3>1, <3>2, LocalTyped, StatesAre
  <2>2. unit' \in States /\ cache' \in States
    BY <1>4, <2>1 DEF Diagnose, States
  <2> QED
    BY <1>2, <1>4, <2>2 DEF Diagnose, FixOfDownUnit
<1>5. CASE Gate
  BY <1>2, <1>5 DEF Gate, FixOfDownUnit, command
<1>6. CASE Reask
  <2>1. pc' = "asked" => unit # "unasked" /\ UnitFields(unit).active # "active"
    BY <1>6 DEF Reask, UnitCheck, NotRun, OK
  <2> QED
    BY <1>2, <1>6, <2>1 DEF Reask, FixOfDownUnit, command
<1>7. CASE Resolve
  <2>1. fix' = "offered" => Startable(cache)
    BY <1>7 DEF Resolve, Startable, States, UnitFields
  <2>2. pc = "asked" /\ pc' = "done" /\ UNCHANGED <<command, unit, cache, age, steps, during>>
    BY <1>7 DEF Resolve
  <2>3. FixOfDownUnit'
    BY <2>1, <2>2 DEF FixOfDownUnit
  <2> QED
    BY <1>2, <2>2, <2>3 DEF command
<1>8. CASE UnitChanges
  <2>1. unit' \in States /\ during' = during \cup {unit'}
    BY <1>8, StatesAre DEF UnitChanges
  <2> QED
    BY <1>2, <1>8, <2>1 DEF UnitChanges, FixOfDownUnit, command
<1>9. CASE TimePasses \/ ClockStepped
  BY <1>2, <1>9 DEF TimePasses, ClockStepped, FixOfDownUnit, command
<1>10. CASE UNCHANGED vars
  BY <1>2, <1>10 DEF vars, FixOfDownUnit, command
<1> QED
  BY <1>1, <1>3, <1>4, <1>5, <1>6, <1>7, <1>8, <1>9, <1>10 DEF Next

LEMMA WatchedHolds == Spec => []Watched
BY InitWatched, StepWatched, PTL DEF Spec

(* A fix is printed only for a unit that was asked again and was down      *)
(* (safety.py), however often the unit and the clock change meanwhile.     *)
THEOREM FixCorrect == Spec => []FixOfDownUnit
<1>1. Watched => FixOfDownUnit
  BY DEF Watched
<1> QED
  BY <1>1, WatchedHolds, PTL

----------------------------------------------------------------------------
(* What was read does not change while the command concludes.              *)

LEMMA SameAnswers ==
  UNCHANGED seen => /\ \A k : Local(k)' = Local(k)
                    /\ \A k, a : At(k, a)' = At(k, a)
BY DEF Local, At

LEMMA SameChecks ==
  UNCHANGED seen =>
    /\ IsServer' = IsServer /\ StorageCheck' = StorageCheck /\ KeytabCheck' = KeytabCheck
    /\ \A u, answer : UnitCheck(u, answer)' = UnitCheck(u, answer)
    /\ \A kind : Read(kind)' = Read(kind)
    /\ PrincipalFound' = PrincipalFound /\ ManagerFound' = ManagerFound /\ SegmentsFound' = SegmentsFound
    /\ \A a : /\ RootdseCheck(a)' = RootdseCheck(a) /\ GssapiCheck(a)' = GssapiCheck(a)
              /\ ReverseCheck(a)' = ReverseCheck(a) /\ Status(a)' = Status(a)
<1> SUFFICES ASSUME UNCHANGED seen
             PROVE  /\ IsServer' = IsServer /\ StorageCheck' = StorageCheck /\ KeytabCheck' = KeytabCheck
                    /\ \A u, answer : UnitCheck(u, answer)' = UnitCheck(u, answer)
                    /\ \A kind : Read(kind)' = Read(kind)
                    /\ PrincipalFound' = PrincipalFound /\ ManagerFound' = ManagerFound
                    /\ SegmentsFound' = SegmentsFound
                    /\ \A a : /\ RootdseCheck(a)' = RootdseCheck(a) /\ GssapiCheck(a)' = GssapiCheck(a)
                              /\ ReverseCheck(a)' = ReverseCheck(a) /\ Status(a)' = Status(a)
  OBVIOUS
<1>1. IsServer' = IsServer /\ StorageCheck' = StorageCheck /\ KeytabCheck' = KeytabCheck
  BY SameAnswers DEF IsServer, StorageCheck, KeytabCheck
<1>2. \A u, answer : UnitCheck(u, answer)' = UnitCheck(u, answer)
  BY SameAnswers DEF UnitCheck
<1>3. \A kind : Read(kind)' = Read(kind)
  BY SameAnswers DEF Read
<1>4. PrincipalFound' = PrincipalFound /\ ManagerFound' = ManagerFound /\ SegmentsFound' = SegmentsFound
  BY SameAnswers DEF PrincipalFound, ManagerFound, SegmentsFound
<1>5. ASSUME NEW a PROVE RootdseCheck(a)' = RootdseCheck(a)
  BY SameAnswers DEF RootdseCheck
<1>7. ASSUME NEW a PROVE GssapiCheck(a)' = GssapiCheck(a)
  BY SameAnswers DEF GssapiCheck
<1>6. \A a : ReverseCheck(a)' = ReverseCheck(a) /\ Status(a)' = Status(a)
  BY SameAnswers DEF ReverseCheck, Status
<1> QED
  BY <1>1, <1>2, <1>3, <1>4, <1>5, <1>6, <1>7

LEMMA SameRecords ==
  UNCHANGED seen =>
    /\ OServer' = OServer
    /\ \A u : UnitOutcome(u)' = UnitOutcome(u)
    /\ OStorage' = OStorage /\ OKeytab' = OKeytab
    /\ \A check : ReadOutcome(check)' = ReadOutcome(check)
    /\ TopologyCheck' = TopologyCheck /\ AgreementsCheck' = AgreementsCheck /\ PrincipalsCheck' = PrincipalsCheck
    /\ OTopology' = OTopology /\ OAgreements' = OAgreements
    /\ Listed' = Listed
    /\ \A a : Failing(a)' = Failing(a)
    /\ OPrincipals' = OPrincipals
    /\ Dropped' = Dropped /\ Investigated' = Investigated
<1> SUFFICES ASSUME UNCHANGED seen
             PROVE  /\ OServer' = OServer
                    /\ \A u : UnitOutcome(u)' = UnitOutcome(u)
                    /\ OStorage' = OStorage /\ OKeytab' = OKeytab
                    /\ \A check : ReadOutcome(check)' = ReadOutcome(check)
                    /\ TopologyCheck' = TopologyCheck /\ AgreementsCheck' = AgreementsCheck /\ PrincipalsCheck' = PrincipalsCheck
                    /\ OTopology' = OTopology /\ OAgreements' = OAgreements
                    /\ Listed' = Listed
                    /\ \A a : Failing(a)' = Failing(a)
                    /\ OPrincipals' = OPrincipals
                    /\ Dropped' = Dropped /\ Investigated' = Investigated
  OBVIOUS
<1>1. OServer' = OServer
  BY SameChecks DEF OServer
<1>2. \A u : UnitOutcome(u)' = UnitOutcome(u)
  BY <1>1, SameChecks, SameAnswers DEF UnitOutcome
<1>3. OStorage' = OStorage /\ OKeytab' = OKeytab
  BY <1>1, SameChecks, SameAnswers DEF OStorage, OKeytab
<1>4. \A check : ReadOutcome(check)' = ReadOutcome(check)
  BY <1>2, SameAnswers DEF ReadOutcome
<1>5. TopologyCheck' = TopologyCheck /\ AgreementsCheck' = AgreementsCheck /\ PrincipalsCheck' = PrincipalsCheck
  BY SameChecks DEF TopologyCheck, AgreementsCheck, PrincipalsCheck
<1>6. OTopology' = OTopology /\ OAgreements' = OAgreements
  BY <1>4, <1>5 DEF OTopology, OAgreements
<1>7. Listed' = Listed
  BY <1>6, SameAnswers DEF Listed
<1>8. \A a : Failing(a)' = Failing(a)
  BY SameChecks DEF Failing
<1>9. OPrincipals' = OPrincipals
  BY <1>4, <1>5, <1>7, <1>8 DEF OPrincipals
<1>10. Dropped' = Dropped /\ Investigated' = Investigated
  BY <1>7, SameAnswers DEF Dropped, Investigated
<1> QED
  BY <1>1, <1>2, <1>3, <1>4, <1>5, <1>6, <1>7, <1>8, <1>9, <1>10

LEMMA SameSteps ==
  UNCHANGED seen =>
    /\ \A a : ODns(a)' = ODns(a)
    /\ \A a : PortState(a)' = PortState(a)
    /\ \A a : HttpsState(a)' = HttpsState(a)
    /\ \A a : ORootdse(a)' = ORootdse(a)
    /\ \A a : RootdseClock(a)' = RootdseClock(a)
    /\ \A a : PeerOffset(a)' = PeerOffset(a) /\ OffsetStep(a)' = OffsetStep(a)
    /\ \A a : GssapiBound(a)' = GssapiBound(a)
    /\ \A a : OGssapi(a)' = OGssapi(a)
    /\ \A a : KinitClass(a)' = KinitClass(a) /\ BindClass(a)' = BindClass(a)
    /\ \A a : OReverse(a)' = OReverse(a)
    /\ ClockInView' = ClockInView
    /\ OTimeLocal' = OTimeLocal
    /\ \A a : SubjectGap(a)' = SubjectGap(a)
    /\ Complete' = Complete
<1> SUFFICES ASSUME UNCHANGED seen
             PROVE  /\ \A a : ODns(a)' = ODns(a)
                    /\ \A a : PortState(a)' = PortState(a)
                    /\ \A a : HttpsState(a)' = HttpsState(a)
                    /\ \A a : ORootdse(a)' = ORootdse(a)
                    /\ \A a : RootdseClock(a)' = RootdseClock(a)
                    /\ \A a : PeerOffset(a)' = PeerOffset(a) /\ OffsetStep(a)' = OffsetStep(a)
                    /\ \A a : GssapiBound(a)' = GssapiBound(a)
                    /\ \A a : OGssapi(a)' = OGssapi(a)
                    /\ \A a : KinitClass(a)' = KinitClass(a) /\ BindClass(a)' = BindClass(a)
                    /\ \A a : OReverse(a)' = OReverse(a)
                    /\ ClockInView' = ClockInView
                    /\ OTimeLocal' = OTimeLocal
                    /\ \A a : SubjectGap(a)' = SubjectGap(a)
                    /\ Complete' = Complete
  OBVIOUS
<1>1. \A a : ODns(a)' = ODns(a)
  BY SameRecords, SameAnswers DEF ODns
<1>2. \A a : PortState(a)' = PortState(a)
  BY <1>1, SameAnswers DEF PortState
<1>3. \A a : HttpsState(a)' = HttpsState(a)
  BY <1>2, SameAnswers DEF HttpsState
<1>4. \A a : ORootdse(a)' = ORootdse(a)
  BY <1>1, SameChecks DEF ORootdse
<1>5. \A a : RootdseClock(a)' = RootdseClock(a)
  BY <1>1, SameChecks DEF RootdseClock
<1>6. \A a : PeerOffset(a)' = PeerOffset(a) /\ OffsetStep(a)' = OffsetStep(a)
  BY <1>1, <1>5, SameAnswers DEF PeerOffset, OffsetStep
<1>7. \A a : GssapiBound(a)' = GssapiBound(a)
  BY SameAnswers DEF GssapiBound
<1>8. \A a : OGssapi(a)' = OGssapi(a)
  BY <1>2, <1>7, SameAnswers, SameRecords, SameChecks DEF OGssapi, OtherKey
<1>9. \A a : KinitClass(a)' = KinitClass(a) /\ BindClass(a)' = BindClass(a)
  BY <1>8, SameChecks DEF KinitClass, BindClass
<1>10. \A a : OReverse(a)' = OReverse(a)
  BY <1>4, SameChecks DEF OReverse, Classified
<1>11. ClockInView' = ClockInView
  BY <1>6, <1>9, SameChecks, SameRecords DEF ClockInView
<1>12. OTimeLocal' = OTimeLocal
  BY <1>11, SameRecords, SameAnswers DEF OTimeLocal
<1>13. \A a : SubjectGap(a)' = SubjectGap(a)
  BY <1>1, <1>2, <1>7, <1>8, <1>10, SameAnswers DEF SubjectGap, OutboundGap, OtherKey
<1>14. Complete' = Complete
  BY <1>13, SameRecords DEF Complete, ReadGap
<1> QED
  BY <1>1, <1>2, <1>3, <1>4, <1>5, <1>6, <1>7, <1>8, <1>9, <1>10, <1>11, <1>12, <1>13, <1>14

LEMMA SameLocal ==
  UNCHANGED seen =>
    /\ StorageBad' = StorageBad /\ DsDown' = DsDown /\ KdcDown' = KdcDown /\ KeytabBad' = KeytabBad
    /\ DsRoot' = DsRoot
    /\ KdcRoot' = KdcRoot
    /\ LocalDiagnoses' = LocalDiagnoses
    /\ LocalChains' = LocalChains
<1> SUFFICES ASSUME UNCHANGED seen
             PROVE  /\ StorageBad' = StorageBad /\ DsDown' = DsDown /\ KdcDown' = KdcDown /\ KeytabBad' = KeytabBad
                    /\ DsRoot' = DsRoot
                    /\ KdcRoot' = KdcRoot
                    /\ LocalDiagnoses' = LocalDiagnoses
                    /\ LocalChains' = LocalChains
  OBVIOUS
<1>1. StorageBad' = StorageBad /\ DsDown' = DsDown /\ KdcDown' = KdcDown /\ KeytabBad' = KeytabBad
  BY SameRecords DEF StorageBad, DsDown, KdcDown, KeytabBad
<1>2. DsRoot' = DsRoot
  BY <1>1 DEF DsRoot
<1>3. KdcRoot' = KdcRoot
  BY <1>1, <1>2 DEF KdcRoot
<1>4. LocalDiagnoses' = LocalDiagnoses
  BY <1>1, <1>2, <1>3, SameRecords DEF LocalDiagnoses
<1>5. LocalChains' = LocalChains
  BY <1>1, <1>2, <1>3 DEF LocalChains
<1> QED
  BY <1>1, <1>2, <1>3, <1>4, <1>5

LEMMA SameSearch ==
  UNCHANGED seen =>
    /\ \A a : Skewed(a)' = Skewed(a) /\ PeerAnswersNow(a)' = PeerAnswersNow(a) /\ PeerFails(a)' = PeerFails(a)
    /\ \A a, now : PeerPath(a, now)' = PeerPath(a, now)
    /\ \A a, kinit, bind : Reproduced(a, kinit, bind)' = Reproduced(a, kinit, bind)
    /\ \A a : KerberosClass(a)' = KerberosClass(a)
    /\ \A a : ByKinit(a)' = ByKinit(a) /\ Kerberos(a)' = Kerberos(a)
    /\ \A found : AbsentFromPrincipals(found)' = AbsentFromPrincipals(found)
    /\ \A a, class, kinit : GssapiChain(a, class, kinit)' = GssapiChain(a, class, kinit)
    /\ \A a : NotReproduced(a)' = NotReproduced(a)
    /\ \A a, class : Branch(a, class)' = Branch(a, class)
    /\ \A a : Search(a)' = Search(a)
<1> SUFFICES ASSUME UNCHANGED seen
             PROVE  /\ \A a : Skewed(a)' = Skewed(a) /\ PeerAnswersNow(a)' = PeerAnswersNow(a) /\ PeerFails(a)' = PeerFails(a)
                    /\ \A a, now : PeerPath(a, now)' = PeerPath(a, now)
                    /\ \A a, kinit, bind : Reproduced(a, kinit, bind)' = Reproduced(a, kinit, bind)
                    /\ \A a : KerberosClass(a)' = KerberosClass(a)
                    /\ \A a : ByKinit(a)' = ByKinit(a) /\ Kerberos(a)' = Kerberos(a)
                    /\ \A found : AbsentFromPrincipals(found)' = AbsentFromPrincipals(found)
                    /\ \A a, class, kinit : GssapiChain(a, class, kinit)' = GssapiChain(a, class, kinit)
                    /\ \A a : NotReproduced(a)' = NotReproduced(a)
                    /\ \A a, class : Branch(a, class)' = Branch(a, class)
                    /\ \A a : Search(a)' = Search(a)
  OBVIOUS
<1>1. \A a : Skewed(a)' = Skewed(a) /\ PeerAnswersNow(a)' = PeerAnswersNow(a) /\ PeerFails(a)' = PeerFails(a)
  BY SameSteps DEF Skewed, PeerAnswersNow, PeerFails
<1>2. ASSUME NEW a, NEW now PROVE PeerPath(a, now)' = PeerPath(a, now)
  <2>1. /\ ODns(a)' = ODns(a) /\ RootdseCheck(a)' = RootdseCheck(a)
        /\ PortState(a)' = PortState(a) /\ HttpsState(a)' = HttpsState(a)
    BY SameSteps, SameChecks
  <2> QED
    BY <2>1, Zenon DEF PeerPath
<1>3. \A a, kinit, bind : Reproduced(a, kinit, bind)' = Reproduced(a, kinit, bind)
  BY <1>1 DEF Reproduced
<1>4. \A a : KerberosClass(a)' = KerberosClass(a)
  BY <1>3, SameSteps, SameChecks DEF KerberosClass
<1>5. \A a : ByKinit(a)' = ByKinit(a) /\ Kerberos(a)' = Kerberos(a)
  BY SameSteps, SameChecks DEF ByKinit, Kerberos
<1>6. \A found : AbsentFromPrincipals(found)' = AbsentFromPrincipals(found)
  BY SameRecords DEF AbsentFromPrincipals
<1>7. ASSUME NEW a, NEW class, NEW kinit PROVE GssapiChain(a, class, kinit)' = GssapiChain(a, class, kinit)
  <2>1. /\ OGssapi(a)' = OGssapi(a) /\ Skewed(a)' = Skewed(a) /\ OffsetStep(a)' = OffsetStep(a)
        /\ KdcDown' = KdcDown /\ DsDown' = DsDown /\ KeytabBad' = KeytabBad
        /\ KdcRoot' = KdcRoot /\ DsRoot' = DsRoot
    BY <1>1, SameLocal, SameSteps
  <2>2. AbsentFromPrincipals(PrincipalFound)' = AbsentFromPrincipals(PrincipalFound)
    BY SameRecords, SameChecks DEF AbsentFromPrincipals
  <2> QED
    BY <2>1, <2>2, Zenon DEF GssapiChain
<1>8. \A a : NotReproduced(a)' = NotReproduced(a)
  BY <1>1, <1>4, <1>5, SameChecks DEF NotReproduced
<1>9. ASSUME NEW a, NEW class PROVE Branch(a, class)' = Branch(a, class)
  <2>1. /\ Status(a)' = Status(a) /\ PeerFails(a)' = PeerFails(a) /\ GssapiBound(a)' = GssapiBound(a)
        /\ ByKinit(a)' = ByKinit(a) /\ Kerberos(a)' = Kerberos(a) /\ OffsetStep(a)' = OffsetStep(a)
        /\ PeerPath(a, FALSE)' = PeerPath(a, FALSE)
    BY <1>1, <1>2, <1>5, SameChecks, SameSteps
  <2>2. GssapiChain(a, class, KinitClass(a))' = GssapiChain(a, class, KinitClass(a))
    BY <1>7, SameSteps
  <2>3. AbsentFromPrincipals(ManagerFound)' = AbsentFromPrincipals(ManagerFound)
    BY SameRecords, SameChecks DEF AbsentFromPrincipals
  <2> QED
    BY <2>1, <2>2, <2>3, Zenon DEF Branch
<1>10. \A a : Search(a)' = Search(a)
  BY <1>4, <1>9 DEF Search
<1> QED
  BY <1>1, <1>2, <1>3, <1>4, <1>5, <1>6, <1>7, <1>8, <1>9, <1>10

LEMMA SameSymptoms ==
  UNCHANGED seen =>
    /\ \A a : Enabled(a)' = Enabled(a)
    /\ \A a : Broken(a)' = Broken(a)
    /\ \A a : Reported(a)' = Reported(a)
    /\ \A a, s : SymptomKind(a, s)' = SymptomKind(a, s)
    /\ \A a, s : Symptom(a, s)' = Symptom(a, s)
    /\ \A a, s : SeenNow(a, s)' = SeenNow(a, s)
    /\ \A a : SkewShown(a)' = SkewShown(a)
    /\ \A a : SkewRoot(a)' = SkewRoot(a)
    /\ \A a : SkewChained(a)' = SkewChained(a)
<1> SUFFICES ASSUME UNCHANGED seen
             PROVE  /\ \A a : Enabled(a)' = Enabled(a)
                    /\ \A a : Broken(a)' = Broken(a)
                    /\ \A a : Reported(a)' = Reported(a)
                    /\ \A a, s : SymptomKind(a, s)' = SymptomKind(a, s)
                    /\ \A a, s : Symptom(a, s)' = Symptom(a, s)
                    /\ \A a, s : SeenNow(a, s)' = SeenNow(a, s)
                    /\ \A a : SkewShown(a)' = SkewShown(a)
                    /\ \A a : SkewRoot(a)' = SkewRoot(a)
                    /\ \A a : SkewChained(a)' = SkewChained(a)
  OBVIOUS
<1>1. \A a : Enabled(a)' = Enabled(a)
  BY SameAnswers DEF Enabled
<1>2. \A a : Broken(a)' = Broken(a)
  BY <1>1, SameRecords, SameChecks DEF Broken
<1>3. \A a : Reported(a)' = Reported(a)
  BY <1>2, SameRecords, SameSearch DEF Reported
<1>4. \A a, s : SymptomKind(a, s)' = SymptomKind(a, s)
  BY SameChecks DEF SymptomKind
<1>5. \A a, s : Symptom(a, s)' = Symptom(a, s)
  BY <1>4 DEF Symptom
<1>6. \A a, s : SeenNow(a, s)' = SeenNow(a, s)
  BY <1>1, <1>3, SameRecords, SameChecks, SameSearch DEF SeenNow
<1>7. \A a : SkewShown(a)' = SkewShown(a)
  BY <1>1, SameRecords, SameChecks, SameSearch DEF SkewShown
<1>8. \A a : SkewRoot(a)' = SkewRoot(a)
  BY <1>3, SameSearch DEF SkewRoot
<1>9. \A a : SkewChained(a)' = SkewChained(a)
  BY <1>7, <1>8 DEF SkewChained
<1> QED
  BY <1>1, <1>2, <1>3, <1>4, <1>5, <1>6, <1>7, <1>8, <1>9

LEMMA SameOfAgreement ==
  UNCHANGED seen =>
    /\ \A a, s : AgreementDiagnoses(a, s)' = AgreementDiagnoses(a, s)
    /\ \A a, s : AgreementChains(a, s)' = AgreementChains(a, s)
    /\ \A a : DroppedDiagnoses(a)' = DroppedDiagnoses(a) /\ DroppedChains(a)' = DroppedChains(a)
    /\ \A a : ReverseClass(a)' = ReverseClass(a)
    /\ \A a : ReverseWaits(a)' = ReverseWaits(a)
    /\ \A a : ReverseKeytab(a)' = ReverseKeytab(a)
    /\ \A a : ReverseSymptom(a)' = ReverseSymptom(a)
    /\ \A a : ReverseDiagnoses(a)' = ReverseDiagnoses(a)
    /\ \A a : ReverseChains(a)' = ReverseChains(a)
<1> SUFFICES ASSUME UNCHANGED seen
             PROVE  /\ \A a, s : AgreementDiagnoses(a, s)' = AgreementDiagnoses(a, s)
                    /\ \A a, s : AgreementChains(a, s)' = AgreementChains(a, s)
                    /\ \A a : DroppedDiagnoses(a)' = DroppedDiagnoses(a) /\ DroppedChains(a)' = DroppedChains(a)
                    /\ \A a : ReverseClass(a)' = ReverseClass(a)
                    /\ \A a : ReverseWaits(a)' = ReverseWaits(a)
                    /\ \A a : ReverseKeytab(a)' = ReverseKeytab(a)
                    /\ \A a : ReverseSymptom(a)' = ReverseSymptom(a)
                    /\ \A a : ReverseDiagnoses(a)' = ReverseDiagnoses(a)
                    /\ \A a : ReverseChains(a)' = ReverseChains(a)
  OBVIOUS
<1>10. ASSUME NEW a, NEW s
       PROVE  /\ Enabled(a)' = Enabled(a) /\ Broken(a)' = Broken(a) /\ Reported(a)' = Reported(a)
              /\ Symptom(a, s)' = Symptom(a, s) /\ SeenNow(a, s)' = SeenNow(a, s)
              /\ SkewShown(a)' = SkewShown(a) /\ SkewChained(a)' = SkewChained(a)
              /\ NotReproduced(a)' = NotReproduced(a) /\ PeerPath(a, TRUE)' = PeerPath(a, TRUE)
              /\ Status(a)' = Status(a) /\ GssapiBound(a)' = GssapiBound(a) /\ KinitClass(a)' = KinitClass(a)
              /\ KeytabBad' = KeytabBad /\ PeerOffset(a)' = PeerOffset(a) /\ OffsetStep(a)' = OffsetStep(a)
              /\ At("session", a)' = At("session", a)
  BY SameSymptoms, SameSearch, SameChecks, SameSteps, SameLocal, SameAnswers
<1>1. ASSUME NEW a, NEW s PROVE AgreementDiagnoses(a, s)' = AgreementDiagnoses(a, s)
  <2> DEFINE K == Reported(a) /\ Status(a) = "INVALID_CREDENTIALS" /\ GssapiBound(a)
                    /\ KinitClass(a) = "key_rejected" /\ ~KeytabBad
             X == Broken(a) /\ NotReproduced(a)
             R == IF Reported(a) THEN {Symptom(a, s)} \cup s.roots ELSE {}
             P == IF SeenNow(a, s) THEN PeerPath(a, TRUE).roots ELSE {}
             Long == Status(a) = "OK" /\ At("session", a) = "long"
             All == IF ~Enabled(a) THEN {Notice("AGREEMENT_DISABLED", Rel(a), "HIGH", "local")}
                    ELSE R \cup When(K, KeyRejected) \cup P \cup When(SkewShown(a), PairSkew(a))
                      \cup When(Status(a) = "OK" /\ PeerOffset(a) = "drift",
                                Diagnosis("PAIR_CLOCK_DRIFT", Pair(a), "TIME", "WARN", "HIGH", "pair"))
                      \cup When(Long, Passing("LONG_RUNNING_SESSION", Rel(a), "MEDIUM", "pair"))
                      \cup When(Status(a) \in TRANSIENT, Passing("REPLICATION_TRANSIENT", Rel(a), "HIGH", "pair"))
                      \cup When(X, Passing("REPLICATION_NOT_REPRODUCED", Rel(a), "MEDIUM", "pair"))
  <2>1. AgreementDiagnoses(a, s) = All /\ (AgreementDiagnoses(a, s) = All)'
    BY Zenon DEF AgreementDiagnoses
  <2>2. R' = R
    BY <1>10, Zenon
  <2>3. P' = P
    BY <1>10, Zenon
  <2>4. K' = K
    <3>1. /\ Reported(a)' = Reported(a) /\ Status(a)' = Status(a) /\ GssapiBound(a)' = GssapiBound(a)
          /\ KinitClass(a)' = KinitClass(a) /\ KeytabBad' = KeytabBad
      BY <1>10
    <3> QED
      BY <3>1
  <2>5. X' = X
    BY <1>10, Zenon
  <2>6. Long' = Long
    <3>1. Status(a)' = Status(a) /\ At("session", a)' = At("session", a)
      BY <1>10
    <3> QED
      BY <3>1
  <2> HIDE DEF K, X, R, P, Long
  <2>7. All' = All
    <3>1. /\ Enabled(a)' = Enabled(a) /\ SkewShown(a)' = SkewShown(a) /\ Status(a)' = Status(a)
          /\ PeerOffset(a)' = PeerOffset(a)
      BY <1>10
    <3> QED
      BY <3>1, <2>2, <2>3, <2>4, <2>5, <2>6, Zenon
  <2> HIDE DEF All
  <2> QED
    BY <2>1, <2>7
<1>2. ASSUME NEW a, NEW s PROVE AgreementChains(a, s)' = AgreementChains(a, s)
  BY <1>10, Zenon DEF AgreementChains
<1>3. \A a : DroppedDiagnoses(a)' = DroppedDiagnoses(a) /\ DroppedChains(a)' = DroppedChains(a)
  BY SameSymptoms DEF DroppedDiagnoses, DroppedChains
<1>4. \A a : ReverseClass(a)' = ReverseClass(a)
  BY SameSteps, SameChecks DEF ReverseClass
<1>5. \A a : ReverseWaits(a)' = ReverseWaits(a)
  BY <1>4, SameRecords DEF ReverseWaits
<1>6. \A a : ReverseKeytab(a)' = ReverseKeytab(a)
  BY <1>4, SameLocal, SameSearch DEF ReverseKeytab
<1>7. \A a : ReverseSymptom(a)' = ReverseSymptom(a)
  BY <1>4, <1>6 DEF ReverseSymptom
<1>8. \A a : ReverseDiagnoses(a)' = ReverseDiagnoses(a)
  BY <1>4, <1>5, <1>7 DEF ReverseDiagnoses
<1>9. \A a : ReverseChains(a)' = ReverseChains(a)
  BY <1>4, <1>5, <1>6, <1>7 DEF ReverseChains
<1> QED
  BY <1>1, <1>2, <1>3, <1>4, <1>5, <1>6, <1>7, <1>8, <1>9

LEMMA SameConclusions ==
  UNCHANGED seen =>
    /\ ContextDiagnoses' = ContextDiagnoses
    /\ Gathered' = Gathered
    /\ \A gathered : TimeService(gathered)' = TimeService(gathered)
    /\ Diagnoses' = Diagnoses
    /\ Chains' = Chains
    /\ \A D : StatusWord(D)' = StatusWord(D)
<1> SUFFICES ASSUME UNCHANGED seen
             PROVE  /\ ContextDiagnoses' = ContextDiagnoses
                    /\ Gathered' = Gathered
                    /\ \A gathered : TimeService(gathered)' = TimeService(gathered)
                    /\ Diagnoses' = Diagnoses
                    /\ Chains' = Chains
                    /\ \A D : StatusWord(D)' = StatusWord(D)
  OBVIOUS
<1>1. ContextDiagnoses' = ContextDiagnoses
  BY SameRecords, SameChecks, SameAnswers DEF ContextDiagnoses
<1>2. Gathered' = Gathered
  BY <1>1, SameLocal, SameRecords, SameSearch, SameOfAgreement DEF Gathered
<1>3. \A gathered : TimeService(gathered)' = TimeService(gathered)
  BY SameSteps DEF TimeService
<1>4. Diagnoses' = Diagnoses
  BY <1>2, <1>3, SameRecords DEF Diagnoses, WithTimeService
<1>5. Chains' = Chains
  BY SameLocal, SameRecords, SameSearch, SameOfAgreement DEF Chains
<1>6. \A D : StatusWord(D)' = StatusWord(D)
  BY SameRecords, SameSteps DEF StatusWord
<1> QED
  BY <1>1, <1>2, <1>3, <1>4, <1>5, <1>6

----------------------------------------------------------------------------
(* What the command says is what follows from what was read: after         *)
(* diagnose() and _status nothing of it changes any more.                  *)

Stated ==
  pc # "idle" => diagnoses = Diagnoses /\ chains = Chains /\ status = StatusWord(diagnoses)

LEMMA StepStated == Stated /\ [Next]_vars => Stated'
<1> SUFFICES ASSUME Stated, [Next]_vars PROVE Stated'
  OBVIOUS
<1>1. CASE Deviate \/ Rewire
  BY <1>1 DEF Deviate, Rewire, Stated
<1>2. ASSUME UNCHANGED seen PROVE Diagnoses' = Diagnoses /\ Chains' = Chains /\ \A D : StatusWord(D)' = StatusWord(D)
  BY <1>2, SameConclusions
<1>3. CASE Diagnose
  <2>1. UNCHANGED seen /\ diagnoses' = Diagnoses /\ chains' = Chains /\ status' = StatusWord(diagnoses')
    BY <1>3 DEF Diagnose
  <2>2. StatusWord(diagnoses)' = StatusWord(diagnoses')
    BY <1>2, <2>1
  <2> QED
    BY <1>2, <2>1, <2>2 DEF Stated
<1>4. ASSUME UNCHANGED command, pc # "idle" PROVE Stated'
  <2>1. UNCHANGED seen /\ UNCHANGED diagnoses /\ UNCHANGED chains /\ UNCHANGED status
    BY <1>4 DEF command
  <2>2. StatusWord(diagnoses)' = StatusWord(diagnoses)
    BY <1>2, <2>1
  <2> QED
    BY <1>2, <1>4, <2>1, <2>2 DEF Stated
<1>5. CASE Gate \/ Reask \/ Resolve \/ UnitChanges \/ TimePasses \/ ClockStepped
  <2>1. UNCHANGED command /\ pc # "idle"
    BY <1>5 DEF Gate, Reask, Resolve, UnitChanges, TimePasses, ClockStepped, Running
  <2> QED
    BY <1>4, <2>1
<1>6. CASE UNCHANGED vars
  <2>1. UNCHANGED command /\ UNCHANGED pc
    BY <1>6 DEF vars
  <2>2. pc = "idle" => Stated'
    BY <2>1 DEF Stated
  <2> QED
    BY <1>4, <2>1, <2>2
<1> QED
  BY <1>1, <1>3, <1>5, <1>6 DEF Next

LEMMA StatedHolds == Spec => [](Typed /\ Stated)
<1>1. Init => Stated
  BY DEF Init, Stated
<1>2. Watched => Typed
  BY DEF Watched
<1> QED
  BY <1>1, <1>2, StepStated, WatchedHolds, PTL DEF Spec

(* Where a diagnosis comes from.                                           *)
LEMMA Origin ==
  /\ \A d \in Gathered :
       \/ d \in LocalDiagnoses \/ d \in ContextDiagnoses
       \/ \E a \in Investigated : d \in AgreementDiagnoses(a, Search(a)) \/ d \in ReverseDiagnoses(a)
       \/ \E a \in Dropped : d \in DroppedDiagnoses(a)
  /\ LocalDiagnoses \subseteq Gathered /\ ContextDiagnoses \subseteq Gathered
  /\ \A a \in Investigated : AgreementDiagnoses(a, Search(a)) \cup ReverseDiagnoses(a) \subseteq Gathered
  /\ \A a \in Dropped : DroppedDiagnoses(a) \subseteq Gathered
  /\ Diagnoses = IF OServer = "PASS" THEN Gathered \cup TimeService(Gathered) ELSE {}
<1> DEFINE U == {AgreementDiagnoses(a, Search(a)) \cup ReverseDiagnoses(a) : a \in Investigated}
           V == {DroppedDiagnoses(a) : a \in Dropped}
<1>1. Gathered = LocalDiagnoses \cup ContextDiagnoses \cup UNION (U \cup V)
  BY DEF Gathered
<1>2. \A S : S \in U <=> \E a \in Investigated : S = AgreementDiagnoses(a, Search(a)) \cup ReverseDiagnoses(a)
  OBVIOUS
<1>3. \A S : S \in V <=> \E a \in Dropped : S = DroppedDiagnoses(a)
  OBVIOUS
<1>4. Diagnoses = IF OServer = "PASS" THEN Gathered \cup TimeService(Gathered) ELSE {}
  BY DEF Diagnoses, WithTimeService
<1> HIDE DEF U, V
<1>5. ASSUME NEW d \in Gathered
      PROVE  \/ d \in LocalDiagnoses \/ d \in ContextDiagnoses
             \/ \E a \in Investigated : d \in AgreementDiagnoses(a, Search(a)) \/ d \in ReverseDiagnoses(a)
             \/ \E a \in Dropped : d \in DroppedDiagnoses(a)
  <2>1. CASE \E S \in U : d \in S
    <3>1. PICK S \in U : d \in S
      BY <2>1
    <3>2. PICK a \in Investigated : S = AgreementDiagnoses(a, Search(a)) \cup ReverseDiagnoses(a)
      BY <1>2, <3>1
    <3>3. d \in AgreementDiagnoses(a, Search(a)) \/ d \in ReverseDiagnoses(a)
      BY <3>1, <3>2
    <3> QED
      BY <3>3
  <2>2. CASE \E S \in V : d \in S
    BY <1>3, <2>2, Zenon
  <2>3. d \in LocalDiagnoses \/ d \in ContextDiagnoses \/ (\E S \in U : d \in S) \/ (\E S \in V : d \in S)
    BY <1>1
  <2> QED
    BY <2>1, <2>2, <2>3, Zenon
<1>6. \A a \in Investigated : AgreementDiagnoses(a, Search(a)) \cup ReverseDiagnoses(a) \subseteq Gathered
  BY <1>1, <1>2
<1>7. \A a \in Dropped : DroppedDiagnoses(a) \subseteq Gathered
  BY <1>1, <1>3
<1>8. LocalDiagnoses \subseteq Gathered /\ ContextDiagnoses \subseteq Gathered
  BY <1>1
<1> QED
  BY <1>4, <1>5, <1>6, <1>7, <1>8, Zenon

LEMMA FailuresShown ==
  ASSUME Stated PROVE FailuresReported
<1> SUFFICES ASSUME pc # "idle", OServer = "PASS", NEW a \in Listed,
                    IF a \in Dropped THEN Broken(a) ELSE Failing(a)
             PROVE  \E d \in diagnoses : d.subject = Rel(a)
  BY DEF FailuresReported, Concluded
<1>1. diagnoses = Diagnoses /\ Gathered \subseteq Diagnoses
  BY DEF Stated, Diagnoses, WithTimeService
<1>2. CASE a \in Dropped
  <2>1. PICK d \in DroppedDiagnoses(a) : d.subject = Rel(a)
    BY <1>2 DEF DroppedDiagnoses, When, Diagnosis
  <2> QED
    BY <1>1, <1>2, <2>1, Origin
<1>3. CASE a \notin Dropped
  <2>1. a \in Investigated
    BY <1>3 DEF Investigated
  <2>2. Symptom(a, Search(a)).subject = Rel(a)
    BY DEF Symptom, Diagnosis
  <2>3. \A code, confidence, scope : Notice(code, Rel(a), confidence, scope).subject = Rel(a)
                                       /\ Passing(code, Rel(a), confidence, scope).subject = Rel(a)
    BY DEF Notice, Passing, Diagnosis
  <2>4. \E d \in AgreementDiagnoses(a, Search(a)) : d.subject = Rel(a)
    <3>1. CASE ~Enabled(a)
      BY <2>3, <3>1 DEF AgreementDiagnoses
    <3>2. CASE Enabled(a) /\ Status(a) \in TRANSIENT
      BY <2>3, <3>2 DEF AgreementDiagnoses, When
    <3>3. CASE Broken(a) /\ NotReproduced(a)
      BY <2>3, <3>3 DEF AgreementDiagnoses, When, Broken
    <3>4. CASE Reported(a)
      BY <2>2, <3>4 DEF AgreementDiagnoses, Reported, Broken
    <3> QED
      BY <1>3, <2>1, <3>1, <3>2, <3>3, <3>4 DEF Reported, Broken
  <2> QED
    BY <1>1, <2>1, <2>4, Origin
<1> QED
  BY <1>2, <1>3

(* diagnose.py reports every agreement whose last session did not succeed, *)
(* also one that the budget left out.                                      *)
THEOREM FailuresCorrect == Spec => []FailuresReported
<1>1. Stated => FailuresReported
  BY FailuresShown
<1> QED
  BY <1>1, StatedHolds, PTL

----------------------------------------------------------------------------
(* What is called missing is missing, and every diagnosis can be ranked.   *)

Scopes == {"local", "directory", "pair", "peer"}

Sound(d) ==
  /\ d.scope \in Scopes /\ d.capability \in Capability
  /\ d.code = "PEER_LDAP_PRINCIPAL_MISSING" => Local("ldap") = "missing"
  /\ d.code = "NOT_A_REPLICATION_MANAGER" => Local("managers") = "stranger"
  /\ d.code \in {"SEGMENT_WITHOUT_AGREEMENT", "AGREEMENT_WITHOUT_SEGMENT"} => Local("segments") # "match"
  /\ d.code = "RUV_ELEMENT_WITHOUT_SERVER" => Local("ruv") = "stale"

AbsenceCodes ==
  {"PEER_LDAP_PRINCIPAL_MISSING", "NOT_A_REPLICATION_MANAGER", "SEGMENT_WITHOUT_AGREEMENT",
   "AGREEMENT_WITHOUT_SEGMENT", "RUV_ELEMENT_WITHOUT_SERVER"}

(* A root explains: it is a failure and not a symptom, and only the units  *)
(* of this server are themselves explained, by what is below them.         *)
Root(d) ==
  /\ Sound(d) /\ d.code \notin SymptomCodes /\ d.severity = "FAIL" /\ d.kind = "none"
  /\ d.related = {} \/ (d = KdcRoot /\ KdcDown) \/ (d = DsRoot /\ DsDown)

LEMMA Fields ==
  \A code, subject, capability, severity, confidence, scope :
    LET d == Diagnosis(code, subject, capability, severity, confidence, scope)
    IN  /\ d.code = code /\ d.subject = subject /\ d.capability = capability /\ d.severity = severity
        /\ d.confidence = confidence /\ d.scope = scope /\ d.kind = "none" /\ d.related = {}
BY DEF Diagnosis

LEMMA PlainSound ==
  ASSUME NEW code, code \notin AbsenceCodes, NEW subject, NEW capability \in Capability, NEW severity, NEW confidence,
         NEW scope \in Scopes
  PROVE  Sound(Diagnosis(code, subject, capability, severity, confidence, scope))
BY Fields DEF Sound, AbsenceCodes

LEMMA PlainRoot ==
  ASSUME NEW code, code \notin AbsenceCodes \cup SymptomCodes, NEW subject, NEW capability \in Capability,
         NEW confidence, NEW scope \in Scopes
  PROVE  Root(Diagnosis(code, subject, capability, "FAIL", confidence, scope))
BY Fields, PlainSound DEF Root

(* A read that passed was whole.                                           *)
LEMMA Whole ==
  /\ OTopology = "PASS" => Local("topology") = "whole"
  /\ OAgreements = "PASS" => Local("agreements") = "whole"
  /\ OPrincipals = "PASS" => Local("principals") = "whole"
<1>1. \A kind : ReadOutcome(Read(kind)) = "PASS" => Local(kind) = "whole"
  BY DEF ReadOutcome, Read, Classified, FAILED, OK
<1> QED
  BY <1>1 DEF OTopology, OAgreements, OPrincipals, TopologyCheck, AgreementsCheck, PrincipalsCheck

LEMMA AbsentIsMissing ==
  ASSUME Typed
  PROVE  /\ AbsentFromPrincipals(PrincipalFound) => Local("ldap") = "missing"
         /\ AbsentFromPrincipals(ManagerFound) => Local("managers") = "stranger"
<1>1. Local("ldap") \in {"present", "missing"} /\ Local("managers") \in {"member", "stranger"}
  BY LocalTyped, Listing DEF LocalAnswers
<1> QED
  BY <1>1, Whole DEF AbsentFromPrincipals, PrincipalFound, ManagerFound

LEMMA LocalSound ==
  /\ Root(StorageRoot) /\ Root(KeytabRoot) /\ Root(KeyRejected)
  /\ DsDown => Root(DsRoot)
  /\ KdcDown => Root(KdcRoot)
  /\ \A a : Root(PairSkew(a)) /\ Root(TlsRoot(a))
  /\ \A d \in LocalDiagnoses : Sound(d)
<1>1. /\ Root(StorageRoot) /\ Root(KeytabRoot) /\ Root(KeyRejected)
      /\ \A a : Root(PairSkew(a)) /\ Root(TlsRoot(a))
  BY PlainRoot DEF StorageRoot, KeytabRoot, KeyRejected, PairSkew, TlsRoot, AbsenceCodes, SymptomCodes, Capability, Scopes
<1>2. /\ DsRoot.code = "LOCAL_DS_NOT_RUNNING" /\ DsRoot.capability = "LOCAL_DS" /\ DsRoot.scope = "local"
      /\ DsRoot.severity = "FAIL" /\ DsRoot.kind = "none"
      /\ KdcRoot.code = "LOCAL_KDC_NOT_RUNNING" /\ KdcRoot.capability = "LOCAL_KDC" /\ KdcRoot.scope = "local"
      /\ KdcRoot.severity = "FAIL" /\ KdcRoot.kind = "none"
  BY DEF DsRoot, KdcRoot, Diagnosis
<1>3. Sound(DsRoot) /\ Sound(KdcRoot)
  BY <1>2 DEF Sound, Scopes, Capability
<1>4. (DsDown => Root(DsRoot)) /\ (KdcDown => Root(KdcRoot))
  BY <1>2, <1>3 DEF Root, SymptomCodes
<1>5. /\ Sound(Diagnosis("DS_KEYTAB_EXPOSED", Me, "KEYTAB", "WARN", "HIGH", "local"))
      /\ Sound(Diagnosis("DS_STORAGE_LOW", Me, "STORAGE", "WARN", "HIGH", "local"))
  BY PlainSound DEF AbsenceCodes, Capability, Scopes
<1>6. \A d \in LocalDiagnoses : Sound(d)
  BY <1>1, <1>3, <1>5 DEF LocalDiagnoses, When, Root
<1> QED
  BY <1>1, <1>4, <1>6

----------------------------------------------------------------------------
(* Chains.  A link starts a chain, or follows a capability, by a           *)
(* discriminator that says so and by evidence.                             *)

Starts(link) ==
  /\ link.discriminator \in DOMAIN DISCRIMINATORS
  /\ DISCRIMINATORS[link.discriminator] = From("SYMPTOM", link.capability)
  /\ link.evidence # {}
Follows(prev, link) ==
  /\ link.discriminator \in DOMAIN DISCRIMINATORS
  /\ DISCRIMINATORS[link.discriminator] = From(prev, link.capability)
  /\ link.capability \in DEPENDS_ON[prev]
  /\ link.evidence # {}

(* Every discriminator that does not start a chain is an edge of the graph *)
LEMMA Edges ==
  \A d \in DOMAIN DISCRIMINATORS :
    DISCRIMINATORS[d].source # "SYMPTOM" => DISCRIMINATORS[d].target \in DEPENDS_ON[DISCRIMINATORS[d].source]
<1>1. /\ {"KERBEROS", "PEER_DS", "DNS", "AUTHORIZATION", "REPLICA_DATA", "TLS"} \subseteq DEPENDS_ON["REPLICATION"]
      /\ {"LOCAL_KDC", "TIME", "PRINCIPAL", "KEYTAB"} \subseteq DEPENDS_ON["KERBEROS"]
      /\ "NETWORK" \in DEPENDS_ON["PEER_DS"] /\ "STORAGE" \in DEPENDS_ON["LOCAL_DS"]
      /\ "LOCAL_DS" \in DEPENDS_ON["LOCAL_KDC"] /\ "PRINCIPAL" \in DEPENDS_ON["AUTHORIZATION"]
  BY DEF DEPENDS_ON, Capability
<1> QED
  BY <1>1 DEF DISCRIMINATORS, From

LEMMA SoundLinks ==
  ASSUME NEW s, Starts(s[1])
  PROVE  /\ DOMAIN s = 1..1 => SoundChain(s)
         /\ DOMAIN s = 1..2 /\ Follows(s[1].capability, s[2]) => SoundChain(s)
         /\ DOMAIN s = 1..3 /\ Follows(s[1].capability, s[2]) /\ Follows(s[2].capability, s[3]) => SoundChain(s)
         /\ DOMAIN s = 1..4 /\ Follows(s[1].capability, s[2]) /\ Follows(s[2].capability, s[3])
              /\ Follows(s[3].capability, s[4]) => SoundChain(s)
<1> USE DEF SoundChain, Starts, Follows
<1>1. DOMAIN s = 1..1 => SoundChain(s)
  OBVIOUS
<1>2. ASSUME DOMAIN s = 1..2, Follows(s[1].capability, s[2]) PROVE SoundChain(s)
  BY <1>2
<1>3. ASSUME DOMAIN s = 1..3, Follows(s[1].capability, s[2]), Follows(s[2].capability, s[3]) PROVE SoundChain(s)
  BY <1>3
<1>4. ASSUME DOMAIN s = 1..4, Follows(s[1].capability, s[2]), Follows(s[2].capability, s[3]),
             Follows(s[3].capability, s[4])
      PROVE  SoundChain(s)
  BY <1>4
<1> QED
  BY <1>1, <1>2, <1>3, <1>4

(* The links that are used, in the order of the layers.                    *)
LEMMA Linked ==
  \A subject, evidence : evidence # {} =>
    /\ \A d \in DOMAIN DISCRIMINATORS : \A s, c :
         DISCRIMINATORS[d] = From(s, c) =>
           IF s = "SYMPTOM" THEN Starts(Link(d, c, subject, evidence)) ELSE Follows(s, Link(d, c, subject, evidence))
    /\ \A d, c : Link(d, c, subject, evidence).capability = c
BY Edges DEF Starts, Follows, Link, From

(* What a search returns: roots, and links that may follow the status.     *)
Rooted(a, s) == (\A d \in s.roots : Root(d)) /\ SoundChain(LinksOf(a, s))

LEMMA Reached ==
  ASSUME NEW a, NEW roots, \A d \in roots : Root(d), NEW handoff
  PROVE  /\ Rooted(a, Found(roots, <<>>, handoff))
         /\ \A x : Follows("REPLICATION", x) => Rooted(a, Found(roots, <<x>>, handoff))
         /\ \A x, y :
              Follows("REPLICATION", x) /\ Follows(x.capability, y)
                => Rooted(a, Found(roots, <<x, y>>, handoff)) /\ Rooted(a, Found(roots, Append(<<x>>, y), handoff))
         /\ \A x, y, z :
              Follows("REPLICATION", x) /\ Follows(x.capability, y) /\ Follows(y.capability, z)
                => Rooted(a, Found(roots, Append(Append(<<x>>, y), z), handoff))
<1> DEFINE first == StatusLink(a)
<1>1. Starts(first) /\ first.capability = "REPLICATION"
  <2>1. "agreement_status" \in DOMAIN DISCRIMINATORS /\ DISCRIMINATORS["agreement_status"] = From("SYMPTOM", "REPLICATION")
    BY DEF DISCRIMINATORS
  <2> QED
    BY <2>1 DEF Starts, StatusLink, Link
<1>2. \A links : SoundChain(<<first>> \o links) => Rooted(a, Found(roots, links, handoff))
  BY DEF Found, LinksOf, Rooted
<1> HIDE DEF first
<1>3. Rooted(a, Found(roots, <<>>, handoff))
  <2>1. DOMAIN (<<first>> \o <<>>) = 1..1 /\ (<<first>> \o <<>>)[1] = first
    OBVIOUS
  <2> QED
    BY <1>1, <1>2, <2>1, SoundLinks
<1>4. ASSUME NEW x, Follows("REPLICATION", x) PROVE Rooted(a, Found(roots, <<x>>, handoff))
  <2>1. DOMAIN (<<first>> \o <<x>>) = 1..2 /\ (<<first>> \o <<x>>)[1] = first /\ (<<first>> \o <<x>>)[2] = x
    OBVIOUS
  <2> QED
    BY <1>1, <1>2, <1>4, <2>1, SoundLinks
<1>5. ASSUME NEW x, NEW y, NEW s, s = <<x, y>> \/ s = Append(<<x>>, y), Follows("REPLICATION", x), Follows(x.capability, y)
      PROVE  Rooted(a, Found(roots, s, handoff))
  <2> DEFINE links == <<first>> \o s
  <2>1. CASE s = <<x, y>>
    <3>1. DOMAIN links = 1..3 /\ links[1] = first /\ links[2] = x /\ links[3] = y
      BY <2>1
    <3> QED
      BY <1>1, <1>2, <1>5, <3>1, SoundLinks
  <2>2. CASE s = Append(<<x>>, y)
    <3>1. DOMAIN links = 1..3 /\ links[1] = first /\ links[2] = x /\ links[3] = y
      BY <2>2
    <3> QED
      BY <1>1, <1>2, <1>5, <3>1, SoundLinks
  <2> QED
    BY <1>5, <2>1, <2>2
<1>6. ASSUME NEW x, NEW y, NEW z, NEW s, s = Append(Append(<<x>>, y), z),
             Follows("REPLICATION", x), Follows(x.capability, y), Follows(y.capability, z)
      PROVE  Rooted(a, Found(roots, s, handoff))
  <2>1. DOMAIN (<<first>> \o s) = 1..4 /\ (<<first>> \o s)[1] = first /\ (<<first>> \o s)[2] = x /\ (<<first>> \o s)[3] = y
          /\ (<<first>> \o s)[4] = z
    BY <1>6
  <2> QED
    BY <1>1, <1>2, <1>6, <2>1, SoundLinks
<1> QED
  BY <1>3, <1>4, <1>5, <1>6

(* What stands alone.                                                      *)
Stands(s) == (\A d \in s.roots : Root(d)) /\ SoundChain(s.links) /\ s.links # <<>>

LEMMA Standing ==
  ASSUME NEW roots, \A d \in roots : Root(d), NEW handoff
  PROVE  /\ \A x : Starts(x) => Stands(Found(roots, <<x>>, handoff))
         /\ \A x, y : Starts(x) /\ Follows(x.capability, y) => Stands(Found(roots, <<x, y>>, handoff))
<1>1. \A links : SoundChain(links) /\ links # <<>> => Stands(Found(roots, links, handoff))
  BY DEF Stands, Found
<1>2. ASSUME NEW x, Starts(x) PROVE Stands(Found(roots, <<x>>, handoff))
  BY <1>1, <1>2, SoundLinks
<1>3. ASSUME NEW x, NEW y, Starts(x), Follows(x.capability, y) PROVE Stands(Found(roots, <<x, y>>, handoff))
  <2>1. DOMAIN <<x, y>> = 1..2 /\ <<x, y>>[1] = x /\ <<x, y>>[2] = y
    OBVIOUS
  <2> QED
    BY <1>1, <1>3, <2>1, SoundLinks
<1> QED
  BY <1>2, <1>3

(* How this server sees the peer, linked to a status or standing alone.    *)
LEMMA PeerPathRooted ==
  ASSUME NEW a
  PROVE  /\ Rooted(a, PeerPath(a, FALSE))
         /\ Stands(PeerPath(a, TRUE))
<1> DEFINE ports == {"peer.port", "peer.https", "peer.rootdse"}
           dns == Diagnosis("PEER_NAME_UNRESOLVED", Pair(a), "DNS", "FAIL", "HIGH", "local")
           refused == Diagnosis("PEER_DS_NOT_ACCEPTING", Peer(a), "PEER_DS", "FAIL", "HIGH", "peer")
           dark == Diagnosis("PEER_UNREACHABLE", Pair(a), "NETWORK", "FAIL", "HIGH", "pair")
           silent == IF PortState(a) = "open" THEN Diagnosis("PEER_DS_NOT_ANSWERING", Peer(a), "PEER_DS", "FAIL", "HIGH", "peer")
                     ELSE Diagnosis("PEER_DS_NOT_ANSWERING", Pair(a), "PEER_DS", "FAIL", "MEDIUM", "pair")
           L1(now) == Link(PeerDiscriminator("dns", now), "DNS", Pair(a), {"peer.dns"})
           L2(now) == Link(PeerDiscriminator("tls", now), "TLS", Pair(a), {"peer.rootdse"})
           L3(now) == Link(PeerDiscriminator("refused", now), "PEER_DS", Peer(a), ports)
           L4(now) == Link(PeerDiscriminator("noanswer", now), "PEER_DS", Peer(a), {"peer.rootdse"})
           L5      == Link("peer_unreachable", "NETWORK", Pair(a), {"peer.port", "peer.https"})
           L6(now) == Link(PeerDiscriminator("noanswer", now), "PEER_DS", Peer(a), {"peer.port", "peer.rootdse"})
<1>1. Root(dns) /\ Root(TlsRoot(a)) /\ Root(refused) /\ Root(dark) /\ Root(silent)
  BY PlainRoot, LocalSound DEF AbsenceCodes, SymptomCodes, Capability, Scopes
<1>2. /\ PeerDiscriminator("dns", FALSE) = "peer_name_unresolved"
      /\ PeerDiscriminator("dns", TRUE) = "peer_name_unresolved_now"
      /\ PeerDiscriminator("refused", FALSE) = "peer_ds_refused_host_up"
      /\ PeerDiscriminator("refused", TRUE) = "peer_ds_refused_now"
      /\ PeerDiscriminator("noanswer", FALSE) = "status_transport"
      /\ PeerDiscriminator("noanswer", TRUE) = "peer_no_ldap_answer_now"
      /\ PeerDiscriminator("tls", FALSE) = "status_tls"
      /\ PeerDiscriminator("tls", TRUE) = "peer_tls_fails_now"
  BY DEF PeerDiscriminator
<1>3. /\ Follows("REPLICATION", L1(FALSE)) /\ Follows("REPLICATION", L2(FALSE)) /\ Follows("REPLICATION", L3(FALSE))
      /\ Follows("REPLICATION", L4(FALSE)) /\ Follows("REPLICATION", L6(FALSE))
  BY <1>2, Linked DEF DISCRIMINATORS
<1>4. Starts(L1(TRUE)) /\ Starts(L2(TRUE)) /\ Starts(L3(TRUE)) /\ Starts(L4(TRUE)) /\ Starts(L6(TRUE))
  BY <1>2, Linked DEF DISCRIMINATORS
<1>5. Follows("PEER_DS", L5) /\ \A now : L4(now).capability = "PEER_DS"
  <2>1. Follows("PEER_DS", L5)
    BY Linked DEF DISCRIMINATORS
  <2> QED
    BY <2>1 DEF Link
<1>6. ASSUME NEW now
      PROVE  \/ PeerPath(a, now) = Found({dns}, <<L1(now)>>, FALSE)
             \/ PeerPath(a, now) = Found({TlsRoot(a)}, <<L2(now)>>, TRUE)
             \/ PeerPath(a, now) = Found({refused}, <<L3(now)>>, TRUE)
             \/ PeerPath(a, now) = Found({dark}, <<L4(now), L5>>, TRUE)
             \/ PeerPath(a, now) = Found({silent}, <<L6(now)>>, TRUE)
  BY Zenon DEF PeerPath
<1> HIDE DEF dns, refused, dark, silent, L1, L2, L3, L4, L5, L6
<1>7. Rooted(a, PeerPath(a, FALSE))
  BY <1>1, <1>3, <1>5, <1>6, Reached
<1>8. Stands(PeerPath(a, TRUE))
  BY <1>1, <1>4, <1>5, <1>6, Standing
<1> QED
  BY <1>7, <1>8


LEMMA GssapiRooted ==
  ASSUME Typed, NEW a, NEW class, NEW kinit PROVE Rooted(a, GssapiChain(a, class, kinit))
<1> DEFINE evidence == {"agreements"} \cup When(Answered(OGssapi(a)), "gssapi")
           first == Link("status_gssapi", "KERBEROS", Rel(a), evidence)
           L1 == Link("kerberos_no_kdc_local_down", "LOCAL_KDC", Me, evidence \cup {"local.kdc"})
           L2 == Link("kdc_needs_local_ds", "LOCAL_DS", Me, {"local.ds", "local.kdc"})
           L3 == Link("kerberos_clock_skew", "TIME", Pair(a), evidence \cup {OffsetStep(a)})
           L4 == Link("kerberos_server_principal_absent", "PRINCIPAL", <<"principal", Consumer(a)>>,
                      evidence \cup {"principals"})
           L5 == Link("kerberos_local_credentials", "KEYTAB", Me, evidence \cup {"local.keytab"})
<1>1. /\ (DsDown => Root(DsRoot)) /\ (KdcDown => Root(KdcRoot))
      /\ Root(KeytabRoot) /\ Root(KeyRejected) /\ Root(PairSkew(a))
  BY LocalSound
<1>2. AbsentFromPrincipals(PrincipalFound) => Root(PrincipalMissing(a))
  BY AbsentIsMissing, Fields DEF PrincipalMissing, Root, Sound, SymptomCodes, Capability, Scopes
<1>3. Follows("REPLICATION", first) /\ first.capability = "KERBEROS"
  BY Linked DEF DISCRIMINATORS
<1>4. Follows("KERBEROS", L1) /\ L1.capability = "LOCAL_KDC"
  BY Linked DEF DISCRIMINATORS
<1>5. Follows("LOCAL_KDC", L2)
  BY Linked DEF DISCRIMINATORS
<1>6. Follows("KERBEROS", L3) /\ Follows("KERBEROS", L4) /\ Follows("KERBEROS", L5)
  BY Linked DEF DISCRIMINATORS
<1> DEFINE G == GssapiChain(a, class, kinit)
<1>7. \/ G = Found({}, <<first>>, FALSE)
      \/ KdcDown /\ G = Found({KdcRoot}, Append(<<first>>, L1), FALSE)
      \/ DsDown /\ G = Found({DsRoot}, Append(Found({KdcRoot}, Append(<<first>>, L1), FALSE).links, L2), FALSE)
      \/ G = [Found({PairSkew(a)}, Append(<<first>>, L3), FALSE) EXCEPT !.handoff = TRUE]
      \/ AbsentFromPrincipals(PrincipalFound) /\ G = Found({PrincipalMissing(a)}, Append(<<first>>, L4), FALSE)
      \/ G = Found({KeytabRoot}, Append(<<first>>, L5), FALSE)
      \/ G = Found({KeyRejected}, Append(<<first>>, L5), FALSE)
  BY Zenon DEF GssapiChain, Nothing
<1>8. /\ \A roots, links, handoff : Found(roots, links, handoff).links = links
      /\ \A roots, links : LET s == Found(roots, links, FALSE)
                           IN  Rooted(a, s) => Rooted(a, [s EXCEPT !.handoff = TRUE])
  BY DEF Found, Rooted, LinksOf
<1> HIDE DEF evidence, first, L1, L2, L3, L4, L5, G
<1>9. Rooted(a, Found({}, <<first>>, FALSE))
  BY <1>3, Reached
<1>10. KdcDown => Rooted(a, Found({KdcRoot}, Append(<<first>>, L1), FALSE))
  BY <1>1, <1>3, <1>4, Reached
<1>11. DsDown => Rooted(a, Found({DsRoot}, Append(Found({KdcRoot}, Append(<<first>>, L1), FALSE).links, L2), FALSE))
  <2>1. Found({KdcRoot}, Append(<<first>>, L1), FALSE).links = Append(<<first>>, L1)
    BY <1>8
  <2> QED
    BY <2>1, <1>1, <1>3, <1>4, <1>5, Reached
<1>12. Rooted(a, [Found({PairSkew(a)}, Append(<<first>>, L3), FALSE) EXCEPT !.handoff = TRUE])
  BY <1>1, <1>3, <1>6, <1>8, Reached
<1>13. AbsentFromPrincipals(PrincipalFound) => Rooted(a, Found({PrincipalMissing(a)}, Append(<<first>>, L4), FALSE))
  BY <1>2, <1>3, <1>6, Reached
<1>14. /\ Rooted(a, Found({KeytabRoot}, Append(<<first>>, L5), FALSE))
       /\ Rooted(a, Found({KeyRejected}, Append(<<first>>, L5), FALSE))
  BY <1>1, <1>3, <1>6, Reached
<1>15. Rooted(a, G)
  BY <1>7, <1>9, <1>10, <1>11, <1>12, <1>13, <1>14, Zenon
<1> QED
  BY <1>15 DEF G

LEMMA BranchRooted ==
  ASSUME Typed, NEW a, NEW class PROVE Rooted(a, Branch(a, class))
<1> DEFINE rejected(e) == Link("status_invalid_credentials_gssapi", "KERBEROS", e, {"agreements", "gssapi"})
           access == Link("status_access", "AUTHORIZATION", Rel(a), {"agreements"})
           L1 == Link("kerberos_49_with_measured_skew", "TIME", Pair(a), {"gssapi", OffsetStep(a)})
           L2 == Link("access_not_a_manager", "PRINCIPAL", <<"group", "managers">>, {"principals"})
           L3 == Link("status_data", "REPLICA_DATA", Rel(a), {"agreements"})
           L4 == Link("status_tls", "TLS", Pair(a), {"agreements"})
           rejects == Diagnosis("PEER_REJECTS_GSSAPI", Peer(a), "KERBEROS", "FAIL", "MEDIUM", "peer")
           data == Diagnosis("REPLICA_NEEDS_ADMIN_ACTION", Rel(a), "REPLICA_DATA", "FAIL", "HIGH", "pair")
           B == Branch(a, class)
<1>1. Root(PairSkew(a)) /\ Root(TlsRoot(a))
  BY LocalSound
<1>2. Root(rejects) /\ Root(data)
  BY PlainRoot DEF AbsenceCodes, SymptomCodes, Capability, Scopes
<1>3. AbsentFromPrincipals(ManagerFound) => Root(NotAManager)
  BY AbsentIsMissing, Fields DEF NotAManager, Root, Sound, SymptomCodes, Capability, Scopes
<1>4. Follows("REPLICATION", rejected(Rel(a))) /\ rejected(Rel(a)).capability = "KERBEROS" /\ Follows("KERBEROS", L1)
  BY Linked DEF DISCRIMINATORS
<1>5. Follows("REPLICATION", rejected(Peer(a))) /\ Follows("REPLICATION", L3) /\ Follows("REPLICATION", L4)
  BY Linked DEF DISCRIMINATORS
<1>6. Follows("REPLICATION", access) /\ access.capability = "AUTHORIZATION" /\ Follows("AUTHORIZATION", L2)
  BY Linked DEF DISCRIMINATORS
<1>7. \/ B = Found({}, <<>>, FALSE)
      \/ B = PeerPath(a, FALSE)
      \/ B = GssapiChain(a, class, KinitClass(a))
      \/ B = Found({PairSkew(a)}, <<rejected(Rel(a)), L1>>, TRUE)
      \/ B = Found({rejects}, <<rejected(Peer(a))>>, TRUE)
      \/ AbsentFromPrincipals(ManagerFound) /\ B = Found({NotAManager}, <<access, L2>>, FALSE)
      \/ B = Found({}, <<access>>, TRUE)
      \/ B = Found({data}, <<L3>>, FALSE)
      \/ B = Found({TlsRoot(a)}, <<L4>>, TRUE)
  BY Zenon DEF Branch, Nothing
<1>8. Rooted(a, PeerPath(a, FALSE)) /\ Rooted(a, GssapiChain(a, class, KinitClass(a)))
  BY PeerPathRooted, GssapiRooted
<1> HIDE DEF rejected, access, L1, L2, L3, L4, rejects, data, B
<1>9. Rooted(a, B)
  BY <1>1, <1>2, <1>3, <1>4, <1>5, <1>6, <1>7, <1>8, Reached
<1> QED
  BY <1>9 DEF B

LEMMA SearchRooted ==
  ASSUME Typed, NEW a PROVE Rooted(a, Search(a))
BY BranchRooted DEF Search

LEMMA LocalChainsSound == \A c \in LocalChains : SoundChain(c.links)
<1> DEFINE S1 == Link("local_storage", "STORAGE", Me, {"local.storage"})
           D1 == Link("local_ds_down", "LOCAL_DS", Me, {"local.ds"})
           D2 == Link("storage_under_ds", "STORAGE", Me, {"local.storage", "local.ds"})
           K1 == Link("local_kdc_down", "LOCAL_KDC", Me, {"local.kdc"})
           K2 == Link("kdc_needs_local_ds", "LOCAL_DS", Me, {"local.ds", "local.kdc"})
           T1 == Link("ds_keytab_local", "KEYTAB", Me, {"local.keytab"})
           ds == <<D1>> \o IF StorageBad THEN <<D2>> ELSE <<>>
           kdc == <<K1>> \o IF DsDown THEN <<K2>> ELSE <<>>
<1>1. Starts(S1) /\ Starts(D1) /\ Starts(K1) /\ Starts(T1) /\ D1.capability = "LOCAL_DS" /\ K1.capability = "LOCAL_KDC"
  <2>1. Starts(S1) /\ Starts(D1) /\ Starts(K1) /\ Starts(T1)
    BY Linked DEF DISCRIMINATORS
  <2> QED
    BY <2>1 DEF Link
<1>2. Follows("LOCAL_DS", D2) /\ Follows("LOCAL_KDC", K2)
  BY Linked DEF DISCRIMINATORS
<1>3. ASSUME NEW c \in LocalChains PROVE c.links \in {<<S1>>, ds, kdc, <<T1>>}
  <2>1. \/ c = Chain({StorageRoot}, <<S1>>) \/ c = Chain({DsRoot}, ds)
        \/ c = Chain({KdcRoot}, kdc) \/ c = Chain({KeytabRoot}, <<T1>>)
    BY <1>3, Zenon DEF LocalChains, When
  <2>2. \A owners, links : Chain(owners, links).links = links
    BY DEF Chain
  <2> HIDE DEF ds, kdc, S1, T1
  <2> QED
    BY <2>1, <2>2
<1> HIDE DEF S1, D1, D2, K1, K2, T1
<1>4. SoundChain(<<S1>>) /\ SoundChain(<<T1>>)
  BY <1>1, SoundLinks
<1>5. SoundChain(ds)
  <2>1. ds[1] = D1 /\ IF StorageBad THEN DOMAIN ds = 1..2 /\ ds[2] = D2 ELSE DOMAIN ds = 1..1
    OBVIOUS
  <2> QED
    BY <1>1, <1>2, <2>1, SoundLinks
<1>6. SoundChain(kdc)
  <2>1. kdc[1] = K1 /\ IF DsDown THEN DOMAIN kdc = 1..2 /\ kdc[2] = K2 ELSE DOMAIN kdc = 1..1
    OBVIOUS
  <2> QED
    BY <1>1, <1>2, <2>1, SoundLinks
<1> QED
  BY <1>3, <1>4, <1>5, <1>6

LEMMA StatusChain == \A a : SoundChain(<<StatusLink(a)>>)
<1>1. \A a : Starts(StatusLink(a))
  BY Linked DEF StatusLink, DISCRIMINATORS
<1> QED
  BY <1>1, SoundLinks

LEMMA AgreementChainsSound ==
  ASSUME Typed, NEW a PROVE \A c \in AgreementChains(a, Search(a)) \cup DroppedChains(a) : SoundChain(c.links)
<1> DEFINE T1 == Link("pair_clock_skew", "TIME", Pair(a), {OffsetStep(a)})
<1>1. \A owners, links : Chain(owners, links).links = links
  BY DEF Chain
<1>2. Starts(T1)
  BY Linked DEF DISCRIMINATORS
<1> HIDE DEF T1
<1>3. SoundChain(<<T1>>)
  BY <1>2, SoundLinks
<1>4. ASSUME NEW c \in AgreementChains(a, Search(a)) \cup DroppedChains(a)
      PROVE  \/ \E owners : c = Chain(owners, LinksOf(a, Search(a)))
             \/ \E owners : c = Chain(owners, PeerPath(a, TRUE).links)
             \/ \E owners : c = Chain(owners, <<T1>>)
             \/ \E owners : c = Chain(owners, <<StatusLink(a)>>)
  BY <1>4, Zenon DEF AgreementChains, DroppedChains, When, T1
<1>5. SoundChain(LinksOf(a, Search(a))) /\ SoundChain(PeerPath(a, TRUE).links)
  BY SearchRooted, PeerPathRooted DEF Rooted, Stands
<1> SUFFICES ASSUME NEW c \in AgreementChains(a, Search(a)) \cup DroppedChains(a) PROVE SoundChain(c.links)
  OBVIOUS
<1>6. \/ c.links = LinksOf(a, Search(a)) \/ c.links = PeerPath(a, TRUE).links
      \/ c.links = <<T1>> \/ c.links = <<StatusLink(a)>>
  <2>1. ASSUME NEW links, \E owners : c = Chain(owners, links) PROVE c.links = links
    BY <1>1, <2>1
  <2>2. CASE \E owners : c = Chain(owners, LinksOf(a, Search(a)))
    BY <2>1, <2>2, Zenon
  <2>3. CASE \E owners : c = Chain(owners, PeerPath(a, TRUE).links)
    BY <2>1, <2>3, Zenon
  <2>4. CASE \E owners : c = Chain(owners, <<T1>>)
    BY <2>1, <2>4, Zenon
  <2>5. CASE \E owners : c = Chain(owners, <<StatusLink(a)>>)
    BY <2>1, <2>5, Zenon
  <2> QED
    BY <1>4, <2>2, <2>3, <2>4, <2>5, Zenon
<1> QED
  BY <1>3, <1>5, <1>6, StatusChain, Zenon

LEMMA ReverseChainsSound ==
  ASSUME NEW a PROVE \A c \in ReverseChains(a) : SoundChain(c.links)
<1> DEFINE R1 == Link("agreement_status", "REPLICATION", Reversed(a), {"reverse"})
           R2 == Link("reverse_acceptor_kerberos", "KERBEROS", Reversed(a), {"reverse"})
           R3 == Link("acceptor_keytab_unusable", "KEYTAB", Me, {"reverse", "local.keytab"})
<1>1. \A owners, links : Chain(owners, links).links = links
  BY DEF Chain
<1>2. Starts(R1) /\ R1.capability = "REPLICATION"
  <2>1. Starts(R1)
    BY Linked DEF DISCRIMINATORS
  <2> QED
    BY <2>1 DEF Link
<1>3. Follows("REPLICATION", R2) /\ R2.capability = "KERBEROS" /\ Follows("KERBEROS", R3)
  BY Linked DEF DISCRIMINATORS
<1>4. ASSUME NEW c \in ReverseChains(a)
      PROVE  c = Chain({ReverseSymptom(a), KeytabRoot}, <<R1, R2, R3>>) \/ c = Chain({ReverseSymptom(a)}, <<R1>>)
  <2>1. CASE ReverseClass(a) = "none" \/ ReverseWaits(a)
    BY <1>4, <2>1, Zenon DEF ReverseChains
  <2>2. CASE ~(ReverseClass(a) = "none" \/ ReverseWaits(a)) /\ ReverseKeytab(a)
    BY <1>4, <2>2 DEF ReverseChains
  <2>3. CASE ~(ReverseClass(a) = "none" \/ ReverseWaits(a)) /\ ~ReverseKeytab(a)
    BY <1>4, <2>3 DEF ReverseChains
  <2> QED
    BY <2>1, <2>2, <2>3
<1> HIDE DEF R1, R2, R3
<1>5. SoundChain(<<R1>>)
  BY <1>2, SoundLinks
<1>6. SoundChain(<<R1, R2, R3>>)
  <2> DEFINE s == <<R1, R2, R3>>
  <2>1. DOMAIN s = 1..3 /\ s[1] = R1 /\ s[2] = R2 /\ s[3] = R3
    OBVIOUS
  <2> QED
    BY <1>2, <1>3, <2>1, SoundLinks
<1> QED
  BY <1>1, <1>4, <1>5, <1>6

LEMMA ChainOrigin ==
  \A c \in Chains :
    \/ c \in LocalChains
    \/ \E a : c \in AgreementChains(a, Search(a)) \cup DroppedChains(a) \/ c \in ReverseChains(a)
<1> DEFINE U == {AgreementChains(a, Search(a)) \cup ReverseChains(a) : a \in Investigated}
           V == {DroppedChains(a) : a \in Dropped}
<1>1. Chains \subseteq LocalChains \cup UNION (U \cup V)
  BY DEF Chains
<1>2. ASSUME NEW S \in U, NEW c \in S PROVE \E a : c \in AgreementChains(a, Search(a)) \/ c \in ReverseChains(a)
  <2>1. PICK a \in Investigated : S = AgreementChains(a, Search(a)) \cup ReverseChains(a)
    OBVIOUS
  <2> QED
    BY <2>1
<1>3. ASSUME NEW S \in V, NEW c \in S PROVE \E a : c \in DroppedChains(a)
  OBVIOUS
<1> HIDE DEF U, V
<1>4. ASSUME NEW c \in Chains PROVE c \in LocalChains \/ (\E S \in U : c \in S) \/ (\E S \in V : c \in S)
  BY <1>1
<1> QED
  BY <1>2, <1>3, <1>4, Zenon

(* check_chain never refuses a chain, whatever the checks answered:        *)
(* diagnose.py joins no link to a capability that it may not follow.       *)
THEOREM ChainsCorrect == Spec => []ChainsSound
<1>1. ASSUME Typed, Stated PROVE ChainsSound
  <2> SUFFICES ASSUME NEW c \in Chains PROVE SoundChain(c.links)
    BY <1>1 DEF Stated, ChainsSound, Concluded
  <2> QED
    BY <1>1, ChainOrigin, LocalChainsSound, AgreementChainsSound, ReverseChainsSound
<1>2. Typed /\ Stated => ChainsSound
  BY <1>1
<1> QED
  BY <1>2, StatedHolds, PTL

----------------------------------------------------------------------------
(* Every diagnosis is a root, a warning that explains nothing, or a        *)
(* symptom; a symptom that is explained names roots of the same report.    *)

Warning(d) == Sound(d) /\ d.severity = "WARN" /\ d.related = {}

Symptomatic(d) ==
  /\ Sound(d) /\ d.code \in SymptomCodes
  /\ d.related \subseteq {Key(x) : x \in {r \in Gathered : Root(r)}}
  /\ d.related # {} => \E r \in Gathered : Root(r)

LEMMA Warnings ==
  ASSUME NEW code, code \notin AbsenceCodes, NEW subject, NEW confidence, NEW scope \in Scopes
  PROVE  /\ Warning(Notice(code, subject, confidence, scope))
         /\ Warning(Passing(code, subject, confidence, scope))
         /\ \A capability \in Capability : Warning(Diagnosis(code, subject, capability, "WARN", confidence, scope))
<1>1. ASSUME NEW capability \in Capability
      PROVE  Warning(Diagnosis(code, subject, capability, "WARN", confidence, scope))
  BY Fields, PlainSound DEF Warning
<1>2. Warning(Notice(code, subject, confidence, scope))
  BY <1>1 DEF Notice, Capability
<1>3. ASSUME NEW d, Warning(d), d = Notice(code, subject, confidence, scope) PROVE Warning([d EXCEPT !.kind = "TRANSIENT"])
  BY <1>3 DEF Warning, Sound, Notice, Diagnosis
<1>4. Warning(Passing(code, subject, confidence, scope))
  BY <1>2, <1>3 DEF Passing
<1> QED
  BY <1>1, <1>2, <1>4

LEMMA AgreementMembers ==
  ASSUME NEW a, NEW s, NEW d \in AgreementDiagnoses(a, s)
  PROVE  \/ d = Notice("AGREEMENT_DISABLED", Rel(a), "HIGH", "local")
         \/ Reported(a) /\ d = Symptom(a, s)
         \/ Reported(a) /\ d \in s.roots
         \/ d = KeyRejected
         \/ d \in PeerPath(a, TRUE).roots
         \/ d = PairSkew(a)
         \/ d = Diagnosis("PAIR_CLOCK_DRIFT", Pair(a), "TIME", "WARN", "HIGH", "pair")
         \/ d = Passing("LONG_RUNNING_SESSION", Rel(a), "MEDIUM", "pair")
         \/ d = Passing("REPLICATION_TRANSIENT", Rel(a), "HIGH", "pair")
         \/ d = Passing("REPLICATION_NOT_REPRODUCED", Rel(a), "MEDIUM", "pair")
BY Zenon DEF AgreementDiagnoses, When

LEMMA LocalShape == \A d \in LocalDiagnoses : Root(d) \/ Warning(d)
<1>1. /\ Warning(Diagnosis("DS_KEYTAB_EXPOSED", Me, "KEYTAB", "WARN", "HIGH", "local"))
      /\ Warning(Diagnosis("DS_STORAGE_LOW", Me, "STORAGE", "WARN", "HIGH", "local"))
  BY Warnings DEF AbsenceCodes, Capability, Scopes
<1> QED
  BY <1>1, LocalSound, Zenon DEF LocalDiagnoses, When

LEMMA SymptomShape ==
  ASSUME Typed, NEW a \in Investigated, Reported(a)
  PROVE  Symptomatic(Symptom(a, Search(a)))
<1> DEFINE d == Symptom(a, Search(a))
<1>1. /\ d.code = "REPLICATION_FAILING" /\ d.scope = "pair" /\ d.capability = "REPLICATION"
      /\ d.related = {Key(r) : r \in Search(a).roots}
  BY DEF Symptom, Diagnosis
<1>2. Search(a).roots \subseteq AgreementDiagnoses(a, Search(a))
  <2>1. ASSUME NEW r \in Search(a).roots PROVE r \in AgreementDiagnoses(a, Search(a))
    <3>1. Enabled(a)
      BY DEF Reported, Broken
    <3> QED
      BY <2>1, <3>1, Zenon DEF AgreementDiagnoses
  <2> QED
    BY <2>1
<1>3. \A r \in Search(a).roots : r \in Gathered /\ Root(r)
  BY <1>2, Origin, SearchRooted DEF Rooted
<1>4. Sound(d)
  BY <1>1 DEF Sound, Scopes, Capability
<1> HIDE DEF d
<1>5. Symptomatic(d)
  BY <1>1, <1>3, <1>4 DEF Symptomatic, SymptomCodes
<1> QED
  BY <1>5 DEF d

LEMMA AgreementShape ==
  ASSUME Typed, NEW a \in Investigated, NEW d \in AgreementDiagnoses(a, Search(a))
  PROVE  Root(d) \/ Warning(d) \/ Symptomatic(d)
<1>1. /\ Warning(Notice("AGREEMENT_DISABLED", Rel(a), "HIGH", "local"))
      /\ Warning(Passing("LONG_RUNNING_SESSION", Rel(a), "MEDIUM", "pair"))
      /\ Warning(Passing("REPLICATION_TRANSIENT", Rel(a), "HIGH", "pair"))
      /\ Warning(Passing("REPLICATION_NOT_REPRODUCED", Rel(a), "MEDIUM", "pair"))
      /\ Warning(Diagnosis("PAIR_CLOCK_DRIFT", Pair(a), "TIME", "WARN", "HIGH", "pair"))
  BY Warnings DEF AbsenceCodes, Capability, Scopes
<1>2. \A r \in Search(a).roots \cup PeerPath(a, TRUE).roots : Root(r)
  BY SearchRooted, PeerPathRooted DEF Rooted, Stands
<1>3. Root(KeyRejected) /\ Root(PairSkew(a))
  BY LocalSound
<1>4. Reported(a) => Symptomatic(Symptom(a, Search(a)))
  BY SymptomShape
<1> QED
  BY <1>1, <1>2, <1>3, <1>4, AgreementMembers, Zenon

LEMMA ReverseShape ==
  ASSUME NEW a, NEW d \in ReverseDiagnoses(a)
  PROVE  Warning(d) \/ Symptomatic(d)
<1>1. \A confidence : Warning(Passing("REPLICATION_TRANSIENT", Reversed(a), confidence, "peer"))
  BY Warnings DEF AbsenceCodes, Scopes
<1>2. \/ \E confidence : d = Passing("REPLICATION_TRANSIENT", Reversed(a), confidence, "peer")
      \/ d = ReverseSymptom(a)
  BY DEF ReverseDiagnoses
<1>3. Symptomatic(ReverseSymptom(a))
  <2> DEFINE r == ReverseSymptom(a)
  <2>1. /\ r.code = "REVERSE_REPLICATION_FAILING" /\ r.scope = "peer" /\ r.capability = "REPLICATION"
        /\ r.related = When(ReverseKeytab(a), Key(KeytabRoot))
    BY DEF ReverseSymptom, Diagnosis
  <2>2. ReverseKeytab(a) => KeytabRoot \in Gathered
    BY Origin DEF ReverseKeytab, LocalDiagnoses, When
  <2>3. Root(KeytabRoot)
    BY LocalSound
  <2>4. Sound(r)
    BY <2>1 DEF Sound, Scopes, Capability
  <2> HIDE DEF r
  <2>5. Symptomatic(r)
    BY <2>1, <2>2, <2>3, <2>4 DEF Symptomatic, SymptomCodes, When
  <2> QED
    BY <2>5 DEF r
<1> QED
  BY <1>1, <1>2, <1>3

LEMMA DroppedShape ==
  ASSUME NEW a, NEW d \in DroppedDiagnoses(a)
  PROVE  Symptomatic(d)
<1>1. d.code = "REPLICATION_FAILING" /\ d.scope = "pair" /\ d.capability = "REPLICATION" /\ d.related = {}
  BY DEF DroppedDiagnoses, When, Diagnosis
<1> QED
  BY <1>1 DEF Symptomatic, Sound, SymptomCodes, Scopes, Capability

LEMMA ContextShape ==
  ASSUME Typed, NEW d \in ContextDiagnoses
  PROVE  Warning(d)
<1>1. Local("segments") \in {"match", "extra", "missing"} /\ Local("ruv") \in {"servers", "stale"}
  BY LocalTyped, Listing DEF LocalAnswers
<1>2. OTopology = "PASS" => SegmentsFound = Local("segments")
  BY Whole DEF SegmentsFound
<1>3. /\ d.severity = "WARN" /\ d.related = {} /\ d.scope = "local" /\ d.capability \in {"TOPOLOGY", "REPLICA_DATA"}
      /\ \/ d.code = "SEGMENT_WITHOUT_AGREEMENT" /\ OTopology = "PASS" /\ SegmentsFound = "extra"
         \/ d.code = "AGREEMENT_WITHOUT_SEGMENT" /\ OTopology = "PASS" /\ SegmentsFound = "missing"
         \/ d.code = "RUV_ELEMENT_WITHOUT_SERVER" /\ Local("ruv") = "stale"
  BY DEF ContextDiagnoses, When, Diagnosis
<1> QED
  BY <1>1, <1>2, <1>3 DEF Warning, Sound, Scopes, Capability

LEMMA Shape ==
  ASSUME Typed, NEW d \in Diagnoses
  PROVE  Root(d) \/ Warning(d) \/ Symptomatic(d)
<1>1. \A e \in TimeService(Gathered) : Warning(e)
  <2>1. Warning(Diagnosis("LOCAL_NTP_NOT_SYNCHRONIZED", Me, "TIME", "WARN", "HIGH", "local"))
    BY Warnings DEF AbsenceCodes, Scopes, Capability
  <2> QED
    BY <2>1 DEF TimeService, When
<1>2. d \in Gathered \/ d \in TimeService(Gathered)
  BY Origin
<1>3. CASE d \in Gathered
  BY <1>3, Origin, LocalShape, AgreementShape, ReverseShape, DroppedShape, ContextShape, Zenon
<1> QED
  BY <1>1, <1>2, <1>3

(* An entry, a segment or a server of the RUV is called missing only when  *)
(* it is (_gssapi_chain, _agreement, _topology_checks, _ruv_context).      *)
THEOREM AbsenceCorrect == Spec => []AbsenceIsReal
<1>1. ASSUME Typed, Stated PROVE AbsenceIsReal
  <2>1. \A d \in Diagnoses : Sound(d)
    BY <1>1, Shape DEF Root, Warning, Symptomatic
  <2> QED
    BY <1>1, <2>1 DEF AbsenceIsReal, Concluded, Stated, Sound
<1>2. Typed /\ Stated => AbsenceIsReal
  BY <1>1
<1> QED
  BY <1>2, StatedHolds, PTL

----------------------------------------------------------------------------
(* Ranks.                                                                  *)

(* Among naturals there is a least one.                                    *)
LEMMA LeastNatural ==
  ASSUME NEW S \in SUBSET Nat, S # {} PROVE \E x \in S : \A y \in S : x <= y
<1>1. IsWellFoundedOn(OpToRel(<, Nat), Nat)
  BY NatLessThanWellFounded
<1>2. PICK x \in S : \A y \in S : ~(<<y, x>> \in OpToRel(<, Nat))
  BY <1>1, WFMin
<1>3. OpToRel(<, Nat) = {ss \in Nat \X Nat : ss[1] < ss[2]}
  BY DEF OpToRel
<1>4. \A y \in S : ~(y < x)
  BY <1>2, <1>3
<1> QED
  BY <1>4

LEMMA Layers == \A c \in Capability : LAYER[c] \in 1..15
<1> DEFINE order == <<"STORAGE", "LOCAL_DS", "LOCAL_KDC", "KEYTAB", "TIME", "PRINCIPAL", "DNS", "NETWORK", "PEER_DS",
                      "TLS", "KERBEROS", "AUTHORIZATION", "REPLICA_DATA", "REPLICATION", "TOPOLOGY">>
<1> SUFFICES ASSUME NEW c \in Capability PROVE LAYER[c] \in 1..15
  OBVIOUS
<1>1. DOMAIN order = 1..15
  OBVIOUS
<1>2. \E i \in DOMAIN order : order[i] = c
  <2>1. /\ order[1] = "STORAGE" /\ order[2] = "LOCAL_DS" /\ order[3] = "LOCAL_KDC" /\ order[4] = "KEYTAB"
        /\ order[5] = "TIME" /\ order[6] = "PRINCIPAL" /\ order[7] = "DNS" /\ order[8] = "NETWORK"
        /\ order[9] = "PEER_DS" /\ order[10] = "TLS" /\ order[11] = "KERBEROS" /\ order[12] = "AUTHORIZATION"
        /\ order[13] = "REPLICA_DATA" /\ order[14] = "REPLICATION" /\ order[15] = "TOPOLOGY"
    OBVIOUS
  <2> HIDE DEF order
  <2> QED
    BY <1>1, <2>1 DEF Capability
<1>3. LAYER[c] = CHOOSE i \in DOMAIN order : order[i] = c
  BY DEF LAYER
<1> HIDE DEF order
<1> QED
  BY <1>1, <1>2, <1>3

LEMMA Ranks ==
  ASSUME NEW d, Sound(d)
  PROVE  Rank(d) \in Nat /\ (d.code \in SymptomCodes <=> Rank(d) >= 100)
<1>1. LAYER[d.capability] \in 1..15
  BY Layers DEF Sound
<1>2. ScopeRank[d.scope] \in 0..3
  BY DEF Sound, Scopes, ScopeRank
<1> QED
  BY <1>1, <1>2 DEF Rank

(* A root leads, or what it is related to leads.                           *)
LEMMA RootLeads ==
  ASSUME OServer = "PASS", NEW r, Root(r), r \in Diagnoses
  PROVE  /\ \E x \in Diagnoses : Leads(x)
         /\ r.related \subseteq {Key(x) : x \in Diagnoses} \ {Key(r)}
<1>1. LocalDiagnoses \subseteq Diagnoses
  BY Origin
<1>2. (DsDown => DsRoot \in Diagnoses) /\ (StorageBad => StorageRoot \in Diagnoses)
  BY <1>1 DEF LocalDiagnoses, When
<1>3. /\ DsRoot.code = "LOCAL_DS_NOT_RUNNING" /\ KdcRoot.code = "LOCAL_KDC_NOT_RUNNING"
      /\ StorageRoot.code = "DS_STORAGE_PROBLEM"
      /\ DsRoot.related = When(StorageBad, Key(StorageRoot)) /\ KdcRoot.related = When(DsDown, Key(DsRoot))
      /\ StorageRoot.related = {}
  BY DEF DsRoot, KdcRoot, StorageRoot, Diagnosis
<1>4. \A x : Root(x) /\ x.related = {} => Leads(x)
  BY DEF Root, Leads
<1>5. \E x \in Diagnoses : Leads(x)
  <2>1. StorageBad => Leads(StorageRoot)
    BY <1>3, <1>4, LocalSound
  <2>2. DsDown /\ ~StorageBad => Leads(DsRoot)
    BY <1>3, <1>4, LocalSound DEF When
  <2>3. KdcDown /\ ~DsDown => Leads(KdcRoot)
    BY <1>3, <1>4, LocalSound DEF When
  <2> QED
    BY <1>2, <1>4, <2>1, <2>2, <2>3 DEF Root
<1>6. r.related \subseteq {Key(x) : x \in Diagnoses} \ {Key(r)}
  <2>1. CASE r.related = {}
    BY <2>1
  <2>2. CASE r = KdcRoot
    BY <1>2, <1>3, <2>2 DEF When, Key
  <2>3. CASE r = DsRoot
    BY <1>2, <1>3, <2>3 DEF When, Key
  <2> QED
    BY <2>1, <2>2, <2>3 DEF Root
<1> QED
  BY <1>5, <1>6

(* _roles: what explains a diagnosis is in the report, something leads it, *)
(* and no symptom leads while any cause was found.                         *)
THEOREM CausesCorrect == Spec => []CausesReported
<1>1. ASSUME Typed, Stated PROVE CausesReported
  <2> SUFFICES ASSUME OServer = "PASS"
               PROVE  /\ \A d \in Diagnoses : d.related \subseteq {Key(x) : x \in Diagnoses} \ {Key(d)}
                      /\ (\E d \in Diagnoses : d.severity = "FAIL" /\ d.kind = "none") => Primary(Diagnoses) # {}
                      /\ \A d \in Primary(Diagnoses) :
                           d.code \in SymptomCodes => \A x \in Diagnoses : Leads(x) => x.code \in SymptomCodes
    <3>1. OServer # "PASS" => Diagnoses = {} /\ Primary(Diagnoses) = {}
      BY DEF Diagnoses, Primary
    <3> QED
      BY <1>1, <3>1 DEF CausesReported, Concluded, Stated
  <2>1. Gathered \subseteq Diagnoses
    BY Origin
  <2>2. ASSUME NEW d \in Diagnoses PROVE d.related \subseteq {Key(x) : x \in Diagnoses} \ {Key(d)}
    <3>1. CASE Root(d)
      BY <3>1, RootLeads
    <3>2. CASE Warning(d)
      BY <3>2 DEF Warning
    <3>3. CASE Symptomatic(d)
      <4>1. \A r : Root(r) => Key(r) # Key(d)
        BY <3>3 DEF Root, Symptomatic, Key
      <4> QED
        BY <2>1, <3>3, <4>1 DEF Symptomatic
    <3> QED
      BY <1>1, <3>1, <3>2, <3>3, Shape
  <2>3. ASSUME NEW d \in Diagnoses, d.severity = "FAIL", d.kind = "none" PROVE \E x \in Diagnoses : Leads(x)
    <3>1. CASE Root(d)
      BY <3>1, RootLeads
    <3>2. CASE Symptomatic(d) /\ d.related = {}
      BY <2>3, <3>2 DEF Leads
    <3>3. CASE Symptomatic(d) /\ d.related # {}
      BY <2>1, <3>3, RootLeads DEF Symptomatic
    <3> QED
      BY <1>1, <2>3, <3>1, <3>2, <3>3, Shape DEF Warning
  <2> DEFINE leading == {d \in Diagnoses : Leads(d)}
             ranks == {Rank(e) : e \in leading}
  <2>4. \A d \in Diagnoses : Rank(d) \in Nat /\ (d.code \in SymptomCodes <=> Rank(d) >= 100)
    BY <1>1, Shape, Ranks DEF Root, Warning, Symptomatic
  <2>5. ASSUME leading # {} PROVE \E d \in leading : \A e \in leading : Rank(d) <= Rank(e)
    <3>1. ranks \in SUBSET Nat /\ ranks # {}
      BY <2>4, <2>5
    <3>2. PICK n \in ranks : \A m \in ranks : n <= m
      BY <3>1, LeastNatural
    <3> QED
      BY <3>2
  <2>6. Primary(Diagnoses) = IF leading = {} THEN {}
                             ELSE {CHOOSE d \in leading : \A e \in leading : Rank(d) <= Rank(e)}
    BY DEF Primary
  <2>7. ASSUME NEW d \in Primary(Diagnoses) PROVE d \in leading /\ \A e \in leading : Rank(d) <= Rank(e)
    BY <2>5, <2>6
  <2>8. ASSUME NEW d \in Primary(Diagnoses), d.code \in SymptomCodes, NEW x \in Diagnoses, Leads(x)
        PROVE  x.code \in SymptomCodes
    <3>1. d \in Diagnoses /\ Rank(d) <= Rank(x)
      BY <2>7, <2>8
    <3> QED
      BY <2>4, <2>8, <3>1
  <2> QED
    BY <2>2, <2>3, <2>6, <2>8
<1>2. Typed /\ Stated => CausesReported
  BY <1>1
<1> QED
  BY <1>2, StatedHolds, PTL

----------------------------------------------------------------------------
(* HEALTHY.                                                                *)

(* A phrase is found only in a text that says it.                          *)
LEMMA Phrases ==
  ASSUME NEW says
  PROVE  /\ ClassifyText(says) \notin {"OK", "none"}
         /\ ClassifyText(says) # "UNCLASSIFIED" => ClassifyText(says) \in says
         /\ (\E i \in DOMAIN PHRASES : PHRASES[i] \in says) => ClassifyText(says) # "UNCLASSIFIED"
<1> DEFINE found == {i \in DOMAIN PHRASES : PHRASES[i] \in says}
           Earliest(i) == PHRASES[i] \in says /\ \A j \in 1..i - 1 : PHRASES[j] \notin says
<1>1. DOMAIN PHRASES = 1..15
  BY DEF PHRASES
<1>2. \A i \in DOMAIN PHRASES : PHRASES[i] \notin {"OK", "none", "UNCLASSIFIED"}
  BY DEF PHRASES
<1>3. CASE found = {}
  BY <1>3 DEF ClassifyText
<1>4. CASE found # {}
  <2>1. \E i \in DOMAIN PHRASES : Earliest(i)
    <3>1. PICK i \in found : \A j \in found : i <= j
      BY <1>1, <1>4, LeastNatural
    <3>2. Earliest(i)
      BY <1>1, <3>1
    <3> QED
      BY <3>1, <3>2
  <2>2. ClassifyText(says) = PHRASES[CHOOSE i \in DOMAIN PHRASES : Earliest(i)]
    BY <1>4 DEF ClassifyText
  <2>3. \E i \in DOMAIN PHRASES : ClassifyText(says) = PHRASES[i] /\ PHRASES[i] \in says
    BY <2>1, <2>2
  <2> QED
    BY <1>2, <2>3
<1> QED
  BY <1>3, <1>4

LEMMA Classes ==
  ASSUME NEW s
  PROVE  /\ StatusClass(s) # "none"
         /\ StatusClass(s) = "OK" => s.code \in {0, None}
BY Phrases DEF StatusClass, LdapRc

(* What the peer says of its own agreement succeeded, if it says OK.       *)
LEMMA ReverseSucceeded ==
  ASSUME Typed, NEW a \in Agreement, OReverse(a) \notin {"SKIPPED", "UNKNOWN"}, ReverseDiagnoses(a) = {}
  PROVE  At("reverse", a) = "succeeded" /\ Passish(ORootdse(a))
<1>1. At("reverse", a) \in {"succeeded", "no_ticket", "invisible", "busy", "unreachable", "refused", "local_error", "tls"}
  <2>1. /\ RangeOf(AgreementAnswers["reverse"]) =
             {"succeeded", "no_ticket", "invisible", "busy", "unreachable", "refused", "local_error", "tls"}
        /\ RangeOf(QuietAnswers["reverse"]) = {"succeeded", "refused"}
    BY DEF RangeOf, AgreementAnswers, QuietAnswers
  <2>2. "reverse" \in DOMAIN AgreementAnswers
    BY DEF AgreementAnswers
  <2> QED
    BY <2>1, <2>2, AgreementTyped
<1>2. Passish(ORootdse(a)) /\ ReverseCheck(a).status = "OK" /\ ReverseCheck(a).fields.visible
        /\ OReverse(a) \in {"PASS", "FAIL"}
  BY DEF OReverse, Classified
<1>3. /\ At("reverse", a) \notin {"no_ticket", "invisible"}
      /\ ReverseCheck(a).fields.class = StatusClass(Statuses[At("reverse", a)])
  BY <1>2 DEF ReverseCheck, NotRun, OK
<1>4. OReverse(a) = "PASS"
  <2>1. ReverseClass(a) = "none"
    BY DEF ReverseDiagnoses
  <2> QED
    BY <1>2, <1>3, <2>1, Classes DEF ReverseClass
<1>5. StatusClass(Statuses[At("reverse", a)]) = "OK"
  BY <1>2, <1>3, <1>4 DEF OReverse, Classified
<1>6. \A answer \in {"busy", "unreachable", "refused", "local_error", "tls"} : Statuses[answer].code \notin {0, None}
  <2>1. \A code, where, says : StatusText(code, where, says).code = code
    BY DEF StatusText
  <2>2. Statuses["busy"].code = 1 /\ Statuses["unreachable"].code = -1 /\ Statuses["refused"].code = 49
    BY <2>1 DEF Statuses
  <2>3. Statuses["local_error"].code = -2 /\ Statuses["tls"].code = -1
    BY <2>1 DEF Statuses
  <2> QED
    BY <2>2, <2>3 DEF None
<1> QED
  BY <1>1, <1>2, <1>3, <1>5, <1>6, Classes

LEMMA PeerAnswered ==
  ASSUME Typed, NEW a \in Agreement, Passish(ORootdse(a))
  PROVE  /\ At("peer", a) \in {"answers", "back", "reads_refused"}
         /\ At("peer", a) \in {"answers", "back"} => RootdseClock(a) = At("clock", a)
<1>1. At("peer", a) \in {"answers", "reads_refused", "no_name", "name_unasked", "refused", "back", "dark", "filtered",
                         "silent", "tls"}
  <2>1. RangeOf(PeerAnswers["peer"]) = {"answers", "reads_refused", "no_name", "name_unasked", "refused", "back", "dark",
                                        "filtered", "silent", "tls"}
    BY DEF RangeOf, PeerAnswers
  <2>2. "peer" \in DOMAIN PeerAnswers
    BY DEF PeerAnswers
  <2> QED
    BY <2>1, <2>2, PeerTyped
<1>2. ODns(a) = "PASS" /\ (RootdseCheck(a).fields.ok \/ RootdseCheck(a).fields.answered)
  BY DEF ORootdse, Passish, Classified
<1>3. At("peer", a) \notin {"no_name", "name_unasked"}
  BY <1>2 DEF ODns
<1>4. BindClassOf(-1, {"TRANSPORT"}) = "TRANSPORT" /\ BindClassOf(-11, {"TLS"}) = "TLS"
  <2>1. PHRASES[15] = "TRANSPORT" /\ PHRASES[14] = "TLS" /\ {14, 15} \subseteq DOMAIN PHRASES
    BY DEF PHRASES
  <2> QED
    BY <2>1, Phrases DEF BindClassOf
<1>5. At("peer", a) \notin {"refused", "dark", "filtered", "silent", "tls"}
  BY <1>2, <1>4 DEF RootdseCheck, OK
<1>6. At("peer", a) \in {"answers", "back"} => RootdseClock(a) = At("clock", a)
  BY <1>2 DEF RootdseClock, RootdseCheck, OK
<1> QED
  BY <1>1, <1>3, <1>5, <1>6

LEMMA LocalHealthy ==
  ASSUME Typed, OServer = "PASS", Complete, LocalDiagnoses = {}
  PROVE  /\ Local("server") = "server" /\ Local("user") = "root" /\ Local("storage") = "ok" /\ Local("keytab") = "ok"
         /\ Local("ds") \in {"active", "activating"} /\ Local("kdc") \in {"active", "activating"}
         /\ OAgreements = "PASS"
<1>1. ~StorageBad /\ ~DsDown /\ ~KdcDown /\ ~KeytabBad /\ OKeytab # "WARN" /\ OStorage # "WARN"
  BY DEF LocalDiagnoses, When
<1>2. /\ Answered(UnitOutcome("ds")) /\ Answered(UnitOutcome("kdc")) /\ Answered(OStorage) /\ Answered(OKeytab)
      /\ ~ReadGap(OAgreements)
  BY DEF Complete
<1>3. Local("server") = "server"
  <2>1. UnitCheck("ds", Local("ds")).status = "OK"
    BY <1>2 DEF UnitOutcome, Classified, Answered
  <2>2. Local("server") # "two_instances"
    BY <2>1 DEF UnitCheck, FAILED
  <2> QED
    BY <2>2 DEF OServer, IsServer
<1>4. Local("user") = "root" /\ Local("keytab") = "ok"
  BY <1>1, <1>2 DEF OKeytab, Answered, KeytabBad, Classified, KeytabCheck, NotRun, OK
<1>5. Local("storage") = "ok"
  BY <1>1, <1>2 DEF OStorage, Answered, StorageBad, Classified, StorageCheck, FAILED, OK
<1>6. ASSUME NEW u \in {"ds", "kdc"}, UnitOutcome(u) # "FAIL", Answered(UnitOutcome(u))
      PROVE  Local(u) \in {"active", "activating"} /\ Passish(UnitOutcome(u))
  <2> DEFINE check == UnitCheck(u, Local(u))
  <2>1. check.status = "OK" /\ check.fields.load = "loaded" /\ check.fields.active \in {"active", "activating"}
          /\ Passish(UnitOutcome(u))
    BY <1>6 DEF UnitOutcome, Classified, Answered, Passish
  <2>2. check = OK(UnitFields(Local(u)))
    BY <2>1 DEF UnitCheck, FAILED, NotRun
  <2>3. UnitFields(Local(u)).active \in {"active", "activating"}
    BY <2>1, <2>2 DEF OK
  <2> QED
    BY <2>1, <2>3 DEF UnitFields
<1>7. OAgreements = "PASS"
  <2>1. OAgreements \notin {"UNKNOWN", "WARN", "SKIPPED"}
    BY <1>1, <1>2 DEF ReadGap, DsDown
  <2> QED
    BY <2>1 DEF OAgreements, ReadOutcome, Classified
<1> QED
  BY <1>1, <1>2, <1>3, <1>4, <1>5, <1>6, <1>7 DEF DsDown, KdcDown

LEMMA AgreementHealthy ==
  ASSUME Typed, NEW a \in Agreement, a \in Investigated, ~SubjectGap(a),
         AgreementDiagnoses(a, Search(a)) = {}, ReverseDiagnoses(a) = {}
  PROVE  /\ At("enabled", a) = "on" /\ StatusClass(Statuses[At("status", a)]) = "OK" /\ At("session", a) = "over"
         /\ At("reverse", a) = "succeeded"
         /\ At("peer", a) \in {"answers", "back"} => At("clock", a) \in {"near", "unread"}
         /\ At("peer", a) \in {"answers", "back", "reads_refused"}
<1>1. Enabled(a)
  BY DEF AgreementDiagnoses
<1>2. /\ ~Reported(a) /\ Status(a) \notin TRANSIENT /\ ~(Broken(a) /\ NotReproduced(a))
      /\ ~SkewShown(a) /\ ~(Status(a) = "OK" /\ PeerOffset(a) = "drift")
      /\ ~(Status(a) = "OK" /\ At("session", a) = "long")
  BY <1>1, Zenon DEF AgreementDiagnoses, When
<1>3. Status(a) = "OK"
  BY <1>1, <1>2 DEF Reported, Broken, Failing
<1>4. At("session", a) = "over"
  <2>1. RangeOf(AgreementAnswers["session"]) = {"over", "long"} /\ RangeOf(QuietAnswers["session"]) = {"over"}
    BY DEF RangeOf, AgreementAnswers, QuietAnswers
  <2>2. At("session", a) \in {"over", "long"}
    BY <2>1, AgreementTyped DEF AgreementAnswers
  <2> QED
    BY <1>2, <1>3, <2>2
<1>5. At("reverse", a) = "succeeded" /\ Passish(ORootdse(a))
  BY ReverseSucceeded DEF SubjectGap, Answered
<1>6. PeerOffset(a) \notin {"skew", "drift"}
  BY <1>1, <1>2, <1>3 DEF SkewShown, Skewed, Failing
<1>7. At("peer", a) \in {"answers", "back"} => At("clock", a) \in {"near", "unread"}
  <2>1. At("clock", a) \in {"near", "drift", "skew", "unread"}
    <3>1. RangeOf(PeerAnswers["clock"]) = {"near", "drift", "skew", "unread"}
      BY DEF RangeOf, PeerAnswers
    <3> QED
      BY <3>1, PeerTyped DEF PeerAnswers
  <2>2. At("peer", a) \in {"answers", "back"} /\ At("clock", a) # "unread" => PeerOffset(a) = At("clock", a)
    BY <1>5, PeerAnswered DEF PeerOffset
  <2> QED
    BY <1>6, <2>1, <2>2
<1> QED
  BY <1>1, <1>3, <1>4, <1>5, <1>7, PeerAnswered DEF Enabled, Status

(* _status: HEALTHY is said only of a server whose every agreement was     *)
(* found to succeed in both directions, with peers that answer and clocks  *)
(* that agree.                                                             *)
THEOREM HealthyCorrect == Spec => []HealthyMeansHealthy
<1>1. ASSUME Typed, Stated PROVE HealthyMeansHealthy
  <2> SUFFICES ASSUME pc # "idle", status = "HEALTHY" PROVE HealthyMeansHealthy
    BY DEF HealthyMeansHealthy, Concluded
  <2>1. OServer = "PASS" /\ Complete /\ Diagnoses = {}
    BY <1>1 DEF Stated, StatusWord
  <2>2. Gathered = {}
    BY <2>1, Origin
  <2>3. LocalDiagnoses = {}
    BY <2>2, Origin
  <2>4. Investigated = Agreement
    BY <1>1, <2>1, <2>3, LocalHealthy, Whole DEF Complete, Investigated, Listed, Passish
  <2>5. ASSUME NEW a \in Agreement
        PROVE  AgreementDiagnoses(a, Search(a)) = {} /\ ReverseDiagnoses(a) = {} /\ ~SubjectGap(a)
    BY <2>1, <2>2, <2>4, Origin DEF Complete
  <2> QED
    BY <1>1, <2>1, <2>3, <2>4, <2>5, LocalHealthy, AgreementHealthy DEF HealthyMeansHealthy
<1>2. Typed /\ Stated => HealthyMeansHealthy
  BY <1>1
<1> QED
  BY <1>2, StatedHolds, PTL

----------------------------------------------------------------------------
(* The environment graph.  What is added to it are lists, and so are lists *)
(* that are joined.                                                        *)
IsList(s) == s \in Seq(RangeOf(s))

LEMMA Turns ==
  ASSUME NEW m \in Nat, NEW f, f = [j \in 1..m |-> f[j]] PROVE IsList(f)
<1>1. \A j \in 1..m : f[j] \in RangeOf(f)
  BY DEF RangeOf
<1> QED
  BY <1>1 DEF IsList

LEMMA ShortLists ==
  ASSUME NEW x, NEW y PROVE IsList(<<>>) /\ IsList(<<x>>) /\ IsList(<<x, y>>)
BY DEF IsList, RangeOf

LEMMA Joined ==
  ASSUME NEW s, NEW t, IsList(s), IsList(t)
  PROVE  IsList(s \o t) /\ RangeOf(s) \subseteq RangeOf(s \o t) /\ RangeOf(t) \subseteq RangeOf(s \o t)
<1> DEFINE S == RangeOf(s) \cup RangeOf(t)
           u == s \o t
<1>1. s \in Seq(S) /\ t \in Seq(S)
  BY DEF IsList
<1>2. /\ Len(s) \in Nat /\ Len(t) \in Nat /\ DOMAIN s = 1..Len(s) /\ DOMAIN t = 1..Len(t)
      /\ u \in Seq(S) /\ DOMAIN u = 1..(Len(s) + Len(t))
      /\ \A i \in 1..(Len(s) + Len(t)) : u[i] = IF i <= Len(s) THEN s[i] ELSE t[i - Len(s)]
  BY <1>1
<1> HIDE DEF u
<1>3. \A i \in DOMAIN s : i \in DOMAIN u /\ u[i] = s[i]
  BY <1>2
<1>4. \A j \in DOMAIN t : j + Len(s) \in DOMAIN u /\ u[j + Len(s)] = t[j]
  BY <1>2
<1>5. RangeOf(s) \subseteq RangeOf(u) /\ RangeOf(t) \subseteq RangeOf(u)
  BY <1>3, <1>4 DEF RangeOf
<1>6. IsList(u)
  BY <1>2 DEF IsList, RangeOf
<1> QED
  BY <1>5, <1>6 DEF u

(* What is added is a list, each of its entities in its turn.              *)
LEMMA AddedLists ==
  IsList(AddedByTopology) /\ IsList(AddedLocally) /\ IsList(AddedByPrincipals) /\ IsList(AddedByAgreements)
<1>1. Len(Servers) \in Nat /\ Len(Agreements) \in Nat /\ 1 * Len(Servers) \in Nat /\ 2 * Len(Servers) \in Nat
      /\ 3 * Len(Agreements) \in Nat
  BY ServersAssumption, AgreementsAssumption
<1>2. (2 * Len(Servers)) * Len(Servers) \in Nat
  BY <1>1
<1>3. IsList(AddedByTopology)
  <2> DEFINE master(s, k)  == IF s \in Masters THEN Entity("SERVER", s) ELSE ThisServer
             suffix(k)     == IF k < Len(Servers) THEN "domain" ELSE "ca"
             segment(s, k) == LET other == (k % Len(Servers)) + 1 IN
                              IF {s, Servers[other]} \in Segments /\ \E i \in 1..other - 1 : Servers[i] = s
                              THEN Entity("TOPOLOGY_SEGMENT", <<suffix(k), s, Servers[other]>>) ELSE ThisServer
             m == InTurn(Servers, 1, master)
             g == InTurn(Servers, 2 * Len(Servers), segment)
  <2>1. AddedByTopology = <<ThisServer>>
          \o IF ~Passish(OTopology) THEN <<>> ELSE m \o <<Entity("SUFFIX", "domain"), Entity("SUFFIX", "ca")>> \o g
    BY DEF AddedByTopology
  <2>2. IsList(m)
    <3>1. m = [j \in 1..1 * Len(Servers) |-> m[j]]
      BY DEF InTurn
    <3> HIDE DEF m
    <3> QED
      BY <1>1, <3>1, Turns
  <2>3. IsList(g)
    <3>1. g = [j \in 1..(2 * Len(Servers)) * Len(Servers) |-> g[j]]
      BY DEF InTurn
    <3> HIDE DEF g
    <3> QED
      BY <1>2, <3>1, Turns
  <2> HIDE DEF m, g
  <2>4. IsList(m \o <<Entity("SUFFIX", "domain"), Entity("SUFFIX", "ca")>> \o g)
    BY <2>2, <2>3, ShortLists, Joined
  <2> QED
    BY <2>1, <2>4, ShortLists, Joined
<1>4. IsList(AddedLocally)
  <2> DEFINE maybe(c, x) == IF c THEN <<x>> ELSE <<>>
             a == maybe(OServer = "PASS", Entity("DIRECTORY_SERVER_INSTANCE", "me"))
             b == maybe(Answered(UnitOutcome("kdc")), Entity("KDC", "me"))
             c == maybe(Answered(OKeytab) /\ Local("keytab") # "missing", Entity("KEYTAB", "me"))
             d == maybe(Answered(OKeytab) /\ Local("keytab") \in {"ok", "world_readable", "unreadable"},
                        Entity("PRINCIPAL", "me"))
  <2>1. AddedLocally = a \o b \o c \o d
    BY DEF AddedLocally
  <2>2. \A k, x : IsList(maybe(k, x))
    BY ShortLists
  <2>3. IsList(a) /\ IsList(b) /\ IsList(c) /\ IsList(d)
    BY <2>2
  <2> HIDE DEF a, b, c, d
  <2> QED
    BY <2>1, <2>3, Joined
<1>5. IsList(AddedByPrincipals)
  <2> DEFINE principal(s, k) == IF s \notin Principals THEN ThisServer
                                ELSE Entity(IF k = 0 THEN "PRINCIPAL" ELSE "SERVER", s)
             p == InTurn(Servers, 2, principal)
  <2>1. AddedByPrincipals = IF ~Passish(OPrincipals) THEN <<>> ELSE p
    BY DEF AddedByPrincipals
  <2>2. p = [j \in 1..2 * Len(Servers) |-> p[j]]
    BY DEF InTurn
  <2> HIDE DEF p
  <2> QED
    BY <1>1, <2>1, <2>2, Turns, ShortLists
<1>6. IsList(AddedByAgreements)
  <2>1. AddedByAgreements = [j \in 1..3 * Len(Agreements) |-> AddedByAgreements[j]]
    BY DEF AddedByAgreements, InTurn
  <2> QED
    BY <1>1, <2>1, Turns
<1> QED
  BY <1>3, <1>4, <1>5, <1>6

(* Every agreement that was read takes its turn, and every principal.      *)
LEMMA AgreementsAdded ==
  ASSUME NEW a \in Listed PROVE Entity("AGREEMENT", a) \in RangeOf(AddedByAgreements)
<1>1. PICK i \in DOMAIN Agreements : Agreements[i] = a
  BY DEF Listed, Agreement
<1>2. i \in 1..Len(Agreements) /\ Len(Agreements) \in Nat
  BY <1>1, AgreementsAssumption
<1> DEFINE j == 3 * (i - 1) + 1
<1>3. j \in 1..3 * Len(Agreements) /\ ((j - 1) \div 3) + 1 = i /\ (j - 1) % 3 = 0
  BY <1>2
<1> HIDE DEF j
<1>4. DOMAIN AddedByAgreements = 1..3 * Len(Agreements) /\ AddedByAgreements[j] = Entity("AGREEMENT", a)
  BY <1>1, <1>3 DEF AddedByAgreements, InTurn
<1> QED
  BY <1>3, <1>4 DEF RangeOf

LEMMA PrincipalsAdded ==
  ASSUME Passish(OPrincipals), NEW s \in Principals PROVE Entity("PRINCIPAL", s) \in RangeOf(AddedByPrincipals)
<1>1. PICK i \in DOMAIN Servers : Servers[i] = s
  BY DEF Principals, RangeOf
<1>2. i \in 1..Len(Servers) /\ Len(Servers) \in Nat
  BY <1>1, ServersAssumption
<1> DEFINE j == 2 * (i - 1) + 1
<1>3. j \in 1..2 * Len(Servers) /\ ((j - 1) \div 2) + 1 = i /\ (j - 1) % 2 = 0
  BY <1>2
<1> HIDE DEF j
<1>4. DOMAIN AddedByPrincipals = 1..2 * Len(Servers) /\ AddedByPrincipals[j] = Entity("PRINCIPAL", s)
  BY <1>1, <1>3 DEF AddedByPrincipals, InTurn
<1> QED
  BY <1>3, <1>4 DEF RangeOf

(* A read that passed was whole: as Directory Manager, and nothing cut off.*)
LEMMA WholeRead ==
  /\ OTopology = "PASS" => Masters = RangeOf(Servers)
  /\ OAgreements = "PASS" => Listed = Agreement
  /\ OPrincipals = "PASS" => Local("principals") = "whole"
<1>1. ASSUME NEW kind, ReadOutcome(Read(kind)) = "PASS"
      PROVE  Local(kind) = "whole"
  BY <1>1 DEF ReadOutcome, Classified, Read, OK, FAILED
<1>2. OTopology = "PASS" => Masters = RangeOf(Servers)
  <2> SUFFICES ASSUME OTopology = "PASS" PROVE Masters = RangeOf(Servers)
    OBVIOUS
  <2>1. Local("topology") = "whole"
    BY <1>1 DEF OTopology, TopologyCheck
  <2>2. ~TopologyCheck.fields.lost
    BY <2>1 DEF TopologyCheck, Read, OK
  <2> QED
    BY <2>2 DEF Masters
<1>3. OAgreements = "PASS" => Listed = Agreement
  <2> SUFFICES ASSUME OAgreements = "PASS" PROVE Listed = Agreement
    OBVIOUS
  <2>1. Local("agreements") = "whole"
    BY <1>1 DEF OAgreements, AgreementsCheck
  <2> QED
    BY <2>1 DEF Listed, Passish
<1>4. OPrincipals = "PASS" => Local("principals") = "whole"
  BY <1>1 DEF OPrincipals, PrincipalsCheck
<1> QED
  BY <1>2, <1>3, <1>4

(* An enumeration that says COMPLETE was read whole and kept whole.         *)
LEMMA CompleteIsWhole ==
  ASSUME NEW outcome, NEW whole \in BOOLEAN, NEW added, Settled(outcome, whole, added) = "COMPLETE"
  PROVE  Passish(outcome) /\ whole /\ Kept(added) = RangeOf(added)
BY DEF Settled, Truncated

(* What is asked of the graph follows from what was read, entity by entity.*)
LEMMA GraphInTruth ==
  ASSUME Typed PROVE GraphHonest
<1> DEFINE graph == Enumerations
           two   == UpToPrincipals
           three == UpToPrincipals \o AddedByAgreements
           top   == OTopology = "PASS"
           prin  == OPrincipals = "PASS"
           agree == OAgreements = "PASS" /\ Dropped = {}
<1>1. /\ graph.servers =
           [status  |-> Settled(OTopology, top, AddedByTopology), kind |-> "SERVER",
            members |-> IF Passish(OTopology) THEN {Entity("SERVER", s) : s \in Masters} ELSE {}]
      /\ graph.ldap_principals =
           [status  |-> Settled(OPrincipals, prin, two), kind |-> "PRINCIPAL",
            members |-> IF Passish(OPrincipals)
                        THEN {e \in Kept(two) : e.kind = "PRINCIPAL" /\ e.key \in Principals} ELSE {}]
      /\ graph.outbound_agreements =
           [status  |-> Settled(OAgreements, agree, three), kind |-> "AGREEMENT",
            members |-> {e \in Kept(three) : e.kind = "AGREEMENT" /\ e.key \in Listed}]
  BY DEF Enumerations, EnumerationsOf
<1>2. IsList(two) /\ RangeOf(AddedByPrincipals) \subseteq RangeOf(two)
  BY AddedLists, Joined DEF UpToPrincipals
<1>3. RangeOf(AddedByAgreements) \subseteq RangeOf(three)
  BY <1>2, AddedLists, Joined
<1>0. top \in BOOLEAN /\ prin \in BOOLEAN /\ agree \in BOOLEAN
  OBVIOUS
<1> HIDE DEF graph, two, three, top, prin, agree
<1>4. ASSUME NEW s \in RangeOf(Servers) PROVE Absent(graph.servers, Entity("SERVER", s)) # "yes"
  <2> SUFFICES ASSUME graph.servers.status = "COMPLETE" PROVE Entity("SERVER", s) \in graph.servers.members
    BY DEF Absent
  <2>1. Passish(OTopology) /\ OTopology = "PASS"
    <3>1. Passish(OTopology) /\ top
      BY <1>1, <1>0, CompleteIsWhole
    <3> QED
      BY <3>1 DEF top
  <2> QED
    BY <1>1, <1>4, <2>1, WholeRead
<1>5. ASSUME NEW a \in Agreement PROVE Absent(graph.outbound_agreements, Entity("AGREEMENT", a)) # "yes"
  <2> SUFFICES ASSUME graph.outbound_agreements.status = "COMPLETE"
               PROVE  Entity("AGREEMENT", a) \in graph.outbound_agreements.members
    BY DEF Absent
  <2>1. OAgreements = "PASS" /\ Kept(three) = RangeOf(three)
    <3>1. agree /\ Kept(three) = RangeOf(three)
      BY <1>1, <1>0, CompleteIsWhole
    <3> QED
      BY <3>1 DEF agree
  <2>2. a \in Listed
    BY <1>5, <2>1, WholeRead
  <2>3. Entity("AGREEMENT", a) \in Kept(three)
    BY <1>3, <2>1, <2>2, AgreementsAdded
  <2> QED
    BY <1>1, <2>2, <2>3 DEF Entity
<1>6. Local("ldap") \in {"present", "missing"}
  <2>1. "ldap" \in DOMAIN LocalAnswers /\ LocalAnswers["ldap"] = <<"present", "missing">>
    BY DEF LocalAnswers
  <2> QED
    BY <2>1, LocalTyped, Listing
<1>7. ASSUME NEW s \in RangeOf(Servers), Local("ldap") = "present" \/ \A a \in Agreement : Consumer(a) # s
      PROVE  Absent(graph.ldap_principals, Entity("PRINCIPAL", s)) # "yes"
  <2> SUFFICES ASSUME graph.ldap_principals.status = "COMPLETE"
               PROVE  Entity("PRINCIPAL", s) \in graph.ldap_principals.members
    BY DEF Absent
  <2>1. OPrincipals = "PASS" /\ Passish(OPrincipals) /\ Kept(two) = RangeOf(two)
    <3>1. prin /\ Passish(OPrincipals) /\ Kept(two) = RangeOf(two)
      BY <1>1, <1>0, CompleteIsWhole
    <3> QED
      BY <3>1 DEF prin
  <2>2. s \in Principals
    BY <1>7, <2>1, WholeRead DEF Principals
  <2>3. Entity("PRINCIPAL", s) \in Kept(two)
    BY <1>2, <2>1, <2>2, PrincipalsAdded
  <2> QED
    BY <1>1, <2>1, <2>2, <2>3 DEF Entity
<1>8. ASSUME NEW s \in RangeOf(Servers), ~(Local("ldap") = "present" \/ \A a \in Agreement : Consumer(a) # s)
      PROVE  Absent(graph.ldap_principals, Entity("PRINCIPAL", s)) # "no"
  <2>1. s \notin Principals
    BY <1>6, <1>8 DEF Principals
  <2>2. Entity("PRINCIPAL", s) \notin graph.ldap_principals.members
    BY <1>1, <2>1 DEF Entity
  <2> QED
    BY <2>2 DEF Absent
<1> QED
  BY <1>4, <1>5, <1>7, <1>8 DEF GraphHonest, graph

(* graph_build.build and EnvironmentGraph.absent: whatever the reads lost  *)
(* and wherever MAX_ENTITIES cuts the graph off, "absent" is said of       *)
(* nothing that is there, and "present" of no principal that is not.       *)
THEOREM GraphCorrect == Spec => []GraphHonest
BY StatedHolds, GraphInTruth, PTL
=============================================================================
