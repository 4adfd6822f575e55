----------------------------- MODULE Facade_proofs -----------------------------
(***************************************************************************)
(* For all inputs, calls, settings and clocks: what one call leaves behind *)
(* in an instance never decides what the next one reports.                 *)
(***************************************************************************)
EXTENDS Facade, TLAPS

UnderWay == phase \in {"analysing", "strings", "built"}

Finished(a) == a.status \in {"ok", "timeout"}

(* Between calls, what the instance keeps is what it was set up with; a     *)
(* backend nobody pinned is the one its name says.                          *)
BackendKept ==
    /\ settings.backend \in Backends \cup {Exporter} => disassembler = settings.backend
    /\ ~pinned => disassembler = active

(* What a loaded input is analysed by, and that there is something. *)
BackendChosen ==
    /\ (phase = "loaded" \/ UnderWay) /\ ~pinned =>
           disassembler = IF Architecture(Call) \in Backends THEN Architecture(Call) ELSE NoBackend
    /\ UnderWay => disassembler # NoBackend /\ ~Foreign(Call)

CollectorKept == gc = IF phase = "analysing" THEN FALSE ELSE settings.gc

TimerStarted ==
    phase = "analysing" =>
        /\ startTime = began /\ began <= time
        /\ expired => settings.budget # 0 /\ time - began >= settings.budget

(* The PDB a native backend knows is the last it was given: whatever it     *)
(* finished since it finished without another.                              *)
PdbKnown ==
    /\ pdbInfo \in 0..Now
    /\ pdbInfo # 0 => /\ GivesPdb(made[pdbInfo]) /\ disassembler \in Native
                      /\ \A i \in DOMAIN answers : i >= pdbInfo /\ Finished(answers[i]) =>
                             /\ answers[i].architecture = disassembler
                             /\ i # pdbInfo => ~GivesPdb(made[i])
    /\ (phase = "loaded" \/ UnderWay) /\ disassembler \in Native /\ GivesPdb(Call) =>
           pdbInfo = Now
    /\ phase = "loading" => pdbInfo < Now

NamesFollow ==
    phase = "analysing" =>
        \A p \in Providers :
            \/ names[p] \in {0, Now}
            \/ p = "pdb" /\ names[p] = pdbInfo

(* What a report of the k-th call owes to that call alone. *)
Named(k, a) ==
    \A p \in Providers :
        \/ a.names[p] \in {0, k}
        \/ p = "pdb" /\ StillKnown(a.names[p], k, a.architecture)

Timed(a) == a.status = "timeout" => settings.budget # 0 /\ a.took >= settings.budget

Served(k, a) ==
    /\ settings.backend \in Backends \cup {Exporter} => a.architecture = settings.backend
    /\ ~pinned => /\ a.architecture = Architecture(made[k])
                  /\ Architecture(made[k]) \in Backends /\ ~Foreign(made[k])
    /\ pinned  => a.architecture = disassembler /\ disassembler # NoBackend

Listed(a) == /\ a.strings # "raw"
             /\ settings.strings => a.strings = "listed"
             /\ ~settings.strings /\ a.architecture # "dalvik" => a.strings = "none"

Drafted ==
    /\ phase \in {"strings", "built"} =>
           /\ Finished(report) /\ ~report.buffer /\ report.architecture = disassembler
           /\ Served(Now, report) /\ Timed(report) /\ Named(Now, report)
    /\ phase = "strings" => settings.strings
    /\ phase = "built" => Listed(report)

Owed(k, a) ==
    /\ Finished(a) => Served(k, a) /\ Listed(a)
    /\ a.buffer => settings.store /\ Finished(a)
    /\ Timed(a) /\ Named(k, a)

Answered == \A k \in DOMAIN answers : Owed(k, answers[k])

FInv == /\ TypeOK /\ BackendKept /\ BackendChosen /\ CollectorKept
        /\ TimerStarted /\ PdbKnown /\ NamesFollow /\ Drafted /\ Answered

-----------------------------------------------------------------------------
(* A call in progress is the last one made, and the only one unanswered. *)
LEMMA OneUnanswered ==
    ASSUME TypeOK
    PROVE  /\ Now \in 0..MaxCalls /\ DOMAIN answers = 1..Len(answers)
           /\ phase # "idle" => Now >= 1 /\ Call \in Calls /\ Len(answers) = Now - 1
           /\ phase = "idle" => Len(answers) = Now
  BY FacadeAssumption DEF TypeOK, Now, Call

LEMMA FailureIsReport ==
    ASSUME NEW status \in {"none", "error", "raised"}
    PROVE  Failure(status) \in Report
  BY FacadeAssumption DEF Failure, Report, Architectures, NoBackend, NoNames

LEMMA TypeInit == Init => TypeOK
<1> SUFFICES ASSUME Init PROVE TypeOK
  OBVIOUS
<1>1. settings \in Settings /\ settings.gc \in BOOLEAN
  BY FacadeAssumption DEF Init
<1>2. report \in Report
  BY FailureIsReport DEF Init
<1>3. QED
  <2>1. disassembler \in Architectures /\ active \in Backends \cup {NoBackend}
    BY DEF Init, Architectures
  <2>2. names \in [Providers -> 0..MaxCalls] /\ startTime \in Never..MaxTime
    BY FacadeAssumption DEF Init, NoNames, Never
  <2>3. made \in Seq(Calls) /\ Now = 0 /\ answers \in Seq(Report) /\ Len(answers) = 0
    BY DEF Init, Now
  <2>4. /\ pdbInfo \in 0..MaxCalls /\ time \in 0..MaxTime /\ began \in 0..MaxTime
        /\ Now <= MaxCalls
    BY <2>3, FacadeAssumption DEF Init
  <2>5. phase = "idle" /\ gc = settings.gc /\ expired = FALSE
    BY DEF Init
  <2>6. Len(answers) = IF phase = "idle" THEN Now ELSE Now - 1
    BY <2>3, <2>5
  <2>7. QED
    BY <1>1, <1>2, <2>1, <2>2, <2>3, <2>4, <2>5, <2>6, Zenon DEF TypeOK

LEMMA BackendTyped ==
    ASSUME TypeOK, NEW architecture, InitDisassembler(architecture)
    PROVE  disassembler' \in Architectures /\ active' \in Backends \cup {NoBackend}
  BY DEF TypeOK, InitDisassembler, Architectures

LEMMA TypeStep ==
    ASSUME TypeOK, TimerStarted, [Next]_vars
    PROVE  TypeOK'
<1>0. settings \in Settings /\ settings.gc \in BOOLEAN /\ settings.store \in BOOLEAN
  BY FacadeAssumption DEF TypeOK
<1> USE OneUnanswered, FacadeAssumption
<1>1. ASSUME NEW call \in Calls, Begin(call) PROVE TypeOK'
  BY <1>1 DEF Begin, TypeOK, Now, backend, current
<1>2. CASE Load
  <2>1. disassembler' \in Architectures /\ active' \in Backends \cup {NoBackend}
    BY <1>2, BackendTyped DEF Load
  <2>2. pdbInfo' \in 0..MaxCalls
    BY <1>2 DEF Load, AddPdbFile, TypeOK
  <2>3. names' \in [Providers -> 0..MaxCalls]
    BY <1>2 DEF Load, TypeOK, NoNames
  <2>4. QED
    BY <1>2, <2>1, <2>2, <2>3 DEF Load, TypeOK, Now, current
<1>3. CASE Start
  <2>1. names' \in [Providers -> 0..MaxCalls]
    BY <1>3 DEF Start, UpdateLabelProviders, TypeOK
  <2>2. startTime' \in Never..MaxTime
    BY <1>3 DEF Start, StartTimer, TypeOK, Never
  <2>3. QED
    BY <1>3, <2>1, <2>2 DEF Start, TypeOK, Now
<1>4. CASE Tick
  BY <1>4 DEF Tick, TypeOK, Now, backend, current
<1>5. CASE Poll
  BY <1>5 DEF Poll, TypeOK, Now, backend
<1>6. CASE BuildReport
  <2>1. time - began \in 0..MaxTime
    BY <1>6 DEF BuildReport, TypeOK, TimerStarted
  <2>2. RawStrings \in {"none", "raw", "listed"}
    BY DEF RawStrings
  <2>3. report' \in Report
    BY <1>6, <2>1, <2>2 DEF BuildReport, TypeOK, Report
  <2>4. QED
    BY <1>0, <1>6, <2>3 DEF BuildReport, TypeOK, Now, backend
<1>7. CASE ExtractStrings
  <2>1. report' \in Report
    BY <1>7 DEF ExtractStrings, TypeOK, Report, TakeBack
  <2>2. QED
    BY <1>7, <2>1 DEF ExtractStrings, TypeOK, Now, backend
<1>8. CASE Return
  <2>1. [report EXCEPT !.buffer = settings.store \/ @] \in Report
    BY <1>0 DEF TypeOK, Report
  <2>2. answers' \in Seq(Report) /\ Len(answers') = Now
    BY <1>8, <2>1 DEF Return, TypeOK, Now
  <2>3. QED
    BY <1>8, <2>2 DEF Return, TypeOK, Now, backend, current
<1>9. ASSUME NEW status \in {"error", "raised"}, phase # "idle", Fail(status), gc' \in BOOLEAN
      PROVE  TypeOK'
  <2>1. answers' \in Seq(Report) /\ Len(answers') = Now
    BY <1>9, FailureIsReport DEF Fail, TypeOK, Now
  <2>2. QED
    BY <1>9, <2>1 DEF Fail, TypeOK, Now, backend, current
<1>10. CASE Refuse
  BY <1>9, <1>10 DEF Refuse, TypeOK
<1>11. ASSUME NEW operational \in BOOLEAN, Raise(operational) PROVE TypeOK'
  <2>1. phase # "idle" /\ gc' \in BOOLEAN
    BY <1>0, <1>11 DEF Raise, RestoreCollector, TypeOK
  <2>2. QED
    BY <1>9, <1>11, <2>1 DEF Raise
<1>12. CASE UNCHANGED vars
  BY <1>12 DEF vars, backend, current, TypeOK, Now
<1>13. QED
  BY <1>1, <1>2, <1>3, <1>4, <1>5, <1>6, <1>7, <1>8, <1>10, <1>11, <1>12 DEF Next, Work

-----------------------------------------------------------------------------
(* What changes what: the settings never change, only Load() chooses a      *)
(* backend, and only a new call adds to the calls made.                     *)
Steps == Load \/ Start \/ Tick \/ Poll \/ BuildReport \/ ExtractStrings \/ Return \/ Refuse

LEMMA Actions ==
    ASSUME [Next]_vars
    PROVE  \/ Steps \/ UNCHANGED vars
           \/ \E call \in Calls : Begin(call)
           \/ \E operational \in BOOLEAN : Raise(operational)
  BY DEF Next, Work, Steps

LEMMA SettingsStay == ASSUME [Next]_vars PROVE settings' = settings
  BY Actions DEF Steps, Begin, Load, Start, Tick, Poll, BuildReport, ExtractStrings, Return, Refuse,
         Raise, Fail, vars

LEMMA OnlyLoadChooses ==
    ASSUME [Next]_vars, ~Load
    PROVE  UNCHANGED <<disassembler, active, pdbInfo>>
  BY Actions DEF Steps, Begin, Start, Tick, Poll, BuildReport, ExtractStrings, Return, Refuse,
         Raise, Fail, vars, backend

LEMMA CallsStay ==
    ASSUME [Next]_vars, phase # "idle"
    PROVE  made' = made
  BY Actions DEF Steps, Begin, Load, Start, Tick, Poll, BuildReport, ExtractStrings, Return,
         Refuse, Raise, Fail, vars

LEMMA EarlierCallsStay ==
    ASSUME TypeOK, [Next]_vars, NEW k \in 1..Now
    PROVE  made'[k] = made[k]
<1>1. CASE made' = made
  BY <1>1
<1>2. ASSUME NEW call \in Calls, Begin(call) PROVE made'[k] = made[k]
  BY <1>2 DEF Begin, TypeOK, Now
<1>3. QED
  BY <1>1, <1>2, Actions DEF Steps, Load, Start, Tick, Poll, BuildReport, ExtractStrings, Return,
         Refuse, Raise, Fail, vars

LEMMA BackendInit == Init => BackendKept
  BY DEF Init, BackendKept, Backends, Native, Exporter, pinned

LEMMA BackendStep ==
    ASSUME BackendKept, [Next]_vars
    PROVE  BackendKept'
<1>1. CASE Load
  <2>1. InitDisassembler(Architecture(Call)) /\ settings' = settings
    BY <1>1 DEF Load
  <2>2. NoBackend \notin Backends \cup {Exporter} /\ "" \notin Backends \cup {Exporter}
    BY DEF Backends, Native, Exporter, NoBackend
  <2>3. QED
    BY <2>1, <2>2 DEF InitDisassembler, Kept, BackendKept, pinned
<1>2. CASE ~Load
  BY <1>2, OnlyLoadChooses, SettingsStay DEF BackendKept, pinned
<1>3. QED
  BY <1>1, <1>2

(* Whatever was analysed before, a loaded input gets the backend its own   *)
(* architecture names, unless one is pinned.                               *)
LEMMA ChosenStep ==
    ASSUME TypeOK, BackendKept, BackendChosen, [Next]_vars
    PROVE  BackendChosen'
<1> USE DEF Architecture, Routed, BufferArchitecture, Foreign, Call, Now, pinned
<1>0. settings' = settings
  BY SettingsStay
<1>1. CASE Load
  <2>1. /\ InitDisassembler(Architecture(Call)) /\ phase' = "loaded"
        /\ UNCHANGED <<settings, made>>
    BY <1>1 DEF Load
  <2>2. ~pinned => disassembler = active
    BY DEF BackendKept
  <2>3. ~pinned => disassembler' = IF Architecture(Call) \in Backends
                                   THEN Architecture(Call) ELSE NoBackend
    <3>1. ~pinned /\ Kept(Architecture(Call)) => Architecture(Call) \in Backends
      BY <2>2 DEF Kept, TypeOK
    <3>2. QED
      BY <2>1, <2>2, <3>1 DEF InitDisassembler, Kept
  <2>4. QED
    BY <2>1, <2>3 DEF BackendChosen, UnderWay
<1>2. CASE Start
  <2>1. /\ phase = "loaded" /\ ~Refused /\ phase' = "analysing"
        /\ UNCHANGED <<settings, disassembler, made>>
    BY <1>2 DEF Start
  <2>2. QED
    BY <2>1 DEF BackendChosen, UnderWay, Refused
<1>3. CASE phase' = "idle" \/ phase' = "loading"
  BY <1>3 DEF BackendChosen, UnderWay
<1>4. CASE UNCHANGED vars \/ Tick \/ Poll \/ BuildReport \/ ExtractStrings
  <2>1. /\ UNCHANGED <<disassembler, made>>
        /\ phase' = phase \/ (UnderWay /\ UnderWay')
    BY <1>4 DEF Tick, Poll, BuildReport, ExtractStrings, vars, backend, UnderWay
  <2>2. QED
    BY <1>0, <2>1 DEF BackendChosen, UnderWay
<1>5. QED
  BY <1>1, <1>2, <1>3, <1>4, Actions DEF Steps, Begin, Return, Refuse, Raise, Fail

LEMMA CollectorStep ==
    ASSUME CollectorKept, [Next]_vars
    PROVE  CollectorKept'
<1>1. settings' = settings
  BY SettingsStay
<1>2. CASE Load \/ Tick \/ Poll \/ ExtractStrings \/ Return \/ Refuse \/ UNCHANGED vars
  BY <1>1, <1>2 DEF CollectorKept, Load, Tick, Poll, ExtractStrings, Return, Refuse, Fail, vars
<1>3. CASE Start \/ BuildReport
  BY <1>1, <1>3 DEF CollectorKept, Start, BuildReport
<1>4. ASSUME NEW call \in Calls, Begin(call) PROVE CollectorKept'
  BY <1>1, <1>4 DEF CollectorKept, Begin
<1>5. ASSUME NEW operational \in BOOLEAN, Raise(operational) PROVE CollectorKept'
  BY <1>1, <1>5 DEF CollectorKept, Raise, RestoreCollector, Fail
<1>6. QED
  BY <1>2, <1>3, <1>4, <1>5, Actions DEF Steps

LEMMA TimerStep ==
    ASSUME TypeOK, TimerStarted, [Next]_vars
    PROVE  TimerStarted'
<1>1. settings' = settings
  BY SettingsStay
<1>2. /\ time \in Int /\ began \in Int /\ startTime \in Int /\ settings.budget \in Nat
  BY FacadeAssumption DEF TypeOK, Never
<1>3. CASE Start
  BY <1>1, <1>2, <1>3 DEF TimerStarted, Start, StartTimer
<1>4. CASE Tick
  BY <1>1, <1>2, <1>4 DEF TimerStarted, Tick, current
<1>5. CASE Poll
  BY <1>1, <1>2, <1>5 DEF TimerStarted, Poll, TimeIsUp
<1>6. CASE UNCHANGED vars
  BY <1>6 DEF TimerStarted, vars, current
<1>7. CASE phase' # "analysing"
  BY <1>7 DEF TimerStarted
<1>8. QED
  BY <1>3, <1>4, <1>5, <1>6, <1>7, Actions
     DEF Steps, Begin, Load, BuildReport, ExtractStrings, Return, Refuse, Raise, Fail

(* What was answered stays as it was answered. *)
LEMMA AnswersStay ==
    ASSUME TypeOK, [Next]_vars
    PROVE  /\ DOMAIN answers \subseteq DOMAIN answers'
           /\ \A k \in DOMAIN answers : answers'[k] = answers[k] /\ k \in 1..Now
<1>0. answers \in Seq(Report) /\ \A k \in DOMAIN answers : k \in 1..Now
  BY OneUnanswered DEF TypeOK
<1>1. CASE answers' = answers
  BY <1>0, <1>1
<1>2. ASSUME NEW a, answers' = Append(answers, a)
      PROVE  /\ DOMAIN answers \subseteq DOMAIN answers'
             /\ \A k \in DOMAIN answers : answers'[k] = answers[k]
  BY <1>0, <1>2
<1>3. QED
  BY <1>0, <1>1, <1>2, Actions
     DEF Steps, Begin, Load, Start, Tick, Poll, BuildReport, ExtractStrings, Return, Refuse,
         Raise, Fail, vars

LEMMA StillKnownStays ==
    ASSUME TypeOK, [Next]_vars, NEW k \in 1..Now, 1..(k - 1) \subseteq DOMAIN answers,
           NEW j, NEW architecture, StillKnown(j, k, architecture)
    PROVE  StillKnown(j, k, architecture)'
<1>1. \A i \in 1..k : i \in 1..Now /\ made'[i] = made[i]
  BY EarlierCallsStay, OneUnanswered
<1>2. \A i \in 1..(k - 1) : answers'[i] = answers[i]
  BY AnswersStay
<1>3. j \in 1..(k - 1) /\ k \in 1..k /\ j..(k - 1) \subseteq 1..(k - 1)
  BY OneUnanswered DEF StillKnown
<1>4. QED
  BY <1>1, <1>2, <1>3 DEF StillKnown, Complete, GivesPdb

(* The PDB a backend knows is of the last call that gave it one. *)
LEMMA PdbStep ==
    ASSUME FInv, [Next]_vars
    PROVE  PdbKnown'
<1>0. /\ TypeOK /\ PdbKnown /\ pdbInfo \in 0..Now /\ Now \in Nat
      /\ \A k \in DOMAIN answers : k \in 1..Now
  BY OneUnanswered DEF FInv, PdbKnown
<1>1. \A k \in 1..Now : made'[k] = made[k]
  BY <1>0, EarlierCallsStay
<1>2. ASSUME NEW call \in Calls, Begin(call) PROVE PdbKnown'
  <2>1. /\ Now' = Now + 1 /\ phase' = "loading"
        /\ UNCHANGED <<pdbInfo, disassembler, answers>>
    BY <1>0, <1>2 DEF Begin, Now, backend, TypeOK
  <2>2. pdbInfo # 0 => pdbInfo \in 1..Now
    BY <1>0
  <2>3. QED
    BY <1>0, <1>1, <2>1, <2>2 DEF PdbKnown, UnderWay, Finished, GivesPdb
<1>3. CASE Load
  <2>1. /\ phase = "loading" /\ phase' = "loaded" /\ UNCHANGED <<made, answers>>
        /\ Len(answers) = Now - 1 /\ Now >= 1 /\ pdbInfo < Now
        /\ DOMAIN answers = 1..Len(answers)
    BY <1>0, <1>3, OneUnanswered DEF Load, PdbKnown
  <2> DEFINE a == Architecture(Call)
  <2>2. /\ disassembler' = IF Kept(a) THEN disassembler
                           ELSE IF a \in Backends THEN a ELSE NoBackend
        /\ pdbInfo' = IF RemembersPdb(a) THEN Now ELSE IF Kept(a) THEN pdbInfo ELSE 0
    BY <1>3 DEF Load, InitDisassembler, AddPdbFile
  <2>3. CASE RemembersPdb(a)
    <3>1. GivesPdb(Call) /\ (IF Kept(a) THEN disassembler ELSE a) \in Native
      BY <2>3 DEF RemembersPdb
    <3>3. disassembler' \in Native /\ pdbInfo' = Now
      <4>1. ~Kept(a) => disassembler' = a
        BY <2>2, <3>1 DEF Backends
      <4>2. pdbInfo' = Now
        BY <2>2, <2>3
      <4>3. QED
        BY <2>2, <3>1, <4>1, <4>2
    <3>2. QED
      BY <1>0, <2>1, <3>1, <3>3 DEF PdbKnown, Call, Now
  <2>4. CASE ~RemembersPdb(a) /\ ~Kept(a)
    <3>1. pdbInfo' = 0 /\ (disassembler' \in Native => ~GivesPdb(Call))
      BY <2>2, <2>4 DEF RemembersPdb, Native, NoBackend
    <3>2. QED
      BY <1>0, <2>1, <3>1 DEF PdbKnown, Call, Now
  <2>5. CASE ~RemembersPdb(a) /\ Kept(a)
    <3>1. /\ pdbInfo' = pdbInfo /\ disassembler' = disassembler
          /\ disassembler' \in Native => ~GivesPdb(Call)
      BY <2>2, <2>5 DEF RemembersPdb
    <3>2. QED
      BY <1>0, <2>1, <3>1 DEF PdbKnown, Call, Now
  <2>6. QED
    BY <2>3, <2>4, <2>5
<1>4. ASSUME ~Load, UNCHANGED <<made, answers>>,
             phase' = phase \/ ((phase = "loaded" \/ UnderWay) /\ UnderWay')
      PROVE  PdbKnown'
  <2>1. UNCHANGED <<disassembler, pdbInfo>>
    BY <1>4, OnlyLoadChooses
  <2>2. QED
    BY <1>0, <1>4, <2>1 DEF PdbKnown, UnderWay, Call, Now
<1>5. ASSUME NEW b \in Report, phase # "idle", phase' = "idle", ~Load, made' = made,
             answers' = Append(answers, b),
             Finished(b) => UnderWay /\ b.architecture = disassembler
      PROVE  PdbKnown'
  <2>1. UNCHANGED <<disassembler, pdbInfo>>
    BY <1>5, OnlyLoadChooses
  <2>2. /\ DOMAIN answers' = 1..Now /\ answers'[Now] = b
        /\ \A k \in 1..(Now - 1) : k \in DOMAIN answers /\ answers'[k] = answers[k]
    BY <1>0, <1>5, OneUnanswered DEF TypeOK
  <2>3. ASSUME pdbInfo # 0, NEW i \in 1..Now, i >= pdbInfo, Finished(answers'[i])
        PROVE  answers'[i].architecture = disassembler /\ (i # pdbInfo => ~GivesPdb(made[i]))
    <3>1. CASE i = Now
      BY <1>0, <1>5, <2>2, <2>3, <3>1 DEF PdbKnown, Call
    <3>2. CASE i # Now
      <4>1. i \in DOMAIN answers /\ answers'[i] = answers[i]
        BY <1>0, <2>2, <3>2
      <4>2. QED
        BY <1>0, <2>3, <4>1 DEF PdbKnown
    <3>3. QED
      BY <3>1, <3>2
  <2>4. QED
    BY <1>0, <1>5, <2>1, <2>2, <2>3 DEF PdbKnown, UnderWay, Finished, GivesPdb, Now
<1>6. CASE (Start \/ Tick \/ Poll \/ BuildReport \/ ExtractStrings) /\ ~Load
  BY <1>4, <1>6 DEF Start, Tick, Poll, BuildReport, ExtractStrings, UnderWay
<1>7. CASE UNCHANGED vars /\ ~Load
  BY <1>4, <1>7 DEF vars, UnderWay
<1>8. CASE Return /\ ~Load
  <2>1. PICK b : b = [report EXCEPT !.buffer = settings.store \/ @]
    OBVIOUS
  <2>2. report \in Report /\ settings.store \in BOOLEAN
    BY <1>0, FacadeAssumption DEF TypeOK
  <2>3. b \in Report /\ b.architecture = report.architecture
    BY <2>1, <2>2 DEF Report
  <2>4. phase = "built" /\ report.architecture = disassembler
    BY <1>8 DEF Return, FInv, Drafted
  <2>5. QED
    BY <1>5, <1>8, <2>1, <2>3, <2>4 DEF Return, UnderWay
<1>9. ASSUME NEW status \in {"error", "raised"}, phase # "idle", Fail(status), ~Load
      PROVE  PdbKnown'
  <2>1. PICK b : b = Failure(status)
    OBVIOUS
  <2>2. b \in Report /\ ~Finished(b)
    BY <2>1, FailureIsReport DEF Finished, Failure
  <2>3. QED
    BY <1>5, <1>9, <2>1, <2>2 DEF Fail
<1>10. CASE Refuse /\ ~Load
  BY <1>9, <1>10 DEF Refuse
<1>11. ASSUME NEW operational \in BOOLEAN, Raise(operational), ~Load PROVE PdbKnown'
  BY <1>9, <1>11 DEF Raise
<1>12. QED
  BY <1>2, <1>3, <1>6, <1>7, <1>8, <1>10, <1>11, Actions DEF Steps

(* Names are of the call they are made for, or of the PDB the backend knows. *)
LEMMA NamesStep ==
    ASSUME FInv, [Next]_vars
    PROVE  NamesFollow'
<1>1. CASE Start
  <2>1. UNCHANGED <<made, pdbInfo>> /\ UpdateLabelProviders
    BY <1>1 DEF Start
  <2>2. ASSUME NEW p \in Providers
        PROVE  names'[p] \in {0, Now} \/ (p = "pdb" /\ names'[p] = pdbInfo)
    <3>1. names'[p] = CASE disassembler \notin Native -> 0
                        [] pdbInfo # 0 -> IF p = "pdb" THEN pdbInfo ELSE 0
                        [] OTHER -> IF Recognizes(p, Now) THEN Now ELSE 0
      BY <2>1 DEF UpdateLabelProviders
    <3>2. QED
      BY <3>1
  <2>3. QED
    BY <2>1, <2>2 DEF NamesFollow, Now
<1>2. CASE UNCHANGED <<phase, made, pdbInfo, names>>
  BY <1>2 DEF FInv, NamesFollow, Now
<1>3. CASE phase' # "analysing"
  BY <1>3 DEF NamesFollow
<1>4. QED
  BY <1>1, <1>2, <1>3, Actions
     DEF Steps, Begin, Load, Tick, Poll, BuildReport, ExtractStrings, Return, Refuse, Raise, Fail,
         vars, backend

-----------------------------------------------------------------------------
(* What a report owes to its call it owes whatever happens afterwards. *)
LEMMA ServedStays ==
    ASSUME TypeOK, [Next]_vars, NEW k \in 1..Now, NEW a, Served(k, a)
    PROVE  Served(k, a)'
<1>1. settings' = settings /\ made'[k] = made[k]
  BY SettingsStay, EarlierCallsStay
<1>2. pinned /\ disassembler # NoBackend => disassembler' = disassembler
  <2>1. CASE Load
    BY <1>1, <2>1 DEF Load, InitDisassembler, Kept, pinned
  <2>2. CASE ~Load
    BY <2>2, OnlyLoadChooses
  <2>3. QED
    BY <2>1, <2>2
<1>3. QED
  BY <1>1, <1>2 DEF Served, pinned, Architecture, Routed, BufferArchitecture, Foreign

LEMMA OwedStays ==
    ASSUME TypeOK, [Next]_vars, NEW k \in 1..Now, 1..(k - 1) \subseteq DOMAIN answers,
           NEW a, Owed(k, a)
    PROVE  Owed(k, a)'
<1>1. settings' = settings
  BY SettingsStay
<1>2. Named(k, a) => Named(k, a)'
  BY StillKnownStays DEF Named
<1>3. Served(k, a) => Served(k, a)'
  BY ServedStays
<1>4. QED
  BY <1>1, <1>2, <1>3, Zenon DEF Owed, Finished, Listed, Timed

LEMMA FailureIsOwed ==
    ASSUME NEW k \in 1..Now, NEW status \in {"error", "raised"}
    PROVE  Owed(k, Failure(status))
  BY DEF Owed, Failure, Finished, Timed, Named, NoNames

LEMMA DraftedStep ==
    ASSUME FInv, [Next]_vars
    PROVE  Drafted'
<1>1. settings' = settings
  BY SettingsStay
<1>2. CASE BuildReport
  <2>1. /\ phase = "analysing" /\ UNCHANGED <<disassembler, made, settings>>
        /\ report' = [status |-> IF expired THEN "timeout" ELSE "ok",
                      architecture |-> disassembler, names |-> names,
                      strings |-> RawStrings, buffer |-> FALSE, took |-> time - began]
        /\ phase' = IF settings.strings THEN "strings" ELSE "built"
    BY <1>2 DEF BuildReport, backend
  <2>2. Finished(report)' /\ ~report'.buffer
    BY <2>1 DEF Finished
  <2>3. Served(Now, report)'
    <3>1. /\ report'.architecture = disassembler /\ disassembler # NoBackend
          /\ settings.backend \in Backends \cup {Exporter} => disassembler = settings.backend
          /\ ~Foreign(Call)
      BY <2>1 DEF FInv, BackendKept, BackendChosen, UnderWay
    <3>2. ~pinned => disassembler = Architecture(Call) /\ Architecture(Call) \in Backends
      BY <2>1, <3>1 DEF FInv, BackendChosen, UnderWay
    <3>3. QED
      BY <2>1, <3>1, <3>2
         DEF Served, pinned, Architecture, Routed, BufferArchitecture, Foreign, Call, Now
  <2>4. Timed(report)'
    BY <1>1, <2>1 DEF FInv, TimerStarted, Timed
  <2>5. Named(Now, report)'
    <3>1. TypeOK /\ PdbKnown /\ Now \in Nat /\ DOMAIN answers = 1..(Now - 1)
      BY <2>1, OneUnanswered DEF FInv
    <3>2. pdbInfo \in {0, Now} \/ StillKnown(pdbInfo, Now, disassembler)
      <4>1. SUFFICES ASSUME pdbInfo \notin {0, Now}
                     PROVE  StillKnown(pdbInfo, Now, disassembler)
        OBVIOUS
      <4>2. pdbInfo \in 1..(Now - 1) /\ GivesPdb(made[pdbInfo]) /\ ~GivesPdb(made[Now])
        BY <2>1, <3>1, <4>1 DEF PdbKnown, UnderWay, Call
      <4>3. QED
        BY <3>1, <4>1, <4>2 DEF PdbKnown, StillKnown, Complete, Finished
    <3>3. \A p \in Providers :
              names[p] \in {0, Now} \/ (p = "pdb" /\ StillKnown(names[p], Now, disassembler))
      BY <2>1, <3>2 DEF FInv, NamesFollow
    <3>4. answers' = answers /\ made' = made /\ Now' = Now
      BY <1>2 DEF BuildReport, Now
    <3>5. report'.names = names /\ report'.architecture = disassembler
      BY <2>1
    <3>6. QED
      BY <3>3, <3>4, <3>5 DEF Named, StillKnown, Complete
  <2>6. (phase = "built" => Listed(report))' /\ (phase = "strings" => settings.strings)'
    BY <1>1, <2>1 DEF Listed, RawStrings, FInv, TypeOK
  <2>7. QED
    BY <2>1, <2>2, <2>3, <2>4, <2>5, <2>6 DEF Drafted
<1>3. CASE ExtractStrings
  <2>1. /\ phase = "strings" /\ phase' = "built" /\ UNCHANGED <<disassembler, made, answers>>
        /\ report' = [report EXCEPT !.strings = "listed", !.buffer = TakeBack(@)]
    BY <1>3 DEF ExtractStrings, backend
  <2>2. report \in Report
    BY DEF FInv, TypeOK
  <2>3. /\ report'.status = report.status /\ report'.took = report.took
        /\ report'.architecture = report.architecture /\ report'.names = report.names
        /\ report'.strings = "listed" /\ report'.buffer = report.buffer
    BY <2>1, <2>2 DEF Report, TakeBack
  <2>4. /\ Finished(report) /\ ~report.buffer /\ settings.strings
        /\ Served(Now, report) /\ Timed(report) /\ Named(Now, report)
        /\ report.architecture = disassembler
    BY <2>1 DEF FInv, Drafted
  <2>5. Served(Now, report)'
    BY <1>1, <2>1, <2>3, <2>4
       DEF Served, pinned, Architecture, Routed, BufferArchitecture, Foreign, Now
  <2>6. Named(Now, report)'
    BY <2>1, <2>3, <2>4 DEF Named, StillKnown, Complete, Now
  <2>7. Finished(report)' /\ Timed(report)' /\ Listed(report)' /\ ~report'.buffer
    BY <1>1, <2>3, <2>4 DEF Finished, Timed, Listed
  <2>8. QED
    BY <2>1, <2>3, <2>4, <2>5, <2>6, <2>7 DEF Drafted
<1>4. CASE UNCHANGED vars
  BY <1>4 DEF FInv, Drafted, vars, backend, current, Finished, Served, Timed, Named, Listed,
     StillKnown, Complete, Now, pinned, Architecture, Routed, BufferArchitecture, Foreign
<1>5. CASE phase' \notin {"strings", "built"}
  BY <1>5 DEF Drafted
<1>6. QED
  BY <1>2, <1>3, <1>4, <1>5, Actions
     DEF Steps, Begin, Load, Start, Tick, Poll, Return, Refuse, Raise, Fail

(* Appending an answer leaves the others, and it is the last call's. *)
LEMMA AnswerAppended ==
    ASSUME TypeOK, [Next]_vars, phase # "idle", Answered,
           NEW a \in Report, answers' = Append(answers, a), Owed(Now, a)
    PROVE  Answered'
<1>1. /\ Now \in 1..Now /\ Len(answers) = Now - 1 /\ DOMAIN answers' = 1..Now
      /\ answers'[Now] = a /\ \A k \in 1..(Now - 1) : answers'[k] = answers[k] /\ k \in 1..Now
      /\ DOMAIN answers = 1..(Now - 1) /\ \A k \in 1..Now : 1..(k - 1) \subseteq DOMAIN answers
  BY OneUnanswered DEF TypeOK
<1>2. ASSUME NEW k \in 1..Now PROVE Owed(k, answers[k])'
  <2>1. CASE k = Now
    <3>1. Owed(k, a)'
      BY <1>1, <2>1, OwedStays
    <3>2. QED
      BY <1>1, <2>1, <3>1
  <2>2. CASE k # Now
    <3>1. k \in 1..(Now - 1) /\ k \in DOMAIN answers
      BY <1>1, <2>2, OneUnanswered
    <3>2. PICK b : b = answers[k]
      OBVIOUS
    <3>3. Owed(k, b)'
      BY <3>1, <3>2, OwedStays DEF Answered
    <3>4. QED
      BY <1>1, <3>1, <3>2, <3>3
  <2>3. QED
    BY <2>1, <2>2
<1>3. QED
  BY <1>1, <1>2 DEF Answered

LEMMA AnsweredStep ==
    ASSUME FInv, [Next]_vars
    PROVE  Answered'
<1>0. TypeOK /\ Answered
  BY DEF FInv
<1>1. ASSUME UNCHANGED answers PROVE Answered'
  <2>1. \A k \in DOMAIN answers : k \in 1..Now
    BY <1>0, OneUnanswered
  <2>0. \A k \in DOMAIN answers : 1..(k - 1) \subseteq DOMAIN answers
    BY <1>0, OneUnanswered DEF TypeOK
  <2>2. ASSUME NEW k \in DOMAIN answers PROVE Owed(k, answers[k])'
    <3>1. PICK b : b = answers[k]
      OBVIOUS
    <3>2. Owed(k, b)'
      BY <1>0, <2>0, <2>1, <3>1, OwedStays DEF Answered
    <3>3. QED
      BY <1>1, <3>1, <3>2
  <2>3. QED
    BY <1>1, <2>2 DEF Answered
<1>2. CASE Return
  <2>1. PICK a : a = [report EXCEPT !.buffer = settings.store \/ @]
    OBVIOUS
  <2>2. phase = "built" /\ answers' = Append(answers, a)
    BY <1>2, <2>1 DEF Return
  <2>3. report \in Report /\ settings.store \in BOOLEAN
    BY <1>0, FacadeAssumption DEF TypeOK
  <2>4. /\ a \in Report /\ a.buffer = (settings.store \/ report.buffer)
        /\ a.status = report.status /\ a.architecture = report.architecture
        /\ a.names = report.names /\ a.strings = report.strings /\ a.took = report.took
    BY <2>1, <2>3 DEF Report
  <2>5. /\ Finished(report) /\ ~report.buffer /\ Listed(report)
        /\ Served(Now, report) /\ Timed(report) /\ Named(Now, report)
    BY <2>2 DEF FInv, Drafted
  <2>6. Finished(a) /\ Listed(a) /\ Timed(a) /\ Named(Now, a) /\ Served(Now, a)
    BY <2>4, <2>5, Zenon DEF Finished, Listed, Timed, Named, Served
  <2>7. Owed(Now, a)
    BY <2>4, <2>5, <2>6, Zenon DEF Owed
  <2>8. QED
    BY <1>0, <2>2, <2>4, <2>7, AnswerAppended
<1>3. ASSUME NEW status \in {"error", "raised"}, phase # "idle", Fail(status)
      PROVE  Answered'
  <2>1. Now \in 1..Now
    BY <1>0, <1>3, OneUnanswered
  <2>2. PICK a : a = Failure(status)
    OBVIOUS
  <2>3. a \in Report /\ Owed(Now, a)
    BY <2>1, <2>2, FailureIsReport, FailureIsOwed
  <2>4. QED
    BY <1>0, <1>3, <2>2, <2>3, AnswerAppended DEF Fail
<1>4. CASE Refuse
  BY <1>3, <1>4 DEF Refuse
<1>5. ASSUME NEW operational \in BOOLEAN, Raise(operational) PROVE Answered'
  <2>1. phase # "idle"
    BY <1>5 DEF Raise
  <2>2. QED
    BY <1>3, <1>5, <2>1 DEF Raise
<1>6. QED
  BY <1>1, <1>2, <1>4, <1>5, Actions
     DEF Steps, Begin, Load, Start, Tick, Poll, BuildReport, ExtractStrings, vars

-----------------------------------------------------------------------------
(* What the instance keeps is settled by its set-up and by the call it is   *)
(* kept for, and every answer keeps what it owes to its call.               *)
THEOREM FacadeInvariant == Spec => []FInv
<1>1. Init => FInv
  <2> SUFFICES ASSUME Init PROVE FInv
    OBVIOUS
  <2>1. TypeOK /\ BackendKept
    BY TypeInit, BackendInit
  <2>2. BackendChosen /\ CollectorKept /\ TimerStarted /\ Drafted
    BY DEF Init, BackendChosen, CollectorKept, TimerStarted, Drafted, UnderWay
  <2>3. PdbKnown /\ NamesFollow
    BY <2>1, OneUnanswered DEF Init, PdbKnown, NamesFollow, UnderWay
  <2>4. Answered
    BY DEF Init, Answered
  <2>5. QED
    BY <2>1, <2>2, <2>3, <2>4 DEF FInv
<1>2. FInv /\ [Next]_vars => FInv'
  BY TypeStep, BackendStep, ChosenStep, CollectorStep, TimerStep, PdbStep, NamesStep,
     DraftedStep, AnsweredStep DEF FInv
<1>3. QED
  BY <1>1, <1>2, PTL DEF Spec

(* Every variable of the facade keeps its type; every call but the one     *)
(* under way has its answer.                                               *)
THEOREM FacadeTypeCorrect == Spec => []TypeOK
<1>1. FInv => TypeOK
  BY DEF FInv
<1>2. QED
  BY <1>1, FacadeInvariant, PTL

(* Disassembler.initDisassembler(): a report is made by the backend its    *)
(* own input calls for, or by the pinned one, whatever came before.        *)
THEOREM ReportsAreOfTheirInput == Spec => []ReportsNameTheirInput
<1>1. FInv => ReportsNameTheirInput
  <2> SUFFICES ASSUME FInv, NEW k \in DOMAIN answers, Complete(k)
               PROVE  CASE settings.backend \in Backends \cup {Exporter} ->
                             answers[k].architecture = settings.backend
                        [] ~pinned -> answers[k].architecture = Architecture(made[k])
                        [] OTHER   -> \A j \in 1..k : Complete(j) =>
                                         answers[k].architecture = answers[j].architecture
    BY DEF ReportsNameTheirInput
  <2>1. \A j \in DOMAIN answers : Complete(j) => Served(j, answers[j])
    BY DEF FInv, Answered, Owed, Complete, Finished
  <2>2. \A j \in 1..k : j \in DOMAIN answers
    BY OneUnanswered DEF FInv
  <2>3. settings.backend \in Backends \cup {Exporter} => pinned
    BY DEF pinned, Backends, Native, Exporter
  <2>4. QED
    BY <2>1, <2>2, <2>3 DEF Served
<1>2. QED
  BY <1>1, FacadeInvariant, PTL

(* disassembleBuffer(), _disassemble(): what no backend exists for is      *)
(* answered with an error, also when an earlier input left a backend.      *)
THEOREM ForeignCodeIsNeverAnalysed == Spec => []ForeignCodeIsRefused
<1>1. FInv => ForeignCodeIsRefused
  BY DEF FInv, Answered, Owed, Served, Complete, Finished, ForeignCodeIsRefused
<1>2. QED
  BY <1>1, FacadeInvariant, PTL

(* _callbackAnalysisTimeout(): a report's timeout is its own.              *)
THEOREM TimeoutsAreOwn == Spec => []TimeoutsAreTheirOwn
<1>1. FInv => TimeoutsAreTheirOwn
  BY DEF FInv, Answered, Owed, Timed, TimeoutsAreTheirOwn
<1>2. QED
  BY <1>1, FacadeInvariant, PTL

(* _disassemble(): however an analysis ends, the collector is as the host  *)
(* left it.                                                                *)
THEOREM CollectorIsGivenBack == Spec => []CollectorIsRestored
<1>1. FInv => CollectorIsRestored
  BY DEF FInv, CollectorKept, CollectorIsRestored
<1>2. QED
  BY <1>1, FacadeInvariant, PTL

(* _addStringsToReport(): the image lent for the extraction is taken back. *)
THEOREM BuffersAreTakenBack == Spec => []BuffersAreAskedFor
<1>1. FInv => BuffersAreAskedFor
  BY DEF FInv, Answered, Owed, Finished, Complete, BuffersAreAskedFor
<1>2. QED
  BY <1>1, FacadeInvariant, PTL

(* _extractStrings(): no report keeps the map the backends record.         *)
THEOREM StringsAreAlwaysListed == Spec => []StringsAreListed
<1>1. FInv => StringsAreListed
  BY DEF FInv, Answered, Owed, Listed, Finished, Complete, StringsAreListed
<1>2. QED
  BY <1>1, FacadeInvariant, PTL

(* _updateLabelProviders(): a report's names are of its own call, whatever  *)
(* came before, or of the last PDB its backend was given, by an earlier     *)
(* call that the same backend served, as it did all between.                *)
THEOREM NamesAreOfTheirInput == Spec => []NamesAreOwn
<1>1. FInv => NamesAreOwn
  BY DEF FInv, Answered, Owed, Named, NamesAreOwn
<1>2. QED
  BY <1>1, FacadeInvariant, PTL

(* A backend named at construction serves every input.                     *)
THEOREM PinnedBackendServes == Spec => PinnedBackendStays
<1>1. [Next]_vars => [pinned /\ disassembler # NoBackend => UNCHANGED disassembler]_vars
  <2> SUFFICES ASSUME [Next]_vars, pinned, disassembler # NoBackend
               PROVE  UNCHANGED disassembler
    OBVIOUS
  <2>1. CASE Load
    BY <2>1 DEF Load, InitDisassembler, Kept
  <2>2. QED
    BY <2>1, OnlyLoadChooses
<1>2. QED
  BY <1>1, PTL DEF Spec, PinnedBackendStays

(* disassembleFile() and its siblings: whatever earlier calls left, a call *)
(* is answered from its own input, and from a PDB its backend still knows. *)
THEOREM CallsGetTheirOwnAnswers == Spec => []AnswersAreTheirOwn
<1>1. /\ TypeOK /\ ReportsNameTheirInput /\ ForeignCodeIsRefused
      /\ TimeoutsAreTheirOwn /\ NamesAreOwn
      => AnswersAreTheirOwn
  BY DEF AnswersAreTheirOwn
<1>2. QED
  BY <1>1, FacadeTypeCorrect, ReportsAreOfTheirInput, ForeignCodeIsNeverAnalysed,
     TimeoutsAreOwn, NamesAreOfTheirInput, PTL

(* However a call ends, nothing of it stays behind: collector, buffer and  *)
(* strings are as promised.                                                *)
THEOREM CallsLeaveNothing == Spec => []NothingStaysBehind
<1>1. CollectorIsRestored /\ BuffersAreAskedFor /\ StringsAreListed => NothingStaysBehind
  BY DEF NothingStaysBehind
<1>2. QED
  BY <1>1, CollectorIsGivenBack, BuffersAreTakenBack, StringsAreAlwaysListed, PTL
=============================================================================
