-------------------------------- MODULE Facade --------------------------------
(***************************************************************************)
(* One Disassembler instance that serves many calls: smda/Disassembler.py, *)
(* the loaders behind it (smda/utility/FileLoader.py) and the label        *)
(* providers of the native engine.                                         *)
(*                                                                         *)
(* A call loads an input, chooses a backend, analyses under a budget,      *)
(* builds the report, adds strings to it, and may raise at any of these.   *)
(* What survives a call is the backend with its label providers, the start *)
(* of the timer and the garbage collector's switch; the rest starts anew.  *)
(***************************************************************************)
EXTENDS Integers, Sequences

CONSTANTS
    Images,      \* the inputs: what the container says, what the bytes look like
    Calls,       \* [entry, image, asked, pdb]: the calls a client may make
    Settings,    \* [backend, strings, store, budget, routing, gc]: how it is set up
    MaxCalls,    \* calls made on one instance
    MaxTime      \* how far the clock runs

Native    == {"intel", "aarch64", "arm"}
Backends  == Native \cup {"cil", "dalvik"}
NoBackend == "none"
Never     == -1
Exporter  == "IDA"

ASSUME FacadeAssumption ==
    /\ Images \subseteq [format : {"pe", "elf", "macho", "kb", "dex", "raw"}, parsed : BOOLEAN,
                         machine : STRING, managed : BOOLEAN, native : BOOLEAN, code : STRING]
    /\ Calls \subseteq [entry : {"file", "unmapped", "buffer"}, image : Images,
                        asked : STRING, pdb : BOOLEAN]
    /\ Settings \subseteq [backend : STRING, strings : BOOLEAN, store : BOOLEAN,
                           budget : Nat, routing : BOOLEAN, gc : BOOLEAN]
    /\ MaxCalls \in Nat \ {0} /\ MaxTime \in Nat

VARIABLES
    settings,     \* the configuration, the backend named at construction
    disassembler, \* the backend kept between calls: NoBackend, Exporter or a name
    active,       \* _active_architecture
    pdbInfo,      \* the call whose PDB the backend remembers, 0 for none
    names,        \* per label provider, the call its names are from, 0 for none
    startTime,    \* _start_time, Never before the first analysis
    gc,           \* whether the garbage collector runs
    time,         \* the clock
    made,         \* the calls made, in order
    phase,        \* where the current call is
    began,        \* when the analysis of the current call began
    expired,      \* whether the analysis saw its budget spent
    report,       \* the report under construction
    answers       \* what the finished calls returned

backend == <<disassembler, active, pdbInfo, names>>
current == <<began, expired, report>>
vars    == <<settings, backend, startTime, gc, time, made, phase, current, answers>>

Now    == Len(made)
Call   == made[Now]
pinned == settings.backend # ""

-----------------------------------------------------------------------------
(* The loaders.  PE machine types are read from the bytes, the others from *)
(* the parsed file, which may be missing.                                  *)

MachineNamed(image) ==
    CASE image.format = "pe" /\ image.machine \in Native -> image.machine
      [] image.format \in {"elf", "macho"} /\ image.parsed -> image.machine
      [] OTHER -> ""

GetArchitecture(image) ==
    CASE image.format = "pe" /\ image.parsed /\ image.managed -> "cil"
      [] image.format = "kb"  -> "intel"
      [] image.format = "dex" -> "dalvik"
      [] OTHER -> MachineNamed(image)

GetReadyToRunArchitecture(image) ==
    IF image.format = "pe" /\ image.parsed /\ image.native THEN MachineNamed(image) ELSE ""

(* What a loaded input is analysed as. *)
Routed(image) ==
    IF settings.routing /\ GetArchitecture(image) = "cil" /\ GetReadyToRunArchitecture(image) # ""
    THEN GetReadyToRunArchitecture(image)
    ELSE GetArchitecture(image)

-----------------------------------------------------------------------------
(* What a buffer is taken for: its header before its code. *)

DeclaredArchitecture(image) ==
    IF MachineNamed(image) \in Native THEN MachineNamed(image) ELSE ""

Detected(image) ==
    CASE image.format = "dex" -> "dalvik"
      [] DeclaredArchitecture(image) # "" -> DeclaredArchitecture(image)
      [] image.code \in {"aarch64", "arm"} -> image.code
      [] OTHER -> ""

(* Foreign code is refused, unless the client asked for a backend. *)
Foreign(call) == /\ call.entry = "buffer" /\ ~pinned /\ call.asked = ""
                 /\ Detected(call.image) = "" /\ call.image.code \notin {"intel", ""}

BufferArchitecture(call) ==
    LET found == IF pinned THEN "" ELSE Detected(call.image)
    IN  CASE call.asked # "" -> call.asked
          [] found # ""      -> found
          [] OTHER           -> "intel"

Architecture(call) ==
    IF call.entry = "buffer" THEN BufferArchitecture(call) ELSE Routed(call.image)

-----------------------------------------------------------------------------
(* Choosing the backend.  A new backend has label providers of its own. *)

\* fault: a backend that is there is kept
KeptAlways(architecture) == disassembler # NoBackend

Kept(architecture) == disassembler # NoBackend /\ (pinned \/ active = architecture)

(* The call's architecture decides, the PDB is remembered by the native ones. *)
Providers == {"imports", "symbols", "pdb"}
NoNames   == [p \in Providers |-> 0]

InitDisassembler(architecture) ==
    LET chosen == IF architecture \in Backends THEN architecture ELSE NoBackend
    IN  /\ disassembler' = IF Kept(architecture) THEN disassembler ELSE chosen
        /\ active' = IF Kept(architecture) THEN active ELSE chosen

GivesPdb(call) == call.entry = "file" /\ call.pdb

RemembersPdb(architecture) ==
    LET keeps == IF Kept(architecture) THEN disassembler ELSE architecture
    IN  GivesPdb(Call) /\ keeps \in Native

\* fault: a PDB outlives the backend it was given to
PdbOutlivesBackend(architecture) ==
    pdbInfo' = IF RemembersPdb(architecture) THEN Now ELSE pdbInfo

AddPdbFile(architecture) ==
    pdbInfo' = IF RemembersPdb(architecture) THEN Now
               ELSE IF Kept(architecture) THEN pdbInfo ELSE 0

(* update() empties a provider and fills it from what it recognises.  The  *)
(* binary comes first, then the PDB the backend remembers; all providers   *)
(* see both.                                                               *)
Recognizes(p, call) == p # "pdb" /\ made[call].image.parsed

UpdateLabelProviders ==
    names' = [p \in Providers |->
                CASE disassembler \notin Native -> 0
                  [] pdbInfo # 0 -> IF p = "pdb" THEN pdbInfo ELSE 0
                  [] OTHER -> IF Recognizes(p, Now) THEN Now ELSE 0]

-----------------------------------------------------------------------------
(* One call. *)

Begin(call) ==
    /\ phase = "idle" /\ Now < MaxCalls
    /\ made' = Append(made, call)
    /\ phase' = "loading"
    /\ UNCHANGED <<settings, backend, startTime, gc, time, current, answers>>

Load ==
    /\ phase = "loading"
    /\ InitDisassembler(Architecture(Call))
    /\ AddPdbFile(Architecture(Call))
    /\ names' = IF Kept(Architecture(Call)) THEN names ELSE NoNames
    /\ phase' = "loaded"
    /\ UNCHANGED <<settings, startTime, gc, time, made, current, answers>>

(* _disassemble() refuses what no backend is there for; a pinned Dalvik    *)
(* backend raises on what is no DEX.                                       *)
Refused ==
    \/ Foreign(Call)
    \/ disassembler = NoBackend
    \/ disassembler = "dalvik" /\ Call.image.format # "dex"

StartTimer == startTime' = time

Start ==
    /\ phase = "loaded" /\ ~Refused
    /\ StartTimer
    /\ gc' = FALSE
    /\ UpdateLabelProviders
    /\ began' = time /\ expired' = FALSE
    /\ phase' = "analysing"
    /\ UNCHANGED <<settings, disassembler, active, pdbInfo, time, made, report, answers>>

Tick ==
    /\ phase = "analysing" /\ time < MaxTime
    /\ time' = time + 1
    /\ UNCHANGED <<settings, backend, startTime, gc, made, phase, current, answers>>

(* _callbackAnalysisTimeout() *)
TimeIsUp == settings.budget # 0 /\ time - startTime >= settings.budget

Poll ==
    /\ phase = "analysing" /\ TimeIsUp /\ ~expired
    /\ expired' = TRUE
    /\ UNCHANGED <<settings, backend, startTime, gc, time, made, phase, began, report, answers>>

RawStrings == IF settings.strings \/ disassembler = "dalvik"
              THEN IF disassembler = "dalvik" THEN "listed" ELSE "raw"
              ELSE "none"

(* The report takes its architecture from the backend that made it. *)
BuildReport ==
    /\ phase = "analysing"
    /\ report' = [status |-> IF expired THEN "timeout" ELSE "ok",
                  architecture |-> disassembler, names |-> names,
                  strings |-> RawStrings, buffer |-> FALSE, took |-> time - began]
    /\ gc' = settings.gc
    /\ phase' = IF settings.strings THEN "strings" ELSE "built"
    /\ UNCHANGED <<settings, backend, startTime, time, made, began, expired, answers>>

(* The extractor reads the image off the report, which has it only so long. *)
TakeBack(before) == before

ExtractStrings ==
    /\ phase = "strings"
    /\ report' = [report EXCEPT !.strings = "listed", !.buffer = TakeBack(@)]
    /\ phase' = "built"
    /\ UNCHANGED <<settings, backend, startTime, gc, time, made, began, expired, answers>>

Return ==
    /\ phase = "built"
    /\ answers' = Append(answers, [report EXCEPT !.buffer = settings.store \/ @])
    /\ phase' = "idle"
    /\ UNCHANGED <<settings, backend, startTime, gc, time, made, current>>

(* An error report has no content; what is not operational is raised. *)
Failure(status) == [status |-> status, architecture |-> NoBackend, names |-> NoNames,
                    strings |-> "none", buffer |-> FALSE, took |-> 0]

Fail(status) ==
    /\ answers' = Append(answers, Failure(status))
    /\ phase' = "idle"
    /\ UNCHANGED <<settings, backend, startTime, time, made, current>>

\* fault: a call without a backend waits for one
RefuseForeign == phase = "loaded" /\ Foreign(Call) /\ Fail("error") /\ UNCHANGED gc

Refuse == phase = "loaded" /\ Refused /\ Fail("error") /\ UNCHANGED gc

\* fault: the collector is switched on again only after a success
RestoreNothing == UNCHANGED gc

RestoreCollector == gc' = IF phase = "analysing" THEN settings.gc ELSE gc

(* The backend is chosen inside the try, but for a buffer. *)
Raise(operational) ==
    /\ phase \in {"loading", "analysing", "strings"}
    /\ RestoreCollector
    /\ Fail(IF operational /\ ~(phase = "loading" /\ Call.entry = "buffer")
            THEN "error" ELSE "raised")

-----------------------------------------------------------------------------
Init ==
    /\ settings \in Settings
    /\ disassembler = IF settings.backend \in Backends \cup {Exporter}
                      THEN settings.backend ELSE NoBackend
    /\ active = IF settings.backend \in Backends THEN settings.backend ELSE NoBackend
    /\ pdbInfo = 0 /\ names = NoNames
    /\ startTime = Never /\ gc = settings.gc /\ time = 0
    /\ made = <<>> /\ phase = "idle"
    /\ began = 0 /\ expired = FALSE /\ report = Failure("none")
    /\ answers = <<>>

Work == Load \/ Start \/ Poll \/ BuildReport \/ ExtractStrings \/ Return \/ Refuse

Next == \/ \E call \in Calls : Begin(call)
        \/ Work \/ Tick
        \/ \E operational \in BOOLEAN : Raise(operational)

Spec == Init /\ [][Next]_vars

(* A call that was made goes on; clients need not make one. *)
FairSpec == Spec /\ WF_vars(Work)

-----------------------------------------------------------------------------
Architectures == Backends \cup {NoBackend, Exporter}

Report == [status : {"none", "ok", "timeout", "error", "raised"}, architecture : Architectures,
           names : [Providers -> 0..MaxCalls], strings : {"none", "raw", "listed"},
           buffer : BOOLEAN, took : 0..MaxTime]

TypeOK ==
    /\ settings \in Settings
    /\ disassembler \in Architectures /\ active \in Backends \cup {NoBackend}
    /\ pdbInfo \in 0..MaxCalls /\ names \in [Providers -> 0..MaxCalls]
    /\ startTime \in Never..MaxTime /\ gc \in BOOLEAN /\ time \in 0..MaxTime
    /\ made \in Seq(Calls) /\ Now <= MaxCalls
    /\ phase \in {"idle", "loading", "loaded", "analysing", "strings", "built"}
    /\ began \in 0..MaxTime /\ expired \in BOOLEAN
    /\ report \in Report /\ answers \in Seq(Report)
    /\ Len(answers) = IF phase = "idle" THEN Now ELSE Now - 1

Complete(k) == answers[k].status \in {"ok", "timeout"}

(* A report names the instruction set its own input calls for, whatever     *)
(* inputs the instance served before, or the one the instance is pinned to; *)
(* an instance pinned to an unknown name sticks to the first it is given.   *)
ReportsNameTheirInput ==
    \A k \in DOMAIN answers : Complete(k) =>
        CASE settings.backend \in Backends \cup {Exporter} ->
                answers[k].architecture = settings.backend
          [] ~pinned -> answers[k].architecture = Architecture(made[k])
          [] OTHER   -> \A j \in 1..k : Complete(j) =>
                            answers[k].architecture = answers[j].architecture

(* No input without a backend is analysed, and none with one is refused:    *)
(* a container that names foreign code, or a buffer full of it, gives an    *)
(* error report even when an earlier input left a backend behind.           *)
ForeignCodeIsRefused ==
    \A k \in DOMAIN answers : Complete(k) /\ ~pinned =>
        Architecture(made[k]) \in Backends /\ ~Foreign(made[k])

(* A backend the client pinned is never replaced, whatever it is fed. *)
PinnedBackendStays ==
    [][pinned /\ disassembler # NoBackend => UNCHANGED disassembler]_vars

(* A report says timeout only when its own analysis outlasted the budget:   *)
(* the time spent on earlier inputs does not count.                         *)
TimeoutsAreTheirOwn ==
    \A k \in DOMAIN answers : answers[k].status = "timeout" =>
        settings.budget # 0 /\ answers[k].took >= settings.budget

(* Between calls the collector is as the host left it, however a call ended. *)
CollectorIsRestored == phase = "idle" => gc = settings.gc

(* The image stays in a report only if the client asked for it. *)
BuffersAreAskedFor ==
    \A k \in DOMAIN answers : answers[k].buffer => settings.store /\ Complete(k)

(* The string references of a finished report are lists, never the raw map  *)
(* the backends record, and there are none unless they were asked for, but  *)
(* in a Dalvik report, which lists them always.                             *)
StringsAreListed ==
    \A k \in DOMAIN answers : Complete(k) =>
        /\ answers[k].strings # "raw"
        /\ settings.strings => answers[k].strings = "listed"
        /\ ~settings.strings /\ answers[k].architecture # "dalvik" => answers[k].strings = "none"

(* The PDB of the j-th call is still the one a backend knows that serves    *)
(* the k-th: no call since gave another, and none had another backend.      *)
StillKnown(j, k, architecture) ==
    /\ j \in 1..k-1 /\ GivesPdb(made[j]) /\ ~GivesPdb(made[k])
    /\ \A i \in j..k-1 : Complete(i) =>
           /\ answers[i].architecture = architecture
           /\ i # j => ~GivesPdb(made[i])

(* The names in a report are of its own call, whatever calls came before,   *)
(* but those of a PDB: where the call gave none, they may be those of the   *)
(* last PDB an earlier call gave to the same backend, and of no other.      *)
NamesAreOwn ==
    \A k \in DOMAIN answers : \A p \in Providers :
        \/ answers[k].names[p] \in {0, k}
        \/ p = "pdb" /\ StillKnown(answers[k].names[p], k, answers[k].architecture)

(* PdbSymbolProvider.py:89: a PDB is not used unless passed, "pass it       *)
(* explicitly to use its symbols", and README.md:75 passes it to one call.  *)
PdbsAreOfTheirCall ==
    \A k \in DOMAIN answers : answers[k].names["pdb"] \in {0, k}

(* BinaryInfo.py:37: names are resolved "after disassembly merges all       *)
(* active label providers (format symbols, API resolvers, ... PDB ...)".    *)
NamesAreMerged ==
    \A k \in DOMAIN answers :
        Complete(k) /\ answers[k].architecture \in Native /\ made[k].image.parsed
            => answers[k].names["imports"] = k

(* Every call is answered. *)
CallsAreAnswered == [](phase # "idle" => <>(phase = "idle"))

-----------------------------------------------------------------------------
(* What the runs check together.                                            *)

(* A call is answered from its own input: backend, code, names and time of  *)
(* a report are those of the call, whatever earlier calls on the instance   *)
(* left behind, the names of a PDB still known to the backend excepted.     *)
AnswersAreTheirOwn ==
    /\ TypeOK
    /\ ReportsNameTheirInput
    /\ ForeignCodeIsRefused
    /\ TimeoutsAreTheirOwn
    /\ NamesAreOwn

(* However a call ends, the collector is as the caller had it, the report   *)
(* keeps the buffer only where asked to, and has its strings.               *)
NothingStaysBehind ==
    /\ CollectorIsRestored
    /\ BuffersAreAskedFor
    /\ StringsAreListed
=============================================================================
