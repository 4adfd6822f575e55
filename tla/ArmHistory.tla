------------------------------- MODULE ArmHistory -------------------------------
(***************************************************************************)
(* The AArch32 analysis of Arm (smda/arm/ArmDisassembler.py) with a record *)
(* of the cases its promises do not cover, for properties that name them.  *)
(***************************************************************************)
EXTENDS Arm

(***************************************************************************)
(* taught     functions told their other instruction set while they were   *)
(*            under analysis: their own code calls them in it              *)
(* worthless  candidates whose turn came while nothing spoke for them      *)
(* late       <<function, byte>>: decoded in the second pass already when  *)
(*            a load of that pass, which the first did not read, named it  *)
(* left       the pools of gap functions that were undone                  *)
(***************************************************************************)
VARIABLES taught, worthless, late, left

historyVars == <<taught, worthless, late, left>>
allVars == <<vars, historyVars>>

TaughtNow ==
    {frames[k].start : k \in {i \in DOMAIN frames : frames[i].thumb # IsThumb(fcm, frames[i].start)}}

WorthlessNow ==
    {c \in fcm.queue : /\ Idle /\ pass \in DOMAIN AfterDrain /\ Best(c)
                       /\ ~fcm.candidates[c].finished /\ ~Eligible(c)}

FirstPass == frames[Len(frames) - 1]

LateNow ==
    IF Decoding /\ Top.repeated /\ Len(frames) > 1
    THEN {Top.start} \X ((Top.data \ FirstPass.data) \cap Top.bytes)
    ELSE {}

LeftNow == UNION {pools[fn] : fn \in DOMAIN pools \ Functions}

HistoryInit == Init /\ taught = {} /\ worthless = {} /\ late = {} /\ left = {}

Recorded ==
    /\ taught' = taught \cup TaughtNow'
    /\ worthless' = worthless \cup WorthlessNow'
    /\ late' = late \cup LateNow'
    /\ left' = left \cup LeftNow'

HistoryNext == Next /\ Recorded

HistorySpec == HistoryInit /\ [][HistoryNext]_allVars

-----------------------------------------------------------------------------
(* What the repository says, without exception; the code does not keep it.  *)

(* The metadata of a function is the instruction set it was decoded in,     *)
(* which is what lets a reader of the report decode it the same way (the    *)
(* class's docstring).                                                      *)
MetaIsHowDecoded == Idle => \A fn \in Functions : meta[fn] = history[fn]

(* A function decoded in the instruction set a weaker statement named is    *)
(* undone and decoded again in the one noted since (noteMode()).            *)
StrongestIsDecoded == Idle => \A fn \in Functions : meta[fn] = IsThumb(fcm, fn)

(* Pools are taken back with the function that booked them                  *)
(* (_dataBytesByFunction()): data is what a function that stands booked.    *)
PoolsAreTakenBack ==
    dis.dataMap \subseteq UNION {pools[fn] : fn \in DOMAIN pools \cap Functions}

(* The words instructions load, decoded in an instruction set; and those of *)
(* a function.                                                              *)
LoadedBy(thumb, ins) ==
    LET loads == {a \in ins : At(thumb, a).kind = "lit" /\ At(thumb, a).target \in Addresses}
    IN  UNION {Span(At(thumb, a).target, 4) : a \in loads}

Loaded(fn) == LoadedBy(history[fn], dis.functions[fn].ins)

(* What a function reads is not code, however its bytes decode              *)
(* (analyzeFunction()): none of its instructions lies on a word it loads.   *)
LoadedIsNeverCode == \A fn \in Functions : Loaded(fn) \cap dis.functions[fn].bytes = {}

-----------------------------------------------------------------------------
(* Properties. *)

(* The instruction set a report names for a function is the one its        *)
(* instructions were decoded in, and nothing stronger was said since; but   *)
(* for a function that was told its other one by its own code.             *)
MetaTellsHowDecoded ==
    Idle => \A fn \in Functions \ taught : meta[fn] = history[fn] /\ IsThumb(fcm, fn) = meta[fn]

(* A function undone because its instruction set was wrong is decoded      *)
(* again: at the end every entry that ever was a function and is none was  *)
(* given up, not left waiting; but where its turn came while nothing spoke  *)
(* for it, and the queue passed over it.                                   *)
UndoneIsDecodedAgain ==
    pass = "done" => \A fn \in DOMAIN history \ (Functions \cup worthless) :
                        fcm.candidates[fn].finished

(* A function is in the instruction set that is known best of it: the       *)
(* metadata tells how it was decoded, one that was undone is decoded again, *)
(* and none is undone twice.                                                *)
ModesAreSettled ==
    /\ TypeOK
    /\ MetaTellsHowDecoded
    /\ UndoneIsDecodedAgain
    /\ UndoneOnce

(* A word a function loads is not among its instructions, whichever path   *)
(* reached it first; but for one only the second pass found, when it had    *)
(* decoded it.                                                              *)
LoadedIsNotCode ==
    \A fn \in Functions :
        \A b \in Loaded(fn) \cap dis.functions[fn].bytes : <<fn, b>> \in late

(* What is marked as data is data of a function that stands, but for pools  *)
(* that undone gap functions left; and what a function that stands loads    *)
(* stays data when another reader of it is undone.                          *)
DataIsSomeones ==
    /\ dis.dataMap \subseteq left \cup UNION {pools[fn] : fn \in DOMAIN pools \cap Functions}
    /\ \A fn \in Functions : Loaded(fn) \subseteq dis.dataMap

(* Literal pools are no code of the function that reads them, and data goes *)
(* with the function it came with.                                          *)
PoolsAreApart ==
    /\ LoadedIsNotCode
    /\ DataIsSomeones
=============================================================================
