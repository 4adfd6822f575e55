------------------------------ MODULE SplitHistory ------------------------------
(***************************************************************************)
(* The tailcall pass of Engine (smda/common/TailcallAnalyzer.py) with a    *)
(* record of what its splits did, for promises that name their exceptions. *)
(***************************************************************************)
EXTENDS Engine

(***************************************************************************)
(* undone   functions of the gap scan that were undone while another one   *)
(*          was decoded; the pass still has their states                   *)
(* retaken  addresses a split took from their owner with such a state      *)
(* refused  functions split at a target that then was no function          *)
(***************************************************************************)
VARIABLE history

allVars == <<vars, history>>

HistoryInit == Init /\ history = [undone |-> {}, retaken |-> {}, refused |-> {}]

UndoneNow == IF At("book") /\ IsCode(Top.pc) /\ RevertsGapFunction
             THEN {dis.ins2fn[Top.pc]} ELSE {}

Splitting == AtTailcall /\ pass' = "tailcallTarget"

RetakenNow ==
    {b \in UNION {BytesOf(tca.fns[i].ins) : i \in DOMAIN tca.fns \ DOMAIN tca'.fns} :
        /\ Splitting
        /\ IsCode(b) /\ \E c \in tca.calls : NextCall(c) /\ c.start \in history.undone
                                             /\ dis.ins2fn[b] # c.start}

TargetIsFunction(c) == \E i \in DOMAIN tca.fns : FirstAt(i, c.to)

RefusedNow ==
    {c.start : c \in {x \in tca.calls : /\ ~Running /\ pass = "tailcallTarget"
                                        /\ NextCall(x) /\ ~TargetIsFunction(x)}}

HistoryNext ==
    /\ Next
    /\ history' = [undone  |-> history.undone \cup UndoneNow,
                   retaken |-> history.retaken \cup RetakenNow,
                   refused |-> history.refused \cup RefusedNow]

HistorySpec == HistoryInit /\ [][HistoryNext]_allVars

-----------------------------------------------------------------------------
(***************************************************************************)
(* A function that is split and not analysed again is now part of the      *)
(* function at the target (the message of resolveTailcalls).  The code     *)
(* does not keep this: it is as little analysed again where the target is  *)
(* no function.                                                            *)
(***************************************************************************)
SplitBecomesPart ==
    ~Running /\ pass = "tailcallTarget" =>
        \A c \in tca.calls : NextCall(c) =>
            \/ SplitRemains(c)
            \/ \E i \in DOMAIN tca.fns : FirstAt(i, c.to) /\ c.start \in tca.fns[i].ins

(***************************************************************************)
(* Functions own every byte of their blocks while functions are split at   *)
(* jumps into them and analysed again; except for addresses the pass took  *)
(* with the state of a gap function that had lost them before, which       *)
(* _revertGapFunction leaves with the pass.                                *)
(***************************************************************************)
SplitFunctionsOwnTheirCode ==
    \A fn \in DOMAIN dis.functions :
        /\ StoredIns(dis, fn) \ history.retaken \subseteq dis.instructions
        /\ \A b \in BytesOf(StoredIns(dis, fn)) \ history.retaken :
              IsCode(b) /\ dis.ins2fn[b] = fn

(***************************************************************************)
(* A candidate whose analysis completed is code when the passes are over,  *)
(* however often the function was undone, split and analysed again; except *)
(* for functions split at a target that was refused, and what was retaken. *)
(***************************************************************************)
CompletedIsCode ==
    pass = "done" => \A c \in DOMAIN fcm.candidates \ (history.refused \cup history.retaken) :
        fcm.candidates[c].finished /\ ~fcm.candidates[c].aborted => IsCode(c)

(* Functions split where others jump into them own what they have left, and *)
(* none that was completed is lost, but in the two cases just named.        *)
SplitsKeepCode ==
    /\ SplitFunctionsOwnTheirCode
    /\ CompletedIsCode
=============================================================================
