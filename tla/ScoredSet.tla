------------------------------- MODULE ScoredSet -------------------------------
(***************************************************************************)
(* What the engine asks of a candidate queue: a set of scored candidates   *)
(* that loses none and answers with the best, the lower address among      *)
(* equals.  A score that rose without the queue being told may be          *)
(* overlooked; the candidate itself may not.                               *)
(***************************************************************************)
EXTENDS Integers

CONSTANT Addr

Nothing == -1

VARIABLES
    members,  \* the candidates queued
    score,    \* the score of every address
    raised,   \* members whose score rose unannounced
    answer    \* what the queue answered last

vars == <<members, score, raised, answer>>

Better(o, c) == score[o] > score[c] \/ (score[o] = score[c] /\ o < c)

Init == members \subseteq Addr /\ raised = {} /\ answer = Nothing

(* Candidates join, and scores change. *)
Change ==
    /\ members \subseteq members' /\ members' \subseteq Addr
    /\ \A a \in raised' : a \in raised \/ (a \in members /\ score'[a] > score[a])
    /\ UNCHANGED answer

Take ==
    \E c \in members :
        /\ \A o \in members : Better(o, c) => o \in raised
        /\ members' = members \ {c}
        /\ raised' = raised \ {c}
        /\ answer' = c
        /\ UNCHANGED score

Exhausted == members = {} /\ answer' = Nothing /\ UNCHANGED <<members, score, raised>>

Next == Change \/ Take \/ Exhausted

Spec == Init /\ [][Next]_vars
=============================================================================
