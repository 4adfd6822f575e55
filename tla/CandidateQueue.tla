---------------------------- MODULE CandidateQueue ----------------------------
(***************************************************************************)
(* The queue of function candidates: smda/utility/PriorityQueue.py, and    *)
(* how FunctionCandidateManager keeps it in step with scores that change   *)
(* while candidates are queued.                                            *)
(*                                                                         *)
(* The heap is lazy.  An item remembers the score it was pushed with; a    *)
(* candidate may have several items, stale ones among them, and items      *)
(* outlive their candidate's stay in the queue.  next() is a loop over     *)
(* popped items: one action per iteration.                                 *)
(***************************************************************************)
EXTENDS Integers, FiniteSets, Bags

CONSTANTS
    Addr,      \* addresses of candidates
    Scores,    \* the scores a candidate can have
    MaxItems   \* the items the heap may grow to in this model

ASSUME QueueAssumption == Addr \subseteq Nat /\ Scores \subseteq Nat /\ MaxItems \in Nat

Nothing == -1

VARIABLES
    known,     \* candidates that exist
    score,     \* what getScore() answers
    resident,  \* _in_heap
    heap,      \* the heap, as a bag of items <<score when pushed, address>>
    asking,    \* next() is running
    answer,    \* what next() returned last, Nothing for StopIteration
    raised     \* history: residents whose score rose without an update()

vars == <<known, score, resident, heap, asking, answer, raised>>

Item(a) == <<score[a], a>>
Before(i, j) == i[1] > j[1] \/ (i[1] = j[1] /\ i[2] < j[2])
First(i) == BagIn(i, heap) /\ \A j \in BagToSet(heap) : ~Before(j, i)

Pushed(h, items) == h (+) SetToBag(items)
Popped(h, i) == h (-) SetToBag({i})

Room(n) == BagCardinality(heap) + n <= MaxItems

-----------------------------------------------------------------------------
(* addCandidate(): an unknown address, a known one without a new reference *)
(* (none given, given before, or the candidate has its share), and a known *)
(* one whose score a new reference changes.                                *)

AddNew(a, s) ==
    /\ ~asking /\ Room(1)
    /\ a \notin known
    /\ known' = known \cup {a}
    /\ score' = [score EXCEPT ![a] = s]
    /\ resident' = resident \cup {a}
    /\ heap' = Pushed(heap, {<<s, a>>})
    /\ UNCHANGED <<asking, answer, raised>>

(* ensureCandidate(): a candidate may exist without being queued. *)
Ensure(a, s) ==
    /\ ~asking
    /\ a \notin known
    /\ known' = known \cup {a}
    /\ score' = [score EXCEPT ![a] = s]
    /\ UNCHANGED <<resident, heap, asking, answer, raised>>

AddKnown(a) ==
    /\ ~asking /\ Room(1)
    /\ a \in known
    /\ resident' = resident \cup {a}
    /\ heap' = IF a \in resident THEN heap ELSE Pushed(heap, {Item(a)})
    /\ UNCHANGED <<known, score, asking, answer, raised>>

\* fault: a resident candidate keeps the item of its old score
AddReferenceQuietly(a, s) ==
    /\ ~asking /\ Room(2)
    /\ a \in known /\ s >= score[a]
    /\ score' = [score EXCEPT ![a] = s]
    /\ resident' = resident \cup {a}
    /\ heap' = IF a \in resident THEN heap ELSE Pushed(heap, {<<s, a>>})
    /\ raised' = raised \ {a}
    /\ UNCHANGED <<known, asking, answer>>

(* add() and then update(): two items for a candidate not queued before. *)
AddReference(a, s) ==
    /\ ~asking /\ Room(2)
    /\ a \in known /\ s >= score[a]
    /\ score' = [score EXCEPT ![a] = s]
    /\ resident' = resident \cup {a}
    /\ heap' = Pushed(IF a \in resident THEN heap ELSE Pushed(heap, {<<s, a>>}), {<<s, a>>})
    /\ raised' = raised \ {a}
    /\ UNCHANGED <<known, asking, answer>>

(* updateCandidates(): conflicting references are taken from candidates,   *)
(* and the queue is told of those it holds.                                *)
RemoveConflicts(lowered) ==
    /\ ~asking /\ Room(Cardinality(DOMAIN lowered))
    /\ \A c \in DOMAIN lowered : lowered[c] <= score[c]
    /\ score' = [c \in Addr |-> IF c \in DOMAIN lowered THEN lowered[c] ELSE score[c]]
    /\ heap' = Pushed(heap, {<<lowered[c], c>> : c \in DOMAIN lowered \cap resident})
    /\ raised' = raised \ DOMAIN lowered
    /\ UNCHANGED <<known, resident, asking, answer>>

(* setIsSymbol() and its like raise a score and tell nobody. *)
Declare(a, s) ==
    /\ ~asking
    /\ a \in known /\ s > score[a]
    /\ score' = [score EXCEPT ![a] = s]
    /\ raised' = raised \cup ({a} \cap resident)
    /\ UNCHANGED <<known, resident, heap, asking, answer>>

(* update() without a candidate. *)
Rebuild ==
    /\ ~asking
    /\ heap' = SetToBag({Item(a) : a \in resident})
    /\ raised' = {}
    /\ UNCHANGED <<known, score, resident, asking, answer>>

-----------------------------------------------------------------------------
(* next(): one action per item popped.                                     *)

Ask == ~asking /\ asking' = TRUE /\ UNCHANGED <<known, score, resident, heap, answer, raised>>

(* An item of a candidate that left the queue. *)
Skip ==
    /\ asking
    /\ \E i \in BagToSet(heap) :
          First(i) /\ i[2] \notin resident /\ heap' = Popped(heap, i)
    /\ UNCHANGED <<known, score, resident, asking, answer, raised>>

\* fault: the item goes back as it is
RefreshUnchanged ==
    /\ asking
    /\ \E i \in BagToSet(heap) :
          /\ First(i) /\ i[2] \in resident /\ i # Item(i[2])
          /\ heap' = heap
    /\ UNCHANGED <<known, score, resident, asking, answer, raised>>

(* An item with another score than its candidate has now. *)
Refresh ==
    /\ asking
    /\ \E i \in BagToSet(heap) :
          /\ First(i) /\ i[2] \in resident /\ i # Item(i[2])
          /\ heap' = Pushed(Popped(heap, i), {Item(i[2])})
    /\ UNCHANGED <<known, score, resident, asking, answer, raised>>

\* fault: an item answers with whatever score it was pushed
TakeStale ==
    /\ asking
    /\ \E i \in BagToSet(heap) :
          /\ First(i) /\ i[2] \in resident
          /\ heap' = Popped(heap, i)
          /\ resident' = resident \ {i[2]}
          /\ raised' = raised \ {i[2]}
          /\ answer' = i[2]
    /\ asking' = FALSE
    /\ UNCHANGED <<known, score>>

Take ==
    /\ asking
    /\ \E i \in BagToSet(heap) :
          /\ First(i) /\ i[2] \in resident /\ i = Item(i[2])
          /\ heap' = Popped(heap, i)
          /\ resident' = resident \ {i[2]}
          /\ raised' = raised \ {i[2]}
          /\ answer' = i[2]
    /\ asking' = FALSE
    /\ UNCHANGED <<known, score>>

Exhausted ==
    /\ asking
    /\ heap = EmptyBag
    /\ asking' = FALSE
    /\ answer' = Nothing
    /\ UNCHANGED <<known, score, resident, heap, raised>>

-----------------------------------------------------------------------------
(* _buildQueue(): every candidate located so far is queued. *)
Init ==
    /\ known \in SUBSET Addr
    /\ score \in [Addr -> Scores]
    /\ resident = known
    /\ heap = SetToBag({Item(a) : a \in known})
    /\ asking = FALSE
    /\ answer = Nothing
    /\ raised = {}

Manage ==
    \/ \E a \in Addr, s \in Scores :
          AddNew(a, s) \/ Ensure(a, s) \/ AddReference(a, s) \/ Declare(a, s)
    \/ \E a \in Addr : AddKnown(a)
    \/ \E dirty \in SUBSET known : \E lowered \in [dirty -> Scores] : RemoveConflicts(lowered)
    \/ Rebuild
    \/ Ask

Pop == Skip \/ Refresh \/ Take \/ Exhausted

Next == Manage \/ Pop

Spec == Init /\ [][Next]_vars

(* next() is a loop: once called it runs. *)
FairSpec == Spec /\ WF_vars(Pop)

-----------------------------------------------------------------------------
(***************************************************************************)
(* Every variable has its type; the queue holds known candidates only.     *)
(***************************************************************************)
TypeOK ==
    /\ known \subseteq Addr /\ resident \subseteq known /\ raised \subseteq resident
    /\ score \in [Addr -> Scores]
    /\ IsABag(heap) /\ BagToSet(heap) \subseteq Scores \X Addr
    /\ asking \in BOOLEAN
    /\ answer \in Addr \cup {Nothing}

(***************************************************************************)
(* A queued candidate has an item, and one at least as good as its score   *)
(* unless that rose unannounced: the heap never hides a candidate behind   *)
(* worse ones, whatever stale items it holds.                              *)
(***************************************************************************)
NoneHidden ==
    \A a \in resident :
        \E i \in BagToSet(heap) : i[2] = a /\ (a \notin raised => i[1] >= score[a])

(***************************************************************************)
(* The lazy heap is a scored set: next() answers with the best candidate,  *)
(* answers nothing only when nothing is queued, and answers once.          *)
(***************************************************************************)
Promise == INSTANCE ScoredSet WITH members <- resident
Promised == Promise!Spec

(***************************************************************************)
(* next() returns: putting stale items back does not go on for ever.       *)
(***************************************************************************)
NextAnswers == asking ~> ~asking

-----------------------------------------------------------------------------
(* What the run checks together.                                            *)

(* The heap holds what was promised: its variables have their types, and a  *)
(* candidate that waits has an item as good as its score, unless that rose  *)
(* unannounced.                                                             *)
QueueOk ==
    /\ TypeOK
    /\ NoneHidden
=============================================================================
