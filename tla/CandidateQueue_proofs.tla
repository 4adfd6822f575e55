------------------------ MODULE CandidateQueue_proofs ------------------------
(***************************************************************************)
(* The lazy heap keeps the promise of a scored set, for every set of       *)
(* addresses and scores and for a heap of every size.                      *)
(***************************************************************************)
EXTENDS CandidateQueue, TLAPS

QInv == TypeOK /\ NoneHidden

(***************************************************************************)
(* Pushing items onto a heap adds exactly them (heapq.heappush).           *)
(***************************************************************************)
LEMMA PushedFacts ==
    ASSUME NEW h, IsABag(h), NEW S
    PROVE  IsABag(Pushed(h, S)) /\ BagToSet(Pushed(h, S)) = BagToSet(h) \cup S
BY DEF Pushed, IsABag, BagToSet, SetToBag, (+)

(***************************************************************************)
(* Popping an item loses no other item (heapq.heappop).                    *)
(***************************************************************************)
LEMMA PoppedFacts ==
    ASSUME NEW h, IsABag(h), NEW i
    PROVE  /\ IsABag(Popped(h, i))
           /\ BagToSet(Popped(h, i)) \subseteq BagToSet(h)
           /\ BagToSet(h) \ {i} \subseteq BagToSet(Popped(h, i))
BY DEF Popped, IsABag, BagToSet, SetToBag, (-)

(***************************************************************************)
(* Items are pairs of a score and an address.                              *)
(***************************************************************************)
LEMMA PairFacts ==
    ASSUME NEW i \in Scores \X Addr
    PROVE  /\ i[1] \in Scores /\ i[1] \in Nat
           /\ i[2] \in Addr /\ i[2] \in Nat
<1>1. i[1] \in Scores /\ i[2] \in Addr
    OBVIOUS
<1> QED BY <1>1, QueueAssumption

(***************************************************************************)
(* A candidate's own item holds its score (_HeapItem).                     *)
(***************************************************************************)
LEMMA ItemFacts ==
    ASSUME score \in [Addr -> Scores], NEW a \in Addr
    PROVE  /\ Item(a) \in Scores \X Addr
           /\ Item(a)[1] = score[a] /\ Item(a)[2] = a
           /\ score[a] \in Nat /\ a \in Nat
<1>1. score[a] \in Scores
    OBVIOUS
<1> QED BY <1>1, QueueAssumption DEF Item

(***************************************************************************)
(* Nobody is hidden when every candidate has its own item, or keeps its    *)
(* items and its score, or keeps its items and is known to be raised.      *)
(***************************************************************************)
LEMMA StaysVisible ==
    ASSUME NoneHidden, TypeOK',
           \A x \in resident' :
              \/ <<score'[x], x>> \in BagToSet(heap')
              \/ /\ x \in resident
                 /\ \A i \in BagToSet(heap) : i[2] = x => i \in BagToSet(heap')
                 /\ x \in raised' \/ (x \notin raised /\ score'[x] = score[x])
    PROVE  NoneHidden'
<1> SUFFICES ASSUME NEW x \in resident'
             PROVE  \E i \in BagToSet(heap') :
                        i[2] = x /\ (x \notin raised' => i[1] >= score'[x])
    BY DEF NoneHidden
<1>1. CASE <<score'[x], x>> \in BagToSet(heap')
    <2>1. score'[x] \in Nat
        BY QueueAssumption DEF TypeOK
    <2>2. <<score'[x], x>>[2] = x /\ <<score'[x], x>>[1] >= score'[x]
        BY <2>1
    <2> QED BY <1>1, <2>2
<1>2. CASE /\ x \in resident
           /\ \A i \in BagToSet(heap) : i[2] = x => i \in BagToSet(heap')
           /\ x \in raised' \/ (x \notin raised /\ score'[x] = score[x])
    <2>1. PICK i \in BagToSet(heap) : i[2] = x /\ (x \notin raised => i[1] >= score[x])
        BY <1>2 DEF NoneHidden
    <2> QED BY <1>2, <2>1
<1> QED BY <1>1, <1>2

(***************************************************************************)
(* _buildQueue(): every candidate is queued with the score it has.         *)
(***************************************************************************)
LEMMA QueueInit == Init => QInv /\ Promise!Init
<1> SUFFICES ASSUME Init PROVE QInv /\ Promise!Init
    OBVIOUS
<1>1. /\ BagToSet(heap) = {Item(a) : a \in known}
      /\ IsABag(heap)
    BY DEF Init, SetToBag, BagToSet, IsABag
<1>2. TypeOK
    <2>1. \A a \in known : Item(a) \in Scores \X Addr
        BY ItemFacts DEF Init
    <2> QED BY <1>1, <2>1 DEF Init, TypeOK
<1>3. NoneHidden
    <2> SUFFICES ASSUME NEW a \in resident
                 PROVE  \E i \in BagToSet(heap) :
                            i[2] = a /\ (a \notin raised => i[1] >= score[a])
        BY DEF NoneHidden
    <2>1. Item(a) \in BagToSet(heap)
        BY <1>1 DEF Init
    <2>2. Item(a)[2] = a /\ Item(a)[1] >= score[a]
        BY ItemFacts DEF Init
    <2> QED BY <2>1, <2>2
<1>4. Promise!Init
    BY DEF Init, Promise!Init, Nothing, Promise!Nothing
<1> QED BY <1>2, <1>3, <1>4 DEF QInv

(***************************************************************************)
(* The managers' operations keep the invariant, lose no candidate and      *)
(* announce every rise but those of Declare (addCandidate,                 *)
(* updateCandidates, setIsSymbol, update).                                 *)
(***************************************************************************)
LEMMA ManageStep ==
    ASSUME QInv, Manage
    PROVE  QInv' /\ (Promise!Change \/ UNCHANGED Promise!vars)
<1> USE QueueAssumption
<1>1. ASSUME NEW a \in Addr, NEW s \in Scores, AddNew(a, s)
      PROVE  QInv' /\ Promise!Change
    <2>1. IsABag(heap') /\ BagToSet(heap') = BagToSet(heap) \cup {<<s, a>>}
        BY <1>1, PushedFacts DEF AddNew, QInv, TypeOK
    <2>2. TypeOK'
        BY <1>1, <2>1 DEF AddNew, QInv, TypeOK
    <2>3. NoneHidden'
        <3>1. NoneHidden /\ raised' = raised /\ resident' = resident \cup {a} /\ a \notin resident
            BY <1>1 DEF AddNew, QInv, TypeOK
        <3>2. score'[a] = s /\ \A x \in resident : score'[x] = score[x]
            BY <1>1, <3>1 DEF AddNew, QInv, TypeOK
        <3> QED BY <2>1, <2>2, <3>1, <3>2, StaysVisible
    <2>4. Promise!Change
        BY <1>1, <2>2 DEF AddNew, QInv, TypeOK, Promise!Change
    <2> QED BY <2>2, <2>3, <2>4 DEF QInv
<1>2. ASSUME NEW a \in Addr, NEW s \in Scores, Ensure(a, s)
      PROVE  QInv' /\ Promise!Change
    <2>1. TypeOK'
        BY <1>2 DEF Ensure, QInv, TypeOK
    <2>2. NoneHidden'
        BY <1>2 DEF Ensure, QInv, TypeOK, NoneHidden
    <2>3. Promise!Change
        BY <1>2, <2>1 DEF Ensure, QInv, TypeOK, Promise!Change
    <2> QED BY <2>1, <2>2, <2>3 DEF QInv
<1>3. ASSUME NEW a \in Addr, NEW s \in Scores, AddReference(a, s)
      PROVE  QInv' /\ Promise!Change
    <2> DEFINE once == IF a \in resident THEN heap ELSE Pushed(heap, {<<s, a>>})
    <2>1. IsABag(once) /\ BagToSet(once) \cup {<<s, a>>} = BagToSet(heap) \cup {<<s, a>>}
        BY PushedFacts DEF QInv, TypeOK
    <2> HIDE DEF once
    <2>2. heap' = Pushed(once, {<<s, a>>})
        BY <1>3 DEF AddReference, once
    <2>3. IsABag(heap') /\ BagToSet(heap') = BagToSet(heap) \cup {<<s, a>>}
        BY <2>1, <2>2, PushedFacts
    <2>4. TypeOK'
        BY <1>3, <2>3 DEF AddReference, QInv, TypeOK
    <2>5. NoneHidden'
        <3>1. /\ NoneHidden /\ raised' = raised \ {a} /\ resident' = resident \cup {a}
              /\ score' = [score EXCEPT ![a] = s] /\ score \in [Addr -> Scores]
              /\ resident \subseteq Addr
            BY <1>3 DEF AddReference, QInv, TypeOK
        <3>2. score'[a] = s /\ \A x \in resident \ {a} : score'[x] = score[x]
            BY <3>1
        <3> QED BY <2>3, <2>4, <3>1, <3>2, StaysVisible
    <2>6. Promise!Change
        BY <1>3, <2>4 DEF AddReference, QInv, TypeOK, Promise!Change
    <2> QED BY <2>4, <2>5, <2>6 DEF QInv
<1>4. ASSUME NEW a \in Addr, NEW s \in Scores, Declare(a, s)
      PROVE  QInv' /\ Promise!Change
    <2>1. TypeOK'
        BY <1>4 DEF Declare, QInv, TypeOK
    <2>2. NoneHidden'
        BY <1>4 DEF Declare, QInv, TypeOK, NoneHidden
    <2>3. Promise!Change
        BY <1>4, <2>1 DEF Declare, QInv, TypeOK, Promise!Change
    <2> QED BY <2>1, <2>2, <2>3 DEF QInv
<1>5. ASSUME NEW a \in Addr, AddKnown(a)
      PROVE  QInv' /\ Promise!Change
    <2>1. /\ IsABag(heap')
          /\ BagToSet(heap) \subseteq BagToSet(heap')
          /\ BagToSet(heap') \subseteq BagToSet(heap) \cup {Item(a)}
          /\ a \notin resident => Item(a) \in BagToSet(heap')
        BY <1>5, PushedFacts DEF AddKnown, QInv, TypeOK
    <2>2. TypeOK'
        <3>1. Item(a) \in Scores \X Addr
            BY ItemFacts DEF QInv, TypeOK
        <3> QED BY <1>5, <2>1, <3>1 DEF AddKnown, QInv, TypeOK
    <2>3. NoneHidden'
        <3>1. /\ NoneHidden /\ raised' = raised /\ score' = score
              /\ resident' = resident \cup {a}
            BY <1>5 DEF AddKnown, QInv
        <3>2. a \notin resident => <<score'[a], a>> \in BagToSet(heap')
            BY <2>1, <3>1 DEF Item
        <3> QED BY <2>1, <2>2, <3>1, <3>2, StaysVisible
    <2>4. Promise!Change
        BY <1>5, <2>2 DEF AddKnown, QInv, TypeOK, Promise!Change
    <2> QED BY <2>2, <2>3, <2>4 DEF QInv
<1>6. ASSUME NEW dirty \in SUBSET known, NEW lowered \in [dirty -> Scores],
             RemoveConflicts(lowered)
      PROVE  QInv' /\ Promise!Change
    <2>1. DOMAIN lowered = dirty
        OBVIOUS
    <2>2. /\ IsABag(heap')
          /\ BagToSet(heap') = BagToSet(heap) \cup {<<lowered[c], c>> : c \in dirty \cap resident}
        BY <1>6, <2>1, PushedFacts DEF RemoveConflicts, QInv, TypeOK
    <2>3. TypeOK'
        BY <1>6, <2>1, <2>2 DEF RemoveConflicts, QInv, TypeOK
    <2>4. NoneHidden'
        <3>1. /\ NoneHidden /\ raised' = raised \ dirty /\ resident' = resident
              /\ resident \subseteq Addr
            BY <1>6, <2>1 DEF RemoveConflicts, QInv, TypeOK
        <3>2. \A x \in resident : score'[x] = IF x \in dirty THEN lowered[x] ELSE score[x]
            BY <1>6, <2>1, <3>1 DEF RemoveConflicts
        <3>3. \A x \in resident \cap dirty : <<score'[x], x>> \in BagToSet(heap')
            BY <2>2, <3>2
        <3> QED BY <2>2, <2>3, <3>1, <3>2, <3>3, StaysVisible
    <2>5. Promise!Change
        BY <1>6, <2>3 DEF RemoveConflicts, QInv, TypeOK, Promise!Change
    <2> QED BY <2>3, <2>4, <2>5 DEF QInv
<1>7. ASSUME Rebuild PROVE QInv' /\ Promise!Change
    <2>1. IsABag(heap') /\ BagToSet(heap') = {Item(a) : a \in resident}
        BY <1>7 DEF Rebuild, SetToBag, BagToSet, IsABag
    <2>2. TypeOK'
        <3>1. \A a \in resident : Item(a) \in Scores \X Addr
            BY ItemFacts DEF QInv, TypeOK
        <3> QED BY <1>7, <2>1, <3>1 DEF Rebuild, QInv, TypeOK
    <2>3. NoneHidden'
        <3>1. \A x \in resident' : <<score'[x], x>> \in BagToSet(heap')
            BY <1>7, <2>1 DEF Rebuild, Item
        <3> QED BY <2>2, <3>1, StaysVisible DEF QInv
    <2>4. Promise!Change
        BY <1>7, <2>2 DEF Rebuild, QInv, TypeOK, Promise!Change
    <2> QED BY <2>2, <2>3, <2>4 DEF QInv
<1>8. ASSUME Ask PROVE QInv' /\ UNCHANGED Promise!vars
    BY <1>8 DEF Ask, QInv, TypeOK, NoneHidden, Promise!vars
<1> QED BY <1>1, <1>2, <1>3, <1>4, <1>5, <1>6, <1>7, <1>8 DEF Manage

(***************************************************************************)
(* The item popped first is at least as good as the item of any resident:  *)
(* if it is its candidate's own, no announced candidate is better.         *)
(***************************************************************************)
LEMMA FirstIsBest ==
    ASSUME QInv, NEW i \in BagToSet(heap), First(i), i = Item(i[2]),
           NEW o \in resident, Promise!Better(o, i[2])
    PROVE  o \in raised
<1> USE QueueAssumption
<1> SUFFICES ASSUME o \notin raised PROVE FALSE
    OBVIOUS
<1>1. PICK j \in BagToSet(heap) : j[2] = o /\ j[1] >= score[o]
    BY DEF QInv, NoneHidden
<1>2. /\ i[1] = score[i[2]] /\ i[2] \in Addr /\ i[1] \in Nat
      /\ j[1] \in Nat /\ o \in Nat /\ i[2] \in Nat /\ score[o] \in Nat
    BY <1>1, ItemFacts, PairFacts DEF QInv, TypeOK
<1>3. ~Before(j, i)
    BY DEF First
<1> QED BY <1>1, <1>2, <1>3 DEF Before, Promise!Better

(***************************************************************************)
(* An iteration of next() loses no candidate, and answers as promised.     *)
(***************************************************************************)
LEMMA PopStep ==
    ASSUME QInv, Pop
    PROVE  QInv' /\ (Promise!Next \/ UNCHANGED Promise!vars)
<1> USE QueueAssumption
<1>1. ASSUME Skip PROVE QInv' /\ UNCHANGED Promise!vars
    <2>1. PICK i \in BagToSet(heap) : i[2] \notin resident /\ heap' = Popped(heap, i)
        BY <1>1 DEF Skip
    <2>2. /\ IsABag(heap')
          /\ BagToSet(heap') \subseteq BagToSet(heap)
          /\ BagToSet(heap) \ {i} \subseteq BagToSet(heap')
        BY <2>1, PoppedFacts DEF QInv, TypeOK
    <2>3. TypeOK'
        BY <1>1, <2>2 DEF Skip, QInv, TypeOK
    <2>4. NoneHidden'
        BY <1>1, <2>1, <2>2 DEF Skip, QInv, TypeOK, NoneHidden
    <2> QED BY <1>1, <2>3, <2>4 DEF Skip, QInv, Promise!vars
<1>2. ASSUME Refresh PROVE QInv' /\ UNCHANGED Promise!vars
    <2>1. PICK i \in BagToSet(heap) :
              i[2] \in resident /\ heap' = Pushed(Popped(heap, i), {Item(i[2])})
        BY <1>2 DEF Refresh
    <2>2. /\ IsABag(Popped(heap, i))
          /\ BagToSet(Popped(heap, i)) \subseteq BagToSet(heap)
          /\ BagToSet(heap) \ {i} \subseteq BagToSet(Popped(heap, i))
        BY PoppedFacts DEF QInv, TypeOK
    <2>3. IsABag(heap') /\ BagToSet(heap') = BagToSet(Popped(heap, i)) \cup {Item(i[2])}
        BY <2>1, <2>2, PushedFacts
    <2>4. TypeOK'
        <3>1. Item(i[2]) \in Scores \X Addr
            BY <2>1, ItemFacts DEF QInv, TypeOK
        <3> QED BY <1>2, <2>2, <2>3, <3>1 DEF Refresh, QInv, TypeOK
    <2>5. NoneHidden'
        <3>1. NoneHidden /\ raised' = raised /\ score' = score /\ resident' = resident
            BY <1>2 DEF Refresh, QInv
        <3>2. <<score'[i[2]], i[2]>> \in BagToSet(heap')
            BY <2>3, <3>1 DEF Item
        <3> QED BY <2>2, <2>3, <2>4, <3>1, <3>2, StaysVisible
    <2> QED BY <1>2, <2>4, <2>5 DEF Refresh, QInv, Promise!vars
<1>3. ASSUME Take PROVE QInv' /\ Promise!Take
    <2>1. PICK i \in BagToSet(heap) :
              /\ First(i) /\ i[2] \in resident /\ i = Item(i[2])
              /\ heap' = Popped(heap, i)
              /\ resident' = resident \ {i[2]}
              /\ raised' = raised \ {i[2]}
              /\ answer' = i[2]
        BY <1>3 DEF Take
    <2>2. /\ IsABag(heap')
          /\ BagToSet(heap') \subseteq BagToSet(heap)
          /\ BagToSet(heap) \ {i} \subseteq BagToSet(heap')
        BY <2>1, PoppedFacts DEF QInv, TypeOK
    <2>3. TypeOK'
        BY <1>3, <2>1, <2>2 DEF Take, QInv, TypeOK
    <2>4. NoneHidden'
        BY <1>3, <2>1, <2>2 DEF Take, QInv, TypeOK, NoneHidden
    <2>5. \A o \in resident : Promise!Better(o, i[2]) => o \in raised
        BY <2>1, FirstIsBest
    <2>6. Promise!Take
        BY <1>3, <2>1, <2>5 DEF Take, Promise!Take
    <2> QED BY <2>3, <2>4, <2>6 DEF QInv
<1>4. ASSUME Exhausted PROVE QInv' /\ Promise!Exhausted
    <2>1. BagToSet(heap) = {}
        BY <1>4 DEF Exhausted, EmptyBag, SetToBag, BagToSet
    <2>2. resident = {}
        BY <2>1 DEF QInv, NoneHidden
    <2>3. QInv'
        BY <1>4 DEF Exhausted, QInv, TypeOK, NoneHidden
    <2>4. Promise!Exhausted
        BY <1>4, <2>2 DEF Exhausted, Promise!Exhausted, Nothing, Promise!Nothing
    <2> QED BY <2>3, <2>4
<1> QED BY <1>1, <1>2, <1>3, <1>4 DEF Pop, Promise!Next

(***************************************************************************)
(* A step that changes nothing.                                            *)
(***************************************************************************)
LEMMA QueueStutter ==
    ASSUME QInv, UNCHANGED vars
    PROVE  QInv' /\ UNCHANGED Promise!vars
BY DEF vars, QInv, TypeOK, NoneHidden, Promise!vars

(***************************************************************************)
(* The invariant of the lazy heap: types, and no queued candidate hidden.  *)
(***************************************************************************)
THEOREM QueueInvariant == Spec => []QInv
<1>1. Init => QInv
    BY QueueInit
<1>2. QInv /\ [Next]_vars => QInv'
    BY ManageStep, PopStep, QueueStutter DEF Next
<1> QED BY <1>1, <1>2, PTL DEF Spec

(***************************************************************************)
(* Every variable of the queue keeps its type: no operation leaves an item *)
(* of an address that is none.                                             *)
(***************************************************************************)
THEOREM QueueTypeCorrect == Spec => []TypeOK
<1>1. QInv => TypeOK
    BY DEF QInv
<1> QED BY <1>1, QueueInvariant, PTL

(***************************************************************************)
(* Every queued candidate keeps an item that finds it: adds, updates,      *)
(* stale items and repeated stays in the queue hide none.                  *)
(***************************************************************************)
THEOREM QueueHidesNothing == Spec => []NoneHidden
<1>1. QInv => NoneHidden
    BY DEF QInv
<1> QED BY <1>1, QueueInvariant, PTL

(***************************************************************************)
(* The lazy heap implements the scored set: next() answers with the best   *)
(* candidate whose score was announced, once, and with nothing only when   *)
(* the queue is empty.                                                     *)
(***************************************************************************)
THEOREM QueueKeepsPromise == Spec => Promised
<1>1. Init => Promise!Init
    BY QueueInit
<1>2. QInv /\ [Next]_vars => [Promise!Next]_(Promise!vars)
    <2> SUFFICES ASSUME QInv, [Next]_vars PROVE [Promise!Next]_(Promise!vars)
        OBVIOUS
    <2>1. CASE Manage
        BY <2>1, ManageStep DEF Promise!Next
    <2>2. CASE Pop
        BY <2>2, PopStep
    <2>3. CASE UNCHANGED vars
        BY <2>3, QueueStutter
    <2> QED BY <2>1, <2>2, <2>3 DEF Next
<1> QED BY <1>1, <1>2, QueueInvariant, PTL DEF Spec, Promised, Promise!Spec

(***************************************************************************)
(* The heap holds what was promised, whatever is added, raised, lowered    *)
(* and popped.                                                             *)
(***************************************************************************)
THEOREM QueueStaysOk == Spec => []QueueOk
<1>1. QInv => QueueOk
    BY DEF QInv, QueueOk
<1> QED BY <1>1, QueueInvariant, PTL

=============================================================================
