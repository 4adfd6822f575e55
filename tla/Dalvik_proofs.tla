----------------------------- MODULE Dalvik_proofs -----------------------------
(***************************************************************************)
(* What holds of every DEX file: the sweep that fixes a method's legal     *)
(* instruction starts, the queue, and the scan for orphans are loops, so   *)
(* what they return is proved by induction over their rounds; on it rest   *)
(* the invariants of the walk and of the run.                              *)
(***************************************************************************)
EXTENDS Dalvik, FiniteSetTheorems, SequenceTheorems, WellFoundedInduction, TLAPS

-----------------------------------------------------------------------------
(* Loops.  A set that holds zero and every successor of its members holds  *)
(* every number: induction, from the order of the numbers being well       *)
(* founded.                                                                *)
LEMMA Induction ==
    ASSUME NEW S, 0 \in S, \A n \in Nat : n \in S => n + 1 \in S
    PROVE  Nat \subseteq S
<1> DEFINE Less == {ss \in Nat \X Nat : ss[1] < ss[2]}
<1>1. IsWellFoundedOn(Less, Nat)
  BY NatLessThanWellFounded DEF OpToRel
<1>2. SUFFICES ASSUME Nat \ S # {} PROVE FALSE
  OBVIOUS
<1>3. PICK x \in Nat \ S : \A y \in Nat \ S : ~(<<y, x>> \in Less)
  <2> HIDE DEF Less
  <2> QED BY <1>1, <1>2, WFMin
<1>4. x # 0 /\ x \in Nat
  OBVIOUS
<1>5. x - 1 \in Nat /\ x - 1 < x /\ (x - 1) + 1 = x
  BY <1>4
<1>6. x - 1 \in S
  BY <1>3, <1>4, <1>5
<1> QED BY <1>3, <1>5, <1>6

(* The same up to a bound.                                                  *)
LEMMA InductionUpTo ==
    ASSUME NEW N \in Nat, NEW S, 0 \in S, \A n \in 1 .. N : n - 1 \in S => n \in S
    PROVE  0 .. N \subseteq S
<1> DEFINE T == {n \in Nat : n <= N => n \in S}
<1>1. 0 \in T
  OBVIOUS
<1>2. ASSUME NEW n \in Nat, n \in T PROVE n + 1 \in T
  <2> SUFFICES ASSUME n + 1 <= N PROVE n + 1 \in S
    OBVIOUS
  <2>1. n \in S /\ n + 1 \in 1 .. N /\ (n + 1) - 1 = n
    BY <1>2
  <2> QED BY <2>1
<1>3. Nat \subseteq T
  <2> HIDE DEF T
  <2> QED BY <1>1, <1>2, Induction
<1> QED BY <1>3

(* The states of a loop of steps that depend on the round: there are some.  *)
Loops(N, S, z, step) == {f \in [0 .. N -> S] : f[0] = z /\ \A n \in 1 .. N : f[n] = step[<<n, f[n - 1]>>]}

(* A loop over states of a set has a run: its successive states exist as    *)
(* one function.                                                            *)
LEMMA LoopExists ==
    ASSUME NEW N \in Nat, NEW S, NEW z \in S, NEW step \in [(1 .. N) \X S -> S]
    PROVE  Loops(N, S, z, step) # {}
<1> DEFINE Runs(m, f) == f[0] = z /\ \A n \in 1 .. m : f[n] = step[<<n, f[n - 1]>>]
           T == {m \in 0 .. N : \E f \in [0 .. m -> S] : Runs(m, f)}
<1>1. 0 \in T
  <2>1. [n \in 0 .. 0 |-> z] \in [0 .. 0 -> S]
    OBVIOUS
  <2>2. Runs(0, [n \in 0 .. 0 |-> z])
    OBVIOUS
  <2>3. 0 \in 0 .. N
    OBVIOUS
  <2> HIDE DEF Runs
  <2> QED BY <2>1, <2>2, <2>3
<1>2. ASSUME NEW m \in 1 .. N, m - 1 \in T PROVE m \in T
  <2>1. PICK f \in [0 .. m - 1 -> S] : Runs(m - 1, f)
    BY <1>2
  <2> DEFINE g == [n \in 0 .. m |-> IF n = m THEN step[<<m, f[m - 1]>>] ELSE f[n]]
  <2>2. f[m - 1] \in S /\ step[<<m, f[m - 1]>>] \in S
    BY <2>1
  <2>3. g \in [0 .. m -> S]
    BY <2>2
  <2>4. ASSUME NEW n \in 1 .. m PROVE g[n] = step[<<n, g[n - 1]>>]
    <3>1. n - 1 \in 0 .. m /\ n - 1 # m /\ g[n - 1] = f[n - 1]
      OBVIOUS
    <3>2. CASE n = m
      BY <3>1, <3>2
    <3>3. CASE n # m
      <4>1. n \in 1 .. m - 1 /\ g[n] = f[n]
        BY <3>3
      <4>2. f[n] = step[<<n, f[n - 1]>>]
        BY <2>1, <4>1
      <4> QED BY <3>1, <4>1, <4>2
    <3> QED BY <3>2, <3>3
  <2>5. Runs(m, g)
    <3>1. g[0] = z
      BY <2>1
    <3> HIDE DEF g
    <3> QED BY <3>1, <2>4
  <2>6. m \in 0 .. N
    OBVIOUS
  <2> HIDE DEF Runs, g
  <2> QED BY <2>3, <2>5, <2>6
<1>3. 0 .. N \subseteq T
  <2> HIDE DEF T
  <2> QED BY <1>1, <1>2, InductionUpTo
<1>4. N \in T
  <2> HIDE DEF T
  <2> QED BY <1>3
<1> QED BY <1>4 DEF Loops

-----------------------------------------------------------------------------
(* Sequences put behind each other, and the elements of one that are in a   *)
(* set: nothing else is in them.                                            *)
LEMMA FlattenedSeq ==
    ASSUME NEW S, NEW seqs \in Seq(Seq(S))
    PROVE  FlattenSeq(seqs) \in Seq(S)
<1> DEFINE N == Len(seqs)
           step == [ns \in (1 .. N) \X Seq(S) |-> IF ns[1] = 1 THEN seqs[1] ELSE ns[2] \o seqs[ns[1]]]
           Flat(f) == f = [i \in 1 .. N |-> IF i = 1 THEN seqs[i] ELSE f[i - 1] \o seqs[i]]
<1>1. CASE N = 0
  BY <1>1 DEF FlattenSeq
<1>2. CASE N # 0
  <2>1. N \in Nat /\ <<>> \in Seq(S) /\ \A i \in 1 .. N : seqs[i] \in Seq(S)
    OBVIOUS
  <2>2. step \in [(1 .. N) \X Seq(S) -> Seq(S)]
    BY <2>1, <1>2
  <2>3. PICK f \in [0 .. N -> Seq(S)] : f[0] = <<>> /\ \A n \in 1 .. N : f[n] = step[<<n, f[n - 1]>>]
    <3> DEFINE Sequences == Seq(S)
    <3>1. <<>> \in Sequences /\ step \in [(1 .. N) \X Sequences -> Sequences]
      BY <2>1, <2>2
    <3> HIDE DEF step, N, Sequences
    <3>2. Loops(N, Sequences, <<>>, step) # {}
      BY <2>1, <3>1, LoopExists
    <3> QED BY <3>2 DEF Sequences, Loops
  <2>4. ASSUME NEW i \in 1 .. N PROVE f[i] = IF i = 1 THEN seqs[i] ELSE f[i - 1] \o seqs[i]
    <3>1. i - 1 \in 0 .. N
      OBVIOUS
    <3>2. <<i, f[i - 1]>> \in (1 .. N) \X Seq(S)
      BY <3>1
    <3>3. f[i] = step[<<i, f[i - 1]>>]
      <4> HIDE DEF step
      <4> QED BY <2>3
    <3> QED BY <3>2, <3>3
  <2> DEFINE g == [i \in 1 .. N |-> f[i]]
  <2>5. Flat(g)
    BY <2>4, <1>2
  <2> DEFINE h == CHOOSE x : Flat(x)
  <2>6. Flat(h)
    <3> HIDE DEF Flat, g
    <3> QED BY <2>5
  <2>7. FlattenSeq(seqs) = h[N]
    BY <1>2 DEF FlattenSeq
  <2> DEFINE T == {n \in 0 .. N : n = 0 \/ h[n] \in Seq(S)}
  <2>8. 0 .. N \subseteq T
    <3>1. 0 \in T
      BY <2>1
    <3>2. ASSUME NEW n \in 1 .. N, n - 1 \in T PROVE n \in T
      <4>1. h[n] = IF n = 1 THEN seqs[n] ELSE h[n - 1] \o seqs[n]
        <5> HIDE DEF h
        <5> QED BY <2>6
      <4>2. seqs[n] \in Seq(S)
        BY <2>1
      <4>3. n = 1 \/ h[n - 1] \in Seq(S)
        BY <3>2
      <4>4. n \in 0 .. N
        BY <2>1
      <4>5. h[n] \in Seq(S)
        <5> HIDE DEF h, N
        <5>1. CASE n = 1
          BY <5>1, <4>1, <4>2
        <5>2. CASE n # 1
          BY <5>2, <4>1, <4>2, <4>3
        <5> QED BY <5>1, <5>2
      <4> QED BY <4>4, <4>5
    <3> HIDE DEF T
    <3> QED BY <2>1, <3>1, <3>2, InductionUpTo
  <2>9. N \in T
    <3> HIDE DEF T
    <3> QED BY <2>1, <2>8
  <2> HIDE DEF h
  <2> QED BY <1>2, <2>7, <2>9
<1> QED BY <1>1, <1>2

(* What is left of a sequence is in the set, whatever its elements were.    *)
LEMMA OnlyInSet ==
    ASSUME NEW S, NEW seq, NEW n \in Nat, DOMAIN seq = 1 .. n
    PROVE  OnlyIn(seq, S) \in Seq(S)
<1> DEFINE kept == [k \in DOMAIN seq |-> IF seq[k] \in S THEN <<seq[k]>> ELSE <<>>]
<1>1. \A k \in 1 .. n : kept[k] \in Seq(S)
  OBVIOUS
<1>2. kept \in Seq(Seq(S))
  BY <1>1
<1>3. FlattenSeq(kept) \in Seq(S)
  <2> HIDE DEF kept
  <2> QED BY <1>2, FlattenedSeq
<1> QED BY <1>3 DEF OnlyIn

(* The elements of a sequence over a set are in the set.                    *)
LEMMA ElementsIn ==
    ASSUME NEW S, NEW seq \in Seq(S)
    PROVE  ToSet(seq) \subseteq S
BY DEF ToSet

(* What a sequence holds after an element, or another sequence, was put     *)
(* behind it, and before its last was taken off.                            *)
LEMMA Appended ==
    ASSUME NEW S, NEW seq \in Seq(S), NEW e \in S
    PROVE  Append(seq, e) \in Seq(S) /\ ToSet(Append(seq, e)) = ToSet(seq) \cup {e}
<1> DEFINE n == Len(seq)
           longer == Append(seq, e)
<1>1. /\ longer \in Seq(S) /\ Len(longer) = n + 1 /\ n \in Nat /\ longer[n + 1] = e
      /\ \A i \in 1 .. n : longer[i] = seq[i]
  BY AppendProperties
<1>2. DOMAIN longer = 1 .. n + 1 /\ DOMAIN seq = 1 .. n
  BY <1>1
<1> HIDE DEF n, longer
<1>3. /\ \A i \in 1 .. n + 1 : i \in 1 .. n \/ i = n + 1
      /\ \A i \in 1 .. n : i \in 1 .. n + 1
      /\ n + 1 \in 1 .. n + 1
  BY <1>1
<1>4. ToSet(longer) \subseteq ToSet(seq) \cup {e}
  BY <1>1, <1>2, <1>3 DEF ToSet
<1>5. ToSet(seq) \subseteq ToSet(longer)
  BY <1>1, <1>2, <1>3 DEF ToSet
<1>6. e \in ToSet(longer)
  BY <1>1, <1>2, <1>3 DEF ToSet
<1> QED BY <1>1, <1>4, <1>5, <1>6 DEF longer

LEMMA Concatenated ==
    ASSUME NEW S, NEW seq \in Seq(S), NEW more \in Seq(S)
    PROVE  seq \o more \in Seq(S) /\ ToSet(seq \o more) = ToSet(seq) \cup ToSet(more)
<1> DEFINE m == Len(seq)
           n == Len(more)
           longer == seq \o more
<1>1. /\ longer \in Seq(S) /\ Len(longer) = m + n /\ m \in Nat /\ n \in Nat
      /\ \A i \in 1 .. m : longer[i] = seq[i]
      /\ \A i \in 1 .. n : longer[m + i] = more[i]
  OBVIOUS
<1>2. DOMAIN longer = 1 .. m + n /\ DOMAIN seq = 1 .. m /\ DOMAIN more = 1 .. n
  BY <1>1
<1> HIDE DEF m, n, longer
<1>3. /\ \A i \in 1 .. m + n : i \in 1 .. m \/ (i - m \in 1 .. n /\ m + (i - m) = i)
      /\ \A i \in 1 .. m : i \in 1 .. m + n
      /\ \A i \in 1 .. n : m + i \in 1 .. m + n
  BY <1>1
<1>4. ASSUME NEW i \in 1 .. m + n PROVE longer[i] \in ToSet(seq) \cup ToSet(more)
  <2>1. CASE i \in 1 .. m
    BY <2>1, <1>1, <1>2 DEF ToSet
  <2>2. CASE i \notin 1 .. m
    <3>1. i - m \in 1 .. n /\ longer[i] = more[i - m]
      <4>1. i - m \in 1 .. n /\ m + (i - m) = i
        BY <2>2, <1>3
      <4>2. longer[m + (i - m)] = more[i - m]
        BY <4>1, <1>1
      <4> QED BY <4>1, <4>2
    <3> QED BY <3>1, <1>2 DEF ToSet
  <2> QED BY <2>1, <2>2
<1>5. ToSet(longer) \subseteq ToSet(seq) \cup ToSet(more)
  BY <1>2, <1>4 DEF ToSet
<1>6. ToSet(seq) \subseteq ToSet(longer)
  BY <1>1, <1>2, <1>3 DEF ToSet
<1>7. ToSet(more) \subseteq ToSet(longer)
  BY <1>1, <1>2, <1>3 DEF ToSet
<1> QED BY <1>1, <1>5, <1>6, <1>7 DEF longer

LEMMA LastTaken ==
    ASSUME NEW S, NEW seq \in Seq(S), seq # <<>>
    PROVE  /\ Front(seq) \in Seq(S) /\ Last(seq) \in S
           /\ ToSet(seq) = ToSet(Front(seq)) \cup {Last(seq)}
<1> DEFINE n == Len(seq)
<1>1. n \in Nat \ {0} /\ DOMAIN seq = 1 .. n /\ \A i \in 1 .. n : seq[i] \in S
  OBVIOUS
<1>2. Front(seq) = [i \in 1 .. n - 1 |-> seq[i]] /\ Last(seq) = seq[n]
  BY DEF Front, Last
<1>3. Front(seq) \in Seq(S) /\ DOMAIN Front(seq) = 1 .. n - 1 /\ \A i \in 1 .. n - 1 : Front(seq)[i] = seq[i]
  BY <1>1, <1>2
<1> HIDE DEF n
<1>4. (\A i \in 1 .. n : i \in 1 .. n - 1 \/ i = n) /\ (\A i \in 1 .. n - 1 : i \in 1 .. n) /\ n \in 1 .. n
  BY <1>1
<1>5. ToSet(seq) \subseteq ToSet(Front(seq)) \cup {Last(seq)}
  BY <1>1, <1>2, <1>3, <1>4 DEF ToSet
<1>6. ToSet(Front(seq)) \subseteq ToSet(seq) /\ Last(seq) \in ToSet(seq)
  BY <1>1, <1>2, <1>3, <1>4 DEF ToSet
<1> QED BY <1>1, <1>2, <1>3, <1>4, <1>5, <1>6

-----------------------------------------------------------------------------
(* The queue: what is put on it stays what it was, every target is on it or *)
(* was processed before, and nothing else is.                               *)
LEMMA QueueLoop ==
    ASSUME NEW queue \in Seq(Int), NEW processed, NEW targets \in Seq(Int)
    PROVE  LET after == Queues(queue, processed, targets)
           IN  /\ after[0] = queue
               /\ \A n \in 1 .. Len(targets) : after[n] = Enqueue(after[n - 1], processed, targets[n])
<1> DEFINE N == Len(targets)
           step == [ns \in (1 .. N) \X Seq(Int) |-> Enqueue(ns[2], processed, targets[ns[1]])]
           Loop(f) == f = [n \in 0 .. N |->
                             IF n = 0 THEN queue
                             ELSE Then(LAMBDA before : Enqueue(before, processed, targets[n]), f[n - 1])]
<1>1. N \in Nat /\ \A n \in 1 .. N : targets[n] \in Int
  OBVIOUS
<1>2. step \in [(1 .. N) \X Seq(Int) -> Seq(Int)]
  BY <1>1 DEF Enqueue
<1>3. Loops(N, Seq(Int), queue, step) # {}
  <2> HIDE DEF step, N
  <2> QED BY <1>1, <1>2, LoopExists
<1>4. PICK f \in [0 .. N -> Seq(Int)] : f[0] = queue /\ \A n \in 1 .. N : f[n] = step[<<n, f[n - 1]>>]
  <2> HIDE DEF step, N
  <2> QED BY <1>3 DEF Loops
<1>5. ASSUME NEW n \in 1 .. N PROVE f[n] = Enqueue(f[n - 1], processed, targets[n])
  <2>1. <<n, f[n - 1]>> \in (1 .. N) \X Seq(Int)
    <3>1. n - 1 \in 0 .. N
      BY <1>1
    <3> HIDE DEF step, N
    <3> QED BY <3>1
  <2>2. f[n] = step[<<n, f[n - 1]>>]
    <3> HIDE DEF step
    <3> QED BY <1>4
  <2> QED BY <2>1, <2>2
<1>6. \A s, n : Then(LAMBDA before : Enqueue(before, processed, targets[n]), s) = Enqueue(s, processed, targets[n])
  BY DEF Then
<1>7. Loop(f)
  <2>1. ASSUME NEW n \in 0 .. N
        PROVE  f[n] = IF n = 0 THEN queue
                      ELSE Then(LAMBDA before : Enqueue(before, processed, targets[n]), f[n - 1])
    <3>1. CASE n = 0
      BY <3>1, <1>4
    <3>2. CASE n # 0
      <4>1. n \in 1 .. N
        BY <3>2
      <4>2. f[n] = Enqueue(f[n - 1], processed, targets[n])
        BY <4>1, <1>5
      <4> QED BY <3>2, <4>2, <1>6
    <3> QED BY <3>1, <3>2
  <2> HIDE DEF N, step
  <2> QED BY <2>1
<1> DEFINE g == CHOOSE x : Loop(x)
<1>8. Loop(g)
  <2> HIDE DEF Loop
  <2> QED BY <1>7
<1>9. Queues(queue, processed, targets) = g
  BY DEF Queues
<1>10. g[0] = queue
  <2> HIDE DEF g
  <2> QED BY <1>1, <1>8
<1>11. ASSUME NEW n \in 1 .. N PROVE g[n] = Enqueue(g[n - 1], processed, targets[n])
  <2>1. g[n] = Then(LAMBDA before : Enqueue(before, processed, targets[n]), g[n - 1])
    <3>1. n \in 0 .. N /\ n # 0
      BY <1>1
    <3> HIDE DEF g, N
    <3> QED BY <3>1, <1>8, Zenon
  <2> HIDE DEF g
  <2> QED BY <2>1, <1>6
<1> HIDE DEF g
<1> QED BY <1>9, <1>10, <1>11

(* addBlockToQueue(), called for each target: nothing queued is lost, and   *)
(* every target is queued unless it was walked.                             *)
LEMMA Queued ==
    ASSUME NEW queue \in Seq(Int), NEW processed, NEW targets \in Seq(Int)
    PROVE  LET q == Queues(queue, processed, targets)[Len(targets)]
           IN  /\ q \in Seq(Int)
               /\ ToSet(queue) \subseteq ToSet(q)
               /\ ToSet(q) \subseteq ToSet(queue) \cup ToSet(targets)
               /\ ToSet(targets) \subseteq processed \cup ToSet(q)
<1> DEFINE N == Len(targets)
           after == Queues(queue, processed, targets)
           Good(n) == /\ after[n] \in Seq(Int)
                      /\ ToSet(queue) \subseteq ToSet(after[n])
                      /\ ToSet(after[n]) \subseteq ToSet(queue) \cup ToSet(targets)
                      /\ \A k \in 1 .. n : targets[k] \in processed \cup ToSet(after[n])
           T == {n \in 0 .. N : Good(n)}
<1>1. N \in Nat /\ \A n \in 1 .. N : targets[n] \in Int /\ targets[n] \in ToSet(targets)
  BY DEF ToSet
<1>2. 0 \in T
  BY <1>1, QueueLoop
<1>3. ASSUME NEW n \in 1 .. N, n - 1 \in T PROVE n \in T
  <2>1. after[n] = Enqueue(after[n - 1], processed, targets[n])
    BY QueueLoop
  <2>2. Good(n - 1)
    BY <1>3
  <2> DEFINE q == after[n - 1]
             t == targets[n]
  <2>3. q \in Seq(Int) /\ t \in Int /\ t \in ToSet(targets)
    BY <1>1, <2>2
  <2>4. /\ Enqueue(q, processed, t) \in Seq(Int)
        /\ ToSet(q) \subseteq ToSet(Enqueue(q, processed, t))
        /\ ToSet(Enqueue(q, processed, t)) \subseteq ToSet(q) \cup {t}
        /\ t \in processed \cup ToSet(Enqueue(q, processed, t))
    <3> HIDE DEF q, t
    <3>1. CASE t \in processed \cup ToSet(q)
      BY <2>3, <3>1 DEF Enqueue
    <3>2. CASE t \notin processed \cup ToSet(q)
      <4>1. Enqueue(q, processed, t) = Append(q, t)
        BY <3>2 DEF Enqueue
      <4>2. Append(q, t) \in Seq(Int) /\ ToSet(Append(q, t)) = ToSet(q) \cup {t}
        BY <2>3, Appended
      <4> QED BY <4>1, <4>2
    <3> QED BY <3>1, <3>2
  <2>5. Good(n)
    <3> HIDE DEF after
    <3> QED BY <1>1, <2>1, <2>2, <2>3, <2>4
  <2> QED BY <2>5, <1>1
<1>4. N \in T
  <2> HIDE DEF T
  <2>1. 0 .. N \subseteq T
    <3> HIDE DEF N
    <3> QED BY <1>1, <1>2, <1>3, InductionUpTo
  <2> QED BY <1>1, <2>1
<1>5. ToSet(targets) \subseteq processed \cup ToSet(after[N])
  <2>1. \A t \in ToSet(targets) : \E k \in 1 .. N : t = targets[k]
    BY <1>1 DEF ToSet
  <2> HIDE DEF after, N
  <2> QED BY <1>4, <2>1
<1> HIDE DEF after
<1> QED BY <1>4, <1>5 DEF after

-----------------------------------------------------------------------------
(* The sweep of one code item.                                              *)
SweepStates == [at : Int, valid : SUBSET Int, ranges : SUBSET (Int \X Int), back : BOOLEAN]

(* Types: the size of a payload, of an instruction, and the table it names. *)
LEMMA PayloadSizeType ==
    ASSUME NEW image \in Images, NEW a \in Int, NEW start \in Int, NEW end \in Int
    PROVE  PayloadSize(image, a, start, end) \in Nat
<1>1. CASE a < start \/ a \notin DOMAIN image.payload
  BY <1>1 DEF PayloadSize
<1>2. CASE ~(a < start \/ a \notin DOMAIN image.payload)
  <2> DEFINE p == image.payload[a]
  <2>1. /\ p.kind \in {"packed", "sparse", "array"} /\ p.to \in Seq(Int)
        /\ p.kind = "array" => p.data \in Nat
    BY <1>2, DalvikAssumption DEF WellFormed
  <2>2. Len(p.to) \in Nat
    BY <2>1
  <2> HIDE DEF p
  <2>3. PayloadUnits(p) \in Nat /\ PayloadHead(p) \in Nat /\ PayloadHead(p) <= PayloadUnits(p)
    BY <2>1, <2>2 DEF PayloadUnits, PayloadHead
  <2>4. PayloadSize(image, a, start, end) = IF a + PayloadHead(p) > end THEN 0
             ELSE IF a + PayloadUnits(p) > end THEN end - a ELSE PayloadUnits(p)
    BY <1>2 DEF PayloadSize, p
  <2>5. a + PayloadHead(p) <= end => end - a \in Nat
    BY <2>3
  <2> QED BY <2>3, <2>4, <2>5
<1> QED BY <1>1, <1>2

LEMMA InsFacts ==
    ASSUME NEW image \in Images, NEW a \in DOMAIN image.ins
    PROVE  /\ image.ins[a].size \in Nat \ {0} /\ image.ins[a].to \in Int /\ image.ins[a].kind \in Kinds
BY DalvikAssumption DEF WellFormed

LEMMA TableType ==
    ASSUME NEW image \in Images, NEW a \in DOMAIN image.ins, NEW start \in Int, NEW end \in Int
    PROVE  TableAt(image, a, start, end) \in SUBSET (Int \X Int)
<1> DEFINE ins == image.ins[a]
           size == IF ins.kind \in {"switch", "fill"} THEN PayloadSize(image, ins.to, start, end) ELSE 0
<1>1. ins.to \in Int
  BY InsFacts
<1>2. size \in Nat
  BY <1>1, PayloadSizeType
<1> HIDE DEF size
<1>3. TableAt(image, a, start, end) = IF size = 0 THEN {} ELSE {<<ins.to, ins.to + size>>}
  BY DEF TableAt, size
<1> QED BY <1>1, <1>2, <1>3

(* One step of the sweep, by what it meets.                                 *)
LEMMA SweepSteps3 ==
    ASSUME NEW image \in Images, NEW start \in Int, NEW end \in Int, NEW s \in SweepStates
    PROVE  LET t == SweepStep(image, s, start, end)
               blocked == InRanges(s.at, s.ranges) \/ ~Decodes(image, s.at, end)
           IN  /\ t \in SweepStates
               /\ s.at >= end => t = s
               /\ s.at < end /\ blocked =>
                     t.at = s.at + 1 /\ t.valid = s.valid /\ t.ranges = s.ranges /\ t.back = s.back
               /\ s.at < end /\ ~blocked =>
                     /\ t.at = s.at + image.ins[s.at].size
                     /\ t.valid = s.valid \cup {s.at}
                     /\ t.ranges = s.ranges \cup TableAt(image, s.at, start, end)
                     /\ t.back = (s.back \/ \E range \in TableAt(image, s.at, start, end) \ s.ranges : range[1] <= s.at)
<1> DEFINE t == SweepStep(image, s, start, end)
           blocked == InRanges(s.at, s.ranges) \/ ~Decodes(image, s.at, end)
<1>1. s.at \in Int /\ s.valid \in SUBSET Int /\ s.ranges \in SUBSET (Int \X Int) /\ s.back \in BOOLEAN
  BY DEF SweepStates
<1>2. CASE s.at >= end
  BY <1>1, <1>2 DEF SweepStep
<1>3. CASE s.at < end /\ blocked
  <2>1. t = [s EXCEPT !.at = @ + 1]
    BY <1>1, <1>3 DEF SweepStep
  <2> QED BY <1>1, <1>3, <2>1 DEF SweepStates
<1>4. CASE s.at < end /\ ~blocked
  <2> DEFINE ins == image.ins[s.at]
             table == TableAt(image, s.at, start, end)
  <2>1. s.at \in DOMAIN image.ins
    BY <1>4 DEF Decodes
  <2>2. ins.size \in Nat \ {0} /\ ins.to \in Int
    BY <2>1, InsFacts
  <2>3. t = [ at |-> s.at + ins.size, valid |-> s.valid \cup {s.at}, ranges |-> s.ranges \cup table,
              back |-> s.back \/ \E range \in table \ s.ranges : range[1] <= s.at ]
    BY <1>1, <1>4 DEF SweepStep
  <2>4. table \in SUBSET (Int \X Int)
    BY <1>1, <2>1, TableType
  <2> HIDE DEF table
  <2>5. t \in SweepStates
    BY <1>1, <2>2, <2>3, <2>4 DEF SweepStates
  <2>6. t.at = s.at + ins.size /\ t.valid = s.valid \cup {s.at} /\ t.ranges = s.ranges \cup table
    BY <2>3
  <2> DEFINE back == s.back \/ \E range \in table \ s.ranges : range[1] <= s.at
  <2>7. t.back = back
    <3> HIDE DEF back
    <3> QED BY <2>3 DEF back
  <2> HIDE DEF t, back
  <2> QED BY <1>1, <1>4, <2>5, <2>6, <2>7 DEF t, table, back
<1> QED BY <1>1, <1>2, <1>3, <1>4

(* The rounds of a sweep are those of the loop in                           *)
(* _sweepInstructionStarts().                                               *)
LEMMA SweepLoop ==
    ASSUME NEW image \in Images, NEW start \in Int, NEW end \in Int, end - start \in Nat,
           NEW seeds \in SUBSET (Int \X Int)
    PROVE  LET after == SweepSteps(image, start, end, seeds)
           IN  /\ after[0] = SweepStart(start, seeds)
               /\ \A n \in 1 .. end - start : after[n] = SweepStep(image, after[n - 1], start, end)
<1> DEFINE N == end - start
           z == SweepStart(start, seeds)
           step == [ns \in (1 .. N) \X SweepStates |-> SweepStep(image, ns[2], start, end)]
           Loop(f) == f = [n \in 0 .. N |->
                             IF n = 0 THEN SweepStart(start, seeds)
                             ELSE Then(LAMBDA s : SweepStep(image, s, start, end), f[n - 1])]
<1>1. N \in Nat /\ z \in SweepStates
  BY DEF SweepStates, SweepStart
<1>2. step \in [(1 .. N) \X SweepStates -> SweepStates]
  <2>1. \A ns \in (1 .. N) \X SweepStates : SweepStep(image, ns[2], start, end) \in SweepStates
    BY SweepSteps3
  <2> QED BY <2>1
<1>3. Loops(N, SweepStates, z, step) # {}
  <2> HIDE DEF step, N, z
  <2> QED BY <1>1, <1>2, LoopExists
<1>4. PICK f \in [0 .. N -> SweepStates] : f[0] = z /\ \A n \in 1 .. N : f[n] = step[<<n, f[n - 1]>>]
  <2> HIDE DEF step, N, z
  <2> QED BY <1>3 DEF Loops
<1>5. ASSUME NEW n \in 1 .. N PROVE f[n] = SweepStep(image, f[n - 1], start, end)
  <2>1. <<n, f[n - 1]>> \in (1 .. N) \X SweepStates
    <3>1. n - 1 \in 0 .. N
      BY <1>1
    <3> HIDE DEF step, N
    <3> QED BY <3>1
  <2>2. f[n] = step[<<n, f[n - 1]>>]
    <3> HIDE DEF step
    <3> QED BY <1>4
  <2> QED BY <2>1, <2>2
<1>6. \A s : Then(LAMBDA r : SweepStep(image, r, start, end), s) = SweepStep(image, s, start, end)
  BY DEF Then
<1>7. Loop(f)
  <2>1. ASSUME NEW n \in 0 .. N
        PROVE  f[n] = IF n = 0 THEN SweepStart(start, seeds)
                      ELSE Then(LAMBDA s : SweepStep(image, s, start, end), f[n - 1])
    <3>1. CASE n = 0
      BY <3>1, <1>4
    <3>2. CASE n # 0
      <4>1. n \in 1 .. N
        BY <3>2
      <4>2. f[n] = SweepStep(image, f[n - 1], start, end)
        BY <4>1, <1>5
      <4> QED BY <3>2, <4>2, <1>6
    <3> QED BY <3>1, <3>2
  <2> HIDE DEF N, step, z
  <2> QED BY <2>1
<1> DEFINE g == CHOOSE x : Loop(x)
<1>8. Loop(g)
  <2> HIDE DEF Loop
  <2> QED BY <1>7
<1>9. SweepSteps(image, start, end, seeds) = g
  BY DEF SweepSteps
<1>10. g[0] = SweepStart(start, seeds)
  <2> HIDE DEF g
  <2> QED BY <1>1, <1>8
<1>11. ASSUME NEW n \in 1 .. N PROVE g[n] = SweepStep(image, g[n - 1], start, end)
  <2>1. g[n] = Then(LAMBDA s : SweepStep(image, s, start, end), g[n - 1])
    <3>1. n \in 0 .. N /\ n # 0
      BY <1>1
    <3> HIDE DEF g, N
    <3> QED BY <3>1, <1>8, Zenon
  <2> HIDE DEF g
  <2> QED BY <2>1, <1>6
<1> HIDE DEF g
<1> QED BY <1>9, <1>10, <1>11

(* What a pass has found when it is at s.at: starts that decode, one behind *)
(* the other, the tables they name, and for each unit the pass came to from *)
(* a start why it is none itself.  Nothing found lies in a table unless a   *)
(* new one turned up behind the pass.                                       *)
SizeAt(image, a) == image.ins[a].size
Noticed(image, s, a, end) == a \in s.valid \/ InRanges(a, s.ranges) \/ ~Decodes(image, a, end)
Clear(s) == \A a \in s.valid : ~InRanges(a, s.ranges)

FoundSoFar(image, s, start, end, seeds) ==
    /\ s \in SweepStates /\ s.at >= start /\ seeds \subseteq s.ranges
    /\ \A a \in s.valid : /\ start <= a /\ a < end /\ Decodes(image, a, end)
                          /\ a + SizeAt(image, a) <= s.at
                          /\ TableAt(image, a, start, end) \subseteq s.ranges
    /\ \A a, b \in s.valid : a < b => a + SizeAt(image, a) <= b
    /\ start < s.at => Noticed(image, s, start, end)
    /\ \A a \in s.valid : a + SizeAt(image, a) < s.at => Noticed(image, s, a + SizeAt(image, a), end)
    /\ ~s.back \/ s.ranges = seeds => Clear(s)

(* One round keeps what is known of everything before it, and moves on      *)
(* unless it is at the end.                                                 *)
LEMMA StepFinds ==
    ASSUME NEW image \in Images, NEW start \in Int, NEW end \in Int, NEW seeds, NEW s,
           FoundSoFar(image, s, start, end, seeds)
    PROVE  LET t == SweepStep(image, s, start, end)
           IN  /\ FoundSoFar(image, t, start, end, seeds)
               /\ s.at < end => t.at > s.at
               /\ s.at >= end => t = s
<1> DEFINE t == SweepStep(image, s, start, end)
           blocked == InRanges(s.at, s.ranges) \/ ~Decodes(image, s.at, end)
           table == TableAt(image, s.at, start, end)
<1>0. /\ s \in SweepStates /\ s.at \in Int /\ s.at >= start
      /\ s.valid \in SUBSET Int /\ s.ranges \in SUBSET (Int \X Int) /\ s.back \in BOOLEAN
  BY DEF FoundSoFar, SweepStates
<1>1. CASE s.at >= end
  BY <1>0, <1>1, SweepSteps3
<1>2. CASE s.at < end /\ blocked
  <2>1. t.at = s.at + 1 /\ t.valid = s.valid /\ t.ranges = s.ranges /\ t.back = s.back /\ t \in SweepStates
    BY <1>0, <1>2, SweepSteps3
  <2>2. \A a : Noticed(image, t, a, end) <=> Noticed(image, s, a, end)
    BY <2>1 DEF Noticed
  <2>3. Noticed(image, t, s.at, end)
    BY <1>2, <2>1 DEF Noticed
  <2>4. Clear(t) <=> Clear(s)
    BY <2>1 DEF Clear
  <2>5. \A a \in s.valid : SizeAt(image, a) \in Nat \ {0}
    BY InsFacts DEF FoundSoFar, Decodes, SizeAt
  <2> HIDE DEF t
  <2>6. \A a \in t.valid : /\ start <= a /\ a < end /\ Decodes(image, a, end)
                           /\ a + SizeAt(image, a) <= t.at
                           /\ TableAt(image, a, start, end) \subseteq t.ranges
    BY <1>0, <2>1, <2>5 DEF FoundSoFar
  <2>7. start < t.at => Noticed(image, t, start, end)
    BY <1>0, <2>1, <2>2, <2>3 DEF FoundSoFar
  <2>8. \A a \in t.valid : a + SizeAt(image, a) < t.at => Noticed(image, t, a + SizeAt(image, a), end)
    <3> SUFFICES ASSUME NEW a \in s.valid, a + SizeAt(image, a) < t.at
                 PROVE  Noticed(image, t, a + SizeAt(image, a), end)
      BY <2>1
    <3>1. a + SizeAt(image, a) \in Int /\ (a + SizeAt(image, a) < s.at \/ a + SizeAt(image, a) = s.at)
      BY <1>0, <2>1, <2>5
    <3> QED BY <3>1, <2>2, <2>3 DEF FoundSoFar
  <2>9. t.at >= start /\ seeds \subseteq t.ranges /\ (\A a, b \in t.valid : a < b => a + SizeAt(image, a) <= b)
    BY <1>0, <2>1 DEF FoundSoFar
  <2>10. ~t.back \/ t.ranges = seeds => Clear(t)
    BY <2>1, <2>4 DEF FoundSoFar
  <2>11. FoundSoFar(image, t, start, end, seeds)
    BY <2>1, <2>6, <2>7, <2>8, <2>9, <2>10 DEF FoundSoFar
  <2> QED BY <1>0, <1>2, <2>1, <2>11 DEF t
<1>3. CASE s.at < end /\ ~blocked
  <2>1. /\ t.at = s.at + image.ins[s.at].size /\ t.valid = s.valid \cup {s.at} /\ t.ranges = s.ranges \cup table
        /\ t \in SweepStates
    BY <1>0, <1>3, SweepSteps3
  <2>2. t.back = (s.back \/ \E range \in table \ s.ranges : range[1] <= s.at)
    BY <1>0, <1>3, SweepSteps3
  <2>3. s.at \in DOMAIN image.ins /\ Decodes(image, s.at, end)
    BY <1>3 DEF Decodes
  <2>4. table \in SUBSET (Int \X Int)
    BY <1>0, <2>3, TableType
  <2>5. \A a \in s.valid \cup {s.at} : SizeAt(image, a) \in Nat \ {0}
    BY <2>3, InsFacts DEF FoundSoFar, Decodes, SizeAt
  <2>6. t.at = s.at + SizeAt(image, s.at)
    BY <2>1 DEF SizeAt
  <2>7. ASSUME NEW a PROVE Noticed(image, s, a, end) => Noticed(image, t, a, end)
    BY <2>1 DEF Noticed, InRanges
  <2>8. Noticed(image, t, s.at, end)
    BY <2>1 DEF Noticed
  <2>9. TableAt(image, s.at, start, end) \subseteq t.ranges
    BY <2>1
  <2>10. ~t.back \/ t.ranges = seeds => Clear(t)
    <3> SUFFICES ASSUME ~t.back \/ t.ranges = seeds, NEW a \in t.valid, NEW range \in t.ranges, a \in Span(range)
                 PROVE  FALSE
      BY DEF Clear, InRanges
    <3>1. ~s.back \/ s.ranges = seeds
      BY <2>1, <2>2, <1>0 DEF FoundSoFar
    <3>2. Clear(s)
      BY <3>1 DEF FoundSoFar
    <3>3. ~InRanges(s.at, s.ranges)
      BY <1>3
    <3>4. range \notin s.ranges
      BY <2>1, <3>2, <3>3 DEF Clear, InRanges
    <3>5. range \in table \ s.ranges /\ range \in Int \X Int
      BY <2>1, <2>4, <3>4
    <3>6. ~(t.ranges = seeds)
      BY <3>4, <2>1 DEF FoundSoFar
    <3>7. ~(range[1] <= s.at)
      BY <2>2, <3>5, <3>6
    <3>8. a \in Int /\ a <= s.at
      BY <1>0, <2>1, <2>5 DEF FoundSoFar
    <3>9. a >= range[1]
      BY <3>5, <3>8 DEF Span
    <3> QED BY <1>0, <3>5, <3>7, <3>8, <3>9
  <2> HIDE DEF t, table
  <2>11. \A a \in t.valid : /\ start <= a /\ a < end /\ Decodes(image, a, end)
                            /\ a + SizeAt(image, a) <= t.at
                            /\ TableAt(image, a, start, end) \subseteq t.ranges
    <3>1. CASE TRUE
      <4> SUFFICES ASSUME NEW a \in s.valid
                   PROVE  /\ start <= a /\ a < end /\ Decodes(image, a, end)
                          /\ a + SizeAt(image, a) <= t.at
                          /\ TableAt(image, a, start, end) \subseteq t.ranges
        BY <1>0, <1>3, <2>1, <2>3, <2>5, <2>6, <2>9
      <4>1. start <= a /\ a < end /\ Decodes(image, a, end) /\ TableAt(image, a, start, end) \subseteq s.ranges
        BY DEF FoundSoFar
      <4>2. a + SizeAt(image, a) <= s.at /\ a \in Int /\ SizeAt(image, a) \in Nat /\ SizeAt(image, s.at) \in Nat
        BY <1>0, <2>5 DEF FoundSoFar
      <4> QED BY <1>0, <2>1, <2>6, <4>1, <4>2
    <3> QED BY <3>1
  <2>12. start < t.at => Noticed(image, t, start, end)
    <3>1. start < s.at \/ start = s.at
      BY <1>0
    <3> QED BY <3>1, <2>7, <2>8 DEF FoundSoFar
  <2>13. \A a \in t.valid : a + SizeAt(image, a) < t.at => Noticed(image, t, a + SizeAt(image, a), end)
    <3> SUFFICES ASSUME NEW a \in t.valid, a + SizeAt(image, a) < t.at
                 PROVE  Noticed(image, t, a + SizeAt(image, a), end)
      OBVIOUS
    <3>1. a \in s.valid
      BY <1>0, <2>1, <2>5, <2>6
    <3>2. a + SizeAt(image, a) <= s.at /\ a + SizeAt(image, a) \in Int
      BY <1>0, <2>5, <3>1 DEF FoundSoFar
    <3>3. CASE a + SizeAt(image, a) = s.at
      BY <3>3, <2>8
    <3>4. CASE a + SizeAt(image, a) < s.at
      BY <3>1, <3>4, <2>7 DEF FoundSoFar
    <3> QED BY <1>0, <3>2, <3>3, <3>4
  <2>14. \A a, b \in t.valid : a < b => a + SizeAt(image, a) <= b
    <3> SUFFICES ASSUME NEW a \in t.valid, NEW b \in t.valid, a < b PROVE a + SizeAt(image, a) <= b
      OBVIOUS
    <3>1. \A c \in s.valid : c \in Int /\ c + SizeAt(image, c) <= s.at /\ c < s.at
      BY <1>0, <2>5 DEF FoundSoFar
    <3>2. a \in s.valid
      BY <1>0, <2>1, <3>1
    <3> QED BY <2>1, <3>1, <3>2 DEF FoundSoFar
  <2>15. t.at >= start /\ seeds \subseteq t.ranges /\ t.at > s.at
    BY <1>0, <2>1, <2>5, <2>6 DEF FoundSoFar
  <2>16. FoundSoFar(image, t, start, end, seeds)
    BY <2>1, <2>10, <2>11, <2>12, <2>13, <2>14, <2>15 DEF FoundSoFar
  <2> QED BY <1>0, <1>3, <2>15, <2>16 DEF t
<1> QED BY <1>0, <1>1, <1>2, <1>3

(* So a sweep reaches the end of the code item, and knows all of it then.   *)
LEMMA SweepFinds ==
    ASSUME NEW image \in Images, NEW start \in Int, NEW end \in Int, end - start \in Nat,
           NEW seeds \in SUBSET (Int \X Int)
    PROVE  LET s == Sweep(image, start, end, seeds)
           IN  FoundSoFar(image, s, start, end, seeds) /\ s.at >= end
<1> DEFINE N == end - start
           after == SweepSteps(image, start, end, seeds)
           T == {n \in 0 .. N : /\ FoundSoFar(image, after[n], start, end, seeds)
                                /\ after[n].at >= start + n \/ after[n].at >= end}
<1>1. N \in Nat
  OBVIOUS
<1>2. 0 \in T
  <2>1. after[0] = SweepStart(start, seeds)
    BY SweepLoop
  <2>2. FoundSoFar(image, SweepStart(start, seeds), start, end, seeds)
    BY DEF FoundSoFar, SweepStart, SweepStates, Clear
  <2>3. SweepStart(start, seeds).at = start
    BY DEF SweepStart
  <2> HIDE DEF after
  <2> QED BY <1>1, <2>1, <2>2, <2>3
<1>3. ASSUME NEW n \in 1 .. N, n - 1 \in T PROVE n \in T
  <2>1. after[n] = SweepStep(image, after[n - 1], start, end)
    BY SweepLoop
  <2> HIDE DEF after
  <2>2. FoundSoFar(image, after[n - 1], start, end, seeds)
    BY <1>3
  <2>3. /\ FoundSoFar(image, after[n], start, end, seeds)
        /\ after[n - 1].at < end => after[n].at > after[n - 1].at
        /\ after[n - 1].at >= end => after[n] = after[n - 1]
    BY <2>1, <2>2, StepFinds
  <2>4. after[n - 1].at \in Int /\ after[n].at \in Int
    BY <2>2, <2>3 DEF FoundSoFar, SweepStates
  <2>5. after[n - 1].at >= start + (n - 1) \/ after[n - 1].at >= end
    BY <1>3
  <2>6. after[n].at >= start + n \/ after[n].at >= end
    BY <2>3, <2>4, <2>5
  <2> QED BY <2>3, <2>6, <1>1
<1>4. N \in T
  <2> HIDE DEF T
  <2>1. 0 .. N \subseteq T
    <3> HIDE DEF N
    <3> QED BY <1>1, <1>2, <1>3, InductionUpTo
  <2> QED BY <1>1, <2>1
<1>5. FoundSoFar(image, after[N], start, end, seeds) /\ (after[N].at >= start + N \/ after[N].at >= end)
  <2> HIDE DEF after, N
  <2> QED BY <1>4
<1>6. Sweep(image, start, end, seeds) = after[N] /\ start + N = end
  BY DEF Sweep
<1> HIDE DEF after, N
<1> QED BY <1>5, <1>6

-----------------------------------------------------------------------------
(* The passes over a code item: each leaves starts that decode one behind   *)
(* the other, and tables that hold none of them once the passes may stop.   *)
PassStates == [valid : SUBSET Int, ranges : SUBSET (Int \X Int), stop : BOOLEAN]

Sound(image, p, start, end) ==
    /\ p \in PassStates
    /\ \A a \in p.valid : /\ start <= a /\ a < end /\ Decodes(image, a, end)
                          /\ TableAt(image, a, start, end) \subseteq p.ranges
    /\ \A a, b \in p.valid : a < b => a + SizeAt(image, a) <= b
    /\ start < end => Noticed(image, p, start, end)
    /\ \A a \in p.valid : a + SizeAt(image, a) < end => Noticed(image, p, a + SizeAt(image, a), end)
    /\ p.stop => Clear(p)

(* What a pass returns is sound, the first and every later one.             *)
LEMMA SweptIsSound ==
    ASSUME NEW image \in Images, NEW start \in Int, NEW end \in Int, end - start \in Nat,
           NEW seeds \in SUBSET (Int \X Int), NEW first \in BOOLEAN
    PROVE  Sound(image, Swept(Sweep(image, start, end, seeds), seeds, first), start, end)
<1> DEFINE s == Sweep(image, start, end, seeds)
           p == Swept(s, seeds, first)
<1>1. FoundSoFar(image, s, start, end, seeds) /\ s.at >= end
  BY SweepFinds
<1> HIDE DEF s
<1>2. s.at \in Int /\ s.valid \in SUBSET Int /\ s.ranges \in SUBSET (Int \X Int) /\ s.back \in BOOLEAN
  BY <1>1 DEF FoundSoFar, SweepStates
<1>3. p.valid = s.valid /\ p.ranges = s.ranges /\ p \in PassStates
  BY <1>2 DEF Swept, PassStates
<1>4. p.stop => s.ranges = seeds \/ ~s.back
  BY DEF Swept
<1>5. \A a : Noticed(image, p, a, end) <=> Noticed(image, s, a, end)
  BY <1>3 DEF Noticed
<1>6. p.stop => Clear(p)
  BY <1>1, <1>3, <1>4 DEF FoundSoFar, Clear
<1> HIDE DEF p
<1>7. \A a \in s.valid : SizeAt(image, a) \in Nat
  BY <1>1, InsFacts DEF FoundSoFar, Decodes, SizeAt
<1>8. \A a \in p.valid : a + SizeAt(image, a) < end => Noticed(image, p, a + SizeAt(image, a), end)
  <2> SUFFICES ASSUME NEW a \in s.valid, a + SizeAt(image, a) < end PROVE Noticed(image, p, a + SizeAt(image, a), end)
    BY <1>3
  <2>1. a + SizeAt(image, a) < s.at
    BY <1>1, <1>2, <1>7
  <2> QED BY <1>1, <1>5, <2>1 DEF FoundSoFar
<1>9. start < end => Noticed(image, p, start, end)
  BY <1>1, <1>2, <1>5 DEF FoundSoFar
<1>10. Sound(image, p, start, end)
  BY <1>1, <1>3, <1>6, <1>8, <1>9 DEF FoundSoFar, Sound
<1> QED BY <1>10 DEF p, s

LEMMA NextPassIsSound ==
    ASSUME NEW image \in Images, NEW start \in Int, NEW end \in Int, end - start \in Nat,
           NEW p, Sound(image, p, start, end)
    PROVE  Sound(image, NextPass(image, p, start, end), start, end)
<1>1. p.ranges \in SUBSET (Int \X Int)
  BY DEF Sound, PassStates
<1>2. Sound(image, Swept(Sweep(image, start, end, p.ranges), p.ranges, FALSE), start, end)
  BY <1>1, SweptIsSound
<1> QED BY <1>2 DEF NextPass

(* The passes are those of the loop in _buildValidInstructionStarts().      *)
LEMMA PassLoop ==
    ASSUME NEW image \in Images, NEW start \in Int, NEW end \in Int, end - start \in Nat
    PROVE  LET after == Passes(image, start, end)
           IN  /\ after[1] = Swept(Sweep(image, start, end, {}), {}, TRUE)
               /\ \A n \in 2 .. MaxPasses : after[n] = NextPass(image, after[n - 1], start, end)
<1> DEFINE z == Swept(Sweep(image, start, end, {}), {}, TRUE)
           All == {p \in PassStates : Sound(image, p, start, end)}
           step == [ns \in (1 .. MaxPasses) \X All |-> IF ns[1] = 1 THEN ns[2] ELSE NextPass(image, ns[2], start, end)]
           Loop(f) == f = [n \in 1 .. MaxPasses |->
                             IF n = 1 THEN Swept(Sweep(image, start, end, {}), {}, TRUE)
                             ELSE Then(LAMBDA p : NextPass(image, p, start, end), f[n - 1])]
<1>1. MaxPasses \in Nat \ {0}
  BY DalvikAssumption
<1>2. z \in All
  BY SweptIsSound DEF Sound
<1>3. step \in [(1 .. MaxPasses) \X All -> All]
  <2>1. \A p \in All : NextPass(image, p, start, end) \in All
    BY NextPassIsSound DEF Sound
  <2> HIDE DEF All
  <2> QED BY <2>1
<1>4. Loops(MaxPasses, All, z, step) # {}
  <2> HIDE DEF step, z, All
  <2> QED BY <1>1, <1>2, <1>3, LoopExists
<1>5. PICK f \in [0 .. MaxPasses -> All] : f[0] = z /\ \A n \in 1 .. MaxPasses : f[n] = step[<<n, f[n - 1]>>]
  <2> HIDE DEF step, z, All
  <2> QED BY <1>4 DEF Loops
<1>6. ASSUME NEW n \in 1 .. MaxPasses PROVE f[n] = IF n = 1 THEN z ELSE NextPass(image, f[n - 1], start, end)
  <2>1. <<n, f[n - 1]>> \in (1 .. MaxPasses) \X All
    <3>1. n - 1 \in 0 .. MaxPasses
      BY <1>1
    <3> HIDE DEF step, All
    <3> QED BY <3>1
  <2>2. f[n] = step[<<n, f[n - 1]>>]
    <3> HIDE DEF step
    <3> QED BY <1>5
  <2>3. f[n] = IF n = 1 THEN f[n - 1] ELSE NextPass(image, f[n - 1], start, end)
    <3> HIDE DEF All
    <3> QED BY <2>1, <2>2
  <2>4. n = 1 => f[n - 1] = z
    <3>1. n = 1 => n - 1 = 0
      OBVIOUS
    <3> QED BY <1>5, <3>1
  <2> HIDE DEF z
  <2> QED BY <2>3, <2>4
<1>7. \A p : Then(LAMBDA q : NextPass(image, q, start, end), p) = NextPass(image, p, start, end)
  BY DEF Then
<1> DEFINE h == [n \in 1 .. MaxPasses |-> f[n]]
<1>8. Loop(h)
  <2>1. ASSUME NEW n \in 1 .. MaxPasses
        PROVE  h[n] = IF n = 1 THEN z ELSE Then(LAMBDA p : NextPass(image, p, start, end), h[n - 1])
    <3>1. h[n] = f[n]
      OBVIOUS
    <3>2. n # 1 => h[n - 1] = f[n - 1]
      BY <1>1
    <3> HIDE DEF h, z
    <3>3. CASE n = 1
      BY <3>1, <3>3, <1>6
    <3>4. CASE n # 1
      BY <3>1, <3>2, <3>4, <1>6, <1>7
    <3> QED BY <3>3, <3>4
  <2>2. h = [n \in 1 .. MaxPasses |-> h[n]]
    OBVIOUS
  <2> HIDE DEF h
  <2> QED BY <2>1, <2>2
<1> DEFINE g == CHOOSE x : Loop(x)
<1>9. Loop(g)
  <2> HIDE DEF Loop, h
  <2> QED BY <1>8
<1>10. Passes(image, start, end) = g
  BY DEF Passes
<1>11. g[1] = z
  <2>1. 1 \in 1 .. MaxPasses
    BY <1>1
  <2> HIDE DEF g
  <2> QED BY <2>1, <1>9, Zenon
<1>12. ASSUME NEW n \in 2 .. MaxPasses PROVE g[n] = NextPass(image, g[n - 1], start, end)
  <2>1. g[n] = Then(LAMBDA p : NextPass(image, p, start, end), g[n - 1])
    <3>1. n \in 1 .. MaxPasses /\ n # 1
      BY <1>1
    <3> HIDE DEF g
    <3> QED BY <3>1, <1>9, Zenon
  <2> HIDE DEF g
  <2> QED BY <2>1, <1>7
<1> HIDE DEF g
<1> QED BY <1>10, <1>11, <1>12

(* What _buildValidInstructionStarts() returns for a code item.             *)
CodeStart(h) == h + HeaderUnits
CodeEnd(image, h) == h + HeaderUnits + image.header[h].insns

(* Where the code of an item lies.                                          *)
LEMMA HeaderFacts ==
    ASSUME NEW image \in Images, NEW h \in DOMAIN image.header
    PROVE  /\ h \in Nat /\ image.header[h].insns \in Nat
           /\ CodeStart(h) \in Nat \ {0} /\ CodeEnd(image, h) \in Nat
           /\ CodeEnd(image, h) - CodeStart(h) \in Nat
           /\ CodeEnd(image, h) = CodeStart(h) + image.header[h].insns
<1>1. h \in Nat /\ image.header[h].insns \in Nat
  BY DalvikAssumption, Zenon DEF WellFormed
<1>2. HeaderUnits \in Nat \ {0}
  BY DalvikAssumption
<1> QED BY <1>1, <1>2 DEF CodeStart, CodeEnd

(* The legal starts of every code item are sound: by induction over the     *)
(* passes.                                                                  *)
LEMMA LegalIsSound ==
    ASSUME NEW image \in Images, NEW h \in DOMAIN image.header
    PROVE  Sound(image, Legal[image][h], CodeStart(h), CodeEnd(image, h))
<1> DEFINE start == CodeStart(h)
           end == CodeEnd(image, h)
           after == Passes(image, start, end)
           T == {n \in 0 .. MaxPasses : n = 0 \/ Sound(image, after[n], start, end)}
<1>1. start \in Int /\ end \in Int /\ end - start \in Nat
  BY HeaderFacts
<1>2. MaxPasses \in Nat \ {0}
  BY DalvikAssumption
<1>3. Legal[image][h] = after[MaxPasses]
  BY DEF Legal, ValidStarts, CodeStart, CodeEnd
<1> HIDE DEF start, end
<1>4. after[1] = Swept(Sweep(image, start, end, {}), {}, TRUE)
      /\ \A n \in 2 .. MaxPasses : after[n] = NextPass(image, after[n - 1], start, end)
  BY <1>1, PassLoop
<1>5. Sound(image, after[1], start, end)
  BY <1>1, <1>4, SweptIsSound
<1> HIDE DEF after
<1>6. ASSUME NEW n \in 1 .. MaxPasses, n - 1 \in T PROVE n \in T
  <2>1. CASE n = 1
    BY <1>2, <1>5, <2>1
  <2>2. CASE n # 1
    <3>1. n \in 2 .. MaxPasses /\ n - 1 # 0
      BY <2>2
    <3>2. Sound(image, after[n - 1], start, end)
      BY <1>6, <3>1
    <3>3. Sound(image, after[n], start, end)
      BY <1>1, <1>4, <3>1, <3>2, NextPassIsSound
    <3> QED BY <1>2, <3>3
  <2> QED BY <2>1, <2>2
<1>7. MaxPasses \in T
  <2>1. 0 \in T
    BY <1>2
  <2> HIDE DEF T
  <2>2. 0 .. MaxPasses \subseteq T
    BY <1>2, <1>6, <2>1, InductionUpTo
  <2> QED BY <1>2, <2>2
<1> QED BY <1>2, <1>3, <1>7 DEF start, end

-----------------------------------------------------------------------------
(* The state of a method that is walked: what is fixed when it is begun.    *)
Tries(S) == Seq([start : Int, end : Int, handlers : Seq(S)])

WalkStates ==
    [ start : Int, end : Int, block : Int, at : Int, queue : Seq(Int), processed : SUBSET Int,
      starts : SUBSET Int, refs : SUBSET (Int \X Int), jumps : SUBSET (Int \X Int), ins : SUBSET Int,
      visited : SUBSET Int, data : SUBSET Int, valid : SUBSET Int, ranges : SUBSET (Int \X Int),
      tries : Tries(Int), reported : SUBSET Int ]

HeaderOf(s) == s.start - HeaderUnits

Fixed(s) ==
    /\ HeaderOf(s) \in DOMAIN img.header
    /\ s.end = CodeEnd(img, HeaderOf(s))
    /\ s.valid = Legal[img][HeaderOf(s)].valid
    /\ s.ranges = Legal[img][HeaderOf(s)].ranges
    /\ s.tries \in Tries(s.valid)

(* What analyzeFunction() fixes before the walk, told of the method that is *)
(* walked.                                                                  *)
LEMMA FixedFacts ==
    ASSUME img \in Images, NEW s, Fixed(s), s.start \in Int
    PROVE  /\ s.start \in Nat \ {0} /\ s.end \in Nat /\ s.end - s.start \in Nat
           /\ s.start = CodeStart(HeaderOf(s))
           /\ s.valid \in SUBSET Int /\ s.ranges \in SUBSET (Int \X Int)
           /\ Sound(img, Legal[img][HeaderOf(s)], s.start, s.end)
<1> DEFINE h == HeaderOf(s)
<1>1. h \in DOMAIN img.header /\ s.end = CodeEnd(img, h)
  BY DEF Fixed
<1>2. HeaderUnits \in Nat
  BY DalvikAssumption
<1>3. s.start = CodeStart(h)
  BY <1>2 DEF CodeStart, HeaderOf
<1> HIDE DEF h
<1>4. /\ s.start \in Nat \ {0} /\ s.end \in Nat /\ s.end - s.start \in Nat
  BY <1>1, <1>3, HeaderFacts
<1>5. Sound(img, Legal[img][h], s.start, s.end)
  BY <1>1, <1>3, LegalIsSound
<1>6. s.valid \in SUBSET Int /\ s.ranges \in SUBSET (Int \X Int)
  BY <1>5 DEF Sound, PassStates, Fixed, h
<1> QED BY <1>3, <1>4, <1>5, <1>6 DEF h

(* What the sweep says of the method's legal starts and its tables.         *)
LEMMA LegalFacts ==
    ASSUME img \in Images, NEW s, Fixed(s), s.start \in Int
    PROVE  /\ \A a \in s.valid : /\ s.start <= a /\ a < s.end /\ Decodes(img, a, s.end)
                                 /\ Table(s, a) \subseteq s.ranges
           /\ \A a, b \in s.valid : a < b => a + SizeAt(img, a) <= b
           /\ s.start < s.end => Noticed(img, s, s.start, s.end)
           /\ \A a \in s.valid : a + SizeAt(img, a) < s.end => Noticed(img, s, a + SizeAt(img, a), s.end)
           /\ Legal[img][HeaderOf(s)].stop => Clear(s)
<1> DEFINE p == Legal[img][HeaderOf(s)]
<1>1. Sound(img, p, s.start, s.end) /\ s.valid = p.valid /\ s.ranges = p.ranges
  BY FixedFacts DEF Fixed
<1> HIDE DEF p
<1>2. \A a : Noticed(img, s, a, s.end) <=> Noticed(img, p, a, s.end)
  BY <1>1 DEF Noticed
<1>3. Clear(s) <=> Clear(p)
  BY <1>1 DEF Clear
<1> QED BY <1>1, <1>2, <1>3 DEF Sound, Table, p

(* Handlers, switch targets and branches are legal starts; goto/32 may be   *)
(* its own target besides.                                                  *)
LEMMA HandlersAreLegal ==
    ASSUME NEW s, NEW V, s.tries \in Tries(V), NEW a
    PROVE  ExceptionTargets(s, a) \in Seq(V)
<1> DEFINE some == [k \in DOMAIN s.tries |->
            IF s.tries[k].start <= a /\ a < s.tries[k].end THEN s.tries[k].handlers ELSE <<>>]
<1>1. DOMAIN s.tries = 1 .. Len(s.tries) /\ Len(s.tries) \in Nat
  BY DEF Tries
<1>2. \A k \in DOMAIN s.tries : s.tries[k].handlers \in Seq(V)
  <2> DEFINE Try == [start : Int, end : Int, handlers : Seq(V)]
  <2>1. s.tries \in Seq(Try)
    BY DEF Tries
  <2>2. \A k \in DOMAIN s.tries : s.tries[k] \in Try
    <3> HIDE DEF Try
    <3> QED BY <2>1
  <2> QED BY <2>2
<1>3. \A k \in 1 .. Len(s.tries) : some[k] \in Seq(V)
  BY <1>1, <1>2
<1>4. some \in Seq(Seq(V))
  <2>1. some = [k \in 1 .. Len(s.tries) |-> some[k]]
    BY <1>1
  <2> HIDE DEF some
  <2> QED BY <1>1, <1>3, <2>1
<1> HIDE DEF some
<1>5. FlattenSeq(some) \in Seq(V)
  BY <1>4, FlattenedSeq
<1> QED BY <1>5 DEF ExceptionTargets, some

LEMMA SwitchTargetsSeq ==
    ASSUME img \in Images, NEW a \in DOMAIN img.payload, NEW i, NEW end
    PROVE  \E n \in Nat : DOMAIN SwitchTargets(img, i, a, end) = 1 .. n
<1> DEFINE p == img.payload[a]
           room == {k \in DOMAIN p.to : a + FirstTarget(p) + 2 * k <= end}
<1>1. p.to \in Seq(Int)
  BY DalvikAssumption DEF WellFormed
<1>2. Len(p.to) \in Nat /\ DOMAIN p.to = 1 .. Len(p.to)
  BY <1>1
<1>3. IsFiniteSet(DOMAIN p.to)
  BY <1>2, FS_Interval
<1>4. Cardinality(room) \in Nat
  <2>1. room \subseteq DOMAIN p.to
    OBVIOUS
  <2> HIDE DEF room
  <2> QED BY <1>3, <2>1, FS_Subset, FS_CardinalityType
<1>5. CASE p.kind = "array"
  <2>1. SwitchTargets(img, i, a, end) = <<>>
    BY <1>5 DEF SwitchTargets
  <2>2. DOMAIN <<>> = 1 .. 0
    OBVIOUS
  <2> QED BY <2>1, <2>2
<1>6. CASE p.kind # "array"
  <2>1. SwitchTargets(img, i, a, end) = [k \in 1 .. Cardinality(room) |-> i + p.to[k]]
    BY <1>6 DEF SwitchTargets
  <2> HIDE DEF room
  <2> QED BY <1>4, <2>1
<1> QED BY <1>5, <1>6

LEMMA JumpsAreLegal ==
    ASSUME img \in Images, NEW s, Fixed(s), s.start \in Int, NEW a \in DOMAIN img.ins
    PROVE  /\ JumpTargets(s, a) \in Seq(s.valid \cup {a})
           /\ img.ins[a].kind # "goto32" => JumpTargets(s, a) \in Seq(s.valid)
<1> DEFINE ins == img.ins[a]
           V == s.valid
<1>1. CASE ins.kind \in {"goto", "goto32", "if"}
  <2>1. JumpTargets(s, a) = BranchTargets(s, a)
    BY <1>1 DEF JumpTargets
  <2>2. BranchTargets(s, a) = IF ins.to = a THEN IF ins.kind = "goto32" THEN <<a>> ELSE <<>>
                              ELSE IF ins.to \in V THEN <<ins.to>> ELSE <<>>
    BY DEF BranchTargets
  <2>3. <<>> \in Seq(V) /\ <<>> \in Seq(V \cup {a}) /\ <<a>> \in Seq(V \cup {a})
    OBVIOUS
  <2>4. ASSUME NEW e \in V PROVE <<e>> \in Seq(V) /\ <<e>> \in Seq(V \cup {a})
    <3> HIDE DEF V
    <3>1. <<e>> \in Seq(V)
      OBVIOUS
    <3>2. <<e>> \in Seq(V \cup {a})
      OBVIOUS
    <3> QED BY <3>1, <3>2
  <2> HIDE DEF V, ins
  <2> QED BY <2>1, <2>2, <2>3, <2>4 DEF V, ins
<1>2. CASE Table(s, a) # {} /\ ins.kind = "switch"
  <2>1. JumpTargets(s, a) = OnlyIn(SwitchTargets(img, a, ins.to, s.end), s.valid)
    BY <1>2 DEF JumpTargets
  <2>2. ins.to \in DOMAIN img.payload
    BY <1>2 DEF Table, TableAt, PayloadSize
  <2>3. PICK n \in Nat : DOMAIN SwitchTargets(img, a, ins.to, s.end) = 1 .. n
    BY <2>2, SwitchTargetsSeq
  <2>4. JumpTargets(s, a) \in Seq(V)
    BY <2>1, <2>3, OnlyInSet
  <2> QED BY <2>4
<1>3. CASE ~(ins.kind \in {"goto", "goto32", "if"}) /\ ~(Table(s, a) # {} /\ ins.kind = "switch")
  <2>1. JumpTargets(s, a) = <<>>
    BY <1>3 DEF JumpTargets
  <2> QED BY <2>1
<1> QED BY <1>1, <1>2, <1>3

(* What an instruction leads to depends on what is fixed only.              *)
Alike(s, t) == s.start = t.start /\ s.end = t.end /\ s.valid = t.valid /\ s.tries = t.tries

(* Where an instruction leads depends on nothing that the walk changes.     *)
LEMMA AlikeLeads ==
    ASSUME NEW s, NEW t, Alike(s, t)
    PROVE  \A a : /\ Table(s, a) = Table(t, a) /\ FallsThrough(s, a) = FallsThrough(t, a)
                  /\ JumpTargets(s, a) = JumpTargets(t, a) /\ ExceptionTargets(s, a) = ExceptionTargets(t, a)
                  /\ RefTargets(s, a) = RefTargets(t, a) /\ NewBlocks(s, a) = NewBlocks(t, a)
                  /\ Refused(s, a) = Refused(t, a)
<1> SUFFICES ASSUME NEW a
             PROVE  /\ Table(s, a) = Table(t, a) /\ FallsThrough(s, a) = FallsThrough(t, a)
                    /\ JumpTargets(s, a) = JumpTargets(t, a) /\ ExceptionTargets(s, a) = ExceptionTargets(t, a)
                    /\ RefTargets(s, a) = RefTargets(t, a) /\ NewBlocks(s, a) = NewBlocks(t, a)
                    /\ Refused(s, a) = Refused(t, a)
  OBVIOUS
<1>1. Table(s, a) = Table(t, a)
  BY DEF Table, Alike
<1>2. FallsThrough(s, a) = FallsThrough(t, a)
  BY <1>1 DEF FallsThrough, Alike
<1>3. BranchTargets(s, a) = BranchTargets(t, a)
  BY DEF BranchTargets, Alike
<1>4. JumpTargets(s, a) = JumpTargets(t, a)
  BY <1>1, <1>3 DEF JumpTargets, Alike
<1>5. ExceptionTargets(s, a) = ExceptionTargets(t, a)
  BY DEF ExceptionTargets, Alike
<1>6. RefTargets(s, a) = RefTargets(t, a)
  BY <1>2, <1>4, <1>5 DEF RefTargets
<1>7. StartsBehind(s, a) = StartsBehind(t, a) /\ Caught(s, a) = Caught(t, a)
  BY <1>1, <1>2, <1>5 DEF StartsBehind, Caught, Alike
<1>8. NewBlocks(s, a) = NewBlocks(t, a)
  BY <1>4, <1>5, <1>7 DEF NewBlocks
<1>9. Refused(s, a) = Refused(t, a)
  BY <1>3 DEF Refused
<1> QED BY <1>1, <1>2, <1>4, <1>5, <1>6, <1>8, <1>9

-----------------------------------------------------------------------------
(* The walk.  An address the walk came to and has left is behind it, and    *)
(* the walk comes to no unit the sweep has not noticed.                     *)
Passed(s, a) == a \notin s.start .. s.end - 1 \/ InRanges(a, s.ranges) \/ a \in s.visited
Lead(s, a) == a \in s.start .. s.end - 1 => Noticed(img, s, a, s.end)
Reached(s, a) == a \in s.starts \/ \E b \in s.ins : FallsThrough(s, b) /\ Behind(b) = a

(* What was walked: legal starts and no others, and their references.       *)
Walks(s, noted) ==
    /\ s.ins \subseteq s.valid /\ s.ins \subseteq s.visited
    /\ s.visited \subseteq s.start .. s.end - 1
    /\ \A a \in s.ins : ~InRanges(a, s.ranges)
    /\ \A a \in s.visited \ s.ins : a \in noted /\ ~Decodes(img, a, s.end)
    /\ \A a \in s.data : InRanges(a, s.ranges)

References(s) ==
    /\ \A a, t : <<a, t>> \in s.refs <=> a \in s.ins /\ t \in RefTargets(s, a)
    /\ \A a, t : <<a, t>> \in s.jumps <=> a \in s.ins /\ t \in ToSet(JumpTargets(s, a))
    /\ \A a \in s.ins : Refused(s, a) => a \in s.reported

(* What it came to, and what it still has to come to.                       *)
Progress(s) ==
    /\ s.start \in s.starts
    /\ s.starts \subseteq s.processed \cup ToSet(s.queue) /\ ToSet(s.queue) \subseteq s.starts
    /\ \A a \in s.ins : ToSet(NewBlocks(s, a)) \subseteq s.starts
    /\ \A b \in s.processed : Passed(s, b) \/ (b = s.block /\ s.at = b)
    /\ \A a \in s.ins : FallsThrough(s, a) => Behind(a) = s.at \/ Passed(s, Behind(a)) \/ Behind(a) \notin s.valid
    /\ \A b \in ToSet(s.queue) : Lead(s, b)
    /\ \A a \in s.ins : Reached(s, a)
    /\ s.at # None => Lead(s, s.at) /\ Reached(s, s.at)

Orderly(s, noted) == s \in WalkStates /\ Fixed(s) /\ Walks(s, noted) /\ References(s) /\ Progress(s)

WalkInv == phase = "walk" => Orderly(st, errors)

(* Types of the try blocks and their handlers.                              *)
LEMMA LegalTriesType ==
    ASSUME NEW image \in Images, NEW h \in DOMAIN image.header, NEW V
    PROVE  LegalTries(ParsedTries(image.header[h]), V) \in Tries(V)
<1> DEFINE header == image.header[h]
           parsed == ParsedTries(header)
           legal == LegalTries(parsed, V)
           Raw == [start : Int, end : Int, list : Int]
           Try == [start : Int, end : Int, handlers : Seq(V)]
           n == Len(header.tries)
<1>1. header.tries \in Seq(Raw) /\ \A l \in DOMAIN header.lists : header.lists[l] \in Seq(Int)
  BY DalvikAssumption, Zenon DEF WellFormed
<1> HIDE DEF header
<1>2. n \in Nat /\ DOMAIN header.tries = 1 .. n /\ \A k \in 1 .. n : header.tries[k] \in Raw
  <2> HIDE DEF Raw
  <2> QED BY <1>1
<1>3. DOMAIN parsed = 1 .. n /\ DOMAIN legal = 1 .. n
  BY <1>2 DEF ParsedTries, LegalTries
<1>4. ASSUME NEW k \in 1 .. n PROVE legal[k] \in Try
  <2> DEFINE try == header.tries[k]
             handlers == IF try.list \in DOMAIN header.lists THEN header.lists[try.list] ELSE <<>>
  <2>1. parsed[k] = [start |-> try.start, end |-> try.end, handlers |-> handlers]
    BY <1>2 DEF ParsedTries
  <2>2. handlers \in Seq(Int)
    BY <1>1
  <2>3. DOMAIN handlers = 1 .. Len(handlers) /\ Len(handlers) \in Nat
    BY <2>2
  <2>4. OnlyIn(handlers, V) \in Seq(V)
    <3> HIDE DEF handlers
    <3> QED BY <2>3, OnlyInSet
  <2>5. legal[k] = [parsed[k] EXCEPT !.handlers = OnlyIn(@, V)]
    BY <1>3 DEF LegalTries
  <2>6. try.start \in Int /\ try.end \in Int
    BY <1>2
  <2> HIDE DEF handlers, try, parsed, legal
  <2>7. legal[k] = [start |-> try.start, end |-> try.end, handlers |-> OnlyIn(handlers, V)]
    BY <2>1, <2>5
  <2> QED BY <2>4, <2>6, <2>7
<1>5. legal = [k \in 1 .. n |-> legal[k]]
  BY <1>2, <1>3 DEF LegalTries
<1> HIDE DEF legal, Try, n
<1>6. legal \in Seq(Try)
  BY <1>2, <1>4, <1>5
<1> QED BY <1>6 DEF Tries, legal, parsed, header, Try

LEMMA TriesWiden ==
    ASSUME NEW S, NEW V \in SUBSET S, NEW tries \in Tries(V)
    PROVE  tries \in Tries(S)
<1> DEFINE Try(T) == [start : Int, end : Int, handlers : Seq(T)]
<1>1. Seq(V) \subseteq Seq(S)
  OBVIOUS
<1>2. Try(V) \subseteq Try(S)
  BY <1>1
<1>3. tries \in Seq(Try(V))
  BY DEF Tries
<1>4. tries \in Seq(Try(S))
  <2> HIDE DEF Try
  <2> QED BY <1>2, <1>3
<1> QED BY <1>4 DEF Tries

LEMMA HandlersSeq ==
    ASSUME NEW V, NEW tries \in Tries(V)
    PROVE  Handlers(tries) \in Seq(V)
<1> DEFINE all == [k \in DOMAIN tries |-> tries[k].handlers]
           Try == [start : Int, end : Int, handlers : Seq(V)]
           n == Len(tries)
<1>1. tries \in Seq(Try)
  BY DEF Tries
<1>2. n \in Nat /\ DOMAIN tries = 1 .. n /\ \A k \in 1 .. n : tries[k] \in Try
  <2> HIDE DEF Try
  <2> QED BY <1>1
<1>3. \A k \in 1 .. n : tries[k].handlers \in Seq(V)
  BY <1>2
<1>4. all = [k \in 1 .. n |-> tries[k].handlers]
  BY <1>2
<1>5. all \in Seq(Seq(V))
  <2> HIDE DEF all, n
  <2> QED BY <1>2, <1>3, <1>4
<1> HIDE DEF all
<1> QED BY <1>5, FlattenedSeq DEF Handlers, all

(* Queueing disturbs nothing but the queue and the block starts.            *)
LEMMA Enqueued ==
    ASSUME NEW s \in WalkStates, NEW targets \in Seq(Int)
    PROVE  LET t == EnqueueAll(s, targets)
           IN  /\ t \in WalkStates
               /\ t = [s EXCEPT !.starts = t.starts, !.queue = t.queue]
               /\ t.starts = s.starts \cup ToSet(targets)
               /\ ToSet(s.queue) \subseteq ToSet(t.queue)
               /\ ToSet(t.queue) \subseteq ToSet(s.queue) \cup ToSet(targets)
               /\ ToSet(targets) \subseteq s.processed \cup ToSet(t.queue)
<1> DEFINE t == EnqueueAll(s, targets)
           q == Queues(s.queue, s.processed, targets)[Len(targets)]
           u == s.starts \cup ToSet(targets)
<1>1. s.queue \in Seq(Int) /\ s.starts \in SUBSET Int
  BY DEF WalkStates
<1>2. /\ q \in Seq(Int) /\ ToSet(s.queue) \subseteq ToSet(q) /\ ToSet(q) \subseteq ToSet(s.queue) \cup ToSet(targets)
      /\ ToSet(targets) \subseteq s.processed \cup ToSet(q)
  BY <1>1, Queued
<1>3. u \in SUBSET Int
  BY <1>1, ElementsIn
<1>4. t = [s EXCEPT !.starts = u, !.queue = q]
  BY DEF EnqueueAll
<1> HIDE DEF q, u, t
<1>5. t.starts = u /\ t.queue = q /\ t \in WalkStates
  BY <1>2, <1>3, <1>4 DEF WalkStates
<1>6. t = [s EXCEPT !.starts = t.starts, !.queue = t.queue]
  BY <1>4, <1>5
<1> QED BY <1>2, <1>5, <1>6 DEF t, u

(* The walk of a method begins well.                                        *)
LEMMA BeginWalk ==
    ASSUME img \in Images, NEW h \in DOMAIN img.header
    PROVE  LET s == NewState(CodeStart(h), img.header[h])
           IN  /\ \A noted : Orderly(s, noted)
               /\ s.start = CodeStart(h) /\ s.ins = {} /\ s.at = None /\ s.visited = {}
<1> DEFINE start == CodeStart(h)
           end == start + img.header[h].insns
           legal == Legal[img][h]
           tries == LegalTries(ParsedTries(img.header[h]), legal.valid)
           targets == Handlers(tries)
           r == [ start |-> start, end |-> end, block |-> None, at |-> None,
                  queue |-> <<start>>, processed |-> {}, starts |-> {start},
                  refs |-> {}, jumps |-> {}, ins |-> {}, visited |-> {}, data |-> {},
                  valid |-> legal.valid, ranges |-> legal.ranges, tries |-> tries,
                  reported |-> {} ]
           s == EnqueueAll(r, targets)
<1>1. start \in Nat \ {0} /\ end \in Nat /\ end = CodeEnd(img, h) /\ h \in Nat /\ HeaderUnits \in Nat
  BY HeaderFacts, DalvikAssumption
<1>2. start - HeaderUnits = h
  BY <1>1 DEF CodeStart
<1>3. NewState(start, img.header[h]) = s
  BY <1>2 DEF NewState
<1>4. Sound(img, legal, start, end)
  BY <1>1, LegalIsSound
<1>5. legal.valid \in SUBSET Int /\ legal.ranges \in SUBSET (Int \X Int)
  BY <1>4 DEF Sound, PassStates
<1>6. tries \in Tries(legal.valid) /\ tries \in Tries(Int)
  <2>1. tries \in Tries(legal.valid)
    BY LegalTriesType
  <2> HIDE DEF tries
  <2> QED BY <2>1, <1>5, TriesWiden
<1>7. targets \in Seq(legal.valid) /\ targets \in Seq(Int) /\ ToSet(targets) \subseteq legal.valid
  <2> HIDE DEF tries
  <2>1. targets \in Seq(legal.valid)
    BY <1>6, HandlersSeq
  <2> HIDE DEF targets
  <2>2. ToSet(targets) \subseteq legal.valid
    BY <2>1, ElementsIn
  <2>3. targets \in Seq(Int)
    BY <1>5, <2>1
  <2> QED BY <2>1, <2>2, <2>3
<1>8. <<start>> \in Seq(Int) /\ ToSet(<<start>>) = {start}
  BY <1>1 DEF ToSet
<1> HIDE DEF start, end, legal, tries, targets
<1>9. r \in WalkStates
  BY <1>1, <1>5, <1>6, <1>8 DEF WalkStates, None
<1>10. /\ s \in WalkStates /\ s = [r EXCEPT !.starts = s.starts, !.queue = s.queue]
       /\ s.starts = {start} \cup ToSet(targets)
       /\ ToSet(s.queue) \subseteq {start} \cup ToSet(targets)
       /\ {start} \cup ToSet(targets) \subseteq ToSet(s.queue)
  <2>1. r.starts = {start} /\ r.queue = <<start>> /\ r.processed = {}
    OBVIOUS
  <2> HIDE DEF r
  <2> QED BY <1>7, <1>8, <1>9, <2>1, Enqueued
<1> HIDE DEF s
<1>11. /\ s.start = start /\ s.end = end /\ s.block = None /\ s.at = None /\ s.processed = {}
       /\ s.refs = {} /\ s.jumps = {} /\ s.ins = {} /\ s.visited = {} /\ s.data = {}
       /\ s.valid = legal.valid /\ s.ranges = legal.ranges /\ s.tries = tries
  BY <1>10
<1>12. Fixed(s)
  BY <1>1, <1>2, <1>6, <1>11 DEF Fixed, HeaderOf, legal
<1>13. (\A noted : Walks(s, noted)) /\ References(s)
  BY <1>11 DEF Walks, References
<1>14. \A b \in ToSet(s.queue) : Lead(s, b)
  <2>1. \A a : Noticed(img, s, a, s.end) <=> Noticed(img, legal, a, end)
    BY <1>11 DEF Noticed
  <2>2. start < end => Noticed(img, legal, start, end)
    BY <1>4 DEF Sound
  <2>3. Lead(s, start)
    BY <1>1, <1>11, <2>1, <2>2 DEF Lead
  <2>4. \A b \in legal.valid : Lead(s, b)
    BY <1>11 DEF Lead, Noticed
  <2> QED BY <1>7, <1>10, <2>3, <2>4
<1>15. Progress(s)
  BY <1>10, <1>11, <1>14 DEF Progress
<1> QED BY <1>3, <1>10, <1>11, <1>12, <1>13, <1>15 DEF start, Orderly

(* Where an instruction leads: to legal starts, to itself, or behind it.    *)
LEMMA LeadsAreKnown ==
    ASSUME img \in Images, NEW s \in WalkStates, Fixed(s), NEW a \in DOMAIN img.ins, a \in Int
    PROVE  /\ NewBlocks(s, a) \in Seq(Int)
           /\ ToSet(NewBlocks(s, a)) =
                 ToSet(JumpTargets(s, a)) \cup ToSet(ExceptionTargets(s, a))
                     \cup (IF StartsBehind(s, a) \/ Caught(s, a) THEN {Behind(a)} ELSE {})
           /\ ToSet(JumpTargets(s, a)) \subseteq s.valid \cup {a}
           /\ ToSet(ExceptionTargets(s, a)) \subseteq s.valid
           /\ RefTargets(s, a) \in SUBSET Int
           /\ Behind(a) \in Int /\ Behind(a) > a
           /\ s.valid \in SUBSET Int /\ s.start \in Int
<1> DEFINE J == JumpTargets(s, a)
           E == ExceptionTargets(s, a)
           one(flag) == IF flag THEN <<Behind(a)>> ELSE <<>>
<1>1. s.start \in Int /\ s.valid \in SUBSET Int
  BY DEF WalkStates
<1>2. Behind(a) \in Int /\ Behind(a) > a /\ img.ins[a].to \in Int
  BY InsFacts DEF Behind
<1>3. J \in Seq(s.valid \cup {a})
  BY <1>1, JumpsAreLegal
<1>4. E \in Seq(s.valid)
  BY HandlersAreLegal DEF Fixed
<1>5. ToSet(J) \subseteq s.valid \cup {a} /\ ToSet(E) \subseteq s.valid
  <2> HIDE DEF J, E
  <2> QED BY <1>3, <1>4, ElementsIn
<1>6. J \in Seq(Int) /\ E \in Seq(Int)
  <2> HIDE DEF J, E
  <2>1. s.valid \cup {a} \in SUBSET Int
    BY <1>1
  <2> QED BY <1>1, <1>3, <1>4, <2>1
<1>7. \A flag \in BOOLEAN : one(flag) \in Seq(Int) /\ ToSet(one(flag)) = IF flag THEN {Behind(a)} ELSE {}
  <2>1. ASSUME NEW b \in Int PROVE <<b>> \in Seq(Int) /\ ToSet(<<b>>) = {b}
    BY DEF ToSet
  <2>2. <<>> \in Seq(Int) /\ ToSet(<<>>) = {}
    BY DEF ToSet
  <2> QED BY <1>2, <2>1, <2>2
<1> DEFINE B == one(StartsBehind(s, a))
           C == one(Caught(s, a))
<1>8. NewBlocks(s, a) = ((J \o B) \o E) \o C
  BY DEF NewBlocks
<1>9. StartsBehind(s, a) \in BOOLEAN /\ Caught(s, a) \in BOOLEAN
  BY DEF StartsBehind, Caught
<1>10. B \in Seq(Int) /\ C \in Seq(Int) /\ ToSet(B) = (IF StartsBehind(s, a) THEN {Behind(a)} ELSE {})
       /\ ToSet(C) = (IF Caught(s, a) THEN {Behind(a)} ELSE {})
  BY <1>7, <1>9
<1> HIDE DEF J, E, B, C
<1> DEFINE JB == J \o B
           JBE == JB \o E
<1>11. JB \in Seq(Int) /\ ToSet(JB) = ToSet(J) \cup ToSet(B)
  BY <1>6, <1>10, Concatenated
<1> HIDE DEF JB
<1>12. JBE \in Seq(Int) /\ ToSet(JBE) = ToSet(JB) \cup ToSet(E)
  BY <1>6, <1>11, Concatenated
<1> HIDE DEF JBE
<1>13. JBE \o C \in Seq(Int) /\ ToSet(JBE \o C) = ToSet(JBE) \cup ToSet(C)
  BY <1>10, <1>12, Concatenated
<1>14. ToSet(NewBlocks(s, a)) = ToSet(J) \cup ToSet(E)
          \cup (IF StartsBehind(s, a) \/ Caught(s, a) THEN {Behind(a)} ELSE {})
  BY <1>8, <1>10, <1>11, <1>12, <1>13 DEF JB, JBE
<1>15. RefTargets(s, a) \in SUBSET Int
  <2>1. ToSet(J) \in SUBSET Int /\ ToSet(E) \in SUBSET Int
    BY <1>6, ElementsIn
  <2>2. Callees(a) \in SUBSET Int
    BY <1>2 DEF Callees
  <2> QED BY <1>2, <2>1, <2>2 DEF RefTargets, J, E
<1> QED BY <1>1, <1>2, <1>5, <1>8, <1>13, <1>14, <1>15 DEF J, E, JB, JBE

(* One instruction of the walk: what it changes.                            *)
LEMMA WalkedFields ==
    ASSUME img \in Images, NEW s \in WalkStates, Fixed(s), NEW a \in s.valid, a \in DOMAIN img.ins
    PROVE  LET t == Walked(s, a)
           IN  /\ t \in WalkStates
               /\ t.start = s.start /\ t.end = s.end /\ t.block = s.block /\ t.processed = s.processed
               /\ t.valid = s.valid /\ t.tries = s.tries
               /\ t.visited = s.visited \cup {a} /\ t.ins = s.ins \cup {a} /\ t.ranges = s.ranges
               /\ t.data = s.data \cup UNION {Span(range) : range \in Table(s, a)}
               /\ t.refs = s.refs \cup {<<a, b>> : b \in RefTargets(s, a)}
               /\ t.jumps = s.jumps \cup {<<a, b>> : b \in ToSet(JumpTargets(s, a))}
               /\ t.reported = IF Refused(s, a) THEN s.reported \cup {a} ELSE s.reported
               /\ t.at = IF FallsThrough(s, a) THEN Behind(a) ELSE None
               /\ t.starts = s.starts \cup ToSet(NewBlocks(s, a))
               /\ ToSet(s.queue) \subseteq ToSet(t.queue)
               /\ ToSet(t.queue) \subseteq ToSet(s.queue) \cup ToSet(NewBlocks(s, a))
               /\ ToSet(NewBlocks(s, a)) \subseteq s.processed \cup ToSet(t.queue)
<1> DEFINE u == EnqueueAll(s, NewBlocks(s, a))
           data == s.data \cup UNION {Span(range) : range \in Table(s, a)}
           refs == s.refs \cup {<<a, b>> : b \in RefTargets(s, a)}
           jumps == s.jumps \cup {<<a, b>> : b \in ToSet(JumpTargets(s, a))}
           ranges == s.ranges \cup Table(s, a)
           reported == IF Refused(s, a) THEN s.reported \cup {a} ELSE s.reported
           at == IF FallsThrough(s, a) THEN Behind(a) ELSE None
           visited == s.visited \cup {a}
           ins == s.ins \cup {a}
           t == Walked(s, a)
<1>1. s.start \in Int /\ s.valid \in SUBSET Int /\ a \in Int
  BY DEF WalkStates
<1>2. /\ NewBlocks(s, a) \in Seq(Int) /\ RefTargets(s, a) \in SUBSET Int
      /\ ToSet(JumpTargets(s, a)) \subseteq s.valid \cup {a} /\ Behind(a) \in Int
  BY <1>1, LeadsAreKnown
<1>3. /\ u \in WalkStates /\ u = [s EXCEPT !.starts = u.starts, !.queue = u.queue]
      /\ u.starts = s.starts \cup ToSet(NewBlocks(s, a))
      /\ ToSet(s.queue) \subseteq ToSet(u.queue)
      /\ ToSet(u.queue) \subseteq ToSet(s.queue) \cup ToSet(NewBlocks(s, a))
      /\ ToSet(NewBlocks(s, a)) \subseteq s.processed \cup ToSet(u.queue)
  BY <1>2, Enqueued
<1>4. Table(s, a) \subseteq s.ranges
  BY <1>1, LegalFacts
<1>5. ranges = s.ranges
  BY <1>4
<1> HIDE DEF u
<1>6. /\ u.start = s.start /\ u.end = s.end /\ u.block = s.block /\ u.processed = s.processed
      /\ u.valid = s.valid /\ u.tries = s.tries /\ u.visited = s.visited /\ u.ins = s.ins /\ u.data = s.data
      /\ u.refs = s.refs /\ u.jumps = s.jumps /\ u.ranges = s.ranges /\ u.reported = s.reported
  BY <1>3 DEF WalkStates
<1>7. t = [u EXCEPT !.visited = visited, !.ins = ins, !.ranges = ranges, !.data = data, !.refs = refs,
                    !.jumps = jumps, !.reported = reported, !.at = at]
  BY <1>6 DEF Walked, u
<1>8. /\ visited \in SUBSET Int /\ ins \in SUBSET Int /\ ranges \in SUBSET (Int \X Int)
      /\ reported \in SUBSET Int /\ at \in Int
  BY <1>1, <1>2, <1>5 DEF WalkStates, None
<1>9. data \in SUBSET Int
  BY DEF Span, WalkStates
<1>10. refs \in SUBSET (Int \X Int) /\ jumps \in SUBSET (Int \X Int)
  BY <1>1, <1>2 DEF WalkStates
<1> HIDE DEF data, refs, jumps, ranges, reported, at, visited, ins, t
<1>11. /\ t.start = u.start /\ t.end = u.end /\ t.block = u.block /\ t.processed = u.processed
       /\ t.valid = u.valid /\ t.tries = u.tries /\ t.visited = visited /\ t.ins = ins /\ t.data = data
       /\ t.refs = refs /\ t.jumps = jumps /\ t.ranges = ranges /\ t.reported = reported /\ t.at = at
       /\ t.starts = u.starts /\ t.queue = u.queue
  BY <1>3, <1>7 DEF WalkStates
<1>12. t \in WalkStates
  BY <1>3, <1>7, <1>8, <1>9, <1>10 DEF WalkStates
<1> QED BY <1>3, <1>5, <1>6, <1>11, <1>12 DEF data, refs, jumps, reported, at, visited, ins, t

(* The image stays, so what is said of it stays.                            *)
LEMMA LeadsStay ==
    ASSUME img' = img
    PROVE  \A s, a : /\ Table(s, a)' = Table(s, a) /\ FallsThrough(s, a)' = FallsThrough(s, a)
                     /\ JumpTargets(s, a)' = JumpTargets(s, a) /\ ExceptionTargets(s, a)' = ExceptionTargets(s, a)
                     /\ RefTargets(s, a)' = RefTargets(s, a) /\ NewBlocks(s, a)' = NewBlocks(s, a)
                     /\ Refused(s, a)' = Refused(s, a) /\ Behind(a)' = Behind(a)
<1> SUFFICES ASSUME NEW s, NEW a
             PROVE  /\ Table(s, a)' = Table(s, a) /\ FallsThrough(s, a)' = FallsThrough(s, a)
                    /\ JumpTargets(s, a)' = JumpTargets(s, a) /\ ExceptionTargets(s, a)' = ExceptionTargets(s, a)
                    /\ RefTargets(s, a)' = RefTargets(s, a) /\ NewBlocks(s, a)' = NewBlocks(s, a)
                    /\ Refused(s, a)' = Refused(s, a) /\ Behind(a)' = Behind(a)
  OBVIOUS
<1>1. Table(s, a)' = Table(s, a) /\ Behind(a)' = Behind(a)
  BY DEF Table, Behind
<1>2. FallsThrough(s, a)' = FallsThrough(s, a)
  BY <1>1 DEF FallsThrough
<1>3. BranchTargets(s, a)' = BranchTargets(s, a)
  BY DEF BranchTargets
<1>4. JumpTargets(s, a)' = JumpTargets(s, a)
  BY <1>1, <1>3 DEF JumpTargets
<1>5. ExceptionTargets(s, a)' = ExceptionTargets(s, a)
  BY DEF ExceptionTargets
<1>6. Callees(a)' = Callees(a)
  BY DEF Callees
<1>7. RefTargets(s, a)' = RefTargets(s, a)
  BY <1>1, <1>2, <1>4, <1>5, <1>6 DEF RefTargets
<1>8. StartsBehind(s, a)' = StartsBehind(s, a) /\ Caught(s, a)' = Caught(s, a)
  BY <1>1, <1>2, <1>5 DEF StartsBehind, Caught
<1>9. NewBlocks(s, a)' = NewBlocks(s, a)
  BY <1>1, <1>4, <1>5, <1>8 DEF NewBlocks
<1>10. Refused(s, a)' = Refused(s, a)
  BY <1>3 DEF Refused
<1> QED BY <1>1, <1>2, <1>4, <1>5, <1>7, <1>9, <1>10

(* A step that changes no image changes nothing of this.                    *)
LEMMA OrderStays ==
    ASSUME img' = img
    PROVE  \A s, noted : Orderly(s, noted)' <=> Orderly(s, noted)
<1> SUFFICES ASSUME NEW s, NEW noted PROVE Orderly(s, noted)' <=> Orderly(s, noted)
  OBVIOUS
<1>1. Fixed(s)' <=> Fixed(s)
  BY DEF Fixed
<1>2. Walks(s, noted)' <=> Walks(s, noted)
  BY DEF Walks
<1>3. References(s)' <=> References(s)
  BY LeadsStay DEF References
<1>4. \A a : Lead(s, a)' <=> Lead(s, a)
  BY DEF Lead
<1>5. \A a : Reached(s, a)' <=> Reached(s, a)
  BY LeadsStay DEF Reached
<1>6. Progress(s)' <=> Progress(s)
  BY <1>4, <1>5, LeadsStay DEF Progress
<1> QED BY <1>1, <1>2, <1>3, <1>6 DEF Orderly

(* The next block: it was the last of the queue.                            *)
LEMMA ChooseIsOrderly ==
    ASSUME img \in Images, NEW s, NEW noted, Orderly(s, noted), s.queue # <<>>, s.at = None
    PROVE  Orderly([s EXCEPT !.queue = Front(@), !.processed = @ \cup {Last(s.queue)},
                             !.block = Last(s.queue), !.at = Last(s.queue)], noted)
<1> DEFINE b == Last(s.queue)
           q == Front(s.queue)
           p == s.processed \cup {b}
           t == [s EXCEPT !.queue = q, !.processed = p, !.block = b, !.at = b]
<1>1. s \in WalkStates /\ s.queue \in Seq(Int) /\ s.processed \in SUBSET Int
  BY DEF Orderly, WalkStates
<1>2. q \in Seq(Int) /\ b \in Int /\ ToSet(s.queue) = ToSet(q) \cup {b}
  BY <1>1, LastTaken
<1>3. p \in SUBSET Int
  BY <1>1, <1>2
<1> HIDE DEF b, q, p
<1>4. t \in WalkStates
  BY <1>1, <1>2, <1>3 DEF WalkStates
<1>5. /\ t.start = s.start /\ t.end = s.end /\ t.valid = s.valid /\ t.ranges = s.ranges /\ t.tries = s.tries
      /\ t.ins = s.ins /\ t.visited = s.visited /\ t.data = s.data /\ t.refs = s.refs /\ t.jumps = s.jumps
      /\ t.reported = s.reported /\ t.starts = s.starts
      /\ t.queue = q /\ t.processed = p /\ t.block = b /\ t.at = b
  BY <1>1 DEF WalkStates
<1> HIDE DEF t
<1>6. Alike(s, t)
  BY <1>5 DEF Alike
<1>7. Fixed(t) /\ Walks(t, noted)
  BY <1>5 DEF Orderly, Fixed, Walks, HeaderOf
<1>8. References(t)
  BY <1>5, <1>6, AlikeLeads DEF Orderly, References
<1>9. \A a : /\ Lead(t, a) <=> Lead(s, a)
             /\ Passed(t, a) <=> Passed(s, a)
  BY <1>5 DEF Lead, Noticed, Passed
<1>10. \A a : Reached(t, a) <=> Reached(s, a)
  BY <1>5, <1>6, AlikeLeads DEF Reached
<1>11. Progress(s)
  BY DEF Orderly
<1>12. t.starts \subseteq t.processed \cup ToSet(t.queue) /\ ToSet(t.queue) \subseteq t.starts /\ b \in s.starts
  BY <1>2, <1>5, <1>11 DEF Progress, p
<1>13. \A c \in t.processed : Passed(t, c) \/ (c = t.block /\ t.at = c)
  <2>1. \A c \in s.processed : Passed(s, c) \/ c = None
    BY <1>11 DEF Progress
  <2>2. \A c \in s.processed : Passed(s, c)
    <3>1. s.start \in Nat
      BY <1>1, FixedFacts DEF Orderly, WalkStates
    <3>2. Passed(s, None)
      BY <3>1 DEF Passed, None
    <3> QED BY <2>1, <3>2
  <2> QED BY <2>2, <1>5, <1>9 DEF p
<1>14. \A a \in t.ins : FallsThrough(t, a) => Behind(a) = t.at \/ Passed(t, Behind(a)) \/ Behind(a) \notin t.valid
  <2> SUFFICES ASSUME NEW a \in s.ins, FallsThrough(s, a) PROVE Passed(s, Behind(a)) \/ Behind(a) \notin s.valid
    BY <1>5, <1>6, <1>9, AlikeLeads
  <2>1. Behind(a) = None \/ Passed(s, Behind(a)) \/ Behind(a) \notin s.valid
    BY <1>11 DEF Progress
  <2>2. s.start \in Nat
    BY <1>1, FixedFacts DEF Orderly, WalkStates
  <2>3. Passed(s, None)
    BY <2>2 DEF Passed, None
  <2> QED BY <2>1, <2>3
<1>15. /\ \A c \in ToSet(t.queue) : Lead(t, c)
       /\ \A a \in t.ins : Reached(t, a)
       /\ Lead(t, t.at) /\ Reached(t, t.at)
  <2>1. /\ \A c \in ToSet(q) \cup {b} : Lead(s, c)
        /\ \A a \in s.ins : Reached(s, a)
    BY <1>2, <1>11 DEF Progress
  <2>2. Reached(s, b)
    BY <1>12 DEF Reached
  <2> QED BY <2>1, <2>2, <1>5, <1>9, <1>10
<1>16. t.start \in t.starts /\ \A a \in t.ins : ToSet(NewBlocks(t, a)) \subseteq t.starts
  BY <1>5, <1>6, <1>11, AlikeLeads DEF Progress
<1>17. Progress(t)
  BY <1>12, <1>13, <1>14, <1>15, <1>16 DEF Progress
<1> QED BY <1>4, <1>7, <1>8, <1>17 DEF Orderly, t, b, q, p

(* The end of a block: the address it stopped at is behind the walk, unless *)
(* nothing legal is there.                                                  *)
Stopped(s) ==
    \/ s.at \notin s.start .. s.end - 1
    \/ InRanges(s.at, s.ranges)
    \/ s.at \in s.visited
    \/ s.at # s.block /\ s.at \notin s.valid

(* A block that ends leaves the order of the walk as it was, a decoding     *)
(* error noted or not.                                                      *)
LEMMA EndIsOrderly ==
    ASSUME img \in Images, NEW s, NEW noted, NEW more, Orderly(s, noted), s.at # None,
           \/ Stopped(s) /\ more = {}
           \/ ~Stopped(s) /\ ~Decodes(img, s.at, s.end) /\ more = {s.at}
    PROVE  Orderly([s EXCEPT !.visited = @ \cup more, !.at = None], noted \cup more)
<1> DEFINE visited == s.visited \cup more
           t == [s EXCEPT !.visited = visited, !.at = None]
<1>1. s \in WalkStates /\ s.visited \in SUBSET Int /\ s.at \in Int /\ s.start \in Int
  BY DEF Orderly, WalkStates
<1>2. more \in SUBSET Int /\ visited \in SUBSET Int /\ more \subseteq s.start .. s.end - 1
  BY <1>1 DEF Stopped
<1> HIDE DEF visited
<1>3. t \in WalkStates
  <2>1. -1 \in Int
    OBVIOUS
  <2> QED BY <1>1, <1>2, <2>1 DEF WalkStates, None
<1>4. /\ t.start = s.start /\ t.end = s.end /\ t.valid = s.valid /\ t.ranges = s.ranges /\ t.tries = s.tries
      /\ t.ins = s.ins /\ t.data = s.data /\ t.refs = s.refs /\ t.jumps = s.jumps
      /\ t.reported = s.reported /\ t.starts = s.starts /\ t.queue = s.queue /\ t.processed = s.processed
      /\ t.block = s.block /\ t.visited = visited /\ t.at = None
  BY <1>1 DEF WalkStates
<1> HIDE DEF t
<1>5. Alike(s, t)
  BY <1>4 DEF Alike
<1>6. Fixed(t)
  BY <1>4 DEF Orderly, Fixed, HeaderOf
<1>7. Walks(t, noted \cup more)
  <2>1. Walks(s, noted)
    BY DEF Orderly
  <2>2. \A a \in more : a = s.at /\ ~Decodes(img, a, s.end)
    OBVIOUS
  <2>3. \A a \in visited \ s.ins : a \in noted \cup more /\ ~Decodes(img, a, s.end)
    BY <2>1, <2>2 DEF Walks, visited
  <2>4. s.ins \subseteq visited /\ visited \subseteq s.start .. s.end - 1
    BY <2>1, <1>2 DEF Walks, visited
  <2> QED BY <2>1, <2>3, <2>4, <1>4 DEF Walks
<1>8. References(t)
  BY <1>4, <1>5, AlikeLeads DEF Orderly, References
<1>9. \A a : /\ Lead(t, a) <=> Lead(s, a)
             /\ Passed(s, a) => Passed(t, a)
  BY <1>4 DEF Lead, Noticed, Passed, visited
<1>10. \A a : Reached(t, a) <=> Reached(s, a)
  BY <1>4, <1>5, AlikeLeads DEF Reached
<1>11. Progress(s)
  BY DEF Orderly
<1>12. Passed(t, s.at) \/ (s.at # s.block /\ s.at \notin s.valid)
  BY <1>4 DEF Stopped, Passed, visited
<1>13. \A b \in t.processed : Passed(t, b) \/ (b = t.block /\ t.at = b)
  BY <1>4, <1>9, <1>11, <1>12 DEF Progress
<1>14. \A a \in t.ins : FallsThrough(t, a) => Behind(a) = t.at \/ Passed(t, Behind(a)) \/ Behind(a) \notin t.valid
  <2> SUFFICES ASSUME NEW a \in s.ins, FallsThrough(s, a) PROVE Passed(t, Behind(a)) \/ Behind(a) \notin s.valid
    BY <1>4, <1>5, AlikeLeads
  <2>1. Behind(a) = s.at \/ Passed(s, Behind(a)) \/ Behind(a) \notin s.valid
    BY <1>11 DEF Progress
  <2> QED BY <2>1, <1>9, <1>12
<1>15. Progress(t)
  <2>1. /\ t.start \in t.starts
        /\ t.starts \subseteq t.processed \cup ToSet(t.queue) /\ ToSet(t.queue) \subseteq t.starts
        /\ \A a \in t.ins : ToSet(NewBlocks(t, a)) \subseteq t.starts
        /\ \A b \in ToSet(t.queue) : Lead(t, b)
        /\ \A a \in t.ins : Reached(t, a)
    BY <1>4, <1>5, <1>9, <1>10, <1>11, AlikeLeads DEF Progress
  <2> QED BY <2>1, <1>4, <1>13, <1>14 DEF Progress
<1> QED BY <1>3, <1>6, <1>7, <1>8, <1>15 DEF Orderly, t, visited

(* An instruction: it is a legal start, its table is one the sweep knows,   *)
(* and all it leads to is on the queue, walked or next.                     *)
LEMMA InstructionIsOrderly ==
    ASSUME img \in Images, NEW s, NEW noted, Orderly(s, noted), s.at # None,
           ~Stopped(s), Decodes(img, s.at, s.end)
    PROVE  Orderly(Walked(s, s.at), noted) /\ s.at \in s.valid
<1> DEFINE a == s.at
           t == Walked(s, a)
<1>1. s \in WalkStates /\ Fixed(s) /\ s.at \in Int /\ s.start \in Int /\ s.valid \in SUBSET Int
      /\ Walks(s, noted) /\ References(s) /\ Progress(s)
  BY DEF Orderly, WalkStates
<1>2. a \in s.start .. s.end - 1 /\ ~InRanges(a, s.ranges) /\ a \notin s.visited /\ a \in DOMAIN img.ins
  BY DEF Stopped, Decodes
<1>3. a \in s.valid
  BY <1>1, <1>2 DEF Progress, Lead, Noticed
<1> HIDE DEF a
<1>4. /\ t \in WalkStates
      /\ t.start = s.start /\ t.end = s.end /\ t.block = s.block /\ t.processed = s.processed
      /\ t.valid = s.valid /\ t.tries = s.tries
      /\ t.visited = s.visited \cup {a} /\ t.ins = s.ins \cup {a} /\ t.ranges = s.ranges
      /\ t.data = s.data \cup UNION {Span(range) : range \in Table(s, a)}
      /\ t.refs = s.refs \cup {<<a, b>> : b \in RefTargets(s, a)}
      /\ t.jumps = s.jumps \cup {<<a, b>> : b \in ToSet(JumpTargets(s, a))}
      /\ t.reported = IF Refused(s, a) THEN s.reported \cup {a} ELSE s.reported
      /\ t.at = IF FallsThrough(s, a) THEN Behind(a) ELSE None
      /\ t.starts = s.starts \cup ToSet(NewBlocks(s, a))
      /\ ToSet(s.queue) \subseteq ToSet(t.queue)
      /\ ToSet(t.queue) \subseteq ToSet(s.queue) \cup ToSet(NewBlocks(s, a))
      /\ ToSet(NewBlocks(s, a)) \subseteq s.processed \cup ToSet(t.queue)
  BY <1>1, <1>2, <1>3, WalkedFields
<1>5. /\ ToSet(NewBlocks(s, a)) =
            ToSet(JumpTargets(s, a)) \cup ToSet(ExceptionTargets(s, a))
                \cup (IF StartsBehind(s, a) \/ Caught(s, a) THEN {Behind(a)} ELSE {})
      /\ ToSet(JumpTargets(s, a)) \subseteq s.valid \cup {a}
      /\ ToSet(ExceptionTargets(s, a)) \subseteq s.valid
      /\ Behind(a) \in Int
  BY <1>1, <1>2, <1>3, LeadsAreKnown
<1>6. Table(s, a) \subseteq s.ranges /\ (Behind(a) < s.end => Noticed(img, s, Behind(a), s.end))
  <2>1. Behind(a) = a + SizeAt(img, a)
    BY DEF Behind, SizeAt
  <2> QED BY <1>1, <1>3, <2>1, LegalFacts
<1> HIDE DEF t
<1>7. Alike(s, t)
  BY <1>4 DEF Alike
<1>8. Fixed(t)
  BY <1>1, <1>4 DEF Fixed, HeaderOf
<1>9. Walks(t, noted)
  <2>1. t.ins \subseteq t.valid /\ t.ins \subseteq t.visited /\ t.visited \subseteq t.start .. t.end - 1
    BY <1>1, <1>2, <1>3, <1>4 DEF Walks
  <2>2. \A b \in t.ins : ~InRanges(b, t.ranges)
    BY <1>1, <1>2, <1>4 DEF Walks
  <2>3. \A b \in t.visited \ t.ins : b \in noted /\ ~Decodes(img, b, t.end)
    BY <1>1, <1>4 DEF Walks
  <2>4. \A u \in t.data : InRanges(u, t.ranges)
    <3>1. ASSUME NEW u \in UNION {Span(range) : range \in Table(s, a)} PROVE InRanges(u, s.ranges)
      BY <1>6 DEF InRanges
    <3> QED BY <1>1, <1>4, <3>1 DEF Walks
  <2> QED BY <2>1, <2>2, <2>3, <2>4 DEF Walks
<1>10. References(t)
  <2>1. \A b, c : <<b, c>> \in t.refs <=> b \in t.ins /\ c \in RefTargets(t, b)
    <3> SUFFICES ASSUME NEW b, NEW c PROVE <<b, c>> \in t.refs <=> b \in t.ins /\ c \in RefTargets(s, b)
      BY <1>7, AlikeLeads
    <3>1. <<b, c>> \in s.refs <=> b \in s.ins /\ c \in RefTargets(s, b)
      BY <1>1 DEF References
    <3>2. <<b, c>> \in {<<a, d>> : d \in RefTargets(s, a)} <=> b = a /\ c \in RefTargets(s, a)
      OBVIOUS
    <3> QED BY <3>1, <3>2, <1>4
  <2>2. \A b, c : <<b, c>> \in t.jumps <=> b \in t.ins /\ c \in ToSet(JumpTargets(t, b))
    <3> SUFFICES ASSUME NEW b, NEW c PROVE <<b, c>> \in t.jumps <=> b \in t.ins /\ c \in ToSet(JumpTargets(s, b))
      BY <1>7, AlikeLeads
    <3>1. <<b, c>> \in s.jumps <=> b \in s.ins /\ c \in ToSet(JumpTargets(s, b))
      BY <1>1 DEF References
    <3>2. <<b, c>> \in {<<a, d>> : d \in ToSet(JumpTargets(s, a))} <=> b = a /\ c \in ToSet(JumpTargets(s, a))
      OBVIOUS
    <3> QED BY <3>1, <3>2, <1>4
  <2>3. \A b \in t.ins : Refused(t, b) => b \in t.reported
    <3> SUFFICES ASSUME NEW b \in t.ins, Refused(s, b) PROVE b \in t.reported
      BY <1>7, AlikeLeads
    <3> QED BY <1>1, <1>4 DEF References
  <2> QED BY <2>1, <2>2, <2>3 DEF References
<1>11. \A b : /\ Lead(t, b) <=> Lead(s, b)
              /\ Passed(s, b) => Passed(t, b)
  BY <1>4 DEF Lead, Noticed, Passed
<1>12. Passed(t, a)
  BY <1>4 DEF Passed
<1>13. \A b \in s.ins \cup {a} : FallsThrough(t, b) <=> FallsThrough(s, b)
  BY <1>7, AlikeLeads
<1>14. Lead(s, Behind(a))
  <2>1. s.end \in Int /\ s.start \in Int
    BY <1>1 DEF WalkStates
  <2> DEFINE b == Behind(a)
  <2>2. b \in s.start .. s.end - 1 => b < s.end
    BY <1>5, <2>1
  <2> HIDE DEF b
  <2> QED BY <1>6, <2>2 DEF Lead, b
<1>15. \A b \in ToSet(t.queue) : Lead(t, b)
  <2>1. \A b \in s.valid \cup {a} : Lead(s, b)
    BY <1>3 DEF Lead, Noticed
  <2>2. \A b \in ToSet(NewBlocks(s, a)) : Lead(s, b)
    BY <2>1, <1>5, <1>14
  <2>3. \A b \in ToSet(s.queue) : Lead(s, b)
    BY <1>1 DEF Progress
  <2> QED BY <2>2, <2>3, <1>4, <1>11
<1>16. t.at # None => Lead(t, t.at) /\ Reached(t, t.at)
  <2>1. t.at # None => FallsThrough(s, a) /\ t.at = Behind(a)
    BY <1>4
  <2>2. FallsThrough(s, a) => Reached(t, Behind(a))
    BY <1>4, <1>13 DEF Reached
  <2> QED BY <2>1, <2>2, <1>11, <1>14
<1>17. \A b \in t.ins : Reached(t, b)
  <2>1. \A b : Reached(s, b) => Reached(t, b)
    BY <1>4, <1>13 DEF Reached
  <2>2. Reached(s, a)
    BY <1>1 DEF Progress, a
  <2> QED BY <2>1, <2>2, <1>1, <1>4 DEF Progress
<1>18. \A b \in t.processed : Passed(t, b) \/ (b = t.block /\ t.at = b)
  <2>1. \A b \in s.processed : Passed(s, b) \/ b = a
    BY <1>1 DEF Progress, a
  <2> QED BY <2>1, <1>4, <1>11, <1>12
<1>19. \A b \in t.ins : FallsThrough(t, b) => Behind(b) = t.at \/ Passed(t, Behind(b)) \/ Behind(b) \notin t.valid
  <2> SUFFICES ASSUME NEW b \in s.ins \cup {a}, FallsThrough(s, b)
               PROVE  Behind(b) = t.at \/ Passed(t, Behind(b)) \/ Behind(b) \notin s.valid
    BY <1>4, <1>13
  <2>1. CASE b = a
    BY <2>1, <1>4
  <2>2. CASE b \in s.ins
    <3>1. Behind(b) = a \/ Passed(s, Behind(b)) \/ Behind(b) \notin s.valid
      BY <2>2, <1>1 DEF Progress, a
    <3> QED BY <3>1, <1>11, <1>12
  <2> QED BY <2>1, <2>2
<1>20. /\ t.start \in t.starts
       /\ t.starts \subseteq t.processed \cup ToSet(t.queue) /\ ToSet(t.queue) \subseteq t.starts
  BY <1>1, <1>4 DEF Progress
<1>21. \A b \in t.ins : ToSet(NewBlocks(t, b)) \subseteq t.starts
  <2>1. \A b \in t.ins : NewBlocks(t, b) = NewBlocks(s, b)
    BY <1>7, AlikeLeads
  <2>2. \A b \in s.ins : ToSet(NewBlocks(s, b)) \subseteq s.starts
    BY <1>1 DEF Progress
  <2> QED BY <2>1, <2>2, <1>4
<1>22. Progress(t)
  BY <1>15, <1>16, <1>17, <1>18, <1>19, <1>20, <1>21 DEF Progress
<1> QED BY <1>3, <1>4, <1>8, <1>9, <1>10, <1>22 DEF Orderly, t, a

-----------------------------------------------------------------------------
(* The scan for orphans: what it finds is apart from the code that is       *)
(* claimed when it begins, and one from the other.                          *)
ScanStates == [at : Int, attempts : Int, found : Seq(Int), claims : SUBSET (Int \X Int)]

CodeOf(c) == Claim(c - HeaderUnits)
Apart(ranges, others) == \A r \in ranges, o \in others : Span(r) \cap Span(o) = {}

(* A code item that can be walked and holds a unit at least.                *)
IsItem(c) == c \in Int /\ c - HeaderUnits \in DOMAIN img.header /\ img.header[c - HeaderUnits].insns > 0

(* Code items that share no unit.                                           *)
EachItsOwn(items) ==
    /\ \A i \in DOMAIN items : IsItem(items[i])
    /\ \A i, j \in DOMAIN items : i # j => Apart({CodeOf(items[i])}, {CodeOf(items[j])})

Scanned(s) ==
    /\ s \in ScanStates /\ KnownClaims \subseteq s.claims
    /\ EachItsOwn(s.found)
    /\ \A i \in DOMAIN s.found : /\ s.found[i] \notin known /\ CodeOf(s.found[i]) \in s.claims
                                 /\ Apart({CodeOf(s.found[i])}, KnownClaims)

(* Types of what the scan for orphans moves over.                           *)
LEMMA ClaimType ==
    ASSUME img \in Images, NEW h \in DOMAIN img.header
    PROVE  Claim(h) \in Int \X Int /\ HeaderEnd(h) = CodeEnd(img, h)
BY HeaderFacts DEF Claim, HeaderEnd, CodeEnd

LEMMA KnownClaimsType ==
    ASSUME img \in Images, known \subseteq Int
    PROVE  KnownClaims \in SUBSET (Int \X Int)
<1>1. HeaderUnits \in Int
  BY DalvikAssumption
<1> SUFFICES ASSUME NEW c \in known
             PROVE  (IF c - HeaderUnits \in DOMAIN img.header THEN Claim(c - HeaderUnits)
                     ELSE <<c - HeaderUnits, c + 1>>) \in Int \X Int
  BY DEF KnownClaims
<1>2. CASE c - HeaderUnits \in DOMAIN img.header
  BY <1>2, ClaimType
<1>3. CASE c - HeaderUnits \notin DOMAIN img.header
  BY <1>1, <1>3
<1> QED BY <1>2, <1>3

LEMMA AlignedType ==
    ASSUME NEW a \in Int
    PROVE  Aligned(a) \in Int
<1>1. AlignUnits \in Nat \ {0}
  BY DalvikAssumption
<1>2. a % AlignUnits \in Int
  BY <1>1
<1>3. (AlignUnits - (a % AlignUnits)) % AlignUnits \in Int
  BY <1>1, <1>2
<1> QED BY <1>3 DEF Aligned

(* What does not overlap shares no unit.                                    *)
LEMMA NotOverlapping ==
    ASSUME NEW range \in Int \X Int, NEW claims \in SUBSET (Int \X Int), ~Overlaps(range, claims)
    PROVE  Apart({range}, claims)
<1> SUFFICES ASSUME NEW claim \in claims, NEW u \in Span(range) \cap Span(claim)
             PROVE  FALSE
  BY DEF Apart
<1>1. range[1] \in Int /\ range[2] \in Int /\ claim[1] \in Int /\ claim[2] \in Int
  OBVIOUS
<1>2. u \in Int /\ range[1] <= u /\ u < range[2] /\ claim[1] <= u /\ u < claim[2]
  BY <1>1 DEF Span
<1>3. range[1] < claim[2] /\ claim[1] < range[2]
  BY <1>1, <1>2
<1> QED BY <1>3 DEF Overlaps

(* A round of the scan keeps the candidates apart from each other and from  *)
(* what is claimed.                                                         *)
LEMMA ScanKeeps ==
    ASSUME img \in Images, known \subseteq Int, NEW s, Scanned(s)
    PROVE  Scanned(ScanStep(s))
<1> DEFINE inside == {claim \in s.claims : s.at \in Span(claim)}
           t == ScanStep(s)
           next == Aligned((CHOOSE claim \in inside : TRUE)[2])
           full == \/ s.at + HeaderUnits > img.region[2]
                   \/ Len(s.found) >= MaxCandidates \/ s.attempts >= MaxAttempts
<1>1. s \in ScanStates /\ s.at \in Int /\ s.attempts \in Int /\ s.found \in Seq(Int) /\ s.claims \in SUBSET (Int \X Int)
  BY DEF Scanned, ScanStates
<1>2. HeaderUnits \in Nat /\ AlignUnits \in Nat
  BY DalvikAssumption
<1>3. ASSUME NEW u \in ScanStates, u.found = s.found, u.claims = s.claims
      PROVE  Scanned(u)
  BY <1>3 DEF Scanned
<1>4. CASE full
  BY <1>4 DEF ScanStep
<1>5. CASE ~full /\ inside # {}
  <2>1. t = [s EXCEPT !.at = next]
    BY <1>5 DEF ScanStep
  <2>2. next \in Int
    <3> DEFINE claim == CHOOSE c \in inside : TRUE
    <3>1. claim \in inside
      BY <1>5
    <3> HIDE DEF claim
    <3>2. claim[2] \in Int
      BY <3>1, <1>1
    <3> QED BY <3>2, AlignedType DEF claim
  <2> HIDE DEF next
  <2>3. t \in ScanStates /\ t.found = s.found /\ t.claims = s.claims
    BY <1>1, <2>1, <2>2 DEF ScanStates
  <2> QED BY <1>3, <2>3
<1>6. CASE ~full /\ inside = {} /\ ~Plausible(s.at)
  <2> DEFINE at == s.at + AlignUnits
  <2>1. t = [s EXCEPT !.at = at] /\ at \in Int
    BY <1>1, <1>2, <1>6 DEF ScanStep
  <2> HIDE DEF at
  <2>2. t \in ScanStates /\ t.found = s.found /\ t.claims = s.claims
    BY <1>1, <1>2, <2>1 DEF ScanStates
  <2> QED BY <1>3, <2>2
<1>7. CASE ~full /\ inside = {} /\ Plausible(s.at) /\ ~Acceptable(s.at, s.claims)
  <2> DEFINE at == s.at + AlignUnits
             attempts == s.attempts + 1
  <2>1. t = [s EXCEPT !.at = at, !.attempts = attempts] /\ at \in Int /\ attempts \in Int
    BY <1>1, <1>2, <1>7 DEF ScanStep
  <2> HIDE DEF at, attempts
  <2>2. t \in ScanStates /\ t.found = s.found /\ t.claims = s.claims
    BY <1>1, <1>2, <2>1 DEF ScanStates
  <2> QED BY <1>3, <2>2
<1>8. CASE ~full /\ inside = {} /\ Plausible(s.at) /\ Acceptable(s.at, s.claims)
  <2> DEFINE c == s.at + HeaderUnits
             n == Len(s.found)
             found == Append(s.found, c)
             claims == s.claims \cup {Claim(s.at)}
  <2>1. t = [at |-> s.at + AlignUnits, attempts |-> s.attempts + 1, found |-> found, claims |-> claims]
    BY <1>8 DEF ScanStep
  <2>2. c \in Int /\ c - HeaderUnits = s.at /\ s.at \in DOMAIN img.header /\ img.header[s.at].insns > 0
    BY <1>1, <1>2, <1>8 DEF Plausible
  <2>3. c \notin known /\ ~Overlaps(Claim(s.at), s.claims)
    BY <1>8 DEF Acceptable
  <2>4. Claim(s.at) \in Int \X Int /\ CodeOf(c) = Claim(s.at)
    BY <2>2, ClaimType DEF CodeOf
  <2>5. Apart({CodeOf(c)}, s.claims)
    BY <1>1, <2>3, <2>4, NotOverlapping
  <2>6. IsItem(c)
    BY <2>2 DEF IsItem
  <2> HIDE DEF c
  <2>7. found \in Seq(Int) /\ DOMAIN found = 1 .. n + 1 /\ DOMAIN s.found = 1 .. n /\ n \in Nat
        /\ (\A i \in 1 .. n : found[i] = s.found[i]) /\ found[n + 1] = c
    BY <1>1, <2>2, AppendProperties
  <2>8. claims \in SUBSET (Int \X Int)
    BY <1>1, <2>4
  <2>9. t \in ScanStates /\ t.found = found /\ t.claims = claims
    <3> HIDE DEF found, claims, t
    <3> QED BY <1>1, <1>2, <2>1, <2>7, <2>8 DEF ScanStates
  <2>10. \A i \in 1 .. n + 1 : i \in 1 .. n \/ i = n + 1
    BY <2>7
  <2> HIDE DEF found, t, n
  <2>11. \A i \in 1 .. n : /\ IsItem(s.found[i]) /\ s.found[i] \notin known /\ CodeOf(s.found[i]) \in s.claims
                           /\ Apart({CodeOf(s.found[i])}, KnownClaims)
    BY <2>7 DEF Scanned, EachItsOwn
  <2>12. KnownClaims \subseteq s.claims
    BY DEF Scanned
  <2>13. Apart({CodeOf(c)}, KnownClaims)
    BY <2>5, <2>12 DEF Apart
  <2>14. \A i \in 1 .. n + 1 : /\ IsItem(found[i]) /\ found[i] \notin known /\ CodeOf(found[i]) \in claims
                               /\ Apart({CodeOf(found[i])}, KnownClaims)
    BY <2>3, <2>4, <2>6, <2>7, <2>10, <2>11, <2>13
  <2>15. ASSUME NEW i \in 1 .. n + 1, NEW j \in 1 .. n + 1, i # j
         PROVE  Apart({CodeOf(found[i])}, {CodeOf(found[j])})
    <3>1. CASE i \in 1 .. n /\ j \in 1 .. n
      BY <2>7, <2>15, <3>1 DEF Scanned, EachItsOwn
    <3>2. CASE i = n + 1 /\ j \in 1 .. n
      BY <2>5, <2>7, <2>11, <3>2 DEF Apart
    <3>3. CASE i \in 1 .. n /\ j = n + 1
      BY <2>5, <2>7, <2>11, <3>3 DEF Apart
    <3> QED BY <2>10, <2>15, <3>1, <3>2, <3>3
  <2>16. EachItsOwn(found)
    BY <2>7, <2>14, <2>15 DEF EachItsOwn
  <2> QED BY <2>7, <2>9, <2>12, <2>14, <2>16 DEF Scanned, t
<1> QED BY <1>4, <1>5, <1>6, <1>7, <1>8

(* The rounds of the scan are those of the loop in                          *)
(* _discoverOrphanCodeItems().                                              *)
LEMMA ScanLoop ==
    ASSUME img \in Images, known \subseteq Int
    PROVE  /\ Scans[0] = ScanStart /\ Scanned(ScanStart)
           /\ \A n \in 1 .. img.size : Scans[n] = ScanStep(Scans[n - 1])
<1> DEFINE N == img.size
           All == {s \in ScanStates : Scanned(s)}
           z == ScanStart
           step == [ns \in (1 .. N) \X All |-> ScanStep(ns[2])]
           Loop(f) == f = [n \in 0 .. N |-> IF n = 0 THEN ScanStart ELSE Then(ScanStep, f[n - 1])]
<1>1. N \in Nat /\ img.region \in Nat \X Nat
  BY DalvikAssumption, Zenon DEF WellFormed
<1>2. Scanned(z)
  <2>1. Aligned(img.region[1]) \in Int
    BY <1>1, AlignedType
  <2>2. <<>> \in Seq(Int) /\ DOMAIN <<>> = {}
    OBVIOUS
  <2>3. z \in ScanStates /\ z.claims = KnownClaims /\ z.found = <<>>
    BY <2>1, <2>2, KnownClaimsType DEF ScanStart, ScanStates
  <2> HIDE DEF z
  <2> QED BY <2>2, <2>3 DEF Scanned, EachItsOwn
<1>3. z \in All
  BY <1>2 DEF Scanned
<1>4. step \in [(1 .. N) \X All -> All]
  <2>1. \A s \in All : ScanStep(s) \in All
    BY ScanKeeps DEF Scanned
  <2> HIDE DEF All
  <2> QED BY <2>1
<1>5. Loops(N, All, z, step) # {}
  <2> HIDE DEF step, z, All, N
  <2> QED BY <1>1, <1>3, <1>4, LoopExists
<1>6. PICK f \in [0 .. N -> All] : f[0] = z /\ \A n \in 1 .. N : f[n] = step[<<n, f[n - 1]>>]
  <2> HIDE DEF step, z, All, N
  <2> QED BY <1>5 DEF Loops
<1>7. ASSUME NEW n \in 1 .. N PROVE f[n] = ScanStep(f[n - 1])
  <2>1. <<n, f[n - 1]>> \in (1 .. N) \X All
    <3>1. n - 1 \in 0 .. N
      BY <1>1
    <3> HIDE DEF step, All
    <3> QED BY <3>1
  <2>2. f[n] = step[<<n, f[n - 1]>>]
    <3> HIDE DEF step
    <3> QED BY <1>6
  <2> HIDE DEF All
  <2> QED BY <2>1, <2>2
<1>8. \A s : Then(ScanStep, s) = ScanStep(s)
  BY DEF Then
<1>9. Loop(f)
  <2>1. ASSUME NEW n \in 0 .. N
        PROVE  f[n] = IF n = 0 THEN ScanStart ELSE Then(ScanStep, f[n - 1])
    <3>1. CASE n = 0
      BY <1>6, <3>1
    <3>2. CASE n # 0
      <4>1. n \in 1 .. N
        BY <1>1, <3>2
      <4> QED BY <3>2, <4>1, <1>7, <1>8
    <3> QED BY <3>1, <3>2
  <2>2. f = [n \in 0 .. N |-> f[n]]
    BY <1>6
  <2> HIDE DEF N
  <2> QED BY <2>1, <2>2
<1> DEFINE g == CHOOSE x : Loop(x)
<1>10. Loop(g)
  <2> HIDE DEF Loop
  <2> QED BY <1>9
<1>11. Scans = g
  BY DEF Scans
<1>12. g[0] = ScanStart
  <2>1. 0 \in 0 .. N
    BY <1>1
  <2> HIDE DEF g
  <2> QED BY <2>1, <1>10, Zenon
<1>13. ASSUME NEW n \in 1 .. N PROVE g[n] = ScanStep(g[n - 1])
  <2>1. g[n] = Then(ScanStep, g[n - 1])
    <3>1. n \in 0 .. N /\ n # 0
      BY <1>1
    <3> HIDE DEF g
    <3> QED BY <3>1, <1>10, Zenon
  <2> HIDE DEF g
  <2> QED BY <2>1, <1>8
<1> HIDE DEF g
<1> QED BY <1>2, <1>11, <1>12, <1>13

(* So the orphans it returns are code items apart from each other, from all *)
(* methods known and new.                                                   *)
LEMMA OrphansAreApart ==
    ASSUME img \in Images, known \subseteq Int
    PROVE  LET found == DiscoverOrphans
           IN  /\ found \in Seq(Int) /\ EachItsOwn(found)
               /\ \A i \in DOMAIN found : found[i] \notin known /\ Apart({CodeOf(found[i])}, KnownClaims)
<1> DEFINE N == img.size
           T == {n \in 0 .. N : Scanned(Scans[n])}
<1>1. N \in Nat
  BY DalvikAssumption, Zenon DEF WellFormed
<1>2. 0 \in T
  BY <1>1, ScanLoop
<1>3. ASSUME NEW n \in 1 .. N, n - 1 \in T PROVE n \in T
  <2>1. Scanned(ScanStep(Scans[n - 1]))
    BY <1>3, ScanKeeps
  <2> QED BY <2>1, ScanLoop
<1>4. N \in T
  <2> HIDE DEF T, N
  <2>1. 0 .. N \subseteq T
    BY <1>1, <1>2, <1>3, InductionUpTo
  <2> QED BY <1>1, <2>1
<1>5. Scanned(Scans[N]) /\ DiscoverOrphans = Scans[N].found
  BY <1>4 DEF DiscoverOrphans
<1> QED BY <1>5 DEF Scanned, ScanStates

-----------------------------------------------------------------------------
(* The run.  While the method table is taken, what is walked, booked or a   *)
(* function belongs to a method that is known; after the scan every orphan  *)
(* left is apart from the code there is and from the other ones.            *)
InTable == phase = "methods" \/ (phase = "walk" /\ ~orphan)
InOrphans == phase = "orphans" \/ (phase = "walk" /\ orphan)

Types ==
    /\ img \in Images
    /\ phase \in {"methods", "walk", "orphans", "done"}
    /\ taken \in 0 .. Len(img.methods)
    /\ orphan \in BOOLEAN /\ timeout \in BOOLEAN
    /\ known \subseteq Int /\ orphans \in Seq(Int) /\ failed \in Seq(Int)
    /\ phase # "walk" => st = NoState
    /\ DOMAIN functions \subseteq known \cup {h + HeaderUnits : h \in DOMAIN img.header}

Stages ==
    /\ InTable => orphans = <<>>
    /\ InOrphans => taken = Len(img.methods)
    /\ phase = "done" => timeout \/ (taken = Len(img.methods) /\ orphans = <<>>)

TableOwns ==
    InTable => /\ DOMAIN functions \subseteq known
               /\ \A u \in DOMAIN ins2fn : InRanges(u, KnownClaims)
               /\ phase = "walk" => st.start \in known /\ CodeOf(st.start) \in KnownClaims

Free(c) == c \notin DOMAIN functions /\ Span(CodeOf(c)) \cap DOMAIN ins2fn = {}

OrphansOwn ==
    InOrphans => /\ EachItsOwn(orphans)
                 /\ \A i \in DOMAIN orphans : Free(orphans[i])
                 /\ phase = "walk" =>
                       /\ Span(CodeOf(st.start)) \cap DOMAIN ins2fn = {}
                       /\ \A i \in DOMAIN orphans : Apart({CodeOf(orphans[i])}, {CodeOf(st.start)})

Accounted(c) ==
    \/ c \in DOMAIN functions \/ c \in ToSet(failed) \/ c \in errors
    \/ img.header[c - HeaderUnits].insns = 0
    \/ InRanges(c, Legal[img][c - HeaderUnits].ranges)

Accounts == \A c \in known : Accounted(c) \/ (phase = "walk" /\ ~orphan /\ st.start = c)

RunInv == Types /\ Stages /\ WalkInv /\ TableOwns /\ OrphansOwn /\ Accounts

(* The code items of an image stay where they are; what is claimed only     *)
(* grows.                                                                   *)
LEMMA ItemsStay ==
    ASSUME img' = img
    PROVE  /\ \A c : CodeOf(c)' = CodeOf(c) /\ (IsItem(c)' <=> IsItem(c))
           /\ \A items : EachItsOwn(items)' <=> EachItsOwn(items)
<1>1. \A c : CodeOf(c)' = CodeOf(c)
  BY DEF CodeOf, Claim, HeaderEnd
<1>2. \A c : IsItem(c)' <=> IsItem(c)
  BY DEF IsItem
<1>3. \A items : EachItsOwn(items)' <=> EachItsOwn(items)
  BY <1>1, <1>2 DEF EachItsOwn
<1> QED BY <1>1, <1>2, <1>3

(* The first unit of a code item's code is its own.                         *)
LEMMA ItemHoldsItsStart ==
    ASSUME img \in Images, NEW c, IsItem(c)
    PROVE  c \in Span(CodeOf(c))
<1>1. c \in Int /\ c - HeaderUnits \in DOMAIN img.header /\ img.header[c - HeaderUnits].insns > 0
  BY DEF IsItem
<1>2. HeaderUnits \in Nat /\ img.header[c - HeaderUnits].insns \in Nat
  BY <1>1, HeaderFacts, DalvikAssumption
<1>3. HeaderEnd(c - HeaderUnits) = c + img.header[c - HeaderUnits].insns
  BY <1>1, <1>2 DEF HeaderEnd
<1>4. c - HeaderUnits <= c /\ c <= HeaderEnd(c - HeaderUnits) - 1
  BY <1>1, <1>2, <1>3
<1> QED BY <1>1, <1>2, <1>3, <1>4 DEF CodeOf, Claim, Span

LEMMA ClaimsGrow ==
    ASSUME img' = img, known \subseteq known'
    PROVE  KnownClaims \subseteq KnownClaims'
<1>1. \A h : Claim(h)' = Claim(h)
  BY DEF Claim, HeaderEnd
<1> QED BY <1>1 DEF KnownClaims

(* The code of a walked method lies in its code item.                       *)
LEMMA UnitsAreInside ==
    ASSUME img \in Images, NEW noted, Orderly(st, noted)
    PROVE  /\ st.start \in Nat \ {0} /\ HeaderOf(st) \in DOMAIN img.header
           /\ CodeOf(st.start) = <<HeaderOf(st), st.end>>
           /\ HeaderOf(st) \in Int /\ HeaderOf(st) <= st.start /\ st.end \in Int
           /\ UnitsOf(st.ins) \subseteq Span(CodeOf(st.start))
<1>1. st \in WalkStates /\ Fixed(st) /\ Walks(st, noted) /\ st.start \in Int
  BY DEF Orderly, WalkStates
<1>2. st.start \in Nat \ {0} /\ st.end \in Nat
  BY <1>1, FixedFacts
<1>3. HeaderUnits \in Nat
  BY DalvikAssumption
<1>4. HeaderOf(st) \in DOMAIN img.header /\ st.end = CodeEnd(img, HeaderOf(st))
  BY <1>1 DEF Fixed
<1>5. CodeOf(st.start) = <<HeaderOf(st), st.end>>
  BY <1>4, ClaimType DEF CodeOf, Claim, HeaderOf
<1>6. HeaderOf(st) \in Int /\ HeaderOf(st) <= st.start
  BY <1>2, <1>3 DEF HeaderOf
<1>7. ASSUME NEW a \in st.ins, NEW u \in a .. a + img.ins[a].size - 1 PROVE u \in HeaderOf(st) .. st.end - 1
  <2>1. a \in st.valid
    BY <1>1 DEF Walks
  <2>2. st.start <= a /\ Decodes(img, a, st.end) /\ a \in Int
    BY <1>1, <2>1, LegalFacts DEF WalkStates
  <2>3. a + img.ins[a].size <= st.end /\ img.ins[a].size \in Int
    BY <2>2, InsFacts DEF Decodes
  <2> QED BY <1>2, <1>6, <2>2, <2>3
<1>8. UnitsOf(st.ins) \subseteq Span(CodeOf(st.start))
  BY <1>5, <1>7 DEF UnitsOf, Span
<1> QED BY <1>2, <1>4, <1>5, <1>6, <1>8

(* What has been told of a method stays told.                               *)
LEMMA Accounted1 ==
    ASSUME img' = img, DOMAIN functions \subseteq DOMAIN functions', ToSet(failed) \subseteq ToSet(failed'),
           errors \subseteq errors'
    PROVE  \A c : Accounted(c) => Accounted(c)'
BY DEF Accounted, InRanges

(* The type of the method table.                                            *)
LEMMA MethodTable ==
    ASSUME img \in Images
    PROVE  img.methods \in Seq(Int) /\ Len(img.methods) \in Nat
<1>1. WellFormed(img)
  BY DalvikAssumption
<1>2. img.methods \in Seq(Int)
  BY <1>1, Zenon DEF WellFormed
<1> QED BY <1>2

(* The invariant holds at first.                                            *)
LEMMA InitHolds == Init => RunInv
<1> SUFFICES ASSUME Init PROVE RunInv
  OBVIOUS
<1>1. Len(img.methods) \in Nat /\ 0 \in 0 .. Len(img.methods)
  BY MethodTable DEF Init
<1>2. DOMAIN functions = {} /\ DOMAIN ins2fn = {} /\ <<>> \in Seq(Int)
  BY DEF Init
<1>3. Types
  <2>1. phase = "methods" /\ phase \in {"methods", "walk", "orphans", "done"} /\ img \in Images /\ st = NoState
    BY DEF Init
  <2>2. taken \in 0 .. Len(img.methods) /\ orphan \in BOOLEAN /\ timeout \in BOOLEAN
    BY <1>1, Zenon DEF Init
  <2>3. known \subseteq Int /\ orphans \in Seq(Int) /\ failed \in Seq(Int)
    BY <1>2 DEF Init
  <2> QED BY <1>2, <2>1, <2>2, <2>3, Zenon DEF Types
<1>4. Stages /\ WalkInv /\ TableOwns /\ OrphansOwn /\ Accounts
  BY <1>2 DEF Init, Stages, WalkInv, TableOwns, OrphansOwn, Accounts, InTable, InOrphans
<1> QED BY <1>3, <1>4 DEF RunInv

(* A step of the walk itself touches nothing of the run but its errors.     *)
LEMMA WalkGoesOn ==
    ASSUME RunInv, phase = "walk", errors \subseteq errors', st'.start = st.start, Orderly(st', errors'),
           UNCHANGED <<img, phase, taken, known, orphans, orphan, functions, ins2fn, failed, timeout>>
    PROVE  RunInv'
<1>1. Types' /\ Stages'
  BY DEF RunInv, Types, Stages, InTable, InOrphans
<1>2. WalkInv'
  BY OrderStays DEF WalkInv
<1>3. KnownClaims' = KnownClaims /\ \A c : CodeOf(c)' = CodeOf(c)
  BY ItemsStay DEF KnownClaims, Claim, HeaderEnd
<1>4. TableOwns'
  <2>1. st'.start \in known' /\ CodeOf(st'.start) \in KnownClaims <=> st.start \in known /\ CodeOf(st.start) \in KnownClaims
    OBVIOUS
  <2>2. \A c : (CodeOf(c) \in KnownClaims)' <=> CodeOf(c) \in KnownClaims
    BY <1>3
  <2>3. (CodeOf(st.start) \in KnownClaims)' <=> CodeOf(st.start) \in KnownClaims
    BY <1>3
  <2>4. TableOwns
    BY DEF RunInv
  <2> QED BY <1>3, <2>1, <2>3, <2>4 DEF TableOwns, InTable, InRanges
<1>5. OrphansOwn'
  <2>1. \A c : Free(c)' <=> Free(c)
    BY <1>3 DEF Free
  <2>2. CodeOf(st.start)' = CodeOf(st.start)
    BY <1>3
  <2>3. OrphansOwn
    BY DEF RunInv
  <2> QED BY <1>3, <2>1, <2>2, <2>3, ItemsStay DEF OrphansOwn, InOrphans
<1>6. Accounts'
  <2>1. \A c : Accounted(c) => Accounted(c)'
    BY Accounted1
  <2> QED BY <2>1 DEF RunInv, Accounts
<1> QED BY <1>1, <1>2, <1>4, <1>5, <1>6 DEF RunInv

(* A step of the walk keeps the invariant.                                  *)
LEMMA WalkSteps ==
    ASSUME RunInv, ChooseNextBlock \/ EndBlock \/ DecodeError \/ WalkInstruction
    PROVE  RunInv'
<1>1. phase = "walk" /\ img \in Images /\ Orderly(st, errors)
  BY DEF RunInv, Types, WalkInv, ChooseNextBlock, EndBlock, DecodeError, WalkInstruction
<1>2. st \in WalkStates
  BY <1>1 DEF Orderly
<1>3. Stops(st.at) <=> Stopped(st)
  BY DEF Stops, Stopped
<1>4. CASE ChooseNextBlock
  <2>1. st' = [st EXCEPT !.queue = Front(@), !.processed = @ \cup {Last(st.queue)},
                         !.block = Last(st.queue), !.at = Last(st.queue)]
        /\ st.queue # <<>> /\ st.at = None
    BY <1>4 DEF ChooseNextBlock
  <2>2. Orderly(st', errors)
    BY <1>1, <2>1, ChooseIsOrderly
  <2>3. st'.start = st.start
    BY <1>2, <2>1 DEF WalkStates
  <2>4. errors' = errors
    BY <1>4 DEF ChooseNextBlock
  <2> QED BY <1>1, <1>4, <2>2, <2>3, <2>4, WalkGoesOn DEF ChooseNextBlock
<1>5. CASE EndBlock
  <2>1. st' = [st EXCEPT !.at = None] /\ Stopped(st) /\ st.at # None /\ errors' = errors
    BY <1>3, <1>5 DEF EndBlock
  <2>2. st.visited \cup {} = st.visited
    OBVIOUS
  <2>3. st' = [st EXCEPT !.visited = @ \cup {}, !.at = None]
    BY <1>2, <2>1, <2>2 DEF WalkStates
  <2>4. Orderly(st', errors \cup {})
    <3>1. Orderly([st EXCEPT !.visited = @ \cup {}, !.at = None], errors \cup {})
      BY <1>1, <2>1, EndIsOrderly
    <3> QED BY <2>3, <3>1
  <2>5. Orderly(st', errors')
    <3>1. errors \cup {} = errors'
      BY <2>1
    <3> QED BY <2>4, <3>1
  <2>6. st'.start = st.start
    BY <1>2, <2>1 DEF WalkStates
  <2> QED BY <1>1, <1>5, <2>1, <2>5, <2>6, WalkGoesOn DEF EndBlock
<1>6. CASE DecodeError
  <2>1. st' = [st EXCEPT !.visited = @ \cup {st.at}, !.at = None] /\ ~Stopped(st) /\ st.at # None
        /\ ~Decodes(img, st.at, st.end) /\ errors' = errors \cup {st.at}
    BY <1>3, <1>6 DEF DecodeError
  <2>2. Orderly(st', errors \cup {st.at})
    <3>1. Orderly([st EXCEPT !.visited = @ \cup {st.at}, !.at = None], errors \cup {st.at})
      BY <1>1, <2>1, EndIsOrderly
    <3> QED BY <2>1, <3>1
  <2>3. st'.start = st.start
    BY <1>2, <2>1 DEF WalkStates
  <2> QED BY <1>1, <1>6, <2>1, <2>2, <2>3, WalkGoesOn DEF DecodeError
<1>7. CASE WalkInstruction
  <2>1. st' = Walked(st, st.at) /\ ~Stopped(st) /\ st.at # None /\ Decodes(img, st.at, st.end) /\ errors' = errors
    BY <1>3, <1>7 DEF WalkInstruction
  <2>2. Orderly(st', errors) /\ st.at \in st.valid
    BY <1>1, <2>1, InstructionIsOrderly
  <2>3. st'.start = st.start
    <3>1. st.at \in DOMAIN img.ins /\ Fixed(st)
      BY <1>1, <2>1 DEF Decodes, Orderly
    <3> QED BY <1>1, <1>2, <2>1, <2>2, <3>1, WalkedFields
  <2> QED BY <1>1, <1>7, <2>1, <2>2, <2>3, WalkGoesOn DEF WalkInstruction
<1> QED BY <1>4, <1>5, <1>6, <1>7

(* A method of the table that is passed over, refused or begun.             *)
LEMMA TableSteps ==
    ASSUME RunInv, SkipMethod \/ RejectMethod \/ BeginMethod
    PROVE  RunInv'
<1>1. /\ phase = "methods" /\ img \in Images /\ taken < Len(img.methods) /\ taken' = taken + 1
      /\ UNCHANGED <<img, orphans, functions, ins2fn, timeout>>
      /\ Types /\ Stages /\ TableOwns /\ Accounts
  BY DEF RunInv, Types, SkipMethod, RejectMethod, BeginMethod
<1>2. taken' \in 0 .. Len(img'.methods) /\ Method \in Int
  <2>1. taken \in 0 .. Len(img.methods)
    BY <1>1 DEF Types
  <2>2. img.methods \in Seq(Int) /\ Len(img.methods) \in Nat
    BY <1>1, MethodTable
  <2>3. taken + 1 \in 1 .. Len(img.methods)
    BY <1>1, <2>1, <2>2
  <2> QED BY <1>1, <2>2, <2>3 DEF Method
<1>3. known \subseteq known' /\ known' \subseteq known \cup {Method} /\ known' \subseteq Int
      /\ errors \subseteq errors' /\ ToSet(failed) \subseteq ToSet(failed') /\ failed' \in Seq(Int)
  <2>1. known \subseteq Int /\ failed \in Seq(Int)
    BY <1>1 DEF Types
  <2>2. CASE RejectMethod
    BY <1>2, <2>1, <2>2, Appended DEF RejectMethod
  <2>3. CASE SkipMethod \/ BeginMethod
    BY <1>2, <2>1, <2>3 DEF SkipMethod, BeginMethod
  <2> QED BY <2>2, <2>3
<1>4. \A c : Accounted(c) => Accounted(c)'
  BY <1>1, <1>3, Accounted1
<1>5. \A c \in known : Accounted(c)'
  BY <1>1, <1>4 DEF Accounts
<1>6. KnownClaims \subseteq KnownClaims' /\ \A c : CodeOf(c)' = CodeOf(c)
  BY <1>1, <1>3, ClaimsGrow, ItemsStay
<1>7. DOMAIN functions' \subseteq known' /\ \A u \in DOMAIN ins2fn' : InRanges(u, KnownClaims')
  BY <1>1, <1>3, <1>6 DEF TableOwns, InTable, InRanges
<1>8. DOMAIN functions' \subseteq known' \cup {h + HeaderUnits : h \in DOMAIN img'.header}
  BY <1>7
<1>9. CASE SkipMethod \/ RejectMethod
  <2>1. phase' = phase /\ st' = st /\ orphan' = orphan
    BY <1>9 DEF SkipMethod, RejectMethod
  <2>2. Types'
    BY <1>1, <1>2, <1>3, <1>8, <2>1 DEF Types
  <2>3. Stages' /\ WalkInv' /\ TableOwns' /\ OrphansOwn'
    BY <1>1, <1>7, <2>1 DEF Stages, WalkInv, TableOwns, OrphansOwn, InTable, InOrphans
  <2>4. Accounts'
    <3>1. CASE SkipMethod
      BY <1>5, <3>1 DEF SkipMethod, Accounts
    <3>2. CASE RejectMethod
      <4>1. errors' = errors \cup {Method} /\ known' = known \cup {Method}
        BY <3>2 DEF RejectMethod
      <4>2. \A c \in {Method} : Accounted(c)'
        BY <4>1 DEF Accounted
      <4> QED BY <1>5, <4>1, <4>2 DEF Accounts
    <3> QED BY <1>9, <3>1, <3>2
  <2> QED BY <2>2, <2>3, <2>4 DEF RunInv
<1>10. CASE BeginMethod
  <2> DEFINE c == Method
             h == c - HeaderUnits
  <2>1. /\ phase' = "walk" /\ orphan' = FALSE /\ known' = known \cup {c}
        /\ st' = NewState(c, img.header[h]) /\ Readable(c)
    BY <1>10 DEF BeginMethod
  <2>2. h \in DOMAIN img.header /\ HeaderEnd(h) <= img.size
    BY <2>1 DEF Readable
  <2>3. HeaderUnits \in Nat /\ CodeStart(h) = c /\ h \in Nat
    <3>1. HeaderUnits \in Nat
      BY DalvikAssumption
    <3> QED BY <1>1, <1>2, <2>2, <3>1, HeaderFacts DEF CodeStart
  <2>4. Orderly(st', errors') /\ st'.start = c
    <3> HIDE DEF h, c
    <3>1. st' = NewState(CodeStart(h), img.header[h])
      BY <2>1, <2>3 DEF h
    <3> QED BY <1>1, <2>2, <2>3, <3>1, BeginWalk
  <2>5. CodeOf(c) = Claim(h) /\ c <= img.size /\ HeaderUnits <= c
    <3>1. HeaderEnd(h) = c + img.header[h].insns /\ img.header[h].insns \in Nat
      BY <1>1, <1>2, <2>2, <2>3, HeaderFacts DEF HeaderEnd
    <3>2. img.size \in Nat
      <4>1. WellFormed(img)
        BY <1>1, DalvikAssumption
      <4> QED BY <4>1, Zenon DEF WellFormed
    <3> HIDE DEF c
    <3>3. c <= img.size
      BY <1>2, <2>2, <3>1, <3>2 DEF c
    <3>4. HeaderUnits <= c
      BY <1>2, <2>3 DEF h, c
    <3> QED BY <3>3, <3>4 DEF CodeOf, h
  <2> HIDE DEF c
  <2>6. CodeOf(c) \in KnownClaims'
    <3>1. c \in known' /\ img' = img
      BY <1>1, <2>1
    <3>2. \A k : Claim(k)' = Claim(k)
      BY <1>1 DEF Claim, HeaderEnd
    <3> QED BY <2>2, <2>5, <3>1, <3>2 DEF KnownClaims
  <2>7. Types'
    BY <1>1, <1>2, <1>3, <1>8, <2>1 DEF Types
  <2>8. Stages' /\ OrphansOwn'
    BY <1>1, <2>1 DEF Stages, OrphansOwn, InTable, InOrphans
  <2>9. WalkInv'
    BY <1>1, <2>4, OrderStays DEF WalkInv
  <2>10. TableOwns'
    <3>1. CodeOf(st.start)' = CodeOf(c)
      BY <1>6, <2>4
    <3> QED BY <1>7, <2>1, <2>4, <2>6, <3>1 DEF TableOwns
  <2>11. Accounts'
    BY <1>5, <2>1, <2>4 DEF Accounts
  <2> QED BY <2>7, <2>8, <2>9, <2>10, <2>11 DEF RunInv
<1> QED BY <1>9, <1>10

(* The end of a method, and of an orphan: it is a function, or there is     *)
(* something to tell of it.                                                 *)
LEMMA EndedIsAccounted ==
    ASSUME RunInv, phase = "walk", st.at = None, st.queue = <<>>, st.ins = {}
    PROVE  Accounted(st.start)
<1>1. img \in Images /\ Orderly(st, errors)
  BY DEF RunInv, Types, WalkInv
<1>2. st \in WalkStates /\ Fixed(st) /\ Walks(st, errors) /\ Progress(st)
  BY <1>1 DEF Orderly
<1>3. st.start \in Nat \ {0} /\ st.end = st.start + img.header[HeaderOf(st)].insns
      /\ img.header[HeaderOf(st)].insns \in Nat /\ st.end \in Nat
  <2>1. st.start \in Int
    BY <1>2 DEF WalkStates
  <2>2. HeaderOf(st) \in DOMAIN img.header /\ st.end = CodeEnd(img, HeaderOf(st))
    BY <1>2 DEF Fixed
  <2>3. st.start \in Nat \ {0} /\ st.start = CodeStart(HeaderOf(st)) /\ st.end \in Nat
    BY <1>1, <1>2, <2>1, FixedFacts
  <2> QED BY <1>1, <2>2, <2>3, HeaderFacts
<1>4. ToSet(st.queue) = {}
  BY DEF ToSet
<1>5. st.start \in st.processed
  BY <1>2, <1>4 DEF Progress
<1>6. Passed(st, st.start)
  <2>1. st.at # st.start
    BY <1>3 DEF None
  <2> QED BY <1>2, <1>5, <2>1 DEF Progress
<1>7. CASE st.start \notin st.start .. st.end - 1
  <2>1. img.header[HeaderOf(st)].insns = 0
    BY <1>3, <1>7
  <2> QED BY <2>1 DEF Accounted, HeaderOf
<1>8. CASE InRanges(st.start, st.ranges)
  <2>1. st.ranges = Legal[img][HeaderOf(st)].ranges
    BY <1>2 DEF Fixed
  <2> QED BY <1>8, <2>1 DEF Accounted, HeaderOf
<1>9. CASE st.start \in st.visited
  BY <1>2, <1>9 DEF Walks, Accounted
<1> QED BY <1>6, <1>7, <1>8, <1>9 DEF Passed

(* Giving a method up, or finalizing it, keeps the invariant.               *)
LEMMA EndSteps ==
    ASSUME RunInv, FailMethod \/ FinalizeMethod
    PROVE  RunInv'
<1>1. /\ phase = "walk" /\ img \in Images /\ Orderly(st, errors) /\ orphan \in BOOLEAN
      /\ UNCHANGED <<img, taken, known, orphans, orphan, timeout>>
      /\ st' = NoState /\ phase' = IF orphan THEN "orphans" ELSE "methods"
  BY DEF RunInv, Types, WalkInv, FailMethod, FinalizeMethod
<1>2. /\ st.start \in Nat \ {0} /\ HeaderOf(st) \in DOMAIN img.header /\ HeaderOf(st) + HeaderUnits = st.start
      /\ CodeOf(st.start) = <<HeaderOf(st), st.end>> /\ UnitsOf(st.ins) \subseteq Span(CodeOf(st.start))
  <2>1. HeaderUnits \in Nat
    BY DalvikAssumption
  <2>2. st.start \in Nat => (st.start - HeaderUnits) + HeaderUnits = st.start
    BY <2>1
  <2> QED BY <1>1, <2>2, UnitsAreInside DEF HeaderOf
<1>3. /\ DOMAIN functions \subseteq DOMAIN functions' /\ DOMAIN functions' \subseteq DOMAIN functions \cup {st.start}
      /\ DOMAIN ins2fn' \subseteq DOMAIN ins2fn \cup Span(CodeOf(st.start))
  <2>1. CASE functions' = functions /\ ins2fn' = ins2fn
    BY <2>1
  <2>2. CASE FinalizeMethod /\ st.ins # {}
    <3>2. DOMAIN functions' = DOMAIN functions \cup {st.start}
      BY <2>2 DEF FinalizeMethod
    <3>3. DOMAIN ins2fn' = DOMAIN ins2fn \cup UnitsOf(st.ins)
      BY <2>2 DEF FinalizeMethod
    <3> QED BY <1>2, <3>2, <3>3
  <2> QED BY <2>1, <2>2 DEF FailMethod, FinalizeMethod
<1>4. /\ errors \subseteq errors' /\ ToSet(failed) \subseteq ToSet(failed') /\ failed' \in Seq(Int)
      /\ ~orphan => \/ Accounted(st.start) \/ st.start \in DOMAIN functions' \/ st.start \in errors'
  <2>1. failed \in Seq(Int) /\ st.start \in Int
    BY <1>2 DEF RunInv, Types
  <2>2. CASE FailMethod
    BY <2>1, <2>2, Appended DEF FailMethod
  <2>3. CASE FinalizeMethod /\ st.ins = {}
    <3>1. Accounted(st.start)
      BY <1>1, <2>3, EndedIsAccounted DEF FinalizeMethod
    <3> QED BY <2>1, <2>3, <3>1 DEF FinalizeMethod
  <2>4. CASE FinalizeMethod /\ st.ins # {}
    <3>2. st.start \in DOMAIN functions'
      BY <2>4 DEF FinalizeMethod
    <3> QED BY <2>1, <2>4, <3>2 DEF FinalizeMethod
  <2> QED BY <2>2, <2>3, <2>4
<1>5. \A c : Accounted(c) => Accounted(c)'
  BY <1>1, <1>3, <1>4, Accounted1
<1>6. Types'
  <2>1. Types
    BY DEF RunInv
  <2>2. DOMAIN functions' \subseteq known' \cup {h + HeaderUnits : h \in DOMAIN img'.header}
    BY <1>1, <1>2, <1>3, <2>1 DEF Types
  <2> QED BY <1>1, <1>4, <2>1, <2>2 DEF Types
<1>7. Stages' /\ WalkInv'
  BY <1>1 DEF RunInv, Stages, WalkInv, InTable, InOrphans
<1>8. KnownClaims \subseteq KnownClaims' /\ (\A c : CodeOf(c)' = CodeOf(c))
      /\ \A items : EachItsOwn(items)' <=> EachItsOwn(items)
  BY <1>1, ClaimsGrow, ItemsStay
<1>9. TableOwns'
  <2> SUFFICES ASSUME ~orphan
               PROVE  DOMAIN functions' \subseteq known' /\ \A u \in DOMAIN ins2fn' : InRanges(u, KnownClaims')
    BY <1>1 DEF TableOwns, InTable
  <2>1. /\ DOMAIN functions \subseteq known /\ st.start \in known /\ CodeOf(st.start) \in KnownClaims
        /\ \A u \in DOMAIN ins2fn : InRanges(u, KnownClaims)
    BY <1>1 DEF RunInv, TableOwns, InTable
  <2>2. \A u \in Span(CodeOf(st.start)) : InRanges(u, KnownClaims)
    BY <2>1 DEF InRanges
  <2>3. \A u \in DOMAIN ins2fn' : InRanges(u, KnownClaims)
    BY <1>3, <2>1, <2>2
  <2> QED BY <1>1, <1>3, <1>8, <2>1, <2>3 DEF InRanges
<1>10. OrphansOwn'
  <2> SUFFICES ASSUME orphan
               PROVE  EachItsOwn(orphans) /\ \A i \in DOMAIN orphans : Free(orphans[i])'
    BY <1>1, <1>8 DEF OrphansOwn, InOrphans
  <2>1. /\ EachItsOwn(orphans) /\ \A i \in DOMAIN orphans : Free(orphans[i])
        /\ \A i \in DOMAIN orphans : Apart({CodeOf(orphans[i])}, {CodeOf(st.start)})
    BY <1>1 DEF RunInv, OrphansOwn, InOrphans
  <2>2. ASSUME NEW i \in DOMAIN orphans PROVE Free(orphans[i])'
    <3> DEFINE c == orphans[i]
    <3>1. IsItem(c) /\ Free(c) /\ Apart({CodeOf(c)}, {CodeOf(st.start)})
      BY <2>1 DEF EachItsOwn
    <3> HIDE DEF c
    <3>2. Span(CodeOf(c)) \cap Span(CodeOf(st.start)) = {}
      BY <3>1 DEF Apart
    <3>3. c # st.start
      <4>1. c \in Span(CodeOf(c))
        BY <1>1, <3>1, ItemHoldsItsStart
      <4> QED BY <3>2, <4>1
    <3>4. c \notin DOMAIN functions'
      BY <1>3, <3>1, <3>3 DEF Free
    <3>5. Span(CodeOf(c)) \cap DOMAIN ins2fn' = {}
      BY <1>3, <3>1, <3>2 DEF Free
    <3>6. \A k : k \notin DOMAIN functions' /\ Span(CodeOf(k)) \cap DOMAIN ins2fn' = {} => Free(k)'
      BY <1>8 DEF Free
    <3> QED BY <1>1, <3>4, <3>5, <3>6 DEF c
  <2> QED BY <2>1, <2>2
<1>11. Accounts'
  <2>1. \A c \in known : Accounted(c) \/ (~orphan /\ st.start = c)
    BY <1>1 DEF RunInv, Accounts
  <2>2. \A c : (c \in DOMAIN functions' \/ c \in errors') => Accounted(c)'
    BY DEF Accounted
  <2>3. ASSUME NEW c \in known PROVE Accounted(c)'
    <3>1. CASE Accounted(c)
      BY <1>5, <3>1
    <3>2. CASE ~orphan /\ st.start = c
      BY <1>4, <1>5, <2>2, <3>2
    <3> QED BY <2>1, <3>1, <3>2
  <2> QED BY <1>1, <2>3 DEF Accounts
<1> QED BY <1>6, <1>7, <1>9, <1>10, <1>11 DEF RunInv

(* The scan finds what is apart from every claim; an orphan that is begun   *)
(* is taken from what it found.                                             *)
LEMMA ScanStepKeeps ==
    ASSUME RunInv, ScanForOrphans
    PROVE  RunInv'
<1>1. /\ phase = "methods" /\ taken = Len(img.methods) /\ orphans' = DiscoverOrphans /\ phase' = "orphans"
      /\ UNCHANGED <<img, taken, known, orphan, st, functions, ins2fn, errors, failed, timeout>>
      /\ img \in Images /\ known \subseteq Int
  BY DEF RunInv, Types, ScanForOrphans
<1>2. /\ orphans' \in Seq(Int) /\ EachItsOwn(orphans')
      /\ \A i \in DOMAIN orphans' : orphans'[i] \notin known /\ Apart({CodeOf(orphans'[i])}, KnownClaims)
  BY <1>1, OrphansAreApart
<1>3. Types' /\ Stages' /\ WalkInv' /\ TableOwns'
  BY <1>1, <1>2 DEF RunInv, Types, Stages, WalkInv, TableOwns, InTable, InOrphans
<1>4. DOMAIN functions \subseteq known /\ \A u \in DOMAIN ins2fn : InRanges(u, KnownClaims)
  BY <1>1 DEF RunInv, TableOwns, InTable
<1>5. ASSUME NEW i \in DOMAIN orphans' PROVE Free(orphans'[i])
  <2>1. orphans'[i] \notin DOMAIN functions
    BY <1>2, <1>4
  <2>2. Span(CodeOf(orphans'[i])) \cap DOMAIN ins2fn = {}
    BY <1>2, <1>4 DEF Apart, InRanges
  <2> QED BY <2>1, <2>2 DEF Free
<1>6. \A c : CodeOf(c)' = CodeOf(c) /\ (Free(c) => Free(c)')
  BY <1>1, ItemsStay DEF Free
<1>7. OrphansOwn'
  <2>1. \A items : EachItsOwn(items)' <=> EachItsOwn(items)
    BY <1>1, ItemsStay
  <2> QED BY <1>1, <1>2, <1>5, <1>6, <2>1 DEF OrphansOwn
<1>8. Accounts'
  <2>1. \A c : Accounted(c) => Accounted(c)'
    BY <1>1, Accounted1
  <2> QED BY <1>1, <2>1 DEF RunInv, Accounts
<1> QED BY <1>3, <1>7, <1>8 DEF RunInv

(* Taking the next orphan keeps the invariant: it is no code of a method,   *)
(* so it is walked.                                                         *)
LEMMA OrphanStepKeeps ==
    ASSUME RunInv, BeginOrphan
    PROVE  RunInv'
<1> DEFINE c == Head(orphans)
           h == c - HeaderUnits
           n == Len(orphans)
<1>1. /\ phase = "orphans" /\ orphans # <<>> /\ orphans' = Tail(orphans) /\ taken = Len(img.methods)
      /\ UNCHANGED <<img, taken, known, functions, ins2fn, errors, failed, timeout>>
      /\ img \in Images /\ orphans \in Seq(Int) /\ st = NoState /\ orphan \in BOOLEAN
      /\ EachItsOwn(orphans) /\ \A i \in DOMAIN orphans : Free(orphans[i])
  BY DEF RunInv, Types, Stages, OrphansOwn, InOrphans, BeginOrphan
<1>2. /\ n \in Nat \ {0} /\ DOMAIN orphans = 1 .. n /\ orphans[1] = c /\ orphans' \in Seq(Int)
      /\ DOMAIN orphans' = 1 .. n - 1 /\ \A i \in 1 .. n - 1 : orphans'[i] = orphans[i + 1]
  BY <1>1
<1> HIDE DEF n, c
<1>3. (\A i \in 1 .. n - 1 : i + 1 \in 1 .. n /\ i + 1 # 1) /\ 1 \in 1 .. n
  BY <1>2
<1>4. IsItem(c) /\ Free(c)
  BY <1>1, <1>2, <1>3 DEF EachItsOwn
<1>5. /\ EachItsOwn(orphans')
      /\ \A i \in DOMAIN orphans' : Free(orphans'[i]) /\ Apart({CodeOf(orphans'[i])}, {CodeOf(c)})
  <2>1. \A i \in 1 .. n - 1 : IsItem(orphans'[i]) /\ Free(orphans'[i])
    BY <1>1, <1>2, <1>3 DEF EachItsOwn
  <2>2. ASSUME NEW i \in 1 .. n - 1, NEW j \in 1 .. n - 1, i # j
        PROVE  Apart({CodeOf(orphans'[i])}, {CodeOf(orphans'[j])})
    <3>1. i + 1 \in DOMAIN orphans /\ j + 1 \in DOMAIN orphans /\ i + 1 # j + 1
      BY <1>2, <1>3, <2>2
    <3> QED BY <1>1, <1>2, <3>1 DEF EachItsOwn
  <2>3. ASSUME NEW i \in 1 .. n - 1 PROVE Apart({CodeOf(orphans'[i])}, {CodeOf(c)})
    <3>1. i + 1 \in DOMAIN orphans /\ 1 \in DOMAIN orphans /\ i + 1 # 1
      BY <1>2, <1>3
    <3> QED BY <1>1, <1>2, <3>1 DEF EachItsOwn
  <2> QED BY <1>2, <2>1, <2>2, <2>3 DEF EachItsOwn
<1>6. \A k : CodeOf(k)' = CodeOf(k) /\ (Free(k) => Free(k)')
  BY <1>1, ItemsStay DEF Free
<1>7. \A items : EachItsOwn(items)' <=> EachItsOwn(items)
  BY <1>1, ItemsStay
<1>8. \A k : Accounted(k) => Accounted(k)'
  BY <1>1, Accounted1
<1>9. \A k \in known : Accounted(k)'
  BY <1>1, <1>8 DEF RunInv, Accounts
<1>10. CASE UNCHANGED <<st, orphan, phase>>
  <2>1. Types' /\ Stages' /\ WalkInv' /\ TableOwns'
    BY <1>1, <1>2, <1>10 DEF RunInv, Types, Stages, WalkInv, TableOwns, InTable, InOrphans
  <2>2. OrphansOwn'
    BY <1>1, <1>5, <1>6, <1>7, <1>10 DEF OrphansOwn
  <2>3. Accounts'
    BY <1>1, <1>9, <1>10 DEF Accounts
  <2> QED BY <2>1, <2>2, <2>3 DEF RunInv
<1>11. CASE st' = NewState(c, img.header[h]) /\ orphan' = TRUE /\ phase' = "walk"
  <2>1. h \in DOMAIN img.header /\ c \in Int
    BY <1>4 DEF IsItem
  <2>2. CodeStart(h) = c
    <3>1. HeaderUnits \in Nat
      BY DalvikAssumption
    <3> QED BY <2>1, <3>1 DEF CodeStart
  <2>3. Orderly(st', errors') /\ st'.start = c
    <3> HIDE DEF h
    <3>1. st' = NewState(CodeStart(h), img.header[h])
      BY <1>11, <2>2
    <3> QED BY <1>1, <2>1, <2>2, <3>1, BeginWalk
  <2>4. Types' /\ Stages' /\ TableOwns'
    BY <1>1, <1>2, <1>11 DEF RunInv, Types, Stages, TableOwns, InTable, InOrphans
  <2>5. WalkInv'
    BY <1>1, <2>3, OrderStays DEF WalkInv
  <2>6. OrphansOwn'
    <3>1. CodeOf(st.start)' = CodeOf(c)
      BY <1>6, <2>3
    <3>2. Span(CodeOf(c)) \cap DOMAIN ins2fn' = {}
      BY <1>1, <1>4 DEF Free
    <3> QED BY <1>5, <1>6, <1>7, <3>1, <3>2 DEF OrphansOwn
  <2>7. Accounts'
    BY <1>1, <1>9 DEF Accounts
  <2> QED BY <2>4, <2>5, <2>6, <2>7 DEF RunInv
<1> QED BY <1>10, <1>11 DEF BeginOrphan, c

(* The end of the run keeps the invariant, whether the budget was spent or  *)
(* nothing was left.                                                        *)
LEMMA LastSteps ==
    ASSUME RunInv, Finish \/ Expire
    PROVE  RunInv'
<1>1. /\ phase \in {"methods", "orphans"} /\ phase' = "done"
      /\ UNCHANGED <<img, taken, known, orphans, orphan, st, functions, ins2fn, errors, failed>>
      /\ timeout' \in BOOLEAN
  BY DEF RunInv, Types, Finish, Expire
<1>2. timeout' \/ (taken' = Len(img'.methods) /\ orphans' = <<>>)
  BY DEF RunInv, Stages, InOrphans, Finish, Expire
<1>3. Types' /\ Stages' /\ WalkInv' /\ TableOwns' /\ OrphansOwn'
  BY <1>1, <1>2 DEF RunInv, Types, Stages, WalkInv, TableOwns, OrphansOwn, InTable, InOrphans
<1>4. Accounts'
  <2>1. \A c : Accounted(c) => Accounted(c)'
    BY <1>1, Accounted1
  <2> QED BY <1>1, <2>1 DEF RunInv, Accounts
<1> QED BY <1>3, <1>4 DEF RunInv

(* Every step keeps the invariant.                                          *)
LEMMA NextKeeps == RunInv /\ [Next]_vars => RunInv'
<1> SUFFICES ASSUME RunInv, [Next]_vars PROVE RunInv'
  OBVIOUS
<1>1. CASE UNCHANGED vars
  <2>1. \A s, noted : Orderly(s, noted)' <=> Orderly(s, noted)
    BY <1>1, OrderStays DEF vars
  <2>2. \A c : Accounted(c) => Accounted(c)'
    BY <1>1, Accounted1 DEF vars
  <2>3. \A c : CodeOf(c)' = CodeOf(c) /\ (Free(c)' <=> Free(c))
    BY <1>1, ItemsStay DEF vars, Free
  <2>4. KnownClaims' = KnownClaims /\ \A items : EachItsOwn(items)' <=> EachItsOwn(items)
    BY <1>1, ItemsStay DEF vars, KnownClaims, Claim, HeaderEnd
  <2>5. Types' /\ Stages'
    BY <1>1 DEF vars, RunInv, Types, Stages, InTable, InOrphans
  <2>6. WalkInv' /\ Accounts'
    BY <1>1, <2>1, <2>2 DEF vars, RunInv, WalkInv, Accounts
  <2>7. TableOwns'
    BY <1>1, <2>3, <2>4 DEF vars, RunInv, TableOwns, InTable, InRanges
  <2>8. OrphansOwn'
    BY <1>1, <2>3, <2>4 DEF vars, RunInv, OrphansOwn, InOrphans
  <2> QED BY <2>5, <2>6, <2>7, <2>8 DEF RunInv
<1>2. CASE SkipMethod \/ RejectMethod \/ BeginMethod
  BY <1>2, TableSteps
<1>3. CASE ChooseNextBlock \/ EndBlock \/ DecodeError \/ WalkInstruction
  BY <1>3, WalkSteps
<1>4. CASE FailMethod \/ FinalizeMethod
  BY <1>4, EndSteps
<1>5. CASE ScanForOrphans
  BY <1>5, ScanStepKeeps
<1>6. CASE BeginOrphan
  BY <1>6, OrphanStepKeeps
<1>7. CASE Finish \/ Expire
  BY <1>7, LastSteps
<1> QED BY <1>1, <1>2, <1>3, <1>4, <1>5, <1>6, <1>7 DEF Next, Work, Walk

(* The invariant of the run: methods accounted for, orphans apart, and the  *)
(* method being walked in order.                                            *)
THEOREM RunHolds == Spec => []RunInv
BY InitHolds, NextKeeps, PTL DEF Spec

(* Every method is analysed or told as failed, orphans own code no method   *)
(* has, and a run that left some out says that its budget was spent.        *)
THEOREM MethodsSettle == Spec => []MethodsAreSettled
<1>1. RunInv => MethodsAreSettled
  <2> SUFFICES ASSUME RunInv PROVE MethodsAreSettled
    OBVIOUS
  <2>1. Types /\ Stages /\ WalkInv /\ OrphansOwn /\ Accounts
    BY DEF RunInv
  <2>2. ASSUME phase = "walk", orphan PROVE UnitsOf(st.ins) \cap DOMAIN ins2fn = {}
    <3>1. UnitsOf(st.ins) \subseteq Span(CodeOf(st.start))
      BY <2>1, <2>2, UnitsAreInside DEF Types, WalkInv
    <3>2. Span(CodeOf(st.start)) \cap DOMAIN ins2fn = {}
      BY <2>1, <2>2 DEF OrphansOwn, InOrphans
    <3> QED BY <3>1, <3>2
  <2>3. ASSUME phase = "orphans" PROVE ToSet(orphans) \cap (DOMAIN functions \cup DOMAIN ins2fn) = {}
    <3> SUFFICES ASSUME NEW i \in DOMAIN orphans
                 PROVE  orphans[i] \notin DOMAIN functions /\ orphans[i] \notin DOMAIN ins2fn
      BY DEF ToSet
    <3> DEFINE c == orphans[i]
    <3>1. IsItem(c) /\ Free(c) /\ img \in Images
      BY <2>1, <2>3 DEF OrphansOwn, InOrphans, EachItsOwn, Types
    <3> HIDE DEF c
    <3>2. c \in Span(CodeOf(c))
      BY <3>1, ItemHoldsItsStart
    <3> QED BY <3>1, <3>2 DEF Free, c
  <2>4. OrphansOwnTheirCode
    BY <2>2, <2>3 DEF OrphansOwnTheirCode
  <2>5. MethodsAreAccountedFor
    BY <2>1 DEF Accounts, Accounted, MethodsAreAccountedFor
  <2>6. ShortRunsAreTimeouts
    BY <2>1 DEF Stages, Types, ShortRunsAreTimeouts
  <2> QED BY <2>4, <2>5, <2>6 DEF MethodsAreSettled
<1> QED BY <1>1, RunHolds, PTL

(* The walk keeps inside its code item, and what it keeps is typed.         *)
LEMMA RunIsTyped == RunInv => TypeOK
<1> SUFFICES ASSUME RunInv PROVE TypeOK
  OBVIOUS
<1>1. Types /\ WalkInv
  BY DEF RunInv
<1>2. ASSUME phase = "walk"
      PROVE  /\ st # NoState /\ st.ins \subseteq st.visited
             /\ st.visited \subseteq st.start .. st.end - 1 /\ st.valid \subseteq st.start .. st.end - 1
  <2>1. img \in Images /\ Orderly(st, errors)
    BY <1>1, <1>2 DEF Types, WalkInv
  <2>2. st \in WalkStates /\ Fixed(st) /\ Walks(st, errors)
    BY <2>1 DEF Orderly
  <2>3. st.start \in Int /\ st.end \in Int /\ st.valid \in SUBSET Int
    BY <2>2 DEF WalkStates
  <2>4. st.start # None
    BY <2>1, UnitsAreInside DEF None
  <2>5. st # NoState
    BY <2>4 DEF NoState
  <2>6. \A a \in st.valid : st.start <= a /\ a < st.end
    BY <2>1, <2>2, <2>3, LegalFacts
  <2>7. st.valid \subseteq st.start .. st.end - 1
    BY <2>3, <2>6
  <2> QED BY <2>2, <2>5, <2>7 DEF Walks
<1> QED BY <1>1, <1>2 DEF Types, TypeOK

-----------------------------------------------------------------------------
(* A method that is walked.  Where the passes of the sweep came to their    *)
(* end no legal start lies in a table, and what the walk came to is code.   *)
PassesSuffice == \A image \in Images : \A h \in DOMAIN image.header : Legal[image][h].stop

(* A method of which nothing is left to come to.                            *)
Complete(s, noted) == Orderly(s, noted) /\ s.at = None /\ s.queue = <<>> /\ Clear(s)

(* A set of numbers that is not empty has a smallest.                       *)
LEMMA Smallest ==
    ASSUME NEW S \in SUBSET Nat, S # {}
    PROVE  \E x \in S : \A y \in S : x <= y
<1> DEFINE Less == {ss \in Nat \X Nat : ss[1] < ss[2]}
<1>1. IsWellFoundedOn(Less, Nat)
  BY NatLessThanWellFounded DEF OpToRel
<1>2. PICK x \in S : \A y \in S : ~(<<y, x>> \in Less)
  <2>1. S \subseteq Nat
    OBVIOUS
  <2> HIDE DEF Less
  <2> QED BY <1>1, <2>1, WFMin
<1>3. \A y \in S : <<y, x>> \in Less \/ x <= y
  <2> SUFFICES ASSUME NEW y \in S, ~(x <= y) PROVE <<y, x>> \in Less
    OBVIOUS
  <2>1. x \in Nat /\ y \in Nat /\ y < x
    OBVIOUS
  <2> QED BY <2>1
<1> HIDE DEF Less
<1> QED BY <1>2, <1>3

(* What is legal and was queued is an instruction of the method.            *)
LEMMA QueuedIsWalked ==
    ASSUME img \in Images, NEW s, NEW noted, Complete(s, noted)
    PROVE  /\ s \in WalkStates /\ Fixed(s) /\ Walks(s, noted) /\ References(s) /\ Progress(s)
           /\ s.start \in Nat \ {0} /\ s.end \in Nat /\ s.valid \in SUBSET Int
           /\ s.starts \subseteq s.processed
           /\ \A a \in s.starts \cap s.valid : a \in s.ins
           /\ \A a \in s.ins : FallsThrough(s, a) /\ Behind(a) \in s.valid => Behind(a) \in s.ins
<1>1. s \in WalkStates /\ Fixed(s) /\ Walks(s, noted) /\ References(s) /\ Progress(s)
  BY DEF Complete, Orderly
<1>2. s.start \in Int /\ s.valid \in SUBSET Int
  BY <1>1 DEF WalkStates
<1>3. s.start \in Nat \ {0} /\ s.end \in Nat
  BY <1>1, <1>2, FixedFacts
<1>4. s.starts \subseteq s.processed
  <2>1. ToSet(s.queue) = {}
    BY DEF Complete, ToSet
  <2> QED BY <1>1, <2>1 DEF Progress
<1>5. ASSUME NEW a \in s.valid, Passed(s, a) PROVE a \in s.ins
  <2>1. a \in s.start .. s.end - 1 /\ Decodes(img, a, s.end)
    BY <1>1, <1>2, <1>3, LegalFacts
  <2>2. ~InRanges(a, s.ranges)
    BY DEF Complete, Clear
  <2>3. a \in s.visited
    BY <1>5, <2>1, <2>2 DEF Passed
  <2> QED BY <1>1, <2>1, <2>3 DEF Walks
<1>6. \A a \in s.valid : a # None /\ a # s.at
  BY <1>1, <1>2, <1>3, LegalFacts DEF Complete, None
<1>7. \A a \in s.starts \cap s.valid : a \in s.ins
  BY <1>1, <1>4, <1>5, <1>6 DEF Progress
<1>8. \A a \in s.ins : FallsThrough(s, a) /\ Behind(a) \in s.valid => Behind(a) \in s.ins
  BY <1>1, <1>5, <1>6 DEF Progress
<1> QED BY <1>1, <1>2, <1>3, <1>4, <1>7, <1>8

(* What its instructions lead to, and what is behind them.                  *)
LEMMA WalkedLeads ==
    ASSUME img \in Images, NEW s, NEW noted, Complete(s, noted), NEW a \in s.ins
    PROVE  /\ a \in DOMAIN img.ins /\ a \in s.valid /\ a \in Nat /\ Behind(a) \in Int /\ Behind(a) > a
           /\ ToSet(JumpTargets(s, a)) \subseteq s.starts /\ ToSet(JumpTargets(s, a)) \subseteq s.ins
           /\ ToSet(ExceptionTargets(s, a)) \subseteq s.starts /\ ToSet(ExceptionTargets(s, a)) \subseteq s.ins
           /\ StartsBehind(s, a) \/ Caught(s, a) => Behind(a) \in s.starts
           /\ \A b \in s.ins : a < b => Behind(a) <= b
           /\ RefsFrom(s, a) = RefTargets(s, a)
<1>1. /\ s \in WalkStates /\ Fixed(s) /\ Walks(s, noted) /\ References(s) /\ Progress(s)
      /\ s.start \in Nat \ {0} /\ s.end \in Nat /\ s.valid \in SUBSET Int
      /\ \A b \in s.starts \cap s.valid : b \in s.ins
  BY QueuedIsWalked
<1>2. a \in s.valid /\ s.ins \subseteq s.valid /\ a \in Int
  BY <1>1 DEF Walks
<1>3. s.start <= a /\ a \in DOMAIN img.ins
  BY <1>1, <1>2, LegalFacts DEF Decodes
<1>4. /\ ToSet(NewBlocks(s, a)) =
            ToSet(JumpTargets(s, a)) \cup ToSet(ExceptionTargets(s, a))
                \cup (IF StartsBehind(s, a) \/ Caught(s, a) THEN {Behind(a)} ELSE {})
      /\ ToSet(JumpTargets(s, a)) \subseteq s.valid \cup {a}
      /\ ToSet(ExceptionTargets(s, a)) \subseteq s.valid
      /\ Behind(a) \in Int /\ Behind(a) > a
  BY <1>1, <1>2, <1>3, LeadsAreKnown
<1>5. ToSet(NewBlocks(s, a)) \subseteq s.starts
  BY <1>1 DEF Progress
<1>6. \A b \in s.ins : a < b => Behind(a) <= b
  <2>1. Behind(a) = a + SizeAt(img, a)
    BY DEF Behind, SizeAt
  <2> QED BY <1>1, <1>2, <2>1, LegalFacts
<1>7. RefsFrom(s, a) = RefTargets(s, a)
  <2>1. s.refs \in SUBSET (Int \X Int)
    BY <1>1 DEF WalkStates
  <2>2. \A t : <<a, t>> \in s.refs <=> t \in RefTargets(s, a)
    BY <1>1 DEF References
  <2>3. \A t : t \in RefsFrom(s, a) <=> <<a, t>> \in s.refs
    BY <2>1 DEF RefsFrom
  <2> QED BY <2>2, <2>3
<1> QED BY <1>1, <1>2, <1>3, <1>4, <1>5, <1>6, <1>7

(* The blocks start where the walk queued one.                              *)
LEMMA BlockStartsAreStarts ==
    ASSUME img \in Images, NEW s, NEW noted, Complete(s, noted)
    PROVE  BlockStarts(s) = s.starts
<1> SUFFICES ASSUME NEW jump \in s.jumps PROVE jump[2] \in s.starts
  BY DEF BlockStarts
<1>1. s.jumps \in SUBSET (Int \X Int) /\ References(s)
  BY QueuedIsWalked DEF WalkStates
<1>2. jump = <<jump[1], jump[2]>>
  BY <1>1
<1>3. jump[1] \in s.ins /\ jump[2] \in ToSet(JumpTargets(s, jump[1]))
  BY <1>1, <1>2 DEF References
<1> QED BY <1>3, WalkedLeads

(* A method that is walked to its end holds every target of its branches,   *)
(* switches and handlers.                                                   *)
LEMMA TargetsAreWalked ==
    ASSUME img \in Images, NEW s, NEW noted, Complete(s, noted)
    PROVE  /\ \A jump \in s.jumps : jump[2] \in s.ins
           /\ \A a \in s.ins : ToSet(ExceptionTargets(s, a)) \subseteq s.ins
<1>1. s.jumps \in SUBSET (Int \X Int) /\ References(s)
  BY QueuedIsWalked DEF WalkStates
<1>2. ASSUME NEW jump \in s.jumps PROVE jump[2] \in s.ins
  <2>1. jump = <<jump[1], jump[2]>>
    BY <1>1
  <2>2. jump[1] \in s.ins /\ jump[2] \in ToSet(JumpTargets(s, jump[1]))
    BY <1>1, <2>1 DEF References
  <2> QED BY <2>2, WalkedLeads
<1> QED BY <1>2, WalkedLeads

(* A block runs on to what the walk went on to.                             *)
LEMMA BlocksRunOn ==
    ASSUME img \in Images, NEW s, NEW noted, Complete(s, noted),
           NEW start, NEW a \in BlockFrom(s, start), NEW b \in BlockFrom(s, start), b \in Following(s, a)
    PROVE  \/ b = Behind(a) /\ FallsThrough(s, a)
           \/ a \in s.reported
           \/ Behind(a) \notin s.valid
<1> SUFFICES ASSUME Behind(a) \in s.valid, a \notin s.reported
             PROVE  b = Behind(a) /\ FallsThrough(s, a)
  OBVIOUS
<1>1. a \in s.ins /\ b \in s.ins /\ b > a /\ start <= a /\ ~EndsBlock(s, a)
  BY DEF BlockFrom, Following
<1>2. /\ a \in DOMAIN img.ins /\ a \in Nat /\ Behind(a) \in Int /\ Behind(a) > a
      /\ ToSet(JumpTargets(s, a)) \subseteq s.starts
      /\ RefsFrom(s, a) = RefTargets(s, a) /\ Behind(a) <= b
  BY <1>1, WalkedLeads
<1>3. /\ img.ins[a].kind # "end"
      /\ img.ins[a].kind = "invoke" \/ RefTargets(s, a) = {} \/ RefTargets(s, a) = {b}
      /\ RefsTo(s, b) = {} \/ b \notin BlockStarts(s)
  BY <1>1, <1>2 DEF EndsBlock
<1>4. FallsThrough(s, a)
  <2> SUFFICES ASSUME ~FallsThrough(s, a) PROVE FALSE
    OBVIOUS
  <2>1. img.ins[a].kind \in {"goto", "goto32"}
    BY <1>3 DEF FallsThrough, Terminators
  <2>2. BranchTargets(s, a) # <<>>
    <3>1. Refused(s, a) => a \in s.reported
      BY <1>1, QueuedIsWalked DEF References
    <3> QED BY <2>1, <3>1 DEF Refused
  <2>3. JumpTargets(s, a) = BranchTargets(s, a)
    BY <2>1 DEF JumpTargets
  <2>4. PICK t : BranchTargets(s, a) = <<t>>
    BY <2>2 DEF BranchTargets
  <2>5. t \in ToSet(JumpTargets(s, a))
    BY <2>3, <2>4 DEF ToSet
  <2>6. t \in RefTargets(s, a) /\ t \in s.starts
    BY <1>2, <2>5 DEF RefTargets
  <2>7. t = b
    BY <1>3, <2>1, <2>6
  <2>8. <<a, b>> \in s.refs
    BY <1>1, <2>6, <2>7, QueuedIsWalked DEF References
  <2>9. a \in RefsTo(s, b)
    BY <2>8 DEF RefsTo
  <2> QED BY <1>3, <2>6, <2>7, <2>9 DEF BlockStarts
<1>5. Behind(a) \in s.ins
  BY <1>1, <1>4, QueuedIsWalked
<1>6. b <= Behind(a)
  BY <1>2, <1>5 DEF Following
<1>7. b \in Nat
  BY <1>1, WalkedLeads
<1> QED BY <1>2, <1>4, <1>6, <1>7

(* The passes suffice for a code item that names fewer tables than there    *)
(* are passes: each pass that asks for another one has found a new table.   *)
Naming(image, h) ==
    {a \in CodeStart(h) .. CodeEnd(image, h) - 1 :
        a \in DOMAIN image.ins /\ image.ins[a].kind \in {"switch", "fill"}}
FewTables == \A image \in Images : \A h \in DOMAIN image.header : Cardinality(Naming(image, h)) < MaxPasses

TablesIn(image, start, end) ==
    UNION {TableAt(image, a, start, end) : a \in (start .. end - 1) \cap DOMAIN image.ins}

(* There are no more tables in a code item than instructions that name one. *)
LEMMA TablesAreNamed ==
    ASSUME NEW image \in Images, NEW h \in DOMAIN image.header
    PROVE  LET tables == TablesIn(image, CodeStart(h), CodeEnd(image, h))
           IN  IsFiniteSet(tables) /\ Cardinality(tables) <= Cardinality(Naming(image, h))
               /\ Cardinality(Naming(image, h)) \in Nat
<1> DEFINE start == CodeStart(h)
           end == CodeEnd(image, h)
           S == Naming(image, h)
           range(a) == <<image.ins[a].to, image.ins[a].to + PayloadSize(image, image.ins[a].to, start, end)>>
           T == {range(a) : a \in S}
           f == [a \in S |-> range(a)]
           tables == TablesIn(image, start, end)
<1>1. IsFiniteSet(S)
  <2>1. start \in Int /\ end - 1 \in Int
    BY HeaderFacts
  <2>2. S \subseteq start .. end - 1
    BY DEF Naming
  <2> HIDE DEF S, start, end
  <2> QED BY <2>1, <2>2, FS_Interval, FS_Subset
<1>2. tables \subseteq T
  <2> SUFFICES ASSUME NEW a \in (start .. end - 1) \cap DOMAIN image.ins, NEW t \in TableAt(image, a, start, end)
               PROVE  t \in T
    BY DEF TablesIn
  <2>1. image.ins[a].kind \in {"switch", "fill"} /\ t = range(a)
    BY DEF TableAt
  <2>2. a \in S
    BY <2>1 DEF Naming
  <2> QED BY <2>1, <2>2
<1>3. f \in Surjection(S, T)
  BY DEF Surjection
<1>4. IsFiniteSet(T) /\ Cardinality(T) <= Cardinality(S)
  <2> HIDE DEF f, T, S
  <2> QED BY <1>1, <1>3, FS_Surjection
<1> HIDE DEF T, S, f, tables
<1>5. IsFiniteSet(tables) /\ Cardinality(tables) <= Cardinality(T)
  BY <1>2, <1>4, FS_Subset
<1>6. Cardinality(tables) \in Nat /\ Cardinality(T) \in Nat /\ Cardinality(S) \in Nat
  BY <1>1, <1>4, <1>5, FS_CardinalityType
<1>7. Cardinality(tables) <= Cardinality(S)
  BY <1>4, <1>5, <1>6
<1> QED BY <1>5, <1>6, <1>7 DEF tables, start, end, S

(* A pass keeps the tables it begins with and finds no other than these.    *)
LEMMA PassFinds ==
    ASSUME NEW image \in Images, NEW start \in Int, NEW end \in Int, end - start \in Nat,
           NEW seeds \in SUBSET (Int \X Int), seeds \subseteq TablesIn(image, start, end)
    PROVE  LET s == Sweep(image, start, end, seeds)
           IN  seeds \subseteq s.ranges /\ s.ranges \subseteq TablesIn(image, start, end)
<1> DEFINE N == end - start
           after == SweepSteps(image, start, end, seeds)
           all == TablesIn(image, start, end)
           T == {n \in 0 .. N : after[n] \in SweepStates /\ after[n].at >= start /\ after[n].ranges \subseteq all}
<1>1. N \in Nat /\ after[0] = SweepStart(start, seeds)
      /\ \A n \in 1 .. N : after[n] = SweepStep(image, after[n - 1], start, end)
  BY SweepLoop
<1>2. Sweep(image, start, end, seeds) = after[N]
  BY DEF Sweep
<1> HIDE DEF after, N
<1>3. 0 \in T
  <2> DEFINE z == SweepStart(start, seeds)
  <2>1. z \in SweepStates /\ z.at = start /\ z.ranges = seeds
    BY DEF SweepStart, SweepStates
  <2> HIDE DEF z
  <2> QED BY <1>1, <2>1 DEF z
<1>4. ASSUME NEW n \in 1 .. N, n - 1 \in T PROVE n \in T
  <2> DEFINE s == after[n - 1]
             t == SweepStep(image, s, start, end)
             blocked == InRanges(s.at, s.ranges) \/ ~Decodes(image, s.at, end)
  <2>1. s \in SweepStates /\ s.at >= start /\ s.ranges \subseteq all /\ s.at \in Int
    BY <1>4 DEF SweepStates
  <2>2. after[n] = t
    BY <1>1
  <2> HIDE DEF s
  <2>3. /\ t \in SweepStates
        /\ s.at >= end => t = s
        /\ s.at < end /\ blocked => t.at = s.at + 1 /\ t.ranges = s.ranges
        /\ s.at < end /\ ~blocked =>
              t.at = s.at + image.ins[s.at].size /\ t.ranges = s.ranges \cup TableAt(image, s.at, start, end)
    BY <2>1, SweepSteps3
  <2>4. s.at < end /\ ~blocked =>
           image.ins[s.at].size \in Nat /\ s.at \in (start .. end - 1) \cap DOMAIN image.ins
    BY <2>1, InsFacts DEF Decodes
  <2> HIDE DEF t, blocked
  <2>5. t.at >= start
    BY <2>1, <2>3, <2>4
  <2>6. t.ranges \subseteq all
    BY <2>1, <2>3, <2>4 DEF TablesIn
  <2> QED BY <1>1, <2>2, <2>3, <2>5, <2>6
<1>5. N \in T
  <2> HIDE DEF T
  <2>1. 0 .. N \subseteq T
    BY <1>1, <1>3, <1>4, InductionUpTo
  <2> QED BY <1>1, <2>1
<1>6. seeds \subseteq Sweep(image, start, end, seeds).ranges
  BY SweepFinds DEF FoundSoFar
<1> QED BY <1>2, <1>5, <1>6

(* Each pass but the last finds a table, so a method with fewer such        *)
(* instructions than the passes the code allows is swept to the end.        *)
LEMMA FewTablesSuffice == FewTables => PassesSuffice
<1> SUFFICES ASSUME FewTables, NEW image \in Images, NEW h \in DOMAIN image.header
             PROVE  Legal[image][h].stop
  BY DEF PassesSuffice
<1> DEFINE start == CodeStart(h)
           end == CodeEnd(image, h)
           all == TablesIn(image, start, end)
           after == Passes(image, start, end)
           Going(p, n) == /\ p.stop \in BOOLEAN /\ p.ranges \in SUBSET (Int \X Int) /\ p.ranges \subseteq all
                          /\ p.stop \/ Cardinality(p.ranges) >= n
           T == {n \in 0 .. MaxPasses : n = 0 \/ Going(after[n], n)}
<1>1. start \in Int /\ end \in Int /\ end - start \in Nat /\ MaxPasses \in Nat \ {0}
  BY HeaderFacts, DalvikAssumption
<1>2. Legal[image][h] = after[MaxPasses]
  BY DEF Legal, ValidStarts, CodeStart, CodeEnd
<1>3. IsFiniteSet(all) /\ Cardinality(all) < MaxPasses /\ Cardinality(all) \in Nat
  <2>1. Cardinality(Naming(image, h)) < MaxPasses
    BY DEF FewTables
  <2>2. IsFiniteSet(all) /\ Cardinality(all) <= Cardinality(Naming(image, h)) /\ Cardinality(Naming(image, h)) \in Nat
    BY TablesAreNamed
  <2>3. Cardinality(all) \in Nat
    BY <2>2, FS_CardinalityType
  <2> QED BY <1>1, <2>1, <2>2, <2>3
<1> HIDE DEF start, end
<1>4. /\ after[1] = Swept(Sweep(image, start, end, {}), {}, TRUE)
      /\ \A n \in 2 .. MaxPasses : after[n] = NextPass(image, after[n - 1], start, end)
  BY <1>1, PassLoop
<1> HIDE DEF after, all
<1>5. ASSUME NEW seeds \in SUBSET (Int \X Int), seeds \subseteq all, NEW first \in BOOLEAN, NEW n \in Nat,
             Cardinality(seeds) >= n
      PROVE  Going(Swept(Sweep(image, start, end, seeds), seeds, first), n + 1)
  <2> DEFINE s == Sweep(image, start, end, seeds)
             p == Swept(s, seeds, first)
  <2>1. seeds \subseteq s.ranges /\ s.ranges \subseteq all
    BY <1>1, <1>5, PassFinds DEF all
  <2>2. s.ranges \in SUBSET (Int \X Int)
    BY <1>1, SweepFinds DEF FoundSoFar, SweepStates
  <2> HIDE DEF s
  <2>3. p.ranges = s.ranges /\ p.stop = (s.ranges = seeds \/ (first /\ ~s.back))
    BY DEF Swept
  <2>4. IsFiniteSet(s.ranges) /\ IsFiniteSet(seeds)
    BY <1>3, <2>1, FS_Subset
  <2>5. Cardinality(seeds) <= Cardinality(s.ranges) /\ (Cardinality(s.ranges) = Cardinality(seeds) => s.ranges = seeds)
    BY <2>1, <2>4, FS_Subset
  <2>6. Cardinality(seeds) \in Nat /\ Cardinality(s.ranges) \in Nat
    BY <2>4, FS_CardinalityType
  <2>7. s.ranges = seeds \/ Cardinality(s.ranges) >= n + 1
    BY <1>5, <2>5, <2>6
  <2> HIDE DEF p
  <2>8. p.stop \in BOOLEAN /\ (s.ranges = seeds => p.stop)
    BY <2>3
  <2> QED BY <2>1, <2>2, <2>3, <2>7, <2>8 DEF p, s
<1>6. 0 \in T
  BY <1>1
<1>7. Going(after[1], 1)
  <2>1. {} \in SUBSET (Int \X Int) /\ {} \subseteq all /\ Cardinality({}) >= 0
    BY FS_EmptySet
  <2>2. Going(Swept(Sweep(image, start, end, {}), {}, TRUE), 0 + 1)
    <3> HIDE DEF Going
    <3> QED BY <1>5, <2>1
  <2>3. 0 + 1 = 1
    OBVIOUS
  <2> HIDE DEF Going
  <2> QED BY <1>4, <2>2, <2>3, Zenon
<1>8. ASSUME NEW n \in 1 .. MaxPasses, n - 1 \in T PROVE n \in T
  <2>1. CASE n = 1
    BY <1>1, <1>7, <2>1
  <2>2. CASE n # 1
    <3>1. n \in 2 .. MaxPasses /\ n - 1 # 0 /\ n - 1 \in Nat /\ (n - 1) + 1 = n
      BY <1>1, <2>2
    <3>2. Going(after[n - 1], n - 1)
      BY <1>8, <3>1
    <3> DEFINE p == after[n - 1]
    <3>3. after[n] = IF p.stop THEN p ELSE Swept(Sweep(image, start, end, p.ranges), p.ranges, FALSE)
      BY <1>4, <3>1 DEF NextPass
    <3>4. CASE p.stop
      <4>1. Going(after[n], n)
        BY <3>2, <3>3, <3>4, Zenon
      <4> HIDE DEF Going
      <4> QED BY <1>1, <4>1
    <3>5. CASE ~p.stop
      <4>1. p.ranges \in SUBSET (Int \X Int) /\ p.ranges \subseteq all /\ Cardinality(p.ranges) >= n - 1
        BY <3>2, <3>5
      <4> HIDE DEF p, Going
      <4>2. Going(Swept(Sweep(image, start, end, p.ranges), p.ranges, FALSE), (n - 1) + 1)
        BY <1>5, <3>1, <4>1
      <4>3. after[n] = Swept(Sweep(image, start, end, p.ranges), p.ranges, FALSE)
        BY <3>3, <3>5, Zenon
      <4>4. Going(after[n], n)
        BY <3>1, <4>2, <4>3, Zenon
      <4> QED BY <1>1, <4>4
    <3> QED BY <3>4, <3>5
  <2> QED BY <2>1, <2>2
<1>9. MaxPasses \in T
  <2> HIDE DEF T
  <2>1. 0 .. MaxPasses \subseteq T
    BY <1>1, <1>6, <1>8, InductionUpTo
  <2> QED BY <1>1, <2>1
<1>10. Going(after[MaxPasses], MaxPasses)
  <2> HIDE DEF Going
  <2> QED BY <1>1, <1>9
<1>11. ASSUME ~after[MaxPasses].stop PROVE FALSE
  <2>1. after[MaxPasses].ranges \subseteq all /\ Cardinality(after[MaxPasses].ranges) >= MaxPasses
    BY <1>10, <1>11
  <2>2. IsFiniteSet(after[MaxPasses].ranges) /\ Cardinality(after[MaxPasses].ranges) <= Cardinality(all)
    BY <1>3, <2>1, FS_Subset
  <2>3. Cardinality(after[MaxPasses].ranges) \in Nat
    BY <2>2, FS_CardinalityType
  <2> QED BY <1>1, <1>3, <2>1, <2>2, <2>3
<1> QED BY <1>2, <1>11

(* The instruction behind one that falls through is next in address order,  *)
(* and unless a block or a call leads to it, it is in the same block.       *)
Outside(s, a) ==
    \E b \in s.ins :
        /\ img.ins[b].kind = "invoke" /\ img.ins[b].to \in s.ins
        /\ img.ins[b].to <= a
        /\ \A start \in BlockStarts(s) \cap s.ins : start < img.ins[b].to \/ a < start

InABlock(s, a) == \E block \in GetBlocks(s) : a \in block

(* If the instruction behind one was walked, it is the next of the method   *)
(* in address order.                                                        *)
LEMMA NextIsFollowing ==
    ASSUME img \in Images, NEW s, NEW noted, Complete(s, noted), NEW a \in s.ins, Behind(a) \in s.ins
    PROVE  Following(s, a) = {Behind(a)}
<1>1. Behind(a) > a /\ Behind(a) \in Int /\ \A b \in s.ins : b > a => Behind(a) <= b
  <2>1. s.ins \subseteq Int /\ a \in Int
    BY QueuedIsWalked DEF WalkStates
  <2>2. Behind(a) > a /\ Behind(a) \in Int /\ \A b \in s.ins : a < b => Behind(a) <= b
    BY WalkedLeads
  <2> QED BY <2>1, <2>2
<1>2. s.ins \subseteq Int
  BY QueuedIsWalked DEF WalkStates
<1> QED BY <1>1, <1>2 DEF Following

(* A block holds the instruction behind one of its own that falls through   *)
(* to no block start, unless a call of the method leads there.              *)
LEMMA BlockGoesOn ==
    ASSUME img \in Images, NEW s, NEW noted, Complete(s, noted),
           NEW p \in s.ins, FallsThrough(s, p), Behind(p) \in s.ins, Behind(p) \notin s.starts
    PROVE  /\ EndsBlock(s, p) => \E q \in s.ins : img.ins[q].kind = "invoke" /\ img.ins[q].to = Behind(p)
           /\ \A start \in s.ins : ~EndsBlock(s, p) /\ p \in BlockFrom(s, start) => Behind(p) \in BlockFrom(s, start)
<1> DEFINE a == Behind(p)
<1>1. /\ p \in DOMAIN img.ins /\ p \in Nat /\ a \in Int /\ a > p /\ p \in s.valid /\ a \in s.valid
      /\ ToSet(JumpTargets(s, p)) \subseteq s.starts /\ ToSet(ExceptionTargets(s, p)) \subseteq s.starts
      /\ StartsBehind(s, p) \/ Caught(s, p) => a \in s.starts
      /\ RefsFrom(s, p) = RefTargets(s, p)
      /\ \A b \in s.ins : p < b => a <= b
  BY WalkedLeads
<1>2. Following(s, p) = {a}
  BY NextIsFollowing
<1>3. BlockStarts(s) = s.starts /\ s.refs \in SUBSET (Int \X Int) /\ References(s) /\ s.ins \in SUBSET Int
  BY BlockStartsAreStarts, QueuedIsWalked DEF WalkStates
<1>4. ~StartsBehind(s, p) /\ ~Caught(s, p)
  BY <1>1
<1> HIDE DEF a
<1>5. img.ins[p].kind \notin Terminators
  BY DEF FallsThrough
<1>6. img.ins[p].kind # "invoke" => RefTargets(s, p) = {a}
  <2> SUFFICES ASSUME img.ins[p].kind # "invoke" PROVE RefTargets(s, p) = {a}
    OBVIOUS
  <2>1. Callees(p) = {}
    BY DEF Callees
  <2>2. ExceptionTargets(s, p) = <<>>
    BY <1>1, <1>4 DEF Caught, a
  <2>3. JumpTargets(s, p) = <<>>
    <3>1. img.ins[p].kind \notin {"goto", "goto32", "if"}
      BY <1>4, <1>5 DEF StartsBehind, Terminators
    <3>2. ~(Table(s, p) # {} /\ img.ins[p].kind = "switch")
      BY <1>1, <1>4 DEF StartsBehind, a
    <3> QED BY <3>1, <3>2 DEF JumpTargets
  <2>4. ToSet(<<>>) = {}
    BY DEF ToSet
  <2> QED BY <2>1, <2>2, <2>3, <2>4 DEF RefTargets, a
<1>7. ASSUME EndsBlock(s, p)
      PROVE  \E q \in s.ins : img.ins[q].kind = "invoke" /\ img.ins[q].to = a
  <2>1. Cardinality(RefsTo(s, a)) > 1
    <3>1. img.ins[p].kind # "end"
      BY <1>5 DEF Terminators
    <3>2. a \notin BlockStarts(s)
      BY <1>3 DEF a
    <3>3. \E b \in {a} : \/ /\ img.ins[p].kind # "invoke"
                            /\ RefsFrom(s, p) # {} /\ RefsFrom(s, p) # {b}
                         \/ /\ RefsTo(s, b) # {}
                            /\ b \in BlockStarts(s) \/ Cardinality(RefsTo(s, b)) > 1
      BY <1>2, <1>7, <3>1 DEF EndsBlock
    <3> QED BY <1>1, <1>6, <3>2, <3>3
  <2>2. PICK q \in RefsTo(s, a) : q # p
    <3> SUFFICES ASSUME RefsTo(s, a) \subseteq {p} PROVE FALSE
      OBVIOUS
    <3>1. IsFiniteSet({p}) /\ Cardinality({p}) = 1
      BY FS_Singleton
    <3>2. IsFiniteSet(RefsTo(s, a)) /\ Cardinality(RefsTo(s, a)) <= 1
      BY <3>1, FS_Subset
    <3>3. Cardinality(RefsTo(s, a)) \in Nat
      BY <3>2, FS_CardinalityType
    <3> QED BY <2>1, <3>2, <3>3
  <2>3. q \in s.ins /\ a \in RefTargets(s, q)
    <3>1. <<q, a>> \in s.refs
      BY <1>3, <2>2 DEF RefsTo
    <3> QED BY <1>3, <3>1 DEF References
  <2>4. a \notin ToSet(JumpTargets(s, q)) /\ a \notin ToSet(ExceptionTargets(s, q))
    BY <2>3, WalkedLeads DEF a
  <2>5. ~(FallsThrough(s, q) /\ Behind(q) = a)
    <3>1. q \in Nat /\ Behind(q) > q /\ \A b \in s.ins : q < b => Behind(q) <= b
      BY <2>3, WalkedLeads
    <3>2. CASE q < p
      BY <1>1, <3>1, <3>2
    <3>3. CASE p < q
      BY <1>1, <2>3, <3>1, <3>3
    <3> QED BY <1>1, <2>2, <3>1, <3>2, <3>3
  <2>6. a \in Callees(q)
    BY <2>3, <2>4, <2>5 DEF RefTargets
  <2> QED BY <2>3, <2>6 DEF Callees
<1>8. ASSUME NEW start \in s.ins, ~EndsBlock(s, p), p \in BlockFrom(s, start)
      PROVE  a \in BlockFrom(s, start)
  <2>1. start \in Int /\ p >= start /\ \A b \in s.ins : start <= b /\ b < p => ~EndsBlock(s, b)
    BY <1>3, <1>8 DEF BlockFrom
  <2>2. a \in s.ins
    BY DEF a
  <2>3. \A b \in s.ins : start <= b /\ b < a => ~EndsBlock(s, b)
    <3> SUFFICES ASSUME NEW b \in s.ins, start <= b, b < a PROVE ~EndsBlock(s, b)
      OBVIOUS
    <3>1. b \in Int
      BY <1>3
    <3>2. b = p \/ b < p
      BY <1>1, <3>1
    <3> QED BY <1>8, <2>1, <3>2
  <2> QED BY <1>1, <2>1, <2>2, <2>3 DEF BlockFrom
<1> QED BY <1>7, <1>8 DEF a

(* So every instruction that was walked is in a block, or runs on from a    *)
(* call of the method into itself: the smallest that is not would follow    *)
(* one that is.                                                             *)
LEMMA NothingIsLost ==
    ASSUME img \in Images, NEW s, NEW noted, Complete(s, noted)
    PROVE  \A a \in s.ins : InABlock(s, a) \/ Outside(s, a)
<1> DEFINE bad == {a \in s.ins : ~InABlock(s, a) /\ ~Outside(s, a)}
<1>1. /\ BlockStarts(s) = s.starts /\ s.ins \in SUBSET Int
      /\ Progress(s)
  BY BlockStartsAreStarts, QueuedIsWalked DEF WalkStates
<1>2. bad \in SUBSET Nat
  BY WalkedLeads
<1> SUFFICES ASSUME bad # {} PROVE FALSE
  OBVIOUS
<1>3. PICK a \in bad : \A b \in bad : a <= b
  <2> HIDE DEF bad
  <2> QED BY <1>2, Smallest
<1>4. a \in s.ins /\ ~InABlock(s, a) /\ ~Outside(s, a) /\ a \in Nat
  BY <1>2
<1>5. a \notin s.starts
  <2> SUFFICES ASSUME a \in s.starts PROVE InABlock(s, a)
    BY <1>4
  <2>1. a \in BlockFrom(s, a)
    BY <1>4, <1>1 DEF BlockFrom
  <2> QED BY <1>1, <1>4, <2>1 DEF InABlock, GetBlocks
<1>6. PICK p \in s.ins : FallsThrough(s, p) /\ Behind(p) = a
  BY <1>1, <1>4, <1>5 DEF Progress, Reached
<1>7. p \in Nat /\ p < a /\ \A b \in s.ins : p < b => a <= b
  BY <1>6, WalkedLeads
<1>8. InABlock(s, p) \/ Outside(s, p)
  <2>1. p \notin bad
    BY <1>3, <1>4, <1>7
  <2> QED BY <1>6, <2>1
<1> HIDE DEF bad
<1>9. CASE InABlock(s, p)
  <2>1. PICK start \in BlockStarts(s) \cap s.ins : p \in BlockFrom(s, start)
    BY <1>9 DEF InABlock, GetBlocks
  <2>2. CASE EndsBlock(s, p)
    <3>1. PICK q \in s.ins : img.ins[q].kind = "invoke" /\ img.ins[q].to = a
      BY <1>4, <1>5, <1>6, <2>2, BlockGoesOn
    <3>2. \A b \in BlockStarts(s) \cap s.ins : b < a \/ a < b
      BY <1>1, <1>4, <1>5
    <3>3. Outside(s, a)
      BY <1>4, <3>1, <3>2 DEF Outside
    <3> QED BY <1>4, <3>3
  <2>3. CASE ~EndsBlock(s, p)
    <3>1. a \in BlockFrom(s, start)
      BY <1>4, <1>5, <1>6, <2>1, <2>3, BlockGoesOn
    <3>2. InABlock(s, a)
      BY <2>1, <3>1 DEF InABlock, GetBlocks
    <3> QED BY <1>4, <3>2
  <2> QED BY <2>2, <2>3
<1>10. CASE Outside(s, p)
  <2>1. PICK b \in s.ins : /\ img.ins[b].kind = "invoke" /\ img.ins[b].to \in s.ins
                           /\ img.ins[b].to <= p
                           /\ \A start \in BlockStarts(s) \cap s.ins : start < img.ins[b].to \/ p < start
    BY <1>10 DEF Outside
  <2> DEFINE c == img.ins[b].to
  <2>2. c \in Int /\ c <= a
    <3>1. c \in Int /\ c <= p /\ p \in Int
      BY <1>1, <2>1
    <3> HIDE DEF c
    <3> QED BY <1>4, <1>7, <3>1
  <2>3. \A start \in BlockStarts(s) \cap s.ins : start < c \/ a < start
    <3> SUFFICES ASSUME NEW start \in s.starts, start \in s.ins PROVE start < c \/ a < start
      BY <1>1
    <3>1. start < c \/ p < start
      BY <1>1, <2>1
    <3>2. p < start => a <= start
      BY <1>7
    <3>3. start # a /\ start \in Int
      BY <1>1, <1>5
    <3> QED BY <1>4, <3>1, <3>2, <3>3
  <2>4. Outside(s, a)
    BY <2>1, <2>2, <2>3 DEF Outside
  <2> QED BY <1>4, <2>4
<1> QED BY <1>8, <1>9, <1>10

(* Whatever the file holds, as long as the passes of the sweep suffice, a   *)
(* walked method is its instructions: branches lead to some of them, none   *)
(* is read out of a payload, and the blocks begin and end where the paths   *)
(* do.                                                                      *)
THEOREM MethodsWalkWhole ==
    ASSUME PassesSuffice
    PROVE  Spec => []MethodsAreWalkedWhole
<1>1. RunInv => MethodsAreWalkedWhole
  <2> SUFFICES ASSUME RunInv PROVE MethodsAreWalkedWhole
    OBVIOUS
  <2>1. img \in Images /\ WalkInv
    BY DEF RunInv, Types
  <2>2. PayloadsAreNotCode
    BY <2>1 DEF WalkInv, Orderly, Walks, PayloadsAreNotCode
  <2>3. ASSUME Settled PROVE Complete(st, errors)
    <3>1. Orderly(st, errors) /\ st.at = None /\ st.queue = <<>>
      BY <2>1, <2>3 DEF Settled, WalkInv
    <3>2. Fixed(st) /\ st.start \in Int /\ HeaderOf(st) \in DOMAIN img.header
      BY <3>1 DEF Orderly, WalkStates, Fixed
    <3>3. Legal[img][HeaderOf(st)].stop
      BY <2>1, <3>2 DEF PassesSuffice
    <3>4. Clear(st)
      BY <2>1, <3>2, <3>3, LegalFacts
    <3> QED BY <3>1, <3>4 DEF Complete
  <2>4. TargetsAreInstructions
    BY <2>1, <2>3, TargetsAreWalked DEF TargetsAreInstructions
  <2>5. InstructionsAreInBlocks
    <3> SUFFICES ASSUME Settled, NEW a \in st.ins PROVE InABlock(st, a) \/ Outside(st, a)
      BY DEF InstructionsAreInBlocks, InABlock, Outside
    <3> QED BY <2>1, <2>3, NothingIsLost
  <2>6. BlocksFollowTheWalk
    <3> SUFFICES ASSUME Settled, NEW start, NEW a \in BlockFrom(st, start), NEW b \in BlockFrom(st, start),
                        b \in Following(st, a)
                 PROVE  \/ b = Behind(a) /\ FallsThrough(st, a)
                        \/ a \in st.reported
                        \/ Behind(a) \notin st.valid
      BY DEF BlocksFollowTheWalk, GetBlocks
    <3> QED BY <2>1, <2>3, BlocksRunOn
  <2> QED BY <2>2, <2>4, <2>5, <2>6, RunIsTyped DEF MethodsAreWalkedWhole
<1> QED BY <1>1, RunHolds, PTL
=============================================================================
