------------------------- MODULE BatchProcessor_proofs -------------------------
(***************************************************************************)
(* For every corpus, worker count and memory budget: the pools stay within *)
(* the workers asked for, and every file gets one summary.                 *)
(***************************************************************************)
EXTENDS BatchProcessor, FiniteSetTheorems, TLAPS

(* The files that go to the large pool. *)
LargeShare ==
    IF HasTwoPools(tasks \cap LargeFiles, tasks \ LargeFiles)
    THEN tasks \cap LargeFiles ELSE {}

Share(pool) == IF pool = "large" THEN LargeShare ELSE tasks \ LargeShare

(* A pool sees its own files only, each either waiting or submitted. *)
Apart ==
    \A pool \in Pools :
        /\ pending[pool] \cup flight[pool] \subseteq Share(pool)
        /\ pending[pool] \cap flight[pool] = {}

Limited == \A pool \in Pools : Cardinality(Busy(pool)) <= PoolWorkers(pool)

Open(f) == \E pool \in Pools : f \in pending[pool] \cup flight[pool]

(* A file is open or told, and told once.  A stop forgets what was open. *)
ToldOnce ==
    \A f \in Files :
        /\ Len(told[f]) <= 1
        /\ Open(f) => told[f] = <<>>
        /\ f \in tasks /\ phase # "closed" => Open(f) \/ Len(told[f]) = 1
        /\ f \in tasks /\ phase = "returned" => ~Open(f)

BInv == TypeOK /\ Apart /\ Limited /\ ToldOnce

-----------------------------------------------------------------------------
(* How the workers are shared out. *)

LEMMA MaxOne ==
    ASSUME NEW x \in Int
    PROVE  Max({1, x}) = IF x >= 1 THEN x ELSE 1
<1>1. PICK m \in {1, x} : \A y \in {1, x} : m >= y
  OBVIOUS
<1>2. /\ Max({1, x}) \in {1, x}
      /\ \A y \in {1, x} : Max({1, x}) >= y
  BY <1>1 DEF Max
<1>3. QED
  BY <1>2

LEMMA MinTwo ==
    ASSUME NEW x \in Int, NEW y \in Int
    PROVE  Min({x, y}) = IF x <= y THEN x ELSE y
<1>1. PICK m \in {x, y} : \A z \in {x, y} : m <= z
  OBVIOUS
<1>2. /\ Min({x, y}) \in {x, y}
      /\ \A z \in {x, y} : Min({x, y}) <= z
  BY <1>1 DEF Min
<1>3. QED
  BY <1>2

LEMMA MinThree ==
    ASSUME NEW x \in Int, NEW y \in Int, NEW z \in Int
    PROVE  Min({x, y, z}) \in Int /\ Min({x, y, z}) <= x
<1>1. PICK m \in {x, y, z} : \A w \in {x, y, z} : m <= w
  OBVIOUS
<1>2. /\ Min({x, y, z}) \in {x, y, z}
      /\ \A w \in {x, y, z} : Min({x, y, z}) <= w
  BY <1>1 DEF Min
<1>3. QED
  BY <1>2

(* At least one, and otherwise no more than any of the bounds. *)
LEMMA ClampTwo ==
    ASSUME NEW x \in Int, NEW y \in Int
    PROVE  /\ Max({1, Min({x, y})}) \in Nat \ {0}
           /\ Max({1, Min({x, y})}) = 1 \/ Max({1, Min({x, y})}) <= x
<1>1. Min({x, y}) \in Int /\ Min({x, y}) <= x
  BY MinTwo
<1>2. QED
  BY <1>1, MaxOne

LEMMA ClampThree ==
    ASSUME NEW x \in Int, NEW y \in Int, NEW z \in Int
    PROVE  /\ Max({1, Min({x, y, z})}) \in Nat \ {0}
           /\ Max({1, Min({x, y, z})}) = 1 \/ Max({1, Min({x, y, z})}) <= x
<1>1. Min({x, y, z}) \in Int /\ Min({x, y, z}) <= x
  BY MinThree
<1>2. QED
  BY <1>1, MaxOne

LEMMA FilesFinite ==
    /\ IsFiniteSet(Files)
    /\ \A S \in SUBSET Files : IsFiniteSet(S) /\ Cardinality(S) \in Nat
<1>1. Len(Corpus) \in Nat /\ IsFiniteSet(Files)
  BY BatchAssumption, FS_Interval DEF Files
<1>2. QED
  BY <1>1, FS_Subset, FS_CardinalityType

(* What the workers are shared out by. *)
LEMMA CountBounded ==
    ASSUME NEW n \in Nat
    PROVE  WorkerCount(n) \in Nat \ {0} /\ WorkerCount(n) <= workers
<1>1. workers \in Int /\ workers >= 1 /\ n \in Int
  BY BatchAssumption
<1>2. WorkerCount(n) = Max({1, Min({workers, n})})
  BY DEF WorkerCount
<1> HIDE DEF WorkerCount
<1>3. QED
  BY <1>1, <1>2, ClampTwo

LEMMA LargeBounded ==
    ASSUME NEW large \in SUBSET Files, NEW small \in SUBSET Files
    PROVE  LET count == WorkerCount(Cardinality(large \cup small))
           IN  /\ LargeWorkers(large, small) \in Nat \ {0}
               /\ LargeWorkers(large, small) <= count
               /\ small # {} /\ count > 1 => LargeWorkers(large, small) < count
<1> DEFINE count    == WorkerCount(Cardinality(large \cup small))
           reserved == IF small # {} THEN 1 ELSE 0
           room     == count - reserved
<1>1. LargeWorkers(large, small) = Max({1, Min({room, Cardinality(large), Capacity})})
  BY DEF LargeWorkers
<1>2. count \in Nat \ {0}
  BY FilesFinite, CountBounded
<1> HIDE DEF count
<1>3. /\ room \in Int /\ room <= count
      /\ small # {} => room < count
  BY <1>2
<1> HIDE DEF room
<1>4. Cardinality(large) \in Int /\ Capacity \in Int
  BY FilesFinite, BatchAssumption
<1>5. /\ LargeWorkers(large, small) \in Nat \ {0}
      /\ LargeWorkers(large, small) = 1 \/ LargeWorkers(large, small) <= room
  BY <1>1, <1>3, <1>4, ClampThree
<1>6. QED
  BY <1>2, <1>3, <1>5 DEF count

LEMMA SmallBounded ==
    ASSUME NEW large \in SUBSET Files, NEW small \in SUBSET Files
    PROVE  LET count == WorkerCount(Cardinality(large \cup small))
               rest  == IF HasTwoPools(large, small) THEN LargeWorkers(large, small) ELSE 0
           IN  /\ SmallWorkers(large, small) \in Nat \ {0}
               /\ SmallWorkers(large, small) = 1 \/ SmallWorkers(large, small) <= count - rest
<1> DEFINE count == WorkerCount(Cardinality(large \cup small))
           two   == HasTwoPools(large, small)
           rest  == IF two THEN LargeWorkers(large, small) ELSE 0
           own   == IF two THEN small ELSE large \cup small
           room  == count - rest
<1>1. SmallWorkers(large, small) = Max({1, Min({room, Cardinality(own)})})
  BY DEF SmallWorkers
<1>2. room \in Int
  <2>1. count \in Nat
    BY FilesFinite, CountBounded
  <2>2. LargeWorkers(large, small) \in Nat
    BY LargeBounded
  <2> HIDE DEF count, two
  <2>3. QED
    BY <2>1, <2>2
<1>3. Cardinality(own) \in Int
  BY FilesFinite
<1> HIDE DEF room, own
<1>4. /\ SmallWorkers(large, small) \in Nat \ {0}
      /\ SmallWorkers(large, small) = 1 \/ SmallWorkers(large, small) <= room
  BY <1>1, <1>2, <1>3, ClampTwo
<1>5. QED
  BY <1>4 DEF room

(* Every pool has a worker. *)
LEMMA WorkersPositive ==
    ASSUME tasks \in SUBSET Files
    PROVE  \A pool \in Pools : PoolWorkers(pool) \in Nat \ {0}
BY LargeBounded, SmallBounded DEF PoolWorkers

(* Two pools share the workers, unless the small one has nothing to do. *)
LEMMA WorkersShared ==
    ASSUME tasks \in SUBSET Files
    PROVE  /\ PoolWorkers("large") <= workers
           /\ LargeShare = {} => PoolWorkers("small") <= workers
           /\ LargeShare # {} /\ tasks \ LargeFiles # {}
                 => PoolWorkers("large") + PoolWorkers("small") <= workers
<1> DEFINE large == tasks \cap LargeFiles
           small == tasks \ LargeFiles
           count == WorkerCount(Cardinality(large \cup small))
<1>1. large \in SUBSET Files /\ small \in SUBSET Files
  OBVIOUS
<1>2. count \in Nat \ {0} /\ count <= workers /\ workers \in Nat
  BY <1>1, FilesFinite, CountBounded, BatchAssumption
<1>3. /\ PoolWorkers("large") = LargeWorkers(large, small)
      /\ PoolWorkers("small") = SmallWorkers(large, small)
  BY DEF PoolWorkers
<1>4. /\ LargeWorkers(large, small) \in Nat \ {0}
      /\ LargeWorkers(large, small) <= count
      /\ small # {} /\ count > 1 => LargeWorkers(large, small) < count
  BY <1>1, LargeBounded
<1>5. HasTwoPools(large, small) <=> large # {} /\ count > 1
  BY DEF HasTwoPools
<1>6. LargeShare = IF HasTwoPools(large, small) THEN large ELSE {}
  BY DEF LargeShare
<1>7. /\ SmallWorkers(large, small) \in Nat \ {0}
      /\ \/ SmallWorkers(large, small) = 1
         \/ SmallWorkers(large, small)
               <= count - (IF HasTwoPools(large, small) THEN LargeWorkers(large, small) ELSE 0)
  BY <1>1, SmallBounded
<1> HIDE DEF large, small, count
<1>8. small = tasks \ LargeFiles
  BY DEF small
<1>9. QED
  BY <1>2, <1>3, <1>4, <1>5, <1>6, <1>7, <1>8

-----------------------------------------------------------------------------
(* Types. *)

LEMMA PartitionType ==
    ASSUME NEW chosen \in SUBSET Files
    PROVE  Partition(chosen) \in [Pools -> SUBSET chosen]
BY DEF Partition, Pools

LEMMA ChosenType == \A onDisk : Chosen(onDisk) \in SUBSET Files
BY DEF Chosen

LEMMA TypeInit == Init => TypeOK
<1> SUFFICES ASSUME Init PROVE TypeOK
  OBVIOUS
<1>1. pending \in [Pools -> SUBSET tasks]
  BY PartitionType DEF Init
<1>2. /\ batch = {} /\ flight \in [Pools -> SUBSET tasks]
      /\ told \in [Files -> Seq({"ok", "unwritten", "error"})]
      /\ job \in [Files -> {"none", "queued", "analyzing", "writing", "ok", "unwritten",
                           "error", "dead"}]
      /\ DOMAIN reports = {}
      /\ deaths \in 0..MaxDeaths /\ runs \in 1..MaxRuns
  BY BatchAssumption DEF Init
<1>3. QED
  BY <1>1, <1>2 DEF Init, TypeOK

LEMMA TypeStep ==
    ASSUME TypeOK, [Next]_vars
    PROVE  TypeOK'
<1> DEFINE Jobs == {"none", "queued", "analyzing", "writing", "ok", "unwritten", "error",
                    "dead"}
           Outcomes == {"ok", "unwritten", "error"}
<1> USE DEF vars, parent, world, Pools
<1>1. CASE UNCHANGED vars
  BY <1>1 DEF TypeOK, Owners, Report
<1>2. ASSUME NEW pool \in Pools, Submit(pool)
      PROVE  TypeOK'
  <2>1. /\ pending' \in [Pools -> SUBSET tasks] /\ flight' \in [Pools -> SUBSET tasks]
        /\ job' \in [Files -> Jobs]
    BY <1>2 DEF Submit, TypeOK
  <2>2. batch \subseteq Owners'
    BY <1>2 DEF Submit, TypeOK, Owners
  <2>3. QED
    BY <1>2, <2>1, <2>2 DEF Submit, NextPool, TypeOK, Report
<1>3. ASSUME NEW pool \in Pools, SubmitRaises(pool)
      PROVE  TypeOK'
  BY <1>3 DEF SubmitRaises, TypeOK, Owners, Report
<1>4. CASE Filled \/ Wait \/ Resume \/ Abandon \/ ShutDown
  BY <1>4 DEF Filled, Wait, Resume, Abandon, ShutDown, TypeOK, Owners, Report
<1>5. CASE Yield
  <2>1. PICK f \in batch : /\ Tell(f)
                           /\ flight' = [pool \in Pools |-> flight[pool] \ {f}]
    BY <1>5 DEF Yield
  <2>2. flight' \in [Pools -> SUBSET tasks] /\ batch' \subseteq Owners'
    BY <2>1 DEF TypeOK, Owners, Tell
  <2>3. (IF Returned(f) THEN job[f] ELSE "error") \in Outcomes /\ f \in Files
    BY <2>1 DEF TypeOK, Returned, Owners
  <2>4. told' \in [Files -> Seq(Outcomes)]
    BY <2>1, <2>3 DEF Tell, TypeOK
  <2>5. QED
    BY <1>5, <2>2, <2>4 DEF Yield, TypeOK, Report
<1>6. ASSUME NEW f \in Files, Work(f)
      PROVE  TypeOK'
  <2>1. job' \in [Files -> Jobs]
    BY <1>6 DEF Work, StartTask, Raise, OpenReport, WriteReport, TypeOK
  <2>2. \A s \in DOMAIN reports' : s \in {Report(g) : g \in Files} /\ reports'[s] \subseteq Files
    <3>1. CASE StartTask(f) \/ Raise(f)
      BY <3>1 DEF StartTask, Raise, TypeOK
    <3>2. CASE OpenReport(f)
      BY <3>2 DEF OpenReport, TypeOK
    <3>3. CASE WriteReport(f)
      BY <3>3 DEF WriteReport, TypeOK
    <3>4. QED
      BY <1>6, <3>1, <3>2, <3>3 DEF Work
  <2>3. UNCHANGED <<phase, parent, broken, deaths>>
    BY <1>6 DEF Work, StartTask, Raise, OpenReport, WriteReport
  <2>4. QED
    BY <2>1, <2>2, <2>3 DEF TypeOK, Owners, Report
<1>7. ASSUME NEW pool \in Pools, WorkerDies(pool)
      PROVE  TypeOK'
  <2>1. job' \in [Files -> Jobs]
    BY <1>7 DEF WorkerDies, TypeOK
  <2>2. deaths' \in 0..MaxDeaths /\ broken' \subseteq Pools
    BY <1>7, BatchAssumption DEF WorkerDies, TypeOK
  <2>3. QED
    BY <1>7, <2>1, <2>2 DEF WorkerDies, TypeOK, Owners, Report
<1>8. CASE Crash
  BY <1>8 DEF Crash, TypeOK, Owners, Report
<1>9. CASE RunAgain
  <2>1. /\ tasks' \in SUBSET Files /\ pending' \in [Pools -> SUBSET tasks']
    BY <1>9, ChosenType, PartitionType DEF RunAgain
  <2>2. /\ flight' \in [Pools -> SUBSET tasks'] /\ batch' = {}
        /\ job' \in [Files -> Jobs] /\ told' \in [Files -> Seq(Outcomes)]
        /\ runs' \in 1..MaxRuns
    BY <1>9, BatchAssumption DEF RunAgain, TypeOK
  <2>3. QED
    BY <1>9, <2>1, <2>2 DEF RunAgain, TypeOK, Report
<1>10. QED
  BY <1>1, <1>2, <1>3, <1>4, <1>5, <1>6, <1>7, <1>8, <1>9 DEF Next, Parent, Done

-----------------------------------------------------------------------------
(* Whose task is whose. *)

LEMMA ApartInit == Init => Apart
BY DEF Init, Apart, Partition, Share, LargeShare, Pools

LEMMA ApartStep ==
    ASSUME TypeOK, Apart, [Next]_vars
    PROVE  Apart'
<1> USE DEF vars, parent, world, Pools
<1>1. ASSUME UNCHANGED tasks
      PROVE  \A pool : Share(pool)' = Share(pool)
  BY <1>1 DEF Share, LargeShare
<1>2. ASSUME UNCHANGED <<tasks, pending, flight>>
      PROVE  Apart'
  BY <1>1, <1>2 DEF Apart
<1>3. ASSUME NEW pool \in Pools, Submit(pool)
      PROVE  Apart'
  <2>1. PICK f \in pending[pool] :
           /\ pending' = [pending EXCEPT ![pool] = @ \ {f}]
           /\ flight' = [flight EXCEPT ![pool] = @ \cup {f}]
    BY <1>3 DEF Submit
  <2>2. \A q \in Pools : /\ pending'[q] \cup flight'[q] = pending[q] \cup flight[q]
                         /\ pending'[q] \cap flight'[q] = (pending[q] \cap flight[q]) \ {f}
    BY <2>1 DEF TypeOK, Apart
  <2>3. \A q \in Pools : Share(q)' = Share(q)
    BY <1>1, <1>3 DEF Submit
  <2>4. QED
    BY <2>2, <2>3 DEF Apart
<1>4. CASE Yield
  <2>1. /\ \A q \in Pools : flight'[q] \subseteq flight[q]
        /\ UNCHANGED <<tasks, pending>>
    BY <1>4 DEF Yield
  <2>2. QED
    BY <1>1, <2>1 DEF Apart
<1>5. CASE Crash
  <2>1. /\ \A q \in Pools : flight'[q] = {}
        /\ UNCHANGED <<tasks, pending>>
    BY <1>5 DEF Crash
  <2>2. QED
    BY <1>1, <2>1 DEF Apart
<1>6. CASE RunAgain
  BY <1>6 DEF RunAgain, Apart, Partition, Share, LargeShare
<1>7. CASE UNCHANGED vars \/ Filled \/ Wait \/ Resume \/ Abandon \/ ShutDown
  BY <1>2, <1>7 DEF Filled, Wait, Resume, Abandon, ShutDown
<1>8. ASSUME NEW pool \in Pools, SubmitRaises(pool) \/ WorkerDies(pool)
      PROVE  Apart'
  BY <1>2, <1>8 DEF SubmitRaises, WorkerDies
<1>9. ASSUME NEW f \in Files, Work(f)
      PROVE  Apart'
  BY <1>2, <1>9 DEF Work, StartTask, Raise, OpenReport, WriteReport
<1>10. QED
  BY <1>3, <1>4, <1>5, <1>6, <1>7, <1>8, <1>9 DEF Next, Parent, Done

-----------------------------------------------------------------------------
(* One summary for every file. *)

LEMMA ToldInit == Init => ToldOnce
<1> SUFFICES ASSUME Init PROVE ToldOnce
  OBVIOUS
<1>1. \A f \in Files : /\ told[f] = <<>> /\ Len(told[f]) = 0
                       /\ \E pool \in Pools : f \in pending[pool]
  BY DEF Init, Partition, Pools
<1>2. QED
  BY <1>1 DEF Init, ToldOnce, Open

LEMMA ToldStep ==
    ASSUME TypeOK, Apart, ToldOnce, [Next]_vars
    PROVE  ToldOnce'
<1> USE DEF vars, parent, world, Pools
<1>1. ASSUME UNCHANGED <<tasks, told>>, \A f \in Files : Open(f)' <=> Open(f),
             phase' # "closed" => phase # "closed",
             phase' # "returned" \/ phase = "returned"
      PROVE  ToldOnce'
  BY <1>1 DEF ToldOnce
<1>2. ASSUME UNCHANGED <<pending, flight>>
      PROVE  \A f \in Files : Open(f)' <=> Open(f)
  BY <1>2 DEF Open
<1>3. ASSUME NEW pool \in Pools, Submit(pool)
      PROVE  ToldOnce'
  <2>1. PICK f \in pending[pool] :
           /\ pending' = [pending EXCEPT ![pool] = @ \ {f}]
           /\ flight' = [flight EXCEPT ![pool] = @ \cup {f}]
    BY <1>3 DEF Submit
  <2>2. \A q \in Pools : pending'[q] \cup flight'[q] = pending[q] \cup flight[q]
    BY <2>1 DEF TypeOK
  <2>3. QED
    BY <1>1, <1>3, <2>2 DEF Submit, NextPool, Open
<1>4. CASE Yield
  <2>1. PICK f \in batch : /\ Tell(f)
                           /\ flight' = [pool \in Pools |-> flight[pool] \ {f}]
    BY <1>4 DEF Yield
  <2>2. f \in Files /\ Open(f) /\ f \in flight["large"] \cup flight["small"]
    BY <2>1 DEF TypeOK, Owners, Open
  <2>3. \A pool \in Pools : f \notin pending[pool]
    BY <2>2 DEF Apart, Share, LargeShare
  <2>4. \A g \in Files : Open(g)' <=> Open(g) /\ g # f
    BY <1>4, <2>1, <2>3 DEF Yield, Open
  <2>5. /\ \A g \in Files \ {f} : told'[g] = told[g]
        /\ Len(told'[f]) = 1
    <3>1. told[f] = <<>>
      BY <2>2 DEF ToldOnce
    <3>2. told' = [told EXCEPT ![f] =
                     Append(<<>>, IF Returned(f) THEN job[f] ELSE "error")]
      BY <2>1, <3>1 DEF Tell
    <3>3. QED
      BY <2>2, <3>2 DEF TypeOK
  <2>6. UNCHANGED tasks /\ phase = "yield" /\ phase' = "suspended"
    BY <1>4 DEF Yield
  <2>7. ASSUME NEW g \in Files
        PROVE  /\ Len(told'[g]) <= 1
               /\ Open(g)' => told'[g] = <<>>
               /\ g \in tasks' => Open(g)' \/ Len(told'[g]) = 1
    <3>1. CASE g = f
      <4>1. ~Open(g)'
        BY <2>4, <3>1
      <4>2. Len(told'[g]) = 1
        BY <2>5, <3>1
      <4>3. QED
        BY <4>1, <4>2
    <3>2. CASE g # f
      BY <2>4, <2>5, <2>6, <3>2 DEF ToldOnce
    <3>3. QED
      BY <3>1, <3>2
  <2>8. phase' # "closed" /\ phase' # "returned"
    BY <2>6
  <2>9. QED
    BY <2>7, <2>8 DEF ToldOnce
<1>5. CASE Filled
  <2>1. ASSUME Owners = {}
        PROVE  \A f \in Files : ~Open(f)
    <3>1. ASSUME NEW pool \in Pools, pending[pool] # {}
          PROVE  FALSE
      <4>1. flight[pool] = {} /\ Cardinality(flight[pool]) = 0
        BY <2>1, FS_EmptySet DEF Owners
      <4>2. PoolWorkers(pool) \in Nat \ {0}
        BY WorkersPositive DEF TypeOK
      <4>3. QED
        BY <1>5, <3>1, <4>1, <4>2 DEF Filled, Wanting
    <3>2. QED
      BY <2>1, <3>1 DEF Open, Owners
  <2>2. \A f \in Files : Open(f)' <=> Open(f)
    BY <1>2, <1>5 DEF Filled
  <2>3. QED
    BY <1>5, <2>1, <2>2 DEF Filled, ToldOnce
<1>6. CASE Crash
  <2>1. \A f \in Files : Open(f)' => Open(f)
    BY <1>6 DEF Crash, Open
  <2>2. QED
    BY <1>6, <2>1 DEF Crash, ToldOnce
<1>7. CASE RunAgain
  <2>1. \A f \in Files : /\ told'[f] = <<>> /\ Len(told'[f]) = 0
                         /\ f \in tasks' => Open(f)'
    BY <1>7 DEF RunAgain, Partition, Open
  <2>2. QED
    BY <1>7, <2>1 DEF RunAgain, ToldOnce
<1>8. CASE UNCHANGED vars \/ Wait \/ Resume
  BY <1>1, <1>2, <1>8 DEF Wait, Resume
<1>9. CASE Abandon \/ ShutDown
  <2>1. /\ \A f \in Files : Open(f)' <=> Open(f)
        /\ UNCHANGED <<tasks, told>>
        /\ phase # "closed" /\ phase' # "returned"
    BY <1>2, <1>9 DEF Abandon, ShutDown
  <2>2. QED
    BY <2>1 DEF ToldOnce
<1>10. ASSUME NEW pool \in Pools, SubmitRaises(pool) \/ WorkerDies(pool)
       PROVE  ToldOnce'
  BY <1>1, <1>2, <1>10 DEF SubmitRaises, WorkerDies, NextPool
<1>11. ASSUME NEW f \in Files, Work(f)
       PROVE  ToldOnce'
  BY <1>1, <1>2, <1>11 DEF Work, StartTask, Raise, OpenReport, WriteReport
<1>12. QED
  BY <1>3, <1>4, <1>5, <1>6, <1>7, <1>8, <1>9, <1>10, <1>11 DEF Next, Parent, Done

-----------------------------------------------------------------------------
(* No more analyses than workers. *)

LEMMA BusyFinite ==
    ASSUME TypeOK
    PROVE  \A pool \in Pools : /\ IsFiniteSet(Busy(pool))
                              /\ Cardinality(Busy(pool)) \in Nat
<1>1. \A pool \in Pools : Busy(pool) \in SUBSET Files
  BY DEF Busy, TypeOK
<1>2. QED
  BY <1>1, FilesFinite

LEMMA LimitedInit == Init => Limited
<1> SUFFICES ASSUME Init, NEW pool \in Pools
             PROVE  Cardinality(Busy(pool)) <= PoolWorkers(pool)
  BY DEF Limited
<1>1. Busy(pool) = {} /\ tasks \in SUBSET Files
  BY DEF Init, Busy
<1>2. Cardinality(Busy(pool)) = 0 /\ PoolWorkers(pool) \in Nat
  BY <1>1, FS_EmptySet, WorkersPositive
<1>3. QED
  BY <1>2

LEMMA LimitedStep ==
    ASSUME TypeOK, TypeOK', Apart, Limited, [Next]_vars
    PROVE  Limited'
<1> USE DEF vars, parent, world, Pools
<1>1. ASSUME UNCHANGED tasks, \A pool \in Pools : Busy(pool)' \subseteq Busy(pool)
      PROVE  Limited'
  <2> SUFFICES ASSUME NEW pool \in Pools
               PROVE  Cardinality(Busy(pool)') <= PoolWorkers(pool)'
    BY DEF Limited
  <2>1. /\ Cardinality(Busy(pool)') <= Cardinality(Busy(pool))
        /\ Cardinality(Busy(pool)') \in Nat
    BY <1>1, BusyFinite, FS_Subset, FS_CardinalityType
  <2>2. PoolWorkers(pool)' = PoolWorkers(pool) /\ PoolWorkers(pool) \in Nat
    BY <1>1, WorkersPositive DEF PoolWorkers, TypeOK
  <2>3. Cardinality(Busy(pool)) <= PoolWorkers(pool) /\ Cardinality(Busy(pool)) \in Nat
    BY BusyFinite DEF Limited
  <2>4. QED
    BY <2>1, <2>2, <2>3
<1>2. ASSUME NEW f \in Files, f \in Owners, StartTask(f)
      PROVE  Limited'
  <2>1. PICK pool \in Pools : /\ f \in flight[pool]
                             /\ Cardinality(Busy(pool)) < PoolWorkers(pool)
    BY <1>2 DEF StartTask
  <2>2. /\ UNCHANGED <<tasks, flight>>
        /\ job' = [job EXCEPT ![f] = "analyzing"]
    BY <1>2 DEF StartTask
  <2> SUFFICES ASSUME NEW q \in Pools
               PROVE  Cardinality(Busy(q)') <= PoolWorkers(q)'
    BY DEF Limited
  <2>3. PoolWorkers(q)' = PoolWorkers(q) /\ PoolWorkers(q) \in Nat
    BY <2>2, WorkersPositive DEF PoolWorkers, TypeOK
  <2>4. Cardinality(Busy(q)) \in Nat /\ IsFiniteSet(Busy(q))
    BY BusyFinite
  <2>5. CASE q = pool
    <3>1. Busy(q)' \subseteq Busy(q) \cup {f}
      BY <2>2 DEF Busy, TypeOK
    <3>2. /\ IsFiniteSet(Busy(q) \cup {f})
          /\ Cardinality(Busy(q) \cup {f}) <= Cardinality(Busy(q)) + 1
          /\ Cardinality(Busy(q) \cup {f}) \in Nat
      <4>1. /\ IsFiniteSet(Busy(q) \cup {f})
            /\ Cardinality(Busy(q) \cup {f})
                  = IF f \in Busy(q) THEN Cardinality(Busy(q)) ELSE Cardinality(Busy(q)) + 1
        BY <2>4, FS_AddElement, Zenon
      <4>2. QED
        BY <2>4, <4>1
    <3>3. /\ Cardinality(Busy(q)') <= Cardinality(Busy(q) \cup {f})
          /\ Cardinality(Busy(q)') \in Nat
      BY <3>1, <3>2, FS_Subset, FS_CardinalityType
    <3>4. Cardinality(Busy(q)) < PoolWorkers(q)
      BY <2>1, <2>5
    <3>5. QED
      BY <2>3, <2>4, <3>2, <3>3, <3>4
  <2>6. CASE q # pool
    <3>1. f \notin flight[q]
      BY <2>1, <2>6 DEF Apart, Share, LargeShare
    <3>2. Busy(q)' = Busy(q)
      BY <2>2, <3>1 DEF Busy, TypeOK
    <3>3. QED
      BY <2>3, <3>2 DEF Limited
  <2>7. QED
    BY <2>5, <2>6
<1>3. ASSUME NEW f \in Files, Raise(f) \/ OpenReport(f) \/ WriteReport(f)
      PROVE  Limited'
  <2>1. /\ UNCHANGED <<tasks, flight>>
        /\ job[f] \in {"analyzing", "writing"}
        /\ \A g \in Files \ {f} : job'[g] = job[g]
    BY <1>3 DEF Raise, OpenReport, WriteReport, TypeOK
  <2>2. \A pool \in Pools : Busy(pool)' \subseteq Busy(pool)
    BY <2>1 DEF Busy, TypeOK
  <2>3. QED
    BY <1>1, <2>1, <2>2
<1>4. ASSUME NEW pool \in Pools, Submit(pool)
      PROVE  Limited'
  <2>1. PICK f \in pending[pool] :
           /\ flight' = [flight EXCEPT ![pool] = @ \cup {f}]
           /\ job' = [job EXCEPT ![f] = "queued"]
    BY <1>4 DEF Submit
  <2>2. \A q \in Pools : Busy(q)' \subseteq Busy(q)
    BY <2>1 DEF Busy, TypeOK
  <2>3. QED
    BY <1>1, <1>4, <2>2 DEF Submit
<1>5. CASE Yield \/ Crash
  <2>1. /\ \A q \in Pools : flight'[q] \subseteq flight[q]
        /\ UNCHANGED <<tasks, job>>
    BY <1>5 DEF Yield, Crash
  <2>2. \A q \in Pools : Busy(q)' \subseteq Busy(q)
    BY <2>1 DEF Busy
  <2>3. QED
    BY <1>1, <2>1, <2>2
<1>6. ASSUME NEW pool \in Pools, WorkerDies(pool)
      PROVE  Limited'
  <2>1. /\ UNCHANGED <<tasks, flight>>
        /\ \A f \in Files : job'[f] = job[f] \/ job'[f] = "dead"
    BY <1>6 DEF WorkerDies
  <2>2. \A q \in Pools : Busy(q)' \subseteq Busy(q)
    BY <2>1 DEF Busy, TypeOK
  <2>3. QED
    BY <1>1, <2>1, <2>2
<1>7. CASE RunAgain
  <2> SUFFICES ASSUME NEW pool \in Pools
               PROVE  Cardinality(Busy(pool)') <= PoolWorkers(pool)'
    BY DEF Limited
  <2>1. Busy(pool)' = {}
    BY <1>7 DEF RunAgain, Busy
  <2>2. tasks' \in SUBSET Files
    BY DEF TypeOK
  <2>3. PoolWorkers(pool)' \in Nat
    BY <2>2, LargeBounded, SmallBounded DEF PoolWorkers
  <2>4. QED
    BY <2>1, <2>3, FS_EmptySet
<1>8. ASSUME UNCHANGED <<tasks, flight, job>>
      PROVE  Limited'
  BY <1>1, <1>8 DEF Busy
<1>9. CASE UNCHANGED vars \/ Filled \/ Wait \/ Resume \/ Abandon \/ ShutDown
  BY <1>8, <1>9 DEF Filled, Wait, Resume, Abandon, ShutDown
<1>10. ASSUME NEW pool \in Pools, SubmitRaises(pool)
       PROVE  Limited'
  BY <1>8, <1>10 DEF SubmitRaises
<1>11. QED
  BY <1>2, <1>3, <1>4, <1>5, <1>6, <1>7, <1>9, <1>10 DEF Next, Parent, Work, Done

-----------------------------------------------------------------------------

(* The invariant the theorems below follow from: types, whose task is      *)
(* whose, the limit of each pool, and one summary for every file.          *)
THEOREM BatchInvariant == Spec => []BInv
<1>1. Init => BInv
  BY TypeInit, ApartInit, ToldInit, LimitedInit DEF BInv
<1>2. BInv /\ [Next]_vars => BInv'
  BY TypeStep, ApartStep, ToldStep, LimitedStep DEF BInv
<1>3. QED
  BY <1>1, <1>2, PTL DEF Spec

(* Every variable of the batch processor keeps its type. *)
THEOREM BatchTypeCorrect == Spec => []TypeOK
<1>1. BInv => TypeOK
  BY DEF BInv
<1>2. QED
  BY <1>1, BatchInvariant, PTL

(* The pools of disassembleParallel() never run more analyses together     *)
(* than workers were asked for, whatever sizes the files have and whatever *)
(* the memory budget admits.                                               *)
THEOREM BatchWithinWorkers == Spec => []WithinWorkers
<1>1. BInv => WithinWorkers
  <2> SUFFICES ASSUME BInv
               PROVE  WithinWorkers
    OBVIOUS
  <2>1. /\ tasks \in SUBSET Files
        /\ workers \in Nat
        /\ PoolWorkers("large") \in Nat /\ PoolWorkers("small") \in Nat
    BY WorkersPositive, BatchAssumption DEF BInv, TypeOK, Pools
  <2>2. /\ Cardinality(Busy("large")) \in Nat
        /\ Cardinality(Busy("small")) \in Nat
        /\ Cardinality(Busy("large")) <= PoolWorkers("large")
        /\ Cardinality(Busy("small")) <= PoolWorkers("small")
    BY BusyFinite DEF BInv, Limited, Pools
  <2>3. CASE LargeShare = {}
    <3>1. Busy("large") = {}
      BY <2>3 DEF BInv, Apart, Share, Busy, Pools
    <3>2. QED
      BY <2>1, <2>2, <2>3, <3>1, FS_EmptySet, WorkersShared DEF WithinWorkers
  <2>4. CASE LargeShare # {} /\ tasks \ LargeFiles = {}
    <3>1. Busy("small") = {}
      BY <2>4 DEF BInv, Apart, Share, LargeShare, Busy, Pools
    <3>2. QED
      BY <2>1, <2>2, <3>1, FS_EmptySet, WorkersShared DEF WithinWorkers
  <2>5. CASE LargeShare # {} /\ tasks \ LargeFiles # {}
    BY <2>1, <2>2, <2>5, WorkersShared DEF WithinWorkers
  <2>6. QED
    BY <2>3, <2>4, <2>5
<1>2. QED
  BY <1>1, BatchInvariant, PTL

(* _runPartitions() yields no file twice, and when it returns it has       *)
(* yielded every file, whatever raised or died meanwhile.                  *)
THEOREM BatchTellsOnce == Spec => []OneSummaryEach
<1>1. BInv => OneSummaryEach
  <2> SUFFICES ASSUME BInv
               PROVE  OneSummaryEach
    OBVIOUS
  <2>1. \A f \in Files : Len(told[f]) <= 1
    BY DEF BInv, ToldOnce
  <2>2. ASSUME phase = "returned", NEW f \in tasks
        PROVE  Len(told[f]) = 1
    BY <2>2 DEF BInv, ToldOnce, TypeOK
  <2>3. QED
    BY <2>1, <2>2 DEF OneSummaryEach
<1>2. QED
  BY <1>1, BatchInvariant, PTL

(* Types, and the bound on what both pools run together, for every corpus  *)
(* and every number of workers.                                            *)
THEOREM BatchStaysWithinBounds == Spec => []PoolsStayWithinBounds
<1>1. TypeOK /\ WithinWorkers => PoolsStayWithinBounds
  BY DEF PoolsStayWithinBounds
<1>2. QED
  BY <1>1, BatchTypeCorrect, BatchWithinWorkers, PTL

-----------------------------------------------------------------------------
(* Reports on disk.  Stems name files apart unless one path has "_" where   *)
(* another has "/"; a run that does not resume writes all of them anew.     *)

(* Of a file that shares its stem with no other: a report that is written   *)
(* is empty until all of it is there, and whose job is done, told or not,   *)
(* has it.                                                                  *)
WrittenOnce ==
    \A f \in Unshared :
        /\ job[f] = "writing" => Report(f) \in DOMAIN reports /\ reports[Report(f)] = {}
        /\ job[f] = "ok" => Report(f) \in DOMAIN reports /\ reports[Report(f)] = {f}
        /\ told[f] = <<"ok">> => job[f] = "ok"

(* What was not submitted has no job, and what is still to be analysed has  *)
(* no report yet.                                                           *)
Unwritten ==
    /\ \A pool \in Pools : \A f \in pending[pool] : job[f] = "none"
    /\ \A f \in tasks \cap Unshared :
          job[f] \in {"none", "queued", "analyzing"} => Report(f) \notin DOMAIN reports

LEMMA WrittenInit == Init => WrittenOnce
<1> SUFFICES ASSUME Init, NEW f \in Files
             PROVE  job[f] = "none" /\ told[f] = <<>> /\ <<>> # <<"ok">>
  BY DEF WrittenOnce, Unshared
<1>1. QED
  BY DEF Init

LEMMA WrittenStep ==
    ASSUME BInv, WrittenOnce, [Next]_vars
    PROVE  WrittenOnce'
<1> USE DEF vars, parent, world, Pools, Unshared
<1>0. TypeOK /\ Apart /\ ToldOnce
  BY DEF BInv
<1>1. ASSUME UNCHANGED <<job, told, reports>>
      PROVE  WrittenOnce'
  BY <1>1 DEF WrittenOnce, Report
<1>2. ASSUME NEW pool \in Pools, Submit(pool)
      PROVE  WrittenOnce'
  <2>1. PICK f \in pending[pool] : job' = [job EXCEPT ![f] = "queued"]
    BY <1>2 DEF Submit
  <2>2. told[f] = <<>> /\ f \in Files
    BY <1>0, <2>1 DEF ToldOnce, Open, TypeOK
  <2>3. DOMAIN job = Files /\ UNCHANGED <<told, reports>>
    BY <1>0, <1>2 DEF TypeOK, Submit
  <2>4. \A g \in Files : /\ Report(g)' = Report(g) /\ told'[g] = told[g]
                         /\ job'[g] = job[g] \/ (job'[g] = "queued" /\ told[g] = <<>>)
    BY <2>1, <2>2, <2>3 DEF Report
  <2>5. QED
    BY <2>3, <2>4 DEF WrittenOnce
<1>3. CASE Yield
  <2>1. PICK f \in batch : Tell(f)
    BY <1>3 DEF Yield
  <2>2. f \in Files /\ Open(f)
    BY <1>0, <2>1 DEF TypeOK, Owners, Open
  <2>3. told[f] = <<>>
    BY <1>0, <2>2 DEF ToldOnce
  <2>4. told' = [told EXCEPT ![f] = <<IF Returned(f) THEN job[f] ELSE "error">>]
    BY <2>1, <2>3 DEF Tell
  <2>5. told'[f] = <<"ok">> => job[f] = "ok"
    BY <1>0, <2>2, <2>4 DEF TypeOK
  <2>6. \A g \in Files \ {f} : told'[g] = told[g]
    BY <1>0, <2>4 DEF TypeOK
  <2>7. UNCHANGED <<job, reports>>
    BY <1>3 DEF Yield
  <2>8. QED
    BY <2>5, <2>6, <2>7 DEF WrittenOnce, Report
<1>4. ASSUME NEW f \in Files, Work(f)
      PROVE  WrittenOnce'
  <2>1. Open(f) /\ told[f] = <<>> /\ UNCHANGED told
    BY <1>0, <1>4 DEF Work, Owners, Open, ToldOnce, StartTask, Raise, OpenReport, WriteReport
  <2>2. DOMAIN job = Files
    BY <1>0 DEF TypeOK
  <2>3. CASE StartTask(f) \/ Raise(f)
    BY <2>1, <2>2, <2>3 DEF StartTask, Raise, WrittenOnce, Report
  <2>4. CASE OpenReport(f)
    <3>1. /\ job' = [job EXCEPT ![f] = "writing"]
          /\ reports' = [s \in DOMAIN reports \cup {Report(f)} |->
                            IF s = Report(f) THEN {} ELSE reports[s]]
      BY <2>4 DEF OpenReport
    <3>2. \A g \in Files \ {f} :
             /\ job'[g] = job[g]
             /\ g \in Unshared /\ Report(g) \in DOMAIN reports =>
                    Report(g) \in DOMAIN reports' /\ reports'[Report(g)] = reports[Report(g)]
      BY <2>2, <3>1
    <3>3. job'[f] = "writing" /\ Report(f) \in DOMAIN reports' /\ reports'[Report(f)] = {}
      BY <2>2, <3>1
    <3>4. \A g \in Files : Report(g)' = Report(g)
      BY DEF Report
    <3>5. ASSUME NEW g \in Unshared
          PROVE  /\ job'[g] = "writing" => Report(g) \in DOMAIN reports' /\ reports'[Report(g)] = {}
                 /\ job'[g] = "ok" => Report(g) \in DOMAIN reports' /\ reports'[Report(g)] = {g}
                 /\ told'[g] = <<"ok">> => job'[g] = "ok"
      <4>1. CASE g = f
        BY <2>1, <3>3, <4>1
      <4>2. CASE g # f
        BY <2>1, <3>2, <4>2 DEF WrittenOnce
      <4>3. QED
        BY <4>1, <4>2
    <3>6. QED
      BY <3>4, <3>5 DEF WrittenOnce
  <2>5. CASE WriteReport(f)
    <3>1. PICK status \in {"ok", "error"} : job' = [job EXCEPT ![f] = status]
      BY <2>5 DEF WriteReport
    <3>2. /\ reports' = [reports EXCEPT ![Report(f)] = @ \cup {f}]
          /\ f \in Unshared => Report(f) \in DOMAIN reports /\ reports[Report(f)] = {}
      BY <2>5 DEF WriteReport, WrittenOnce
    <3>3. f \in Unshared => Report(f) \in DOMAIN reports' /\ reports'[Report(f)] = {f}
      BY <3>2
    <3>4. \A g \in Files \ {f} :
             /\ job'[g] = job[g]
             /\ g \in Unshared /\ Report(g) \in DOMAIN reports =>
                    Report(g) \in DOMAIN reports' /\ reports'[Report(g)] = reports[Report(g)]
      BY <2>2, <3>1, <3>2
    <3>5. job'[f] = status /\ status # "writing"
      BY <2>2, <3>1
    <3>6. ASSUME NEW g \in Unshared
          PROVE  /\ job'[g] = "writing" => Report(g) \in DOMAIN reports' /\ reports'[Report(g)] = {}
                 /\ job'[g] = "ok" => Report(g) \in DOMAIN reports' /\ reports'[Report(g)] = {g}
                 /\ told'[g] = <<"ok">> => job'[g] = "ok"
      <4>1. CASE g = f
        BY <2>1, <3>3, <3>5, <4>1
      <4>2. CASE g # f
        BY <2>1, <3>4, <4>2 DEF WrittenOnce
      <4>3. QED
        BY <4>1, <4>2
    <3>7. \A g \in Files : Report(g)' = Report(g)
      BY DEF Report
    <3>8. QED
      BY <3>6, <3>7 DEF WrittenOnce
  <2>6. QED
    BY <1>4, <2>3, <2>4, <2>5 DEF Work
<1>5. ASSUME NEW pool \in Pools, WorkerDies(pool)
      PROVE  WrittenOnce'
  <2>1. /\ \A f \in Files : job'[f] = job[f] \/ (job'[f] = "dead" /\ f \in flight[pool])
        /\ UNCHANGED <<told, reports>>
    BY <1>5 DEF WorkerDies
  <2>2. \A f \in Files : f \in flight[pool] => told[f] = <<>>
    BY <1>0 DEF ToldOnce, Open
  <2>3. QED
    BY <2>1, <2>2 DEF WrittenOnce, Report
<1>6. CASE RunAgain
  <2>1. \A f \in Files : job'[f] = "none" /\ told'[f] = <<>>
    BY <1>6 DEF RunAgain
  <2>2. QED
    BY <2>1 DEF WrittenOnce
<1>7. CASE UNCHANGED vars \/ Filled \/ Wait \/ Resume \/ Abandon \/ ShutDown \/ Crash
  BY <1>1, <1>7 DEF Filled, Wait, Resume, Abandon, ShutDown, Crash
<1>8. ASSUME NEW pool \in Pools, SubmitRaises(pool)
      PROVE  WrittenOnce'
  BY <1>1, <1>8 DEF SubmitRaises
<1>9. QED
  BY <1>2, <1>3, <1>4, <1>5, <1>6, <1>7, <1>8 DEF Next, Parent, Done

LEMMA UnwrittenInit == Init => Unwritten
<1> SUFFICES ASSUME Init PROVE Unwritten
  OBVIOUS
<1>1. DOMAIN reports = {} /\ \A f \in Files : job[f] = "none"
  BY DEF Init
<1>2. \A pool \in Pools : pending[pool] \subseteq Files
  BY PartitionType DEF Init, Pools
<1>3. QED
  BY <1>1, <1>2 DEF Unwritten

(* No task waits and is in flight, not even in another pool. *)
LEMMA PendingApart ==
    ASSUME BInv
    PROVE  \A pool \in Pools : pending[pool] \cap Owners = {}
BY DEF BInv, Apart, Share, LargeShare, Owners, Pools

LEMMA UnwrittenStep ==
    ASSUME resume \/ MaxRuns = 1, BInv, Unwritten, [Next]_vars
    PROVE  Unwritten'
<1> USE DEF vars, parent, world, Pools
<1>0. /\ tasks \subseteq Files /\ DOMAIN job = Files /\ runs \in 1..MaxRuns
      /\ pending \in [Pools -> SUBSET tasks] /\ flight \in [Pools -> SUBSET tasks]
  BY DEF BInv, TypeOK
<1>1. ASSUME UNCHANGED <<tasks, pending, job, reports>>
      PROVE  Unwritten'
  BY <1>1 DEF Unwritten, Report
<1>2. ASSUME NEW pool \in Pools, Submit(pool)
      PROVE  Unwritten'
  <2>1. PICK f \in pending[pool] : /\ pending' = [pending EXCEPT ![pool] = @ \ {f}]
                                   /\ job' = [job EXCEPT ![f] = "queued"]
    BY <1>2 DEF Submit
  <2>2. f \in tasks /\ job[f] = "none" /\ UNCHANGED <<tasks, reports>>
    BY <1>0, <1>2, <2>1 DEF Submit, Unwritten
  <2>3. \A q \in Pools \ {pool} : f \notin pending[q]
    BY <2>1 DEF BInv, Apart, Share, LargeShare
  <2>4. \A q \in Pools : \A g \in pending'[q] : g \in pending[q] /\ g # f
    BY <1>0, <2>1, <2>3
  <2>5. \A g \in Files : job'[g] = IF g = f THEN "queued" ELSE job[g]
    BY <1>0, <2>1
  <2>6. \A q \in Pools : \A g \in pending'[q] : job'[g] = "none"
    BY <1>0, <2>4, <2>5 DEF Unwritten
  <2>7. \A g \in tasks' \cap Unshared : job'[g] \in {"none", "queued", "analyzing"} =>
                              Report(g) \notin DOMAIN reports'
    BY <1>0, <2>2, <2>5 DEF Unwritten
  <2>8. QED
    BY <2>6, <2>7 DEF Unwritten, Report
<1>3. ASSUME NEW f \in Files, Work(f)
      PROVE  Unwritten'
  <2>1. UNCHANGED <<tasks, pending>> /\ f \in Owners
    BY <1>3 DEF Work, StartTask, Raise, OpenReport, WriteReport
  <2>2. \A g \in Files \ {f} : job'[g] = job[g]
    BY <1>0, <1>3 DEF Work, StartTask, Raise, OpenReport, WriteReport
  <2>3. \A pool \in Pools : \A g \in pending'[pool] : job'[g] = "none"
    BY <1>0, <2>1, <2>2, PendingApart DEF Unwritten
  <2>4. \/ DOMAIN reports' = DOMAIN reports
        \/ /\ DOMAIN reports' = DOMAIN reports \cup {Report(f)}
           /\ job'[f] = "writing"
    <3>1. CASE OpenReport(f)
      BY <1>0, <3>1 DEF OpenReport
    <3>2. CASE StartTask(f) \/ Raise(f) \/ WriteReport(f)
      BY <3>2 DEF StartTask, Raise, WriteReport
    <3>3. QED
      BY <1>3, <3>1, <3>2 DEF Work
  <2>5. job'[f] \in {"none", "queued", "analyzing"} => job[f] = "queued"
    BY <1>0, <1>3 DEF Work, StartTask, Raise, OpenReport, WriteReport
  <2>6. ASSUME NEW g \in tasks \cap Unshared, job'[g] \in {"none", "queued", "analyzing"}
        PROVE  Report(g) \notin DOMAIN reports'
    <3>1. g \in Files /\ Report(g) \notin DOMAIN reports
      BY <1>0, <2>2, <2>5, <2>6 DEF Unwritten
    <3>2. CASE g = f
      BY <2>4, <2>6, <3>1, <3>2
    <3>3. CASE g # f
      BY <2>4, <2>6, <3>1, <3>3 DEF Unshared
    <3>4. QED
      BY <3>2, <3>3
  <2>7. QED
    BY <2>1, <2>3, <2>6 DEF Unwritten, Report
<1>4. ASSUME NEW pool \in Pools, WorkerDies(pool)
      PROVE  Unwritten'
  <2>1. /\ \A f \in Files : job'[f] = job[f] \/ (job'[f] = "dead" /\ f \in flight[pool])
        /\ UNCHANGED <<tasks, pending, reports>>
    BY <1>4 DEF WorkerDies
  <2>2. \A q \in Pools : \A f \in pending[q] : f \in Files /\ f \notin flight[pool]
    BY <1>0, PendingApart DEF Owners
  <2>3. QED
    BY <1>0, <2>1, <2>2 DEF Unwritten, Report
<1>5. CASE RunAgain
  <2>1. /\ \A f \in Files : job'[f] = "none"
        /\ tasks' = Chosen(reports) /\ pending' = Partition(Chosen(reports))
        /\ runs < MaxRuns /\ UNCHANGED reports
    BY <1>5 DEF RunAgain
  <2>2. resume
    BY <1>0, <2>1, BatchAssumption
  <2>3. \A f \in tasks' : f \in Files /\ Report(f) \notin DOMAIN reports
    BY <2>1, <2>2 DEF Chosen
  <2>4. \A pool \in Pools : pending'[pool] \subseteq Files
    BY <2>1, ChosenType, PartitionType
  <2>5. QED
    BY <2>1, <2>3, <2>4 DEF Unwritten, Report
<1>6. CASE UNCHANGED vars \/ Filled \/ Wait \/ Yield \/ Resume \/ Abandon \/ ShutDown \/ Crash
  BY <1>1, <1>6 DEF Filled, Wait, Yield, Resume, Abandon, ShutDown, Crash
<1>7. ASSUME NEW pool \in Pools, SubmitRaises(pool)
      PROVE  Unwritten'
  BY <1>1, <1>7 DEF SubmitRaises
<1>8. QED
  BY <1>2, <1>3, <1>4, <1>5, <1>6, <1>7 DEF Next, Parent, Done

(* What _analyzeOneFile() reports as done is on disk, of every file whose   *)
(* stem is no other's: all of it, and nothing of another file's, whoever    *)
(* wrote meanwhile and whatever earlier runs left there.                    *)
THEOREM BatchReportsAreOwn == Spec => []ReportsAreOwn
<1>1. Init => WrittenOnce
  BY WrittenInit
<1>2. BInv /\ WrittenOnce /\ [Next]_vars => WrittenOnce'
  BY WrittenStep
<1>3. WrittenOnce => ReportsAreOwn
  BY DEF WrittenOnce, ReportsAreOwn
<1>4. QED
  BY <1>1, <1>2, <1>3, BatchInvariant, PTL DEF Spec

(* A run that resumes, and the first of all runs, touches no report that is *)
(* finished: what is chosen has none, and the worker of another file writes *)
(* elsewhere.                                                               *)
THEOREM BatchKeepsFinishedReports ==
    ASSUME resume \/ MaxRuns = 1
    PROVE  Spec => FinishedReportsStay
<1> DEFINE Stems == {Report(f) : f \in Unshared}
           Kept == \A s \in Stems \cap DOMAIN reports :
                       reports[s] # {} => reports'[s] = reports[s]
<1>1. Init => WrittenOnce /\ Unwritten
  BY WrittenInit, UnwrittenInit
<1>2. BInv /\ WrittenOnce /\ Unwritten /\ [Next]_vars => WrittenOnce' /\ Unwritten'
  BY WrittenStep, UnwrittenStep
<1>3. ASSUME BInv, WrittenOnce, Unwritten, [Next]_vars
      PROVE  [Kept]_vars
  <2>0. tasks \subseteq Files /\ flight \in [Pools -> SUBSET tasks]
    BY <1>3 DEF BInv, TypeOK
  <2>1. ASSUME NEW f \in Files, Work(f)
        PROVE  Kept
    <3>1. f \in tasks
      BY <2>0, <2>1 DEF Work, Owners, Pools
    <3>0. f \notin Unshared => Report(f) \notin Stems
      BY <2>1 DEF Unshared
    <3>2. CASE OpenReport(f)
      <4>1. f \in Unshared => Report(f) \notin DOMAIN reports
        BY <1>3, <3>1, <3>2 DEF OpenReport, Unwritten
      <4>2. /\ DOMAIN reports' = DOMAIN reports \cup {Report(f)}
            /\ \A s \in DOMAIN reports : s # Report(f) => reports'[s] = reports[s]
        BY <3>2 DEF OpenReport
      <4>3. QED
        BY <3>0, <4>1, <4>2
    <3>3. CASE WriteReport(f)
      <4>1. f \in Unshared => reports[Report(f)] = {}
        BY <1>3, <3>3 DEF WriteReport, WrittenOnce
      <4>2. \A s \in DOMAIN reports : s # Report(f) => reports'[s] = reports[s]
        BY <3>3 DEF WriteReport
      <4>3. QED
        BY <3>0, <3>3, <4>1, <4>2 DEF WriteReport
    <3>4. CASE StartTask(f) \/ Raise(f)
      BY <3>4 DEF StartTask, Raise, world
    <3>5. QED
      BY <2>1, <3>2, <3>3, <3>4 DEF Work
  <2>2. \/ \E f \in Files : Work(f)
        \/ UNCHANGED reports
    BY <1>3 DEF Next, Parent, Done, vars, parent, world, Submit, SubmitRaises, Filled, Wait,
                Yield, Resume, Abandon, ShutDown, Crash, RunAgain, WorkerDies
  <2>3. QED
    BY <2>1, <2>2
<1>4. QED
  BY <1>1, <1>2, <1>3, BatchInvariant, PTL DEF Spec, FinishedReportsStay
=============================================================================
