---------------------------- MODULE BatchProcessor ----------------------------
(***************************************************************************)
(* Many files on several processes: smda/utility/BatchProcessor.py.        *)
(*                                                                         *)
(* The parent keeps up to twice as many tasks in flight as a pool has      *)
(* workers, waits for results and yields them; a worker analyses a file,   *)
(* writes the report and returns a summary.  The pools are                 *)
(* ProcessPoolExecutors: when a worker dies its pool is broken, every      *)
(* unfinished future of the pool fails and nothing more can be submitted.  *)
(*                                                                         *)
(* Workers die, analyses raise, the consumer may lose interest, and the    *)
(* machine may stop; a later run can resume.  Files are numbered in path   *)
(* order.  A status other than "error" counts as "ok".                     *)
(***************************************************************************)
EXTENDS Integers, Sequences, FiniteSets, FiniteSetsExt

CONSTANTS
    Corpus,       \* the collected paths in order, each a sequence of characters
    LargeFiles,   \* the numbers of those of at least large_input_bytes
    workers,      \* the worker count asked for
    Capacity,     \* how many large files the memory budget admits at a time
    resume,       \* whether files with a report are skipped
    MaxDeaths,    \* workers that may die
    MaxRuns       \* runs over the corpus

Files == 1..Len(Corpus)

ASSUME BatchAssumption ==
    /\ Corpus \in Seq(Seq(STRING))
    /\ LargeFiles \subseteq Files
    /\ workers \in Nat \ {0} /\ Capacity \in Nat
    /\ resume \in BOOLEAN
    /\ MaxDeaths \in Nat /\ MaxRuns \in Nat \ {0}

VARIABLES
    phase,    \* where the parent is
    tasks,    \* the files of this run
    pending,  \* per pool, the tasks not submitted yet
    flight,   \* per pool, the tasks submitted and not yielded
    job,      \* per file, how far its future got
    broken,   \* pools that lost a worker
    batch,    \* finished tasks being yielded
    told,     \* per file, the outcomes yielded in this run
    reports,  \* per stem with a report file, the files whose reports are in it
    deaths,   \* workers that died
    runs      \* runs begun

parent == <<tasks, pending, flight, batch, told, runs>>
world  == <<reports, deaths>>
vars   == <<phase, parent, job, broken, world>>

Pools == {"large", "small"}

(* deriveReportStem(): the separators of the path become underscores. *)
DeriveReportStem(path) == [i \in DOMAIN path |-> IF path[i] = "/" THEN "_" ELSE path[i]]

Report(f) == DeriveReportStem(Corpus[f])

-----------------------------------------------------------------------------
(* How the workers are shared out between large and small files. *)

WorkerCount(count) == Max({1, Min({workers, count})})

HasTwoPools(large, small) ==
    large # {} /\ WorkerCount(Cardinality(large \cup small)) > 1

\* fault: no worker is reserved for the small files
LargeWorkersGreedy(large, small) ==
    Max({1, Min({WorkerCount(Cardinality(large \cup small)), Cardinality(large), Capacity})})

LargeWorkers(large, small) ==
    LET reserved == IF small # {} THEN 1 ELSE 0
    IN  Max({1, Min({WorkerCount(Cardinality(large \cup small)) - reserved,
                     Cardinality(large), Capacity})})

SmallWorkers(large, small) ==
    LET rest == IF HasTwoPools(large, small) THEN LargeWorkers(large, small) ELSE 0
        own  == IF HasTwoPools(large, small) THEN small ELSE large \cup small
    IN  Max({1, Min({WorkerCount(Cardinality(large \cup small)) - rest, Cardinality(own)})})

PoolWorkers(pool) ==
    IF pool = "large" THEN LargeWorkers(tasks \cap LargeFiles, tasks \ LargeFiles)
                      ELSE SmallWorkers(tasks \cap LargeFiles, tasks \ LargeFiles)

Partition(chosen) ==
    LET split == IF HasTwoPools(chosen \cap LargeFiles, chosen \ LargeFiles)
                 THEN chosen \cap LargeFiles ELSE {}
    IN  [pool \in Pools |-> IF pool = "large" THEN split ELSE chosen \ split]

(* A pool's tasks stand in path order, the large ones first. *)
Ahead(f, g) == IF f \in LargeFiles <=> g \in LargeFiles THEN f <= g ELSE f \in LargeFiles

-----------------------------------------------------------------------------
(* The parent: _runPartitions() *)

Wanting(pool) == /\ pending[pool] # {}
                 /\ Cardinality(flight[pool]) < 2 * PoolWorkers(pool)

(* The large pool is filled first. *)
NextPool(pool) == phase = "fill" /\ Wanting(pool) /\ (pool = "large" \/ ~Wanting("large"))

Submit(pool) ==
    /\ NextPool(pool) /\ pool \notin broken
    /\ \E f \in pending[pool] :
          /\ \A g \in pending[pool] : Ahead(f, g)
          /\ pending' = [pending EXCEPT ![pool] = @ \ {f}]
          /\ flight' = [flight EXCEPT ![pool] = @ \cup {f}]
          /\ job' = [job EXCEPT ![f] = "queued"]
    /\ UNCHANGED <<phase, tasks, broken, batch, told, runs, world>>

\* fault: the task is submitted again and again
SubmitRetries(pool) ==
    /\ NextPool(pool) /\ pool \in broken
    /\ UNCHANGED vars

(* submit() raises BrokenProcessPool, which nothing catches: the pools are *)
(* shut down and the generator ends.                                       *)
SubmitRaises(pool) ==
    /\ NextPool(pool) /\ pool \in broken
    /\ phase' = "aborting"
    /\ UNCHANGED <<parent, job, broken, world>>

Owners == flight["large"] \cup flight["small"]

Returned(f) == job[f] \in {"ok", "unwritten", "error"}
Resolved(f) == Returned(f) \/ job[f] = "dead"

Filled ==
    /\ phase = "fill" /\ \A pool \in Pools : ~Wanting(pool)
    /\ phase' = IF Owners = {} THEN "returned" ELSE "wait"
    /\ UNCHANGED <<parent, job, broken, world>>

Wait ==
    /\ phase = "wait"
    /\ \E f \in Owners : Resolved(f)
    /\ batch' = {f \in Owners : Resolved(f)}
    /\ phase' = "yield"
    /\ UNCHANGED <<tasks, pending, flight, told, runs, job, broken, world>>

Tell(f) ==
    /\ batch' = batch \ {f}
    /\ told' = [told EXCEPT ![f] = Append(@, IF Returned(f) THEN job[f] ELSE "error")]

\* fault: a result stays in flight after it was yielded
YieldAndKeep ==
    /\ phase = "yield" /\ phase' = "suspended"
    /\ \E f \in batch : (\A g \in batch : f <= g) /\ Tell(f)
    /\ UNCHANGED <<tasks, pending, flight, runs, job, broken, world>>

(* A batch is yielded in path order. *)
Yield ==
    /\ phase = "yield" /\ phase' = "suspended"
    /\ \E f \in batch :
          /\ \A g \in batch : f <= g
          /\ Tell(f)
          /\ flight' = [pool \in Pools |-> flight[pool] \ {f}]
    /\ UNCHANGED <<tasks, pending, runs, job, broken, world>>

(* The consumer asks for more, or closes the generator. *)
Resume ==
    /\ phase = "suspended"
    /\ phase' = IF batch = {} THEN "fill" ELSE "yield"
    /\ UNCHANGED <<parent, job, broken, world>>

Abandon == phase = "suspended" /\ phase' = "closing" /\ UNCHANGED <<parent, job, broken, world>>

(* Leaving the pools waits for what was submitted to them. *)
ShutDown ==
    /\ phase \in {"closing", "aborting"}
    /\ \A f \in Owners : Resolved(f)
    /\ phase' = IF phase = "closing" THEN "closed" ELSE "aborted"
    /\ UNCHANGED <<parent, job, broken, world>>

-----------------------------------------------------------------------------
(* The workers: _analyzeOneFile() *)

Busy(pool) == {f \in flight[pool] : job[f] \in {"analyzing", "writing"}}

StartTask(f) ==
    /\ job[f] = "queued"
    /\ \E pool \in Pools : f \in flight[pool] /\ Cardinality(Busy(pool)) < PoolWorkers(pool)
    /\ job' = [job EXCEPT ![f] = "analyzing"]
    /\ UNCHANGED <<phase, parent, broken, world>>

\* fault: a report that cannot be written goes unnoticed
RaiseUnnoticed(f) ==
    /\ job[f] \in {"analyzing", "writing"}
    /\ job' = [job EXCEPT ![f] = IF @ = "analyzing" THEN "error" ELSE "ok"]
    /\ UNCHANGED <<phase, parent, broken, world>>

(* The analysis raises, or the report cannot be written: the summary then  *)
(* keeps the status of the disassembly, but has an error and no path.      *)
Raise(f) ==
    /\ job[f] \in {"analyzing", "writing"}
    /\ job' = [job EXCEPT ![f] = IF @ = "analyzing" THEN "error" ELSE "unwritten"]
    /\ UNCHANGED <<phase, parent, broken, world>>

(* open(..., "w") truncates what was there. *)
OpenReport(f) ==
    /\ job[f] = "analyzing"
    /\ job' = [job EXCEPT ![f] = "writing"]
    /\ reports' = [s \in DOMAIN reports \cup {Report(f)} |->
                      IF s = Report(f) THEN {} ELSE reports[s]]
    /\ UNCHANGED <<phase, parent, broken, deaths>>

(* The report of a failed disassembly is written too. *)
WriteReport(f) ==
    /\ job[f] = "writing"
    /\ \E status \in {"ok", "error"} : job' = [job EXCEPT ![f] = status]
    /\ reports' = [reports EXCEPT ![Report(f)] = @ \cup {f}]
    /\ UNCHANGED <<phase, parent, broken, deaths>>

Work(f) == f \in Owners /\ (StartTask(f) \/ Raise(f) \/ OpenReport(f) \/ WriteReport(f))

(* A worker is killed, and its pool with it. *)
WorkerDies(pool) ==
    /\ deaths < MaxDeaths
    /\ Busy(pool) # {}
    /\ broken' = broken \cup {pool}
    /\ job' = [f \in Files |-> IF f \in flight[pool] /\ ~Returned(f)
                               THEN "dead" ELSE job[f]]
    /\ deaths' = deaths + 1
    /\ UNCHANGED <<phase, parent, reports>>

-----------------------------------------------------------------------------
(* Runs *)

Over == phase \in {"returned", "aborted", "closed"}

(* The machine stops, workers and all. *)
Crash ==
    /\ ~Over /\ runs < MaxRuns
    /\ phase' = "closed"
    /\ flight' = [pool \in Pools |-> {}] /\ batch' = {}
    /\ UNCHANGED <<tasks, pending, told, runs, job, broken, world>>

\* fault: finished files are analysed again
ChosenAll(onDisk) == Files

(* Files with a report are skipped when resuming. *)
Chosen(onDisk) == IF resume THEN {f \in Files : Report(f) \notin DOMAIN onDisk} ELSE Files

RunAgain ==
    /\ Over /\ runs < MaxRuns
    /\ runs'    = runs + 1
    /\ phase'   = "fill"
    /\ tasks'   = Chosen(reports)
    /\ pending' = Partition(Chosen(reports))
    /\ flight'  = [pool \in Pools |-> {}]
    /\ job'     = [f \in Files |-> "none"]
    /\ broken'  = {}
    /\ batch'   = {}
    /\ told'    = [f \in Files |-> <<>>]
    /\ UNCHANGED world

Init ==
    /\ phase = "fill" /\ runs = 1
    /\ tasks = Files
    /\ pending = Partition(Files)
    /\ flight = [pool \in Pools |-> {}]
    /\ job = [f \in Files |-> "none"]
    /\ broken = {} /\ batch = {}
    /\ told = [f \in Files |-> <<>>]
    /\ reports = <<>> /\ deaths = 0

Parent == \/ \E pool \in Pools : Submit(pool) \/ SubmitRaises(pool)
          \/ Filled \/ Wait \/ Yield \/ Resume \/ ShutDown

Done == Over /\ runs = MaxRuns /\ UNCHANGED vars

Next == \/ Parent \/ Abandon \/ Crash \/ RunAgain \/ Done
        \/ \E f \in Files : Work(f)
        \/ \E pool \in Pools : WorkerDies(pool)

Spec == Init /\ [][Next]_vars

(* The parent runs and its consumer asks on; a worker's task ends. *)
FairSpec == Spec /\ WF_vars(Parent) /\ \A f \in Files : WF_vars(Work(f))

-----------------------------------------------------------------------------
(***************************************************************************)
(* Every variable has its type; what is in flight belongs to the run.      *)
(***************************************************************************)
TypeOK ==
    /\ phase \in {"fill", "wait", "yield", "suspended", "closing", "aborting",
                  "returned", "aborted", "closed"}
    /\ tasks \subseteq Files /\ batch \subseteq Owners
    /\ pending \in [Pools -> SUBSET tasks] /\ flight \in [Pools -> SUBSET tasks]
    /\ job \in [Files -> {"none", "queued", "analyzing", "writing", "ok", "unwritten", "error", "dead"}]
    /\ broken \subseteq Pools
    /\ told \in [Files -> Seq({"ok", "unwritten", "error"})]
    /\ \A s \in DOMAIN reports : s \in {Report(f) : f \in Files} /\ reports[s] \subseteq Files
    /\ deaths \in 0..MaxDeaths /\ runs \in 1..MaxRuns

(***************************************************************************)
(* No file is reported twice, and a run that returns reported every file,  *)
(* dead workers, broken pools and results landing while others are yielded *)
(* included ("yielding one summary dict per completed file").              *)
(***************************************************************************)
OneSummaryEach ==
    /\ \A f \in Files : Len(told[f]) <= 1
    /\ phase = "returned" => \A f \in tasks : Len(told[f]) = 1

(***************************************************************************)
(* However a run ends by itself, it has reported every file: a dead worker *)
(* becomes an error summary and does not abort the run.                    *)
(***************************************************************************)
EveryFileAccountedFor ==
    phase \in {"returned", "aborted"} => \A f \in tasks : told[f] # <<>>

(***************************************************************************)
(* Same-named samples in different folders do not overwrite each other's   *)
(* reports (deriveReportStem, README): who was reported as done has its    *)
(* report on disk.  The code does not keep this: a/b/x and a_b/x have one  *)
(* stem.                                                                   *)
(***************************************************************************)
ReportsAreNotOverwritten ==
    \A f \in Files : told[f] = <<"ok">> => f \in reports[Report(f)]

(* The files whose stem is no other file's. *)
Unshared == {f \in Files : \A g \in Files \ {f} : Report(g) # Report(f)}

(***************************************************************************)
(* A file reported as done has its report on disk, all of it and nothing   *)
(* of another file's; except where another file has the same stem.         *)
(***************************************************************************)
ReportsAreOwn ==
    \A f \in Unshared : told[f] = <<"ok">> => reports[Report(f)] = {f}

(***************************************************************************)
(* The two pools together never run more analyses than workers were asked  *)
(* for ("the second pool must not push total concurrency past the          *)
(* requested worker count").                                               *)
(***************************************************************************)
WithinWorkers == Cardinality(Busy("large")) + Cardinality(Busy("small")) <= workers

(***************************************************************************)
(* A finished report is never touched again: not by a run that resumes,    *)
(* and not by another file's worker; except where another file has the     *)
(* same stem.                                                              *)
(***************************************************************************)
FinishedReportsStay ==
    [][\A s \in {Report(f) : f \in Unshared} \cap DOMAIN reports :
            reports[s] # {} => reports'[s] = reports[s]]_vars

(***************************************************************************)
(* A run ends whatever dies: neither a dead worker nor a broken pool       *)
(* leaves the parent waiting.                                              *)
(***************************************************************************)
RunsEnd == []<>Over

-----------------------------------------------------------------------------
(* What the runs check together.                                            *)

(* Tasks, pools and reports have their types, and the pools together never  *)
(* analyse more files at a time than there are workers.                     *)
PoolsStayWithinBounds ==
    /\ TypeOK
    /\ WithinWorkers
=============================================================================
