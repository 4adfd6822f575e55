---------------------------- MODULE FunctionGraph ----------------------------
(***************************************************************************)
(* The control flow graph of a reported function and what is computed from *)
(* it: smda/DisassemblyResult.py, smda/common/SmdaFunction.py, Tarjan.py,  *)
(* DominatorTree.py and BlockLocator.py.                                   *)
(*                                                                         *)
(* A function is a record [offset, blocks, tries].  blocks is the sequence *)
(* of its blocks in the order they were found, [start, end, to]: the       *)
(* addresses they occupy and those their last instruction leads to.  tries *)
(* holds the try ranges, [start, end, targets].  A graph is a function     *)
(* from nodes to the set of their successors; sets are visited in          *)
(* ascending order.                                                        *)
(***************************************************************************)
EXTENDS Integers, Sequences, SequencesExt, FiniteSets, FiniteSetsExt

NoNode == -1

Ascending(set) == SetToSortSeq(set, <)

Starts(fn) == {b.start : b \in ToSet(fn.blocks)}

BlockAt(fn, start) == CHOOSE b \in ToSet(fn.blocks) : b.start = start

-----------------------------------------------------------------------------
(* Block references. *)

(* DisassemblyResult takes the first block that holds the address. *)
FirstContaining(fn, address) ==
    LET holding == {i \in DOMAIN fn.blocks : fn.blocks[i].start <= address /\ address < fn.blocks[i].end}
    IN  IF holding = {} THEN address ELSE fn.blocks[Min(holding)].start

(* SmdaFunction looks at the nearest block to the left only. *)
NearestContaining(fn, address) ==
    LET left == {s \in Starts(fn) : s <= address}
    IN  IF left # {} /\ address < BlockAt(fn, Max(left)).end THEN Max(left) ELSE address

Active(fn) == {i \in DOMAIN fn.tries : fn.tries[i].targets # {}}

Guarded(try, block) == try.start < block.end /\ block.start < try.end

(* _getExceptionSuccessors() *)
ExceptionSuccessors(fn, block) ==
    UNION {{FirstContaining(fn, t) : t \in fn.tries[i].targets} :
              i \in {j \in Active(fn) : Guarded(fn.tries[j], block)}}

(* getBlockRefs(): edges to blocks of the function and to its handlers. *)
GetBlockRefs(fn) ==
    LET refs == [s \in Starts(fn) |->
                    (BlockAt(fn, s).to \cap Starts(fn)) \cup ExceptionSuccessors(fn, BlockAt(fn, s))]
        handlers == UNION {ExceptionSuccessors(fn, b) : b \in ToSet(fn.blocks)}
    IN  [n \in Starts(fn) \cup handlers |-> IF n \in Starts(fn) THEN refs[n] ELSE {}]

(* getNormalizedBlockRefs(), of fresh references and of loaded ones. *)
NormalizedBlockRefs(fn, refs) ==
    LET Targets(i) == {NearestContaining(fn, t) : t \in fn.tries[i].targets}
        Of(s) == (IF s \in DOMAIN refs THEN refs[s] ELSE {})
                 \cup UNION {Targets(i) : i \in {j \in Active(fn) : Guarded(fn.tries[j], BlockAt(fn, s))}}
    IN  [n \in Starts(fn) \cup UNION {Targets(i) : i \in Active(fn)} |->
            IF n \in Starts(fn) THEN Of(n) ELSE {}]

(* A new report normalizes only what has try ranges. *)
FreshBlockRefs(fn) ==
    IF fn.tries # <<>> THEN NormalizedBlockRefs(fn, GetBlockRefs(fn)) ELSE GetBlockRefs(fn)

(* BlockLocator: the nearest block to the left, or none. *)
FindBlock(fn, address) ==
    LET left == {s \in Starts(fn) : s <= address}
    IN  IF left # {} /\ address < BlockAt(fn, Max(left)).end THEN Max(left) ELSE NoNode

-----------------------------------------------------------------------------
(* Tarjan's strongly connected components, with the call stack the code     *)
(* keeps: <<node, how many of its successors were looked at>>.              *)

Successors(graph, v) == IF v \in DOMAIN graph THEN Ascending(graph[v]) ELSE <<>>

Nodes(graph) == DOMAIN graph \cup UNION {graph[v] : v \in DOMAIN graph}

Lower(low, v, value) == [low EXCEPT ![v] = IF value < @ THEN value ELSE @]

(* w gets a number and is called. *)
Discover(st, w) ==
    [st EXCEPT !.index[w] = st.next, !.low[w] = st.next, !.next = @ + 1,
               !.stack = Append(@, w), !.calls = Append(@, <<w, 0>>)]

LookAt(st, v, w) ==
    CASE st.index[w] = NoNode -> Discover(st, w)
      [] Contains(st.stack, w) -> [st EXCEPT !.low = Lower(@, v, st.index[w])]
      [] OTHER -> st

(* The call for v is over: v may be the root of a component. *)
Leave(st, v) ==
    LET at   == CHOOSE i \in DOMAIN st.stack : st.stack[i] = v
        root == st.low[v] = st.index[v]
        up   == Front(st.calls)
    IN  [st EXCEPT
            !.result = IF root THEN Append(@, ToSet(SubSeq(st.stack, at, Len(st.stack)))) ELSE @,
            !.stack = IF root THEN SubSeq(@, 1, at - 1) ELSE @,
            !.low = IF up = <<>> THEN @ ELSE Lower(@, Last(up)[1], st.low[v]),
            !.calls = up]

RECURSIVE Explore(_, _)
Explore(graph, st) ==
    IF st.calls = <<>> THEN st
    ELSE LET v    == Last(st.calls)[1]
             i    == Last(st.calls)[2] + 1
             succ == Successors(graph, v)
         IN  Explore(graph,
                 IF i <= Len(succ)
                 THEN LookAt([st EXCEPT !.calls = Append(Front(@), <<v, i>>)], v, succ[i])
                 ELSE Leave(st, v))

CalculateScc(graph) ==
    LET none == [n \in Nodes(graph) |-> NoNode]
        start == [index |-> none, low |-> none, next |-> 0,
                  stack |-> <<>>, calls |-> <<>>, result |-> <<>>]
    IN  FoldLeft(LAMBDA st, root : IF st.index[root] # NoNode THEN st
                                   ELSE Explore(graph, Discover(st, root)),
                 start, Ascending(DOMAIN graph)).result

(* Components come before those that lead to them, so what they reach is    *)
(* known when it is needed.                                                 *)
Direct(graph, scc) == UNION {IF v \in DOMAIN graph THEN graph[v] ELSE {} : v \in scc}

ClosureStep(graph, known, scc) ==
    LET further == {known[w] : w \in Direct(graph, scc) \cap DOMAIN known}
        reach   == Direct(graph, scc) \cup UNION further \cup IF Cardinality(scc) > 1 THEN scc ELSE {}
    IN  [n \in DOMAIN known \cup scc |-> IF n \in scc THEN reach ELSE known[n]]

Closure(graph) ==
    FoldLeft(LAMBDA known, scc : ClosureStep(graph, known, scc), <<>>, CalculateScc(graph))

-----------------------------------------------------------------------------
(* Lengauer and Tarjan's dominators. *)

FixGraph(graph) ==
    [n \in Nodes(graph) |-> IF n \in DOMAIN graph THEN graph[n] ELSE {}]

(* Numbers and parents in the order of a depth first search. *)
RECURSIVE Search(_, _)
Search(graph, st) ==
    IF st.stack = <<>> THEN st
    ELSE LET v    == Last(st.stack)[1]
             i    == Last(st.stack)[2] + 1
             succ == Ascending(graph[v])
             next == [st EXCEPT !.stack = Append(Front(@), <<v, i>>), !.pred[succ[i]] = @ \cup {v}]
         IN  Search(graph,
                 CASE i > Len(succ) -> [st EXCEPT !.stack = Front(@)]
                   [] st.semi[succ[i]] # NoNode -> next
                   [] OTHER -> [next EXCEPT !.semi[succ[i]] = Len(st.vertex),
                                            !.parent[succ[i]] = v,
                                            !.vertex = Append(@, succ[i]),
                                            !.stack = Append(@, <<succ[i], 0>>)])

DepthFirstSearch(graph, root) ==
    LET none == [n \in DOMAIN graph |-> NoNode]
    IN  Search(graph, [semi |-> [none EXCEPT ![root] = 0], parent |-> none, vertex |-> <<root>>,
                       pred |-> [n \in DOMAIN graph |-> {}], stack |-> <<<<root, 0>>>>,
                       ancestor |-> none, label |-> [n \in DOMAIN graph |-> n],
                       bucket |-> [n \in DOMAIN graph |-> {}], dom |-> none])

(* COMPRESS() hangs the whole path on its root, the top of it first. *)
\* fault: the path is compressed without the labels
RECURSIVE CompressPath(_, _)
CompressPath(st, v) ==
    LET up == CompressPath(st, st.ancestor[v])
        w  == st.ancestor[v]
    IN  IF st.ancestor[w] = NoNode THEN st
        ELSE [up EXCEPT !.ancestor[v] = up.ancestor[w]]

RECURSIVE Compress(_, _)
Compress(st, v) ==
    LET up == Compress(st, st.ancestor[v])
        w  == st.ancestor[v]
    IN  IF st.ancestor[w] = NoNode THEN st
        ELSE [up EXCEPT !.ancestor[v] = up.ancestor[w],
                        !.label[v] = IF up.semi[up.label[w]] < up.semi[@] THEN up.label[w] ELSE @]

(* EVAL(): what is on no tree yet stands for itself. *)
Compressed(st, v) == IF st.ancestor[v] = NoNode THEN st ELSE Compress(st, v)

Labelled(st, v) == IF st.ancestor[v] = NoNode THEN v ELSE st.label[v]

SemiStep(st, w, v) ==
    LET done == Compressed(st, v)
        u    == Labelled(done, v)
    IN  [done EXCEPT !.semi[w] = IF done.semi[u] < @ THEN done.semi[u] ELSE @]

BucketStep(st, w, v) ==
    LET done == Compressed(st, v)
        u    == Labelled(done, v)
    IN  [done EXCEPT !.dom[v] = IF done.semi[u] < done.semi[v] THEN u ELSE done.parent[w]]

Link(st, w) ==
    [st EXCEPT !.bucket[st.vertex[st.semi[w] + 1]] = @ \cup {w}, !.ancestor[w] = st.parent[w]]
EmptyBucket(st, w) ==
    LET settled == FoldLeft(LAMBDA s, v : BucketStep(s, w, v), st, Ascending(st.bucket[st.parent[w]]))
    IN  [settled EXCEPT !.bucket[st.parent[w]] = {}]   \* parents stay as they are
Step2And3(st, w) ==
    EmptyBucket(Link(FoldLeft(LAMBDA s, v : SemiStep(s, w, v), st, Ascending(st.pred[w])), w), w)

Step4(st, w) ==
    IF st.dom[w] # st.vertex[st.semi[w] + 1] THEN [st EXCEPT !.dom[w] = st.dom[st.dom[w]]] ELSE st

(* The immediate dominators of what the root reaches. *)
DominatorsIn(found) ==
    LET below == FoldLeft(Step2And3, found, Reverse(Tail(found.vertex)))
        final == FoldLeft(Step4, below, Tail(found.vertex))
    IN  [n \in ToSet(Tail(found.vertex)) |-> final.dom[n]]
Dominators(graph, root) == DominatorsIn(DepthFirstSearch(FixGraph(graph), root))

-----------------------------------------------------------------------------
(* Nesting: how many targets of decisions lie on the longest way down the   *)
(* dominator tree.                                                          *)

Significant(graph) == UNION {graph[v] : v \in {u \in DOMAIN graph : Cardinality(graph[u]) > 1}}

RECURSIVE Cost(_, _, _)
Cost(graph, dom, n) ==
    LET children == {c \in DOMAIN dom : dom[c] = n}
        own == IF n \in Significant(graph) THEN 1 ELSE 0
    IN  own + Max({0} \cup {Cost(graph, dom, c) : c \in children})

CostOf(graph, dom, root) == IF DOMAIN dom = {} THEN 0 ELSE Cost(graph, dom, root)
NestingDepth(graph, root) ==
    IF root = NoNode \/ Cardinality(DOMAIN graph) = 1 THEN 0 ELSE CostOf(graph, Dominators(graph, root), root)

-----------------------------------------------------------------------------
(* What the answers are held against. *)

(* What v leads to, on ways that leave out one node. *)
RECURSIVE Reached(_, _, _)
Reached(graph, from, without) ==
    LET more == (from \cup UNION {graph[v] : v \in from}) \ {without}
    IN  IF more = from THEN from ELSE Reached(graph, more, without)

ReachableFrom(graph, v) == Reached(graph, graph[v], NoNode)

Dominates(graph, root, d, n) ==
    \/ d = n \/ d = root
    \/ n \notin Reached(graph, {root}, d)

(* The closest of the nodes that dominate n, other than n. *)
IsImmediateDominator(graph, root, d, n) ==
    /\ d # n /\ Dominates(graph, root, d, n)
    /\ \A e \in DOMAIN graph \ {n} : Dominates(graph, root, e, n) => Dominates(graph, root, e, d)

Disjoint(fn) ==
    \A b, c \in ToSet(fn.blocks) : b = c \/ b.end <= c.start \/ c.end <= b.start
=============================================================================
