------------------------------- MODULE Reports -------------------------------
(***************************************************************************)
(* The references a disassembly keeps, smda/DisassemblyResult.py, and what *)
(* becomes of a report that is loaded by a later version than the one that *)
(* wrote it, SmdaReport.fromDict() and SmdaFunction.fromDict().            *)
(***************************************************************************)
EXTENDS Integers, Sequences, SequencesExt, FiniteSets, FiniteSetsExt

-----------------------------------------------------------------------------
(* AddressRefs: an address alone is stored bare, a set only from the second *)
(* one on.                                                                  *)

Bare(ref) == [bare |-> TRUE, ref |-> ref, refs |-> {}]

Boxed(refs) == [bare |-> FALSE, ref |-> 0, refs |-> refs]

Stored(map, addr, entry) ==
    [a \in DOMAIN map \cup {addr} |-> IF a = addr THEN entry ELSE map[a]]

Add(map, addr, ref) ==
    CASE addr \notin DOMAIN map -> Stored(map, addr, Bare(ref))
      [] addr \in DOMAIN map /\ map[addr] = Bare(ref) -> map
      [] addr \in DOMAIN map /\ map[addr].bare -> Stored(map, addr, Boxed({map[addr].ref, ref}))
      [] OTHER -> Stored(map, addr, Boxed(map[addr].refs \cup {ref}))

(* An entry that loses its last address stays as an empty set. *)
Discard(map, addr, ref) ==
    CASE addr \notin DOMAIN map -> Stored(map, addr, Boxed({}))
      [] addr \in DOMAIN map /\ map[addr] = Bare(ref) -> Stored(map, addr, Boxed({}))
      [] addr \in DOMAIN map /\ map[addr].bare -> map
      [] OTHER -> Stored(map, addr, Boxed(map[addr].refs \ {ref}))

Get(map, addr) ==
    IF addr \notin DOMAIN map THEN {}
    ELSE IF map[addr].bare THEN {map[addr].ref} ELSE map[addr].refs

NoRefs == [from |-> <<>>, to |-> <<>>]

AddCodeRefs(refs, from, to) ==
    [from |-> Add(refs.from, from, to), to |-> Add(refs.to, to, from)]

RemoveCodeRefs(refs, from, to) ==
    [from |-> Discard(refs.from, from, to), to |-> Discard(refs.to, to, from)]

(* A history of <<"add" or "remove", from, to>>. *)
References(history) ==
    FoldLeft(LAMBDA refs, step : IF step[1] = "add" THEN AddCodeRefs(refs, step[2], step[3])
                                 ELSE RemoveCodeRefs(refs, step[2], step[3]),
             NoRefs, history)

(* What the references say of a function: [offset, instructions, low, high] *)
(* with the bounds of the image.                                            *)
Targets(fn, refs) == UNION {Get(refs.from, i) : i \in fn.instructions}

GetOutRefs(fn, refs) ==
    LET inside == fn.instructions \ {fn.offset}
    IN  [i \in fn.instructions |->
            {t \in Get(refs.from, i) : fn.low <= t /\ t < fn.high /\ t \notin inside}]

IsRecursiveFunction(fn, refs) == fn.offset \in Targets(fn, refs)

IsLeafFunction(fn, refs) == Targets(fn, refs) \subseteq fn.instructions

-----------------------------------------------------------------------------
(* Versions: [known, numbers, pre].  An unknown one cannot be ordered; pre  *)
(* tells the candidates of a release from the release.                      *)

PythonLess(a, b) ==
    LET differ == {i \in 1..Len(a) : i <= Len(b) /\ a[i] # b[i]}
    IN  IF differ = {} THEN Len(a) < Len(b) ELSE a[Min(differ)] < b[Min(differ)]

IsBeforeEscapeVersion(version, numbers) ==
    \/ PythonLess(version.numbers, numbers)
    \/ version.numbers = numbers /\ version.pre

Gates == [aarch64 |-> <<4, 2, 0>>, intel |-> <<4, 3, 5>>,
          cil |-> <<4, 3, 8>>, dalvik |-> <<4, 4, 2>>]

Escapers == {"intel", "aarch64", "arm", "cil", "dalvik"}

IsOutdated(version, architecture) ==
    \/ ~version.known
    \/ IsBeforeEscapeVersion(version, <<1, 3, 0>>)
    \/ architecture \in DOMAIN Gates /\ IsBeforeEscapeVersion(version, Gates[architecture])

(* A saved function: [version, architecture, bounds, hash, nesting]: bounds *)
(* tells whether the image is known, hash and nesting which generation of   *)
(* the algorithm they are from.  0 stands for a missing value.              *)
Crashed == [crashed |-> TRUE, hash |-> 0, nesting |-> 0]

(* The generation the architecture's hashes are of today. *)
Newest == [aarch64 |-> 4, intel |-> 3, cil |-> 3, dalvik |-> 4, arm |-> 2]

Escaped(saved) == saved.architecture \in Escapers /\ saved.bounds

(* As a last resort it is taken for Intel code. *)
AsIntel(saved) ==
    ~saved.version.known /\ ~Escaped(saved) /\ saved.architecture \in {"none", "intel"}

LoadedHash(saved) ==
    CASE IsOutdated(saved.version, saved.architecture) /\ Escaped(saved) -> Newest[saved.architecture]
      [] AsIntel(saved) -> Newest["intel"]
      [] OTHER -> saved.hash

FromDict(saved) ==
    IF AsIntel(saved) /\ ~saved.bounds THEN Crashed
    ELSE [crashed |-> FALSE, hash |-> LoadedHash(saved),
          nesting |-> IF IsOutdated(saved.version, saved.architecture) \/ saved.nesting = 0
                      THEN 2 ELSE saved.nesting]

(* Loading leaves the version a report is from as it is. *)
ToDict(saved, loaded) == [saved EXCEPT !.hash = loaded.hash, !.nesting = loaded.nesting]

-----------------------------------------------------------------------------
(* The releases that changed what a hash is of, as the change log has them. *)
Changes == [aarch64 |-> {<<1, 3, 0>>, <<4, 1, 0>>, <<4, 2, 0>>}, intel |-> {<<1, 3, 0>>, <<4, 3, 5>>},
            cil |-> {<<1, 3, 0>>, <<4, 3, 8>>}, dalvik |-> {<<1, 3, 0>>, <<4, 3, 10>>, <<4, 4, 2>>},
            arm |-> {<<1, 3, 0>>}]

(* What a version's hashes may be: the candidates of a release may or may   *)
(* not have its change yet.                                                 *)
Generations(version, architecture) ==
    LET changes == Changes[architecture]
        old(c)  == PythonLess(c, version.numbers) \/ (c = version.numbers /\ ~version.pre)
        sure    == Cardinality({c \in changes : old(c)})
    IN  {1 + sure} \cup IF version.numbers \in changes THEN {2 + sure} \ {Cardinality(changes) + 2} ELSE {}
=============================================================================
