-------------------------------- MODULE CodeMap --------------------------------
(***************************************************************************)
(* What the engine promises about code: an address belongs to at most one  *)
(* function at a time.  A function takes its code in one piece, its entry  *)
(* included and all of it free, and gives it up in one piece; no step      *)
(* takes an address from another function.  What is stuck a function may   *)
(* leave behind when it gives up the rest, for others to take.             *)
(***************************************************************************)
EXTENDS TLC

CONSTANT Addr

VARIABLES
    owner,  \* the function an address belongs to: a partial function
    stuck   \* addresses whose functions do not know to give them up

Init == owner = <<>>

Owned(fn) == {a \in DOMAIN owner : owner[a] = fn}

(* All it has is what it left behind. *)
Gone(fn) == Owned(fn) \subseteq stuck

Claim(fn) ==
    LET code == {a \in DOMAIN owner' : owner'[a] = fn}
    IN  /\ Gone(fn)
        /\ fn \in code \ DOMAIN owner
        /\ code \subseteq Addr
        /\ \A a \in code \cap DOMAIN owner : Gone(owner[a])
        /\ owner' = [a \in code |-> fn] @@ owner

Release(fn) ==
    \E left \in SUBSET (Owned(fn) \cap stuck) :
        owner' = [a \in (DOMAIN owner \ Owned(fn)) \cup left |-> owner[a]]

Next == \E fn \in Addr : Claim(fn) \/ Release(fn)

Spec == Init /\ [][Next]_owner
=============================================================================
