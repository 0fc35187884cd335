------------------------------- MODULE Arena -------------------------------
(***************************************************************************)
(* What a memory allocator promises its callers: regions of an arena of    *)
(* Words words that are at least as large as asked for, that never overlap *)
(* another region in use, and that stay where they are until given back.   *)
(***************************************************************************)
EXTENDS Integers

CONSTANTS Words,      \* the size of the arena
          Requests    \* the sizes that callers ask for

VARIABLE regions      \* the regions in use: start |-> size

Taken(a) == a..(a + regions[a] - 1)

Init == regions = [a \in {} |-> 0]

Give(want) ==
    \E a \in 0..(Words - 1), size \in want..Words :
        /\ a + size <= Words
        /\ \A b \in DOMAIN regions : Taken(b) \cap (a..(a + size - 1)) = {}
        /\ regions' = [b \in DOMAIN regions \cup {a} |->
                          IF b = a THEN size ELSE regions[b]]

TakeBack(a) == regions' = [b \in DOMAIN regions \ {a} |-> regions[b]]

Next == \/ \E want \in Requests : Give(want)
        \/ \E a \in DOMAIN regions : TakeBack(a)

Spec == Init /\ [][Next]_regions
=============================================================================
