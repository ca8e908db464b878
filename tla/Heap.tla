-------------------------------- MODULE Heap --------------------------------
(***************************************************************************)
(* What a memory allocator promises: a block it grants is at least as long *)
(* as was asked for, lies inside the memory it manages, overlaps no other  *)
(* block, and stays where it is and as long as it is until it is released. *)
(***************************************************************************)
EXTENDS Integers

CONSTANTS Lo, Hi,      \* blocks lie in Lo .. Hi-1
          Sizes        \* what may be asked for

VARIABLES blocks,      \* the granted blocks, <<first byte, length>>
          pending      \* the request being served: {} or {n}

vars == <<blocks, pending>>

Disjoint(a, b) == a[1] + a[2] <= b[1] \/ b[1] + b[2] <= a[1]

Init == blocks = {} /\ pending = {}

Request == /\ pending = {}
           /\ \E n \in Sizes : pending' = {n}
           /\ UNCHANGED blocks

Fits(b, n) == /\ n <= b[2]
              /\ Lo <= b[1] /\ b[1] + b[2] <= Hi
              /\ \A o \in blocks : Disjoint(b, o)

Grant == /\ \E n \in pending, b \in blocks' :
               /\ Fits(b, n)
               /\ blocks' = blocks \cup {b}
         /\ pending' = {}

Refuse == /\ pending # {}
          /\ pending' = {}
          /\ UNCHANGED blocks

Release == /\ \E b \in blocks : blocks' = blocks \ {b}
           /\ UNCHANGED pending

Next == Request \/ Grant \/ Refuse \/ Release

Spec == Init /\ [][Next]_vars
=============================================================================
