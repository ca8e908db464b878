---------------------------- MODULE MCLinkedlist ----------------------------
(* Linkedlist with few nodes; two of the data pointers compare equal. *)
EXTENDS Linkedlist, TLC

Ties == [d \in Data |-> d \div 2]

AllOps    == ByData \cup ByIndex \cup {"get_last", "remove_last", "clear"}
Appending == {"add", "get", "remove_data", "clear"}

Sym == Permutations(Nodes)

(* What a later step can still read: not the fields of freed nodes, the    *)
(* index of an empty cache entry, or last of an empty list.                *)
Live == <<first, IF size = 0 THEN NULL ELSE last, size,
          [m \in owned |-> <<ptr[m], data[m]>>],
          [k \in Slots |-> IF cacheEnt[k] = NULL THEN 0 ELSE cacheIdx[k]], cacheEnt,
          owned, chain, pc, call, ret, locals>>
=============================================================================
