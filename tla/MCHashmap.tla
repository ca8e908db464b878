----------------------------- MODULE MCHashmap ------------------------------
(* Hashmap with two small tables.  Their sizes are primes, as are all those *)
(* of the code: a probe sequence then visits every slot.                    *)
EXTENDS Hashmap

(* A hash function that gives different keys the same value.                *)
HashCoarse == [k \in Keys |-> k % 4]

TinyTables == <<3, 5>>

(* Nothing depends on the last answer.                                      *)
Unasked == <<index, table, size, iter, seen, steady>>
=============================================================================
