-------------------------------- MODULE Map ---------------------------------
(***************************************************************************)
(* What a map from keys to data promises.                                  *)
(***************************************************************************)
EXTENDS Naturals, FiniteSets, Functions

CONSTANTS Keys, Data, NULL,
          Capacity   \* the most keys a map can hold

VARIABLES map,    \* a function from the keys in the map to their data
          ret     \* the last call, its key and its answer

vars == <<map, ret>>

Without(k) == Restrict(map, DOMAIN map \ {k})

Init == map = [k \in {} |-> NULL] /\ ret = NULL

Put(k, d) == /\ k \notin DOMAIN map
             /\ map' = [x \in DOMAIN map \cup {k} |-> IF x = k THEN d ELSE map[x]]
             /\ ret' = <<"put", k, "ok">>

PutAgain(k) == /\ k \in DOMAIN map
               /\ ret' = <<"put", k, "EEXIST">>
               /\ UNCHANGED map

(* The map is full. *)
NoSpace(k) == /\ k \notin DOMAIN map
              /\ Cardinality(DOMAIN map) = Capacity
              /\ ret' = <<"put", k, "ENOSPC">>
              /\ UNCHANGED map

Get(k) == /\ ret' = <<"get", k, IF k \in DOMAIN map THEN map[k] ELSE NULL>>
          /\ UNCHANGED map

Remove(k) == /\ k \in DOMAIN map
             /\ map' = Without(k)
             /\ ret' = <<"remove", k, map[k]>>

RemoveMissing(k) == /\ k \notin DOMAIN map
                    /\ ret' = <<"remove", k, "ENOENT">>
                    /\ UNCHANGED map

(* Both need memory for a table of another size. *)
NoMemory(k) == /\ ret' \in {<<op, k, "ENOMEM">> : op \in {"put", "remove"}}
               /\ UNCHANGED map

Clear == /\ map' = [k \in {} |-> NULL]
         /\ ret' = <<"clear">>

Next == \/ \E k \in Keys, d \in Data : Put(k, d)
        \/ \E k \in Keys : \/ PutAgain(k) \/ NoSpace(k) \/ Get(k) \/ Remove(k) \/ RemoveMissing(k)
                           \/ NoMemory(k)
        \/ Clear

Spec == Init /\ [][Next]_vars
=============================================================================
