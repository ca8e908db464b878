----------------------------- MODULE Linkedlist -----------------------------
(***************************************************************************)
(* libmba's linkedlist (src/linkedlist.c): a singly linked list of data    *)
(* pointers that remembers its first and last node, its size, and, in a    *)
(* cache of CACHE_SIZE entries, at which index it last found a node.       *)
(*                                                                         *)
(* One call at a time; a step is one turn of a loop over the nodes, or the *)
(* part of a function before or after its loop.                            *)
(*                                                                         *)
(* A definition X_slip is a mistake that X could contain; no behaviour of  *)
(* the model uses it.                                                      *)
(***************************************************************************)
EXTENDS Integers, SequencesExt

CONSTANTS Nodes,        \* addresses the allocator can return
          Data,         \* data pointers
          Key,          \* cmp(a, b) is Key[a] - Key[b]
          MaxSize,      \* l->max_size
          Ops,          \* the functions the client calls
          FirstByData,  \* it removes the first element with remove_data, even
                        \* when an index is cached
          DelFails,     \* its data_del can fail
          NULL

Unfound == 2147483647    \* (unsigned int)-1, above every index

Growing == {"add", "insert", "insert_sorted", "insert_replacing"}
ByIndex == {"insert", "get", "remove"}
ByData  == Growing \cup {"remove_data"}

(* insert_sorted with a NULL replaced argument, or with one. *)
Calls == {c \in [op : Ops, idx : 0 .. MaxSize, data : Data \cup {NULL}] :
            /\ c.op \in ByIndex \/ c.idx = 0
            /\ IF c.op \in ByData THEN c.data # NULL ELSE c.data = NULL}

ASSUME LinkedlistAssumption == /\ MaxSize \in 1 .. Unfound
                               /\ Key \in [Data -> Int]
                               /\ NULL \notin Nodes \cup Data \cup Calls
                               /\ FirstByData \in BOOLEAN /\ DelFails \in BOOLEAN

VARIABLES
  first, last,         \* l->first, l->last
  size,                \* l->size
  ptr, data,           \* the fields of struct node
  cacheIdx, cacheEnt,  \* l->cache[].idx and l->cache[].ent
  owned,               \* the nodes the allocator has handed out
  chain,               \* auxiliary, read by no action: the list's nodes in order
  pc,                  \* where the call is
  call,                \* its function and arguments, or NULL
  ret,                 \* what the last call returned: its int and its pointer
  i,                   \* index counted by a loop
  n,                   \* node a loop has reached; p in insert_sorted
  new,                 \* the node to be linked in
  slot,                \* ce in linkedlist_get
  failed               \* ret # 0 in linkedlist_deinit

links  == <<first, last, size, ptr, chain>>
cache  == <<cacheIdx, cacheEnt>>
memory == <<data, owned>>
locals == <<i, n, new, slot, failed>>
vars   == <<first, last, size, ptr, data, cacheIdx, cacheEnt, owned, chain, pc,
            call, ret, i, n, new, slot, failed>>

Slots == 0 .. 1          \* CACHE_SIZE is 2

Fail     == <<-1, NULL>>
Done     == <<0, NULL>>
Found(d) == <<0, d>>

Init == /\ first = NULL /\ last = NULL /\ size = 0
        /\ ptr = [m \in Nodes |-> NULL] /\ data = [m \in Nodes |-> NULL]
        /\ cacheIdx = [k \in Slots |-> 0] /\ cacheEnt = [k \in Slots |-> NULL]
        /\ owned = {} /\ chain = <<>>
        /\ pc = "idle" /\ call = NULL /\ ret = NULL
        /\ i = 0 /\ n = NULL /\ new = NULL /\ slot = 0 /\ failed = FALSE

-----------------------------------------------------------------------------
Call(c) == /\ pc = "idle"
           /\ \/ FirstByData \/ cacheEnt = [k \in Slots |-> NULL]
              \/ c.op = "remove_data" /\ size # 0 => data[first] # c.data
           /\ pc' = "start"
           /\ call' = c
           /\ ret' = NULL
           /\ UNCHANGED <<links, cache, memory, locals>>

Start(op) == pc = "start" /\ call.op = op

Go(where) == pc' = where /\ UNCHANGED <<call, ret>>

Return(answer) == /\ pc' = "idle" /\ call' = NULL /\ ret' = answer
                  /\ i' = 0 /\ n' = NULL /\ new' = NULL /\ slot' = 0
                  /\ failed' = FALSE

(* _cache_update_by_index *)
Shifted_slip(ents, idx, by) ==   \* not the entry at idx itself
  [k \in Slots |-> IF ents[k] # NULL /\ cacheIdx[k] > idx THEN cacheIdx[k] + by
                   ELSE cacheIdx[k]]

Shifted(ents, idx, by) ==
  [k \in Slots |-> IF ents[k] # NULL /\ cacheIdx[k] >= idx THEN cacheIdx[k] + by
                   ELSE cacheIdx[k]]

(* _cache_remove_by_node *)
Forgotten(m) == [k \in Slots |-> IF cacheEnt[k] = m THEN NULL ELSE cacheEnt[k]]

(* allocator_alloc has returned the node m. *)
Obtain(m) == /\ m \in Nodes \ owned
             /\ owned' = owned \cup {m}
             /\ data' = [data EXCEPT ![m] = call.data]

Grown(k, m) == size' = size + 1 /\ chain' = InsertAt(chain, k + 1, m)

(* The checks in front of allocator_alloc. *)
Admitted == /\ size # MaxSize
            /\ call.op = "insert" => ~(call.idx > size)

(* They fail, or the allocator does, which it may at any time. *)
Refuse == /\ \E op \in Growing : Start(op)
          /\ Return(Fail)
          /\ UNCHANGED <<links, cache, memory>>

-----------------------------------------------------------------------------
PutLast(m) == /\ ptr' = IF size = 0 THEN [ptr EXCEPT ![m] = NULL]
                        ELSE [ptr EXCEPT ![m] = NULL, ![last] = m]
              /\ first' = IF size = 0 THEN m ELSE first
              /\ last' = m

Add(m) == /\ Start("add") /\ Admitted
          /\ Obtain(m) /\ PutLast(m) /\ Grown(size, m)
          /\ Return(Done)
          /\ UNCHANGED cache

InsertLast(m) == /\ Start("insert") /\ Admitted
                 /\ size = 0 \/ call.idx = size
                 /\ Obtain(m) /\ PutLast(m) /\ Grown(size, m)
                 /\ cacheIdx' = Shifted(cacheEnt, call.idx, 1)
                 /\ Return(Done)
                 /\ UNCHANGED cacheEnt

InsertFirst(m) == /\ Start("insert") /\ Admitted
                  /\ size # 0 /\ call.idx = 0
                  /\ Obtain(m) /\ Grown(0, m)
                  /\ ptr' = [ptr EXCEPT ![m] = first]
                  /\ first' = m
                  /\ cacheIdx' = Shifted(cacheEnt, 0, 1)
                  /\ Return(Done)
                  /\ UNCHANGED <<last, cacheEnt>>

InsertWalk(m) == /\ Start("insert") /\ Admitted
                 /\ call.idx \notin {0, size}
                 /\ Obtain(m)
                 /\ new' = m
                 /\ n' = first
                 /\ i' = 1
                 /\ ptr' = [ptr EXCEPT ![m] = ptr[first]]
                 /\ Go("insert")
                 /\ UNCHANGED <<first, last, size, chain, cache, slot, failed>>

InsertOn == /\ pc = "insert" /\ i < call.idx
            /\ n' = ptr[n]
            /\ i' = i + 1
            /\ ptr' = [ptr EXCEPT ![new] = ptr[ptr[n]]]
            /\ UNCHANGED <<first, last, size, chain, cache, memory, pc, call, ret,
                           new, slot, failed>>

InsertHere == /\ pc = "insert" /\ ~(i < call.idx)
              /\ ptr' = [ptr EXCEPT ![n] = new]
              /\ Grown(call.idx, new)
              /\ cacheIdx' = Shifted(cacheEnt, call.idx, 1)
              /\ Return(Done)
              /\ UNCHANGED <<first, last, cacheEnt, memory>>

-----------------------------------------------------------------------------
(* linkedlist_insert_sorted: n is p, and ptr[new] the node to compare with. *)
SortedStart(m) == /\ pc = "start"
                  /\ call.op \in {"insert_sorted", "insert_replacing"} /\ Admitted
                  /\ Obtain(m)
                  /\ new' = m
                  /\ n' = NULL
                  /\ i' = 0
                  /\ ptr' = [ptr EXCEPT ![m] = first]
                  /\ Go("sorted")
                  /\ UNCHANGED <<first, last, size, chain, cache, slot, failed>>

At == ptr[new]

Cmp_slip == Key[data[At]] - Key[call.data]   \* the arguments are swapped
Cmp == Key[call.data] - Key[data[At]]

Replaces == At # NULL /\ Cmp = 0 /\ call.op = "insert_replacing"
Precedes == At # NULL => Cmp < 0

SortedOn == /\ pc = "sorted" /\ ~Precedes /\ ~Replaces
            /\ n' = At
            /\ i' = i + 1
            /\ ptr' = [ptr EXCEPT ![new] = ptr[At]]
            /\ UNCHANGED <<first, last, size, chain, cache, memory, pc, call, ret,
                           new, slot, failed>>

(* The end of the function: the node is linked in front of after. *)
Linked(after) == /\ ptr' = IF n = NULL THEN [ptr EXCEPT ![new] = after]
                           ELSE [ptr EXCEPT ![new] = after, ![n] = new]
                 /\ first' = IF n = NULL THEN new ELSE first
                 /\ last' = IF after = NULL THEN new ELSE last

SortedHere == /\ pc = "sorted" /\ Precedes
              /\ Linked(At)
              /\ Grown(i, new)
              /\ cacheIdx' = Shifted(cacheEnt, i, 1)
              /\ Return(<<i, NULL>>)
              /\ UNCHANGED <<cacheEnt, memory>>

SortedReplace == /\ pc = "sorted" /\ ~Precedes /\ Replaces
                 /\ Linked(ptr[At])
                 /\ cacheEnt' = Forgotten(At)
                 /\ owned' = owned \ {At}
                 /\ chain' = ReplaceAt(chain, i + 1, new)
                 /\ Return(<<i, data[At]>>)
                 /\ UNCHANGED <<size, data, cacheIdx>>

-----------------------------------------------------------------------------
(* linkedlist_get: the loop over the cache looks for an entry at or before *)
(* idx, and for one that may be overwritten.                               *)
Look(seen, k) ==
  IF seen.best = 0 THEN seen   \* the loop has ended
  ELSE IF cacheEnt[k] = NULL THEN [seen EXCEPT !.stale = k]
  ELSE IF call.idx >= cacheIdx[k] /\ call.idx - cacheIdx[k] < seen.best
       THEN [seen EXCEPT !.best = cacheIdx[k], !.closest = k]
  ELSE IF seen.stale = NULL THEN [seen EXCEPT !.stale = k]
  ELSE seen

Lookup == Look(Look([best |-> Unfound, closest |-> NULL, stale |-> NULL], 0), 1)

Still == UNCHANGED <<links, memory>>

GetEnd == /\ Start("get")
          /\ call.idx >= size \/ call.idx \in {0, size - 1}
          /\ Return(IF call.idx >= size THEN Done
                    ELSE IF call.idx = 0 THEN Found(data[first])
                    ELSE Found(data[last]))
          /\ UNCHANGED cache /\ Still

Middle == Start("get") /\ call.idx < size /\ call.idx \notin {0, size - 1}

GetFill == /\ Middle /\ Lookup.best = Unfound
           /\ slot' = Lookup.stale
           /\ n' = first
           /\ i' = 0
           /\ Go("fill")
           /\ UNCHANGED <<cache, new, failed>> /\ Still

FillOn == /\ pc = "fill" /\ i < call.idx
          /\ n' = ptr[n]
          /\ i' = i + 1
          /\ UNCHANGED <<cache, pc, call, ret, new, slot, failed>> /\ Still

FillHere == /\ pc = "fill" /\ ~(i < call.idx)
            /\ cacheIdx' = [cacheIdx EXCEPT ![slot] = i]
            /\ cacheEnt' = [cacheEnt EXCEPT ![slot] = n]
            /\ Return(Found(data[n]))
            /\ Still

GetSeek == /\ Middle /\ Lookup.best # Unfound
           /\ slot' = Lookup.closest
           /\ Go("seek")
           /\ UNCHANGED <<cache, i, n, new, failed>> /\ Still

SeekOn_slip == /\ pc = "seek" /\ cacheIdx[slot] < call.idx   \* the index stays behind
               /\ cacheEnt' = [cacheEnt EXCEPT ![slot] = ptr[cacheEnt[slot]]]
               /\ IF cacheEnt'[slot] = NULL THEN Return(Done)
                  ELSE UNCHANGED <<pc, call, ret, locals>>
               /\ UNCHANGED cacheIdx /\ Still

SeekOn == /\ pc = "seek" /\ cacheIdx[slot] < call.idx
          /\ cacheIdx' = [cacheIdx EXCEPT ![slot] = @ + 1]
          /\ cacheEnt' = [cacheEnt EXCEPT ![slot] = ptr[cacheEnt[slot]]]
          /\ IF cacheEnt'[slot] = NULL THEN Return(Done)
             ELSE UNCHANGED <<pc, call, ret, locals>>
          /\ Still

SeekHere == /\ pc = "seek" /\ ~(cacheIdx[slot] < call.idx)
            /\ Return(Found(data[cacheEnt[slot]]))
            /\ UNCHANGED cache /\ Still

GetLast == /\ Start("get_last")
           /\ Return(IF size = 0 THEN Done ELSE Found(data[last]))
           /\ UNCHANGED cache /\ Still

-----------------------------------------------------------------------------
(* The node m, at index k, leaves the list and the cache. *)
Drop(m, k) == /\ cacheEnt' = Forgotten(m)
              /\ owned' = owned \ {m}
              /\ size' = size - 1
              /\ chain' = RemoveAt(chain, k + 1)
              /\ UNCHANGED data

Unlink_slip(p) == /\ ptr' = [ptr EXCEPT ![p] = ptr[ptr[p]]]   \* last not moved
                  /\ UNCHANGED <<first, last>>

(* The node after p is linked out. *)
Unlink(p) == /\ ptr' = [ptr EXCEPT ![p] = ptr[ptr[p]]]
             /\ last' = IF ptr[p] = last THEN p ELSE last
             /\ UNCHANGED first

RemoveNone == /\ \/ Start("remove") /\ call.idx >= size
                 \/ \E op \in {"remove_last", "remove_data"} : Start(op) /\ size = 0
              /\ Return(Done)
              /\ UNCHANGED cache /\ Still

RemoveHead == /\ Start("remove") /\ call.idx < size /\ call.idx = 0
               /\ first' = ptr[first]
               /\ Drop(first, 0)
               /\ cacheIdx' = Shifted(cacheEnt', 0, -1)
               /\ Return(Found(data[first]))
               /\ UNCHANGED <<last, ptr>>

RemoveWalk == /\ Start("remove") /\ call.idx < size /\ call.idx # 0
              /\ n' = first
              /\ i' = 1
              /\ Go("remove")
              /\ UNCHANGED <<cache, new, slot, failed>> /\ Still

RemoveOn == /\ pc = "remove" /\ i < call.idx
            /\ n' = ptr[n]
            /\ i' = i + 1
            /\ UNCHANGED <<cache, pc, call, ret, new, slot, failed>> /\ Still

RemoveHere == /\ pc = "remove" /\ ~(i < call.idx)
              /\ Unlink(n)
              /\ Drop(ptr[n], call.idx)
              /\ cacheIdx' = Shifted(cacheEnt', call.idx, -1)
              /\ Return(Found(data[ptr[n]]))

RemoveOnly == /\ Start("remove_last") /\ size = 1
              /\ first' = NULL /\ last' = NULL
              /\ Drop(first, 0)
              /\ Return(Found(data[first]))
              /\ UNCHANGED <<ptr, cacheIdx>>

LastWalk == /\ Start("remove_last") /\ size > 1
            /\ n' = first
            /\ Go("remove_last")
            /\ UNCHANGED <<cache, i, new, slot, failed>> /\ Still

LastOn == /\ pc = "remove_last" /\ ptr[n] # last
          /\ n' = ptr[n]
          /\ UNCHANGED <<cache, pc, call, ret, i, new, slot, failed>> /\ Still

LastHere == /\ pc = "remove_last" /\ ptr[n] = last
            /\ last' = n
            /\ ptr' = [ptr EXCEPT ![n] = NULL]
            /\ Drop(last, size - 1)
            /\ Return(Found(data[last]))
            /\ UNCHANGED <<first, cacheIdx>>

(* linkedlist_remove_data does not shift the cache when it removes the     *)
(* first element.                                                          *)
DataFirst == /\ Start("remove_data") /\ size # 0 /\ data[first] = call.data
             /\ first' = ptr[first]
             /\ Drop(first, 0)
             /\ Return(Found(call.data))
             /\ UNCHANGED <<last, ptr, cacheIdx>>

DataWalk == /\ Start("remove_data") /\ size # 0 /\ data[first] # call.data
            /\ n' = first
            /\ i' = 1
            /\ Go("remove_data")
            /\ UNCHANGED <<cache, new, slot, failed>> /\ Still

Matches == ptr[n] # NULL /\ data[ptr[n]] = call.data

DataOn_slip == /\ pc = "remove_data" /\ ptr[n] # NULL /\ ~Matches
               /\ n' = first   \* from the start again
               /\ i' = i + 1
               /\ UNCHANGED <<cache, pc, call, ret, new, slot, failed>> /\ Still

DataOn == /\ pc = "remove_data" /\ ptr[n] # NULL /\ ~Matches
          /\ n' = ptr[n]
          /\ i' = i + 1
          /\ UNCHANGED <<cache, pc, call, ret, new, slot, failed>> /\ Still

DataMissing == /\ pc = "remove_data" /\ ptr[n] = NULL
               /\ Return(Done)
               /\ UNCHANGED cache /\ Still

DataHere == /\ pc = "remove_data" /\ Matches
            /\ Unlink(n)
            /\ Drop(ptr[n], i)
            /\ cacheIdx' = Shifted(cacheEnt, i, -1)
            /\ Return(Found(call.data))

-----------------------------------------------------------------------------
(* linkedlist_clear *)
ClearStart == /\ Start("clear")
              /\ n' = first
              /\ Go("clear")
              /\ UNCHANGED <<cache, i, new, slot, failed>> /\ Still

(* data_del, then the node is freed. *)
ClearOn == /\ pc = "clear" /\ n # NULL
           /\ \E bad \in IF DelFails THEN BOOLEAN ELSE {FALSE} : failed' = (failed \/ bad)
           /\ n' = ptr[n]
           /\ owned' = owned \ {n}
           /\ UNCHANGED <<links, cache, data, pc, call, ret, i, new, slot>>

(* The list is initialised again unless data_del failed. *)
ClearEnd == /\ pc = "clear" /\ n = NULL
            /\ IF failed THEN UNCHANGED <<links, cache>>
               ELSE /\ first' = NULL /\ last' = NULL /\ size' = 0
                    /\ cacheIdx' = [k \in Slots |-> 0]
                    /\ cacheEnt' = [k \in Slots |-> NULL]
                    /\ chain' = <<>>
                    /\ UNCHANGED ptr
            /\ Return(IF failed THEN Fail ELSE Done)
            /\ UNCHANGED memory

-----------------------------------------------------------------------------
Insert  == InsertOn \/ InsertHere \/ SortedOn \/ SortedHere \/ SortedReplace

Link(m) == Add(m) \/ InsertLast(m) \/ InsertFirst(m) \/ InsertWalk(m) \/ SortedStart(m)

Get     == GetEnd \/ GetFill \/ FillOn \/ FillHere \/ GetSeek \/ SeekOn \/ SeekHere \/ GetLast

Removal == \/ RemoveNone \/ RemoveHead \/ RemoveWalk \/ RemoveOn \/ RemoveHere
           \/ RemoveOnly \/ LastWalk \/ LastOn \/ LastHere
           \/ DataFirst \/ DataWalk \/ DataOn \/ DataMissing \/ DataHere

Clear   == ClearStart \/ ClearOn \/ ClearEnd

Step == Refuse \/ (\E m \in Nodes : Link(m)) \/ Insert \/ Get \/ Removal \/ Clear

Next == (\E c \in Calls : Call(c)) \/ Step

Spec == Init /\ [][Next]_vars
-----------------------------------------------------------------------------
TypeOK == /\ {first, last} \subseteq Nodes \cup {NULL}
          /\ size \in 0 .. MaxSize
          /\ ptr \in [Nodes -> Nodes \cup {NULL}]
          /\ data \in [Nodes -> Data \cup {NULL}]
          /\ cacheIdx \in [Slots -> Nat]
          /\ cacheEnt \in [Slots -> Nodes \cup {NULL}]
          /\ owned \subseteq Nodes
          /\ chain \in Seq(Nodes)
          /\ pc \in {"idle", "start", "insert", "sorted", "fill", "seek", "remove",
                     "remove_last", "remove_data", "clear"}
          /\ call \in Calls \cup {NULL}
          /\ ret \in ((-1 .. MaxSize) \X (Data \cup {NULL})) \cup {NULL}
          /\ i \in Nat
          /\ {n, new} \subseteq Nodes \cup {NULL}
          /\ slot \in Slots
          /\ failed \in BOOLEAN

(* The nodes, linked from first to last, are the list; none comes twice.   *)
Chained == /\ Len(chain) = size
           /\ IsInjective(chain)
           /\ size > 0 => first = Head(chain) /\ last = Last(chain) /\ ptr[last] = NULL
           /\ \A k \in 1 .. Len(chain) - 1 : ptr[chain[k]] = chain[k + 1]
           /\ size = 0 => first = NULL

(* A cache entry is either free or has the node that is at its index now,  *)
(* whatever was inserted and removed since it was made.                    *)
CacheRight == \A k \in Slots : cacheEnt[k] # NULL =>
                 cacheIdx[k] < size /\ chain[cacheIdx[k] + 1] = cacheEnt[k]

(* Nodes in the list, or about to be linked in, and no others, are in the  *)
(* list's hands: none was freed, none leaked.                              *)
NoLeak == pc # "clear" => owned = Range(chain) \cup ({new} \ {NULL})

(* The links, the counter and the memory agree.                            *)
LinksRight == Chained /\ NoLeak

(* The list and its cache are sound between any two steps of a call.       *)
ListRight == TypeOK /\ LinksRight /\ CacheRight

Sorted == \A j, k \in 1 .. Len(chain) : j < k => Key[data[chain[j]]] <= Key[data[chain[k]]]

(* A sorted list stays sorted until linkedlist_add or linkedlist_insert    *)
(* puts an element elsewhere: insert_sorted compares with every element on *)
(* its way, ties and replaced ones included.                               *)
StaysSorted ==
  [][Sorted /\ (call # NULL => call.op \notin {"add", "insert"}) => Sorted']_vars

(* Where a walk is: the number of nodes from its node to the end.          *)
Cursor == CASE pc = "sorted" -> At [] pc = "seek" -> cacheEnt[slot] [] OTHER -> n

Ahead == Cardinality({k \in 1 .. Len(chain) : \E j \in 1 .. k : chain[j] = Cursor})

(* Every call returns: each turn of a loop, on a list that is being built  *)
(* or torn down too, comes nearer to the end of the list.                  *)
WalksEnd == [][pc' = pc /\ pc \notin {"idle", "start"} => Ahead' < Ahead]_vars

(* No step leaves an order or a walk undone.                               *)
StepsRight == StaysSorted /\ WalksEnd

(* Documented of linkedlist_get: it retrieves the item at the index.       *)
GetIsRight ==
  [][pc # "idle" /\ pc' = "idle" /\ call.op = "get" /\ call.idx < size =>
       ret' = Found(data[chain[call.idx + 1]])]_vars

(* Documented of linkedlist_insert_sorted (docs/ref/linkedlist.html), and   *)
(* false of it: an element goes before those equal to it, and 0 is          *)
(* returned.                                                                *)
EqualBefore ==
  [][pc = "sorted" /\ pc' = "idle" /\ i > 0 => Key[data[chain[i]]] # Key[call.data]]_vars
ReturnsZero == [][pc = "sorted" /\ pc' = "idle" => ret'[1] = 0]_vars

(* The list implements the abstract one, which leaves both of these open.   *)
L == INSTANCE List WITH s <- [k \in 1 .. Len(chain) |-> data[chain[k]]]

ListSpec == L!Spec
=============================================================================
