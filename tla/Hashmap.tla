------------------------------ MODULE Hashmap -------------------------------
(***************************************************************************)
(* libmba's hashmap (src/hashmap.c): a table with open addressing.  A key  *)
(* is looked for along a sequence of slots that its hash determines.  An   *)
(* entry that is removed leaves a mark, DELETED, so that the search for    *)
(* the entries behind it goes on.  hashmap_put moves the entries to a      *)
(* larger table when the load reaches a bound, hashmap_remove to a smaller *)
(* one; marks are not moved.                                               *)
(*                                                                         *)
(* One call is one step.  An enumeration of the keys goes on between other *)
(* calls.                                                                  *)
(*                                                                         *)
(* A definition X_slip is a mistake that X could contain; no behaviour of  *)
(* the model uses it.                                                      *)
(***************************************************************************)
EXTENDS Integers, Sequences, FiniteSetsExt

CONSTANTS Keys, Data, NULL,
          Hash,        \* the hash function
          TableSizes,  \* table_sizes without its leading 0
          LoadHigh,    \* h->load_factor_high, per cent
          PutsAgain,   \* the client puts keys that are in the map also when
                       \* the table has marks
          EnumMax      \* model bound: it begins to enumerate no larger maps

IsPrime(p) == p > 1 /\ \A d \in 2 .. p - 1 : p % d # 0

(* The sizes of the code are primes, each about twice the one before.      *)
ASSUME HashmapAssumption == /\ Keys \subseteq Nat \ {0, 1}
                            /\ NULL \notin Data
                            /\ Hash \in [Keys -> Nat]
                            /\ TableSizes \in Seq(Nat \ {0, 1, 2})
                            /\ TableSizes # <<>>
                            /\ \A i \in 1 .. Len(TableSizes) : IsPrime(TableSizes[i])
                            /\ \A i \in 2 .. Len(TableSizes) :
                                 /\ TableSizes[i - 1] < TableSizes[i]
                                 /\ TableSizes[i] <= 4 * TableSizes[i - 1]
                            /\ LoadHigh \in 1 .. 100
                            /\ PutsAgain \in BOOLEAN
                            /\ EnumMax \in Nat

VARIABLES
  index,   \* h->table_size_index
  table,   \* h->table, from slots to entries; empty when h->table is 0
  size,    \* h->size
  ret,     \* the last call, its key and its answer
  iter,    \* iter->i2, or -1 when nothing is enumerated
  steady,  \* auxiliary: the keys that have been in the map since this
           \* enumeration began, or NULL when the table was exchanged
  seen     \* auxiliary: how often it has returned each of them

vars == <<index, table, size, ret, iter, seen, steady>>

LoadLow == LoadHigh \div 4       \* h->load_factor_low

Largest == Len(TableSizes)       \* TABLE_SIZES_SIZE

DELETED == 1
Entry(k, d) == [key |-> k, data |-> d]
Empty       == Entry(0, NULL)
Mark        == Entry(DELETED, NULL)    \* the data of a mark are not read

Slots(t) == DOMAIN t
Live(t)  == {s \in Slots(t) : t[s].key > DELETED}
KeysIn(t) == {t[s].key : s \in Live(t)}

Blank(n) == [s \in 0 .. n - 1 |-> Empty]

Unseen == [k \in Keys |-> 0]

Init == /\ index = 0 /\ table = Blank(0) /\ size = 0
        /\ ret = NULL
        /\ iter = -1 /\ seen = Unseen /\ steady = {}

-----------------------------------------------------------------------------
(* The slot looked at j steps along the probe sequence of the key k.       *)
Probe(k, n, j) == ((Hash[k] % n) + j * (1 + (Hash[k] % (n - 2)))) % n

(* The first slot of the sequence that is in goal, of steps many; or -1.   *)
Seek(k, n, steps, goal) ==
  LET J == {j \in 0 .. steps - 1 : Probe(k, n, j) \in goal}
  IN  IF J = {} THEN -1 ELSE Probe(k, n, Min(J))

Place(t, n, e) == [t EXCEPT ![Seek(e.key, n, n, {s \in Slots(t) : t[s].key = 0})] = e]

Rehashed_slip(t, n) ==   \* an entry goes where it was, if that is free
  MapThenFoldSet(LAMBDA s, new : IF s < n /\ new[s].key = 0 THEN [new EXCEPT ![s] = t[s]]
                                 ELSE Place(new, n, t[s]),
                 Blank(n), LAMBDA s : s, Max, Live(t))

(* hashmap_resize: the entries, in the order of their slots, in a new table. *)
Rehashed(t, n) ==
  MapThenFoldSet(LAMBDA e, new : Place(new, n, e), Blank(n), LAMBDA s : t[s], Max, Live(t))

Load == (size * 100) \div TableSizes[index]

NeedsGrowth == \/ index = 0
               \/ index \in 1 .. Largest - 1 /\ Load >= LoadHigh

NeedsShrinking_slip == index > 1 /\ Load <= LoadHigh
NeedsShrinking == index > 1 /\ Load < LoadLow

(* The table a call works on: a new one if it resizes. *)
ResizedTo(i) == IF i = index THEN table ELSE Rehashed(table, TableSizes[i])

(* The client puts k: a key of the map only where that is safe. *)
MayPut(k) == \/ PutsAgain \/ k \notin KeysIn(table)
             \/ \A s \in Slots(table) : table[s] # Mark

(* The allocator has nothing for the new table; the map is left alone. *)
OutOfMemory(k) ==
  /\ \/ NeedsGrowth /\ MayPut(k) /\ ret' = <<"put", k, "ENOMEM">>
     \/ NeedsShrinking /\ ret' = <<"remove", k, "ENOMEM">>
  /\ UNCHANGED <<index, table, size, iter, seen, steady>>

(* What a call leaves behind; steady loses the keys that leave the map. *)
Leaves(i, t, sz, answer) ==
  /\ index' = i
  /\ table' = t
  /\ size' = sz
  /\ ret' = answer
  /\ steady' = IF iter = -1 THEN {} ELSE IF i # index \/ steady = NULL THEN NULL
               ELSE steady \cap KeysIn(t)
  /\ seen' = IF steady' = NULL THEN Unseen
             ELSE [k \in Keys |-> IF k \in steady' THEN seen[k] ELSE 0]
  /\ UNCHANGED iter

-----------------------------------------------------------------------------
(* hashmap_put stops at a mark and does not look behind it for the key.    *)
Stops(t, k, s)      == t[s].key <= DELETED \/ t[s].key = k

Entered(k, d, i, t) ==
  LET s == Seek(k, TableSizes[i], TableSizes[i], {x \in Slots(t) : Stops(t, k, x)})
  IN  \/ s = -1 /\ Leaves(i, t, size, <<"put", k, "ENOSPC">>)
      \/ s # -1 /\ t[s].key = k /\ Leaves(i, t, size, <<"put", k, "EEXIST">>)
      \/ s # -1 /\ t[s].key # k
         /\ Leaves(i, [t EXCEPT ![s] = Entry(k, d)], size + 1, <<"put", k, "ok">>)

Put(k, d) ==
  /\ MayPut(k)
  /\ LET i == IF NeedsGrowth THEN index + 1 ELSE index
     IN  Entered(k, d, i, ResizedTo(i))

(* hashmap_get and hashmap_remove, which look at one slot a second time.   *)
Finds_slip(t, k, s) == t[s].key <= DELETED \/ t[s].key = k   \* a mark ends the search
Finds(t, k, s)      == t[s].key = 0 \/ t[s].key = k

Where(t, k, n) == LET s == Seek(k, n, n + 1, {x \in Slots(t) : Finds(t, k, x)})
                  IN  IF s # -1 /\ t[s].key = k THEN s ELSE -1

Get(k) ==
  LET s == IF index = 0 THEN -1 ELSE Where(table, k, TableSizes[index])
  IN  /\ ret' = <<"get", k, IF s = -1 THEN NULL ELSE table[s].data>>
      /\ UNCHANGED <<index, table, size, iter, seen, steady>>

Removed(k, i, t) ==
  LET s == IF index = 0 THEN -1 ELSE Where(t, k, TableSizes[i])
  IN  IF s = -1 THEN Leaves(i, t, size, <<"remove", k, "ENOENT">>)
      ELSE Leaves(i, [t EXCEPT ![s] = Mark], size - 1, <<"remove", k, t[s].data>>)

(* The table shrinks before the key is looked for. *)
Remove(k) == LET i == IF NeedsShrinking THEN index - 1 ELSE index
             IN  Removed(k, i, ResizedTo(i))

ClearIndex_slip == Leaves(index, Blank(0), 0, <<"clear">>)   \* index is not reset
Clear == Leaves(0, Blank(0), 0, <<"clear">>)

-----------------------------------------------------------------------------
Iterate == /\ size <= EnumMax
           /\ iter' = 0
           /\ seen' = Unseen
           /\ steady' = KeysIn(table)
           /\ UNCHANGED <<index, table, size, ret>>

Rest == {s \in Live(table) : s >= iter}

Resume_slip(s) == s   \* the same entry again
Resume(s)      == s + 1

(* hashmap_next returns a key, or NULL at the end. *)
NextKey == /\ iter # -1 /\ Rest # {}
           /\ iter' = Resume(Min(Rest))
           /\ LET k == table[Min(Rest)].key
              IN  seen' = IF steady # NULL /\ k \in steady THEN [seen EXCEPT ![k] = @ + 1] ELSE seen
           /\ UNCHANGED <<index, table, size, ret, steady>>

NextNull == /\ iter # -1 /\ Rest = {}
            /\ iter' = -1
            /\ seen' = Unseen /\ steady' = {}
            /\ UNCHANGED <<index, table, size, ret>>

Next == \/ \E k \in Keys, d \in Data : Put(k, d)
        \/ \E k \in Keys : Get(k) \/ Remove(k) \/ OutOfMemory(k)
        \/ Clear
        \/ Iterate \/ NextKey \/ NextNull

Spec == Init /\ [][Next]_vars
-----------------------------------------------------------------------------
TypeOK == /\ index \in 0 .. Largest
          /\ DOMAIN table = 0 .. (IF index = 0 THEN 0 ELSE TableSizes[index]) - 1
          /\ \A s \in Slots(table) :
                table[s] \in {Empty, Mark} \cup {Entry(k, d) : k \in Keys, d \in Data}
          /\ size \in Nat
          /\ iter \in -1 .. TableSizes[Largest]
          /\ seen \in [Keys -> Nat]
          /\ steady = NULL \/ steady \subseteq Keys

(* size counts the entries, through growth, shrinking and failed calls.    *)
SizeRight == size = Cardinality(Live(table))

(* No empty slot comes before an entry on the probe sequence of its key,   *)
(* so a search that stops at the first empty slot has not missed it.       *)
Findable == \A s \in Live(table) :
              LET k == table[s].key
                  n == TableSizes[index]
              IN  \E j \in 0 .. n - 1 :
                     /\ Probe(k, n, j) = s
                     /\ \A h \in 0 .. j - 1 : table[Probe(k, n, h)].key # 0

(* A key is in the table once.                                             *)
NoDuplicates == \A r, s \in Live(table) : table[r].key = table[s].key => r = s

(* Every entry can be found, once, and is counted.                         *)
TableRight == TypeOK /\ SizeRight /\ Findable /\ NoDuplicates

(* A table that was just exchanged is neither to grow nor to shrink at     *)
(* once: an element that comes and goes does not move the whole map twice. *)
NoThrashing == [][index' \notin {0, index} =>
                    /\ index' < Largest => ~NeedsGrowth'
                    /\ ~NeedsShrinking']_vars

(* An enumeration during which the table is not exchanged returns every    *)
(* key that was in the map all the time once, whatever comes, goes and     *)
(* takes the place of a mark meanwhile.                                    *)
EnumerationComplete ==
  [][steady # NULL => \A k \in steady :
        /\ seen[k] <= 1
        /\ iter # -1 /\ iter' = -1 => seen[k] = 1]_vars

(* No step exchanges a table for nothing or makes an enumeration miss.     *)
StepsRight == NoThrashing /\ EnumerationComplete

(* Documented of hashmap_put (docs/ref/hashmap.html:232): a key that is in *)
(* the map already is refused, so the map does not gain an element.        *)
PutRefusesDuplicates ==
  [][\A k \in KeysIn(table) : ret' = <<"put", k, "ok">> => size' = size]_vars

(* hashmap implements the abstract map, whose capacity is the largest table. *)
M == INSTANCE Map WITH
       Capacity <- TableSizes[Largest],
       map <- [k \in KeysIn(table) |->
                  (CHOOSE e \in {table[s] : s \in Live(table)} : e.key = k).data]

MapSpec == M!Spec
=============================================================================
