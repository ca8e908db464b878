----------------------------- MODULE Attributes -----------------------------
(***************************************************************************)
(* The attributes of elements (domc's src/namednodemap.c and dom.c): each  *)
(* element has a list of attribute nodes in which a name occurs once, and  *)
(* each attribute knows the element that has it.  A list that has grown    *)
(* beyond a bound has a map from nodes to its entries beside it, by which  *)
(* it finds nodes from then on (nodelist.c).                               *)
(*                                                                         *)
(* One call is one step.  The mutation events that the calls dispatch and  *)
(* the common parent that they move are in Events and Dom.  A call may find *)
(* no memory when it has begun to change a list: torn says so, and a torn  *)
(* list, where the calls would read what was freed, is not followed.       *)
(*                                                                         *)
(* A definition X_slip is a mistake that X could contain; no behaviour of  *)
(* the model uses it.                                                      *)
(***************************************************************************)
EXTENDS Integers, SequencesExt, FiniteSetsExt

CONSTANTS Elements, Attrs, Names, Values, NULL,
          FillFactor,     \* FAST_FILLFACTOR
          Memory,         \* whether malloc may give memory, and whether not
          ReplacesMapped  \* whether the client sets an attribute in the place
                          \* of another in a list with a map, or of itself

AttributesAssumption == /\ FillFactor \in Nat
                        /\ ReplacesMapped \in BOOLEAN
                        /\ Memory \subseteq BOOLEAN /\ TRUE \in Memory
                        /\ NULL \notin Elements \cup Names \cup Values

(* An entry of a list is its number and the node it holds.                  *)
Entry(id, a) == [id |-> id, node |-> a]

VARIABLES
  entries,  \* attributes->first and the links from it: a sequence of entries
  map,      \* attributes->_map, from nodes to numbers of entries, or NULL
  name,     \* attr->nodeName; NULL for memory that is free
  value,    \* attr->nodeValue
  owner,    \* attr->u.Attr.ownerElement
  torn,     \* whether a call has left a list or its map half changed
  exception, \* DOM_Exception # 0
  ret       \* the last call, its element, and what it returned

vars == <<entries, map, name, value, owner, torn, exception, ret>>

Init == /\ entries = [e \in Elements |-> <<>>]
        /\ map = [e \in Elements |-> NULL]
        /\ name = [a \in Attrs |-> NULL] /\ value = [a \in Attrs |-> NULL]
        /\ owner = [a \in Attrs |-> NULL]
        /\ torn = FALSE /\ exception = FALSE /\ ret = NULL

Nodes(e) == {entries[e][i].node : i \in DOMAIN entries[e]}
Live     == {a \in Attrs : name[a] # NULL}
Free     == Attrs \ Live
Place(e, n) == SelectInSeq(entries[e], LAMBDA x : name[x.node] = n)

Fresh(e) == CHOOSE id \in 0 .. Len(entries[e]) :
              \A i \in DOMAIN entries[e] : entries[e][i].id # id

Returns(call, e, r) == ret' = [call |-> call, element |-> e, answer |-> r]
Fails(call, e) == /\ exception' = TRUE /\ Returns(call, e, NULL)
                  /\ UNCHANGED <<entries, map, name, value, owner, torn>>

-----------------------------------------------------------------------------
(* nodelist.c: _removeFromMap and _addToMap.  hashmap_put and, where it     *)
(* makes the table smaller, hashmap_remove may find no memory: those of the *)
(* nodes S that they leave as they are.                                     *)
Without(m, S) == [k \in DOMAIN m \ S |-> m[k]]

Losses(S) == {lost \in SUBSET S : lost # {} => FALSE \in Memory}

(* What a node that is added finds for a map: the one that is there, none   *)
(* while the list is short or hashmap_new finds no memory, or one that the  *)
(* nodes of the list were put into just now.                                *)
All(s) == [a \in {x.node : x \in Range(s)} |-> (CHOOSE x \in Range(s) : x.node = a).id]

Maps(e) ==
  IF map[e] # NULL \/ Len(entries[e]) <= FillFactor THEN {map[e]}
  ELSE {Without(All(entries[e]), lost) : lost \in Losses(Nodes(e))}
       \cup {m \in {NULL} : FALSE \in Memory}

Short(e, m) == m # NULL /\ DOMAIN m # Nodes(e)

Put(m, entry) == IF m = NULL THEN NULL
                 ELSE [k \in DOMAIN m \cup {entry.node} |->
                         IF k = entry.node THEN entry.id ELSE m[k]]

(* _lookupNode: the index in the list of the entry of the node a, or 0.     *)
Lookup(e, a) ==
  IF map[e] = NULL THEN SelectInSeq(entries[e], LAMBDA x : x.node = a)
  ELSE IF a \in DOMAIN map[e]
       THEN SelectInSeq(entries[e], LAMBDA x : x.id = map[e][a]) ELSE 0

(* NodeList_append, with memory for the entry and its place in the map, and *)
(* without; and NodeList_remove, which does not say that the map kept a.    *)
NodeList_append(e, a) ==
  \E m \in Maps(e) :
    /\ entries' = [entries EXCEPT ![e] = Append(@, Entry(Fresh(e), a))]
    /\ map' = [map EXCEPT ![e] = Put(m, Entry(Fresh(e), a))]
    /\ owner' = [owner EXCEPT ![a] = e]
    /\ torn' = Short(e, m) /\ exception' = (exception \/ Short(e, m))

NodeList_refuses(e) ==
  /\ FALSE \in Memory
  /\ \E m \in Maps(e) : map' = [map EXCEPT ![e] = m] /\ torn' = Short(e, m)
  /\ exception' = TRUE /\ UNCHANGED <<entries, owner>>

NodeList_remove(e, a) ==
  /\ entries' = [entries EXCEPT ![e] = RemoveAt(@, Lookup(e, a))]
  /\ \E kept \in Losses({a}) :
       /\ map' = [map EXCEPT ![e] = IF @ = NULL THEN NULL ELSE Without(@, {a} \ kept)]
       /\ torn' = (map[e] # NULL /\ kept # {})
  /\ owner' = [owner EXCEPT ![a] = NULL]

(* setNamedItem puts a in the place of the attribute at p, as it is: the    *)
(* map still has the old node.                                              *)
Exchange_slip(e, p, a) ==
  /\ entries' = [entries EXCEPT ![e][p].node = a]
  /\ owner' = [owner EXCEPT ![a] = e]
  /\ map' = map

Exchange(e, p, a) ==
  LET old == entries[e][p].node IN
  /\ entries' = [entries EXCEPT ![e][p].node = a]
  /\ owner' = [owner EXCEPT ![a] = e, ![old] = NULL]
  /\ map' = map

Destroy(a) == /\ name' = [name EXCEPT ![a] = NULL]
              /\ value' = [value EXCEPT ![a] = NULL]

-----------------------------------------------------------------------------
createAttribute(a, n, v) ==
  /\ a \in Free
  /\ name' = [name EXCEPT ![a] = n] /\ value' = [value EXCEPT ![a] = v]
  /\ owner' = [owner EXCEPT ![a] = NULL]
  /\ Returns("create", NULL, a) /\ UNCHANGED <<entries, map, torn, exception>>

(* The program destroys an attribute that no element has.                   *)
destroyNode(a) ==
  /\ a \in Live /\ \A e \in Elements : a \notin Nodes(e)
  /\ Destroy(a)
  /\ Returns("destroy", NULL, a) /\ UNCHANGED <<entries, map, owner, torn, exception>>

InUse_slip(e, a) == FALSE

InUse(e, a) == owner[a] # NULL /\ owner[a] # e

(* Which of its attributes the client may set once more.                    *)
Replaceable(e, a) == LET p == Place(e, name[a]) IN
  p # 0 => ReplacesMapped \/ (map[e] = NULL /\ entries[e][p].node # a)

setAttributeNode(e, a) ==
  /\ a \in Live /\ Replaceable(e, a)
  /\ LET p == Place(e, name[a]) IN
     \/ InUse(e, a) /\ Fails("setNode", e)
     \/ /\ ~InUse(e, a) /\ p # 0
        /\ Exchange(e, p, a)
        /\ Returns("setNode", e, entries[e][p].node)
        /\ UNCHANGED <<name, value, torn, exception>>
     \/ /\ ~InUse(e, a) /\ p = 0
        /\ NodeList_append(e, a) \/ NodeList_refuses(e)
        /\ Returns("setNode", e, NULL)
        /\ UNCHANGED <<name, value>>

(* setAttribute changes the value of the attribute that is there, which it  *)
(* frees, but leaves in the list, where there is no memory for the value;   *)
(* or it makes an attribute, which is in no other element, and lost to the  *)
(* program when the list refuses it.                                        *)
setAttribute(e, n, v) ==
  LET p == Place(e, n) IN
  \/ /\ p # 0
     /\ value' = [value EXCEPT ![entries[e][p].node] = v]
     /\ Returns("set", e, NULL)
     /\ UNCHANGED <<entries, map, name, owner, torn, exception>>
  \/ /\ p # 0 /\ FALSE \in Memory
     /\ Destroy(entries[e][p].node) /\ torn' = TRUE /\ exception' = TRUE
     /\ Returns("set", e, NULL) /\ UNCHANGED <<entries, map, owner>>
  \/ /\ p = 0
     /\ \E a \in Free :
          /\ name' = [name EXCEPT ![a] = n] /\ value' = [value EXCEPT ![a] = v]
          /\ NodeList_append(e, a)
     /\ Returns("set", e, NULL)
  \/ /\ p = 0 /\ NodeList_refuses(e)
     /\ Returns("set", e, NULL) /\ UNCHANGED <<name, value>>

(* removeNamedItem passes over an attribute that NodeList_remove does not   *)
(* find, and removeAttribute resets the exception when there is none left.  *)
Found(e, n) == LET p == Place(e, n)
               IN  IF p = 0 THEN FALSE ELSE Lookup(e, entries[e][p].node) # 0

removeAttribute(e, n) ==
  \/ /\ Found(e, n)
     /\ LET a == entries[e][Place(e, n)].node IN NodeList_remove(e, a) /\ Destroy(a)
     /\ Returns("remove", e, NULL) /\ UNCHANGED exception
  \/ /\ ~Found(e, n)
     /\ Returns("remove", e, NULL)
     /\ exception' = FALSE /\ UNCHANGED <<entries, map, name, value, owner, torn>>

removeAttributeNode(e, a) ==
  /\ a \in Live
  /\ \/ /\ Lookup(e, a) # 0
        /\ NodeList_remove(e, a)
        /\ Returns("removeNode", e, a) /\ UNCHANGED <<name, value, exception>>
     \/ Lookup(e, a) = 0 /\ Fails("removeNode", e)

getAttribute(e, n) == LET p == Place(e, n) IN
  /\ Returns("get", e, IF p = 0 THEN NULL ELSE value[entries[e][p].node])
  /\ UNCHANGED <<entries, map, name, value, owner, torn, exception>>

Next ==
  /\ ~torn
  /\ \/ \E a \in Attrs, n \in Names, v \in Values : createAttribute(a, n, v)
     \/ \E a \in Attrs : destroyNode(a)
     \/ \E e \in Elements, a \in Attrs : setAttributeNode(e, a) \/ removeAttributeNode(e, a)
     \/ \E e \in Elements, n \in Names, v \in Values : setAttribute(e, n, v)
     \/ \E e \in Elements, n \in Names : removeAttribute(e, n) \/ getAttribute(e, n)

Spec == Init /\ [][Next]_vars
-----------------------------------------------------------------------------
(* After every history of calls, none of which was short of memory half way *)
(* through, an element has one attribute of a name, an attribute is in the  *)
(* element that it names and in no other, none that was freed is in an      *)
(* element, and the map of a list has its nodes and entries.                *)
Whole ==
  /\ \A e \in Elements :
       /\ \A i, j \in DOMAIN entries[e] :
            i # j => name[entries[e][i].node] # name[entries[e][j].node]
       /\ Nodes(e) \subseteq Live
       /\ map[e] # NULL =>
            map[e] = [a \in Nodes(e) |-> entries[e][SelectInSeq(entries[e], LAMBDA x : x.node = a)].id]
  /\ \A a \in Live, e \in Elements : owner[a] = e <=> a \in Nodes(e)

OneOwner == ~torn => Whole

(* The calls test what malloc returned: one that finds no memory should say *)
(* so and leave the element as it was.  It does not always; in no run.      *)
FailureIsClean == ~torn

(* A call changes what getAttribute answers for one name of one element at  *)
(* most, the element that it was called for.                                *)
Read(e, n) == LET p == Place(e, n) IN IF p = 0 THEN NULL ELSE value[entries[e][p].node]
OthersKeep ==
  [][~torn' => \A e \in Elements, n, m \in Names :
       Read(e, n)' # Read(e, n) => /\ ret'.element = e
                                   /\ n # m => Read(e, m)' = Read(e, m)]_vars
=============================================================================
