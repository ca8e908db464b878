-------------------------------- MODULE Dom --------------------------------
(***************************************************************************)
(* domc's tree of nodes (src/node.c, src/nodelist.c) in one document. The  *)
(* children of a node are kept three times: in the links of the nodes, in  *)
(* a DOM_NodeList, and, once that list has been longer than                *)
(* FAST_FILLFACTOR, in a hash map beside it.                               *)
(*                                                                         *)
(* One call at a time, whose listeners leave the tree alone, and with the  *)
(* memory that it asks for.  A definition X_slip is a mistake that X could *)
(* contain; no behaviour uses it.                                          *)
(***************************************************************************)
EXTENDS Integers, FiniteSets, SequencesExt

CONSTANTS Doc,                                     \* the document
          Elements, Comments, Doctypes, Fragments, \* the nodes of each type
          FillFactor,       \* FAST_FILLFACTOR
          Moves,            \* a client inserts a child of another node
          ReplaceUnmapped,  \* a client replaces a child in a list that is long
                            \* enough for a map and does not have it yet
          NULL

Nodes == {Doc} \cup Elements \cup Comments \cup Doctypes \cup Fragments

DomAssumption == /\ FillFactor \in Nat
                 /\ Moves \in BOOLEAN /\ ReplaceUnmapped \in BOOLEAN
                 /\ NULL \notin Nodes /\ \A S \in SUBSET Nodes : NULL # S
                 /\ IsFiniteSet(Nodes) /\ Elements \cap Doctypes = {}

VARIABLE dom        \* the nodes that exist (alive) and their fields

(* Of map only the keys are kept: an entry is found by the node it holds.  *)
(* documentElement, doctype and commonParent are the document's; marked    *)
(* are the nodes with subtreeModified = 1.                                 *)
Fields == [alive : SUBSET Nodes,
           parentNode : [Nodes -> Nodes \cup {NULL}],
           firstChild : [Nodes -> Nodes \cup {NULL}],
           lastChild : [Nodes -> Nodes \cup {NULL}],
           previousSibling : [Nodes -> Nodes \cup {NULL}],
           nextSibling : [Nodes -> Nodes \cup {NULL}],
           ownerDocument : [Nodes -> {Doc, NULL}],
           childNodes : [Nodes -> Seq(Nodes)],
           map : [Nodes -> (SUBSET Nodes) \cup {NULL}],
           documentElement : Elements \cup {NULL},
           doctype : Doctypes \cup {NULL},
           commonParent : Nodes \cup {NULL},
           marked : SUBSET Nodes]

None == [n \in Nodes |-> NULL]

Init == dom = [alive |-> {Doc},
               parentNode |-> None, firstChild |-> None, lastChild |-> None,
               previousSibling |-> None, nextSibling |-> None,
               ownerDocument |-> [n \in Nodes |-> IF n \in {Doc} \cup Doctypes THEN NULL
                                                  ELSE Doc],
               childNodes |-> [n \in Nodes |-> <<>>], map |-> None,
               documentElement |-> NULL, doctype |-> NULL,
               commonParent |-> NULL, marked |-> {}]

(* A loop ends at NULL. *)
BeforeNull(s) == LET end == SelectInSeq(s, LAMBDA m : m = NULL)
                 IN  IF end = 0 THEN s ELSE SubSeq(s, 1, end - 1)

(* n and the nodes that a loop over ptr comes to from n, in order. *)
Follow(ptr, n) ==
  LET at[k \in 1 .. Cardinality(Nodes)] ==
        IF k = 1 THEN n ELSE IF at[k - 1] = NULL THEN NULL ELSE ptr[at[k - 1]]
  IN  BeforeNull(at)

Ancestry(t, n) == Follow(t.parentNode, n)
Kids(t, p)     == Follow(t.nextSibling, t.firstChild[p])

(* child_matrix *)
CanHaveChild(p, n) == \/ p = Doc /\ n \in Elements \cup Comments \cup Doctypes
                      \/ p \in Elements \cup Fragments /\ n \in Elements \cup Comments

MODIFYING_DOC_ELEM(p, n)     == p = Doc /\ n \in Elements
MODIFYING_DOCTYPE_ELEM(p, n) == p = Doc /\ n \in Doctypes

INVALID_HIER_REQ(t, p, n) ==
  ~CanHaveChild(p, n) \/ (MODIFYING_DOC_ELEM(p, n) /\ t.documentElement # NULL)

_isAncestor_slip(t, n, p) == n = p

_isAncestor(t, n, p) == n \in ToSet(Ancestry(t, p))

Refused(t, p, n) == INVALID_HIER_REQ(t, p, n) \/ _isAncestor(t, n, p)

-----------------------------------------------------------------------------
(* nodelist.c *)

_lookupNode(t, p, n) == n \in IF t.map[p] = NULL THEN ToSet(t.childNodes[p]) ELSE t.map[p]

(* Called before n is in the list. The first map gets the whole list. *)
_addToMap_slip(t, p, n) ==
  IF t.map[p] # NULL THEN t.map[p] \cup {n}
  ELSE IF Len(t.childNodes[p]) > FillFactor THEN {n}
  ELSE NULL

_addToMap(t, p, n) ==
  IF t.map[p] # NULL THEN t.map[p] \cup {n}
  ELSE IF Len(t.childNodes[p]) > FillFactor THEN ToSet(t.childNodes[p]) \cup {n}
  ELSE NULL

_removeFromMap(t, p, n) == IF t.map[p] = NULL THEN NULL ELSE t.map[p] \ {n}

NodeList_insert_slip(t, p, n, ref) ==
  [t EXCEPT !.map[p] = _addToMap(t, p, n),
            !.childNodes[p] =
               IF ref = NULL THEN Append(@, n)
               ELSE InsertAt(@, SelectInSeq(@, LAMBDA m : m = ref) + 1, n)]

(* NodeList_append is the case ref = NULL. *)
NodeList_insert(t, p, n, ref) ==
  [t EXCEPT !.map[p] = _addToMap(t, p, n),
            !.childNodes[p] =
               IF ref = NULL THEN Append(@, n)
               ELSE InsertAt(@, SelectInSeq(@, LAMBDA m : m = ref), n)]

(* The key of old goes before a first map is made, and that takes it in. *)
NodeList_replace(t, p, n, old) ==
  LET u == [t EXCEPT !.map[p] = _removeFromMap(t, p, old)]
  IN  [u EXCEPT !.map[p] = _addToMap(u, p, n),
                !.childNodes[p] = ReplaceAll(@, old, n)]

NodeList_remove(t, p, n) ==
  [t EXCEPT !.map[p] = _removeFromMap(t, p, n), !.childNodes[p] = RemoveFirst(@, n)]

-----------------------------------------------------------------------------
(* events.c: the node that DOMSubtreeModified will be sent to. *)

(* The walk up marks what it passes and ends at the common parent; without *)
(* meeting it the nearest node that was marked becomes the common parent.  *)
updateCommonParent(t, n) ==
  LET path  == Ancestry(t, n)
      found == SelectInSeq(path, LAMBDA m : m = t.commonParent)
      seen  == SelectInSeq(path, LAMBDA m : m \in t.marked)
  IN  CASE t.ownerDocument[n] = NULL -> t
        [] t.ownerDocument[n] # NULL /\ t.commonParent = NULL ->
             [t EXCEPT !.commonParent = n]
        [] OTHER ->
             [t EXCEPT !.marked = @ \cup ToSet(IF found = 0 THEN path
                                              ELSE SubSeq(path, 1, found - 1)),
                       !.commonParent = IF found # 0 THEN @
                                        ELSE IF seen # 0 THEN path[seen] ELSE NULL]

(* Nodes that are reached from the document through marked ones only. *)
_clearSubtreeModified(t) ==
  LET Reached(n) == LET path == Ancestry(t, n)
                    IN  Last(path) = Doc /\ n # Doc /\ ToSet(Front(path)) \subseteq t.marked
  IN  [t EXCEPT !.marked = {n \in @ : ~Reached(n)}, !.commonParent = NULL]

-----------------------------------------------------------------------------
(* node.c *)

(* The only, the first, the last or another child leaves the links. *)
Unlinked_slip(t, p, n) ==
  LET a == t.previousSibling[n]
      b == t.nextSibling[n]
      u == CASE n = t.firstChild[p] -> [t EXCEPT !.firstChild[p] = b]
             [] n # t.firstChild[p] /\ n = t.lastChild[p] ->
                  [t EXCEPT !.lastChild[p] = a, !.nextSibling[a] = NULL]
             [] OTHER -> [t EXCEPT !.nextSibling[a] = b, !.previousSibling[b] = a]
  IN  [u EXCEPT !.previousSibling[n] = NULL, !.nextSibling[n] = NULL, !.parentNode[n] = NULL]

Unlinked(t, p, n) ==
  LET a == t.previousSibling[n]
      b == t.nextSibling[n]
      u == CASE t.firstChild[p] = t.lastChild[p] ->
                  [t EXCEPT !.firstChild[p] = NULL, !.lastChild[p] = NULL]
             [] t.firstChild[p] # t.lastChild[p] /\ n = t.firstChild[p] ->
                  [t EXCEPT !.firstChild[p] = b, !.previousSibling[b] = NULL]
             [] n # t.firstChild[p] /\ n = t.lastChild[p] ->
                  [t EXCEPT !.lastChild[p] = a, !.nextSibling[a] = NULL]
             [] OTHER ->
                  [t EXCEPT !.nextSibling[a] = b, !.previousSibling[b] = a]
  IN  [u EXCEPT !.previousSibling[n] = NULL, !.nextSibling[n] = NULL, !.parentNode[n] = NULL]

_removeChild_slip(t, p, n) ==
  LET u == Unlinked(NodeList_remove(t, p, n), p, n)
  IN  CASE p = Doc -> [u EXCEPT !.documentElement = NULL]
        [] OTHER   -> updateCommonParent(u, p)

_removeChild(t, p, n) ==
  LET u == Unlinked(NodeList_remove(t, p, n), p, n)
  IN  CASE MODIFYING_DOC_ELEM(p, n)     -> [u EXCEPT !.documentElement = NULL]
        [] MODIFYING_DOCTYPE_ELEM(p, n) -> [u EXCEPT !.doctype = NULL,
                                                     !.ownerDocument[n] = NULL]
        [] OTHER -> updateCommonParent(u, p)

Detached(t, p, n) == IF _lookupNode(t, p, n) THEN _removeChild(t, p, n) ELSE t

Noted_slip(t, p, n) == IF p = Doc THEN [t EXCEPT !.documentElement = n] ELSE t

(* The document's pointers to its element and its doctype. *)
Noted(t, p, n) ==
  CASE MODIFYING_DOC_ELEM(p, n)     -> [t EXCEPT !.documentElement = n]
    [] MODIFYING_DOCTYPE_ELEM(p, n) -> [t EXCEPT !.doctype = n, !.ownerDocument[n] = p]
    [] OTHER -> t

Linked(t, p, n, ref) ==
  LET a == IF ref = NULL THEN t.lastChild[p] ELSE t.previousSibling[ref]
      u == [t EXCEPT !.parentNode[n] = p, !.previousSibling[n] = a, !.nextSibling[n] = ref]
  IN  CASE t.firstChild[p] = NULL -> [u EXCEPT !.firstChild[p] = n, !.lastChild[p] = n]
        [] t.firstChild[p] # NULL /\ ref = NULL ->
             [u EXCEPT !.nextSibling[a] = n, !.lastChild[p] = n]
        [] ref # NULL /\ ref = t.firstChild[p] ->
             [u EXCEPT !.firstChild[p] = n, !.previousSibling[ref] = n]
        [] OTHER -> [u EXCEPT !.nextSibling[a] = n, !.previousSibling[ref] = n]

(* One node, before ref or at the end. A node inserted before itself has   *)
(* left the tree by the time that ref is looked for.                       *)
Inserted(t, p, n, ref) ==
  LET u == Detached(t, p, n)
      v == Noted(Linked(NodeList_insert(u, p, n, ref), p, n, ref), p, n)
  IN  CASE Refused(t, p, n) -> [tree |-> t, done |-> FALSE]
        [] ~Refused(t, p, n) /\ ref # NULL /\ ~_lookupNode(u, p, ref) ->
             [tree |-> u, done |-> FALSE]
        [] OTHER -> [tree |-> updateCommonParent(v, p), done |-> TRUE]

(* A node is destroyed with all that the lists have below it. Freed nodes  *)
(* are given the fields of new ones, which calloc returns.                 *)
Destroyed(t, n) ==
  LET down[d \in 0 .. Cardinality(Nodes)] ==
        IF d = 0 THEN {n}
        ELSE down[d - 1] \cup UNION {ToSet(t.childNodes[m]) : m \in down[d - 1]}
      gone == down[Cardinality(Nodes)]
      New(f, value) == [m \in Nodes |-> IF m \in gone THEN value ELSE f[m]]
  IN  [t EXCEPT !.alive = @ \ gone, !.marked = @ \ gone,
                !.childNodes = New(@, <<>>), !.map = New(@, NULL),
                !.parentNode = New(@, NULL),
                !.firstChild = New(@, NULL), !.lastChild = New(@, NULL),
                !.previousSibling = New(@, NULL), !.nextSibling = New(@, NULL),
                !.ownerDocument = [m \in Nodes |-> IF m \in gone \cap Doctypes THEN NULL
                                                   ELSE @[m]]]

(* Every child of a fragment is tested before the first is moved. *)
FragmentRefused(t, p, f) == \E m \in ToSet(Kids(t, f)) : Refused(t, p, m)

(* They go one by one. When one is refused after all it is destroyed, and  *)
(* those behind it stay in the fragment.                                   *)
Settled(s, n) == IF s.done THEN s ELSE [s EXCEPT !.tree = Destroyed(@, n)]

Moved(r, p, f, n, ref) ==
  IF r.done THEN Settled(Inserted(_removeChild(r.tree, f, n), p, n, ref), n) ELSE r

InsertedFragment(t, p, f, ref) ==
  LET children == Kids(t, f)
      after[i \in 0 .. Len(children)] ==
        IF i = 0 THEN [tree |-> t, done |-> TRUE]
        ELSE Moved(after[i - 1], p, f, children[i], ref)
  IN  IF FragmentRefused(t, p, f) THEN [tree |-> t, done |-> FALSE]
      ELSE after[Len(children)]

Put(t, p, n, ref) == IF n \in Fragments THEN InsertedFragment(t, p, n, ref)
                     ELSE Inserted(t, p, n, ref)

(* n takes the place and the siblings of old. The document goes on         *)
(* pointing to an old element, or doctype, that n is none of.              *)
Replaced(t, p, n, old) ==
  LET a == t.previousSibling[old]
      b == t.nextSibling[old]
      l == NodeList_replace(t, p, n, old)
      u == [l EXCEPT !.firstChild[p] = Head(l.childNodes[p]),
                     !.lastChild[p] = Last(l.childNodes[p]),
                     !.nextSibling = [@ EXCEPT ![a] = n, ![n] = b, ![old] = NULL],
                     !.previousSibling = [@ EXCEPT ![b] = n, ![n] = a, ![old] = NULL],
                     !.parentNode = [@ EXCEPT ![n] = p, ![old] = NULL]]
  IN  updateCommonParent(Noted(u, p, n), p)

(* What replaceChild leaves when old is in the list. A node that replaces  *)
(* itself is removed.                                                      *)
PutInPlace(t, p, n, old) ==
  IF n \in Fragments
  THEN LET r == InsertedFragment(t, p, n, old)
       IN  IF r.done THEN _removeChild(r.tree, p, old) ELSE r.tree
  ELSE LET u == Detached(t, p, n)
       IN  CASE Refused(t, p, n) -> t
             [] ~Refused(t, p, n) /\ ~_lookupNode(u, p, old) -> u
             [] OTHER -> Replaced(u, p, n, old)

-----------------------------------------------------------------------------
(* The calls. A node of no use to the caller (destroyed, another's child,  *)
(* a fragment put into itself) is not passed in.                           *)
Usable(p, n) == /\ {p, n} \subseteq dom.alive
                /\ n \in Fragments => n # p
                /\ dom.parentNode[n] \in {p, NULL} \/ Moves

SameDocument(p, n) == dom.ownerDocument[n] \in {dom.ownerDocument[p], p}

DOM_Node_insertBefore(p, n, ref) ==
  /\ Usable(p, n) /\ SameDocument(p, n)
  /\ ref # NULL => ref \in dom.alive /\ dom.parentNode[ref] = p
  /\ dom' = Put(dom, p, n, ref).tree

DOM_Node_appendChild(p, n) ==
  /\ Usable(p, n)
  /\ SameDocument(p, n) \/ p = Doc \/ n \in Doctypes
  /\ dom' = Put(dom, p, n, NULL).tree

DOM_Node_replaceChild(p, n, old) ==
  /\ Usable(p, n) /\ SameDocument(p, n)
  /\ old \in dom.alive /\ _lookupNode(dom, p, old)
  /\ \/ ReplaceUnmapped \/ dom.map[p] # NULL
     \/ Len(Detached(dom, p, n).childNodes[p]) <= FillFactor
  /\ dom' = PutInPlace(dom, p, n, old)

DOM_Node_removeChild(p, old) ==
  /\ {p, old} \subseteq dom.alive
  /\ SameDocument(p, old)
  /\ _lookupNode(dom, p, old)
  /\ dom' = _removeChild(dom, p, old)

Document_createNode(n) == /\ n \notin dom.alive
                          /\ dom' = [dom EXCEPT !.alive = @ \cup {n}]

(* The client destroys what it has taken out of the tree. *)
DOM_Document_destroyNode(n) == /\ n \in dom.alive \ {Doc}
                               /\ dom.parentNode[n] = NULL
                               /\ dom' = Destroyed(dom, n)

(* What is left of it when the event has gone to the common parent. *)
DOM_MutationEvent_processSubtreeModified ==
  /\ dom.commonParent \in dom.alive
  /\ dom' = _clearSubtreeModified(dom)

Next == \/ \E p, n \in Nodes :
             \/ \E ref \in Nodes \cup {NULL} : DOM_Node_insertBefore(p, n, ref)
             \/ \E old \in Nodes : DOM_Node_replaceChild(p, n, old)
             \/ DOM_Node_appendChild(p, n)
             \/ DOM_Node_removeChild(p, n)
        \/ \E n \in Nodes : Document_createNode(n) \/ DOM_Document_destroyNode(n)
        \/ DOM_MutationEvent_processSubtreeModified

Spec == Init /\ [][Next]_dom

-----------------------------------------------------------------------------
(* The domain of every field. *)
TypeOK == dom \in Fields

(* Every call leaves the links of nodes, both ways round, in agreement     *)
(* with the lists: firstChild, nextSibling and so on show the children in  *)
(* the order of childNodes, lastChild and previousSibling the reverse, and *)
(* parentNode the one node whose list has it.                              *)
LinksRight ==
  \A p \in Nodes :
    /\ Kids(dom, p) = dom.childNodes[p]
    /\ Follow(dom.previousSibling, dom.lastChild[p]) = Reverse(dom.childNodes[p])
    /\ \A n \in Nodes : dom.parentNode[n] = p <=> n \in ToSet(dom.childNodes[p])

(* The map that nodelist.c makes of a long list has the nodes of the list  *)
(* and no others, however the list grows and shrinks afterwards.           *)
MapRight == \A p \in Nodes : dom.map[p] # NULL => dom.map[p] = ToSet(dom.childNodes[p])

(* No node is below itself, so the loops over parentNode end: some node of *)
(* every set has its parent outside.                                       *)
Acyclic == \A S \in (SUBSET dom.alive) \ {{}} : \E n \in S : dom.parentNode[n] \notin S

(* The document never has two elements, and documentElement is not NULL    *)
(* while it has one, whatever comments, fragments and doctypes come and go *)
(* around it.                                                              *)
OneDocumentElement ==
  LET children == ToSet(dom.childNodes[Doc]) \cap Elements
  IN  children = {} \/ (children = {dom.documentElement})

(* The nodes are an ordered tree: what each call does to the lists, and so *)
(* (LinksRight) to the links, is one of the moves of OrderedTree.          *)
Tree == INSTANCE OrderedTree WITH kids <- dom.childNodes
TreeSpec == Tree!Spec
=============================================================================
