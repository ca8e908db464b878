---------------------------- MODULE OrderedTree ----------------------------
(***************************************************************************)
(* What a tree of nodes with ordered children promises: a call moves one   *)
(* node, or the children of one node, to a place among the children of     *)
(* another, in the place of a child or not, or takes one out.              *)
(***************************************************************************)
EXTENDS Integers, SequencesExt

CONSTANTS Nodes, NULL

VARIABLE kids       \* the children of each node, in order

Init == kids = [p \in Nodes |-> <<>>]

(* n and everything below it. *)
Subtree(n) ==
  LET down[d \in 0 .. Cardinality(Nodes)] ==
        IF d = 0 THEN {n}
        ELSE down[d - 1] \cup UNION {ToSet(kids[m]) : m \in down[d - 1]}
  IN  down[Cardinality(Nodes)]

Without(k, gone) == [p \in Nodes |-> SelectSeq(k[p], LAMBDA m : m \notin gone)]

(* ns before ref among the children of p; behind the last when ref is NULL. *)
Placed(p, ns, ref) ==
  LET k  == Without(kids, ToSet(ns))
      at == IF ref = NULL THEN Len(k[p]) ELSE SelectInSeq(k[p], LAMBDA m : m = ref) - 1
  IN  [k EXCEPT ![p] = SubSeq(@, 1, at) \o ns \o SubSeq(@, at + 1, Len(@))]

Outside(p, ns) == \A m \in ToSet(ns) : p \notin Subtree(m)

Insert(p, n, ref) == /\ ref # n
                     /\ kids' = Placed(p, <<n>>, ref)
                     /\ Outside(p, <<n>>)

Replace(p, n, old) == /\ n # old
                      /\ kids' = Without(Placed(p, <<n>>, old), {old})
                      /\ Outside(p, <<n>>)

InsertChildren(p, f, ref) == /\ p # f
                             /\ kids' = Placed(p, kids[f], ref)
                             /\ Outside(p, kids[f])

ReplaceByChildren(p, f, old) == /\ p # f
                                /\ kids' = Without(Placed(p, kids[f], old), {old})
                                /\ Outside(p, kids[f])

(* The place may take only the first j of the children. The next is then   *)
(* destroyed and the rest stay where they were.                            *)
InsertSome(p, f, j, ref) ==
  LET ns == SubSeq(kids[f], 1, j)
      lost == Subtree(kids[f][j + 1])
  IN  /\ p # f
      /\ kids' = [m \in Nodes |-> IF m \in lost THEN <<>>
                                  ELSE Without(Placed(p, ns, ref), lost)[m]]
      /\ Outside(p, kids[f])

TakeOut(n) == kids' = Without(kids, {n})

(* A node that is nobody's child goes, and with it what is below. *)
Destroy(n) == /\ \A p \in Nodes : n \notin ToSet(kids[p])
              /\ kids' = [m \in Nodes |-> IF m \in Subtree(n) THEN <<>> ELSE kids[m]]

Next == \E n \in Nodes :
          \/ TakeOut(n)
          \/ Destroy(n)
          \/ \E p \in Nodes : \/ \E ref \in ToSet(kids[p]) \cup {NULL} :
                                   \/ Insert(p, n, ref)
                                   \/ InsertChildren(p, n, ref)
                                   \/ \E j \in 1 .. Len(kids[n]) - 1 :
                                        InsertSome(p, n, j, ref)
                              \/ \E old \in ToSet(kids[p]) :
                                   \/ Replace(p, n, old)
                                   \/ ReplaceByChildren(p, n, old)

Spec == Init /\ [][Next]_kids
=============================================================================
