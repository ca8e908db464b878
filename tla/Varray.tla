------------------------------- MODULE Varray -------------------------------
(***************************************************************************)
(* An array of any size (libmba's src/varray.c): its elements are in bins, *)
(* each as large as all those before it, which are allocated when one of   *)
(* their elements is first asked for, so that an element never moves.      *)
(*                                                                         *)
(* One call is one step; an enumeration goes on while the array changes.   *)
(*                                                                         *)
(* A definition X_slip is a mistake that X could contain; no behaviour of  *)
(* the model uses it.                                                      *)
(***************************************************************************)
EXTENDS Integers, FiniteSets

CONSTANTS Bins,      \* the number of bins: 16
          InitSize,  \* VARRAY_INIT_SIZE: the first two bins have 2^InitSize elements
          Memory     \* whether memory may be had, and whether it may not

VarrayAssumption == /\ Bins \in Nat \ {0} /\ InitSize \in Nat
                    /\ Memory \subseteq BOOLEAN /\ TRUE \in Memory

BINSIZ(i) == 2 ^ (IF i = 0 THEN InitSize ELSE i + InitSize - 1)

Elements == 0 .. 2 ^ (InitSize + Bins - 1) - 1

VARIABLES
  bins,    \* va->bins: of those allocated, the offsets whose elements were written
  kept,    \* the client: the elements it wrote and did not release
  iter,    \* iter->i1 and i2, or <<>> when nothing is enumerated
  seen,    \* the client: what the enumeration gave
  steady,  \* auxiliary: the bins that are there since varray_iterate
  ended    \* what varray_next answered in the end, or ""

vars == <<bins, kept, iter, seen, steady, ended>>

Init == /\ bins = [i \in {} |-> {}] /\ kept = {}
        /\ iter = <<>> /\ seen = {} /\ steady = {} /\ ended = ""

Allocated == DOMAIN bins

(* The first bin that ends above an index.                                  *)
Bin(idx) == CHOOSE i \in 0 .. Bins - 1 :
              /\ idx < 2 ^ (InitSize + i)
              /\ \A j \in 0 .. i - 1 : idx >= 2 ^ (InitSize + j)

Offset(idx) == IF Bin(idx) = 0 THEN idx ELSE idx - BINSIZ(Bin(idx))

(* varray_index                                                             *)
Index(i, off) == (IF i = 0 THEN 0 ELSE BINSIZ(i)) + off

-----------------------------------------------------------------------------
(* varray_get, and the client writes the element.                           *)
varray_get(idx) ==
  /\ LET i == Bin(idx) IN
     \/ /\ i \in Allocated
        /\ bins' = [bins EXCEPT ![i] = @ \cup {Offset(idx)}] /\ kept' = kept \cup {idx}
     \/ /\ i \notin Allocated
        /\ bins' = [j \in Allocated \cup {i} |-> IF j = i THEN {Offset(idx)} ELSE bins[j]]
        /\ kept' = kept \cup {idx}
     \/ i \notin Allocated /\ FALSE \in Memory /\ UNCHANGED <<bins, kept>>
  /\ UNCHANGED <<iter, seen, steady, ended>>

(* The bins that varray_release frees are those from the first one on that  *)
(* begins at or above the index.                                            *)
From_slip(from) == CHOOSE i \in 0 .. Bins : /\ i = Bins \/ from <= 2 ^ (InitSize + i)
                                            /\ \A j \in 0 .. i - 1 : from > 2 ^ (InitSize + j)

From(from) ==
  LET i == CHOOSE i \in 0 .. Bins : /\ i = Bins \/ from <= 2 ^ (InitSize + i)
                                    /\ \A j \in 0 .. i - 1 : from > 2 ^ (InitSize + j)
  IN  IF from = 0 THEN i ELSE i + 1

varray_release(from) ==
  /\ LET left == {i \in Allocated : i < From(from)}
     IN  bins' = [i \in left |-> bins[i]] /\ steady' = steady \cap left
  /\ kept' = {idx \in kept : idx < from}
  /\ UNCHANGED <<iter, seen, ended>>

varray_iterate ==
  /\ iter' = <<0, 0>> /\ seen' = {} /\ steady' = Allocated /\ ended' = ""
  /\ UNCHANGED <<bins, kept>>

(* varray_next looks for the next bin that is there.  When the last bin was *)
(* enumerated to its end it reads past the array of bins.                   *)
Resumed == IF iter[2] = BINSIZ(iter[1]) THEN <<iter[1] + 1, 0>> ELSE iter

Skipped_slip(i) == {j \in Allocated : j > i}

Skipped(i) == {j \in Allocated : j >= i}

varray_next ==
  /\ iter # <<>> /\ ended = ""
  /\ LET i    == Resumed[1]
         next == CHOOSE j \in Skipped(i) : \A k \in Skipped(i) : j <= k
     IN  IF Skipped(i) # {}
         THEN /\ iter' = <<next, Resumed[2] + 1>>
              /\ seen' = seen \cup {Index(next, Resumed[2])}
              /\ UNCHANGED ended
         ELSE /\ ended' = IF i = Bins THEN "beyond" ELSE "NULL"
              /\ UNCHANGED <<iter, seen>>
  /\ UNCHANGED <<bins, kept, steady>>

Next == \/ \E idx \in Elements : varray_get(idx) \/ varray_release(idx)
        \/ varray_iterate \/ varray_next

Spec == Init /\ [][Next]_vars
-----------------------------------------------------------------------------
(* An element that was written and not released is where varray_get finds   *)
(* it, however many bins were allocated and freed since, and no two         *)
(* elements share a place.                                                  *)
ElementsKept == \A idx \in kept : /\ Bin(idx) \in Allocated
                                  /\ Offset(idx) \in bins[Bin(idx)]
                                  /\ Offset(idx) \in 0 .. BINSIZ(Bin(idx)) - 1
                                  /\ Index(Bin(idx), Offset(idx)) = idx

(* An enumeration that has ended has given every element of the bins that   *)
(* were there all the while, whatever was allocated and freed meanwhile.    *)
EnumerationWhole ==
  ended # "" => \A idx \in Elements : Bin(idx) \in steady => idx \in seen
=============================================================================
