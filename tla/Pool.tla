-------------------------------- MODULE Pool --------------------------------
(***************************************************************************)
(* A pool of objects that are used again (libmba's src/pool.c): a stack of *)
(* the objects made so far (src/stack.c) and a set of bits, one for each   *)
(* place of the stack, that are set while a client has the object there    *)
(* (src/bitset.c).                                                         *)
(*                                                                         *)
(* One call is one step.  Making, resetting and deleting an object, and    *)
(* allocating memory, may fail.                                            *)
(*                                                                         *)
(* A definition X_slip is a mistake that X could contain; no behaviour of  *)
(* the model uses it.                                                      *)
(***************************************************************************)
EXTENDS Integers, SequencesExt, FiniteSetsExt

CONSTANTS MaxSize,    \* max_size
          StackInit,  \* the size an empty stack grows to: 32
          Failing,    \* which of new, rst, del and memory may fail
          NULL

PoolAssumption == /\ MaxSize \in Nat \ {0} /\ StackInit \in Nat \ {0}
                  /\ Failing \subseteq {"new", "rst", "del", "memory"}
                  /\ NULL \notin Nat

VARIABLES
  stk,    \* p->stk: its elements and the size of its array
  bits,   \* p->bitset: the bits that are set
  unused, \* p->unused
  held,   \* the clients: the objects that they have
  ret     \* the last call, what it returned, and whether for what failed in it

vars == <<stk, bits, unused, held, ret>>

Init == /\ stk = [elems |-> <<>>, size |-> 0]
        /\ bits = {} /\ unused = 0
        /\ held = {} /\ ret = [call |-> "create", answer |-> 0, failed |-> FALSE]

Returns(call, r) == ret' = [call |-> call, answer |-> r, failed |-> FALSE]
Fails(call, r)   == ret' = [call |-> call, answer |-> r, failed |-> TRUE]

-----------------------------------------------------------------------------
(* src/stack.c: the stacks that a call may leave.                           *)
Grown(s) == IF s.size * 2 > MaxSize THEN MaxSize
            ELSE IF s.size = 0 THEN StackInit ELSE s.size * 2

PushFails(s) == Len(s.elems) = s.size /\ (s.size = MaxSize \/ "memory" \in Failing)

Push(s, x) == [elems |-> Append(s.elems, x),
               size  |-> IF Len(s.elems) = s.size THEN Grown(s) ELSE s.size]

Shrinks(s) == Len(s.elems) < s.size \div 4 /\ s.size > StackInit

Pop(s) == [elems |-> Front(s.elems),
           size  |-> IF Shrinks(s) THEN s.size \div 2 ELSE s.size]

Clean(s) == [s EXCEPT !.size = Len(s.elems)]

(* The object at place n, counted from 0.                                   *)
At(s, n) == s.elems[n + 1]

(* bitset_find_first: an 0 among the bits of max_size / 8 + 1 bytes.        *)
Places == 0 .. 8 * (MaxSize \div 8 + 1) - 1

FindFirst == CHOOSE n \in Places : n \notin bits /\ \A m \in 0 .. n - 1 : m \in bits

-----------------------------------------------------------------------------
(* A new object is another one than those that there are.                   *)
Fresh == Len(stk.elems) + 1

Full_slip == Len(stk.elems) = MaxSize

Full == unused = 0 /\ Len(stk.elems) = MaxSize

Made(n) ==
  \/ /\ ~PushFails(stk) \/ ("memory" \in Failing /\ Len(stk.elems) < MaxSize)
     /\ stk' = Push(stk, Fresh)
     /\ bits' = bits \cup {n} /\ held' = held \cup {Fresh}
     /\ Returns("get", Fresh) /\ UNCHANGED unused
  \/ /\ "new" \in Failing \/ PushFails(stk)
     /\ IF Len(stk.elems) = MaxSize THEN Returns("get", NULL) ELSE Fails("get", NULL)
     /\ UNCHANGED <<stk, bits, unused, held>>

UsedAgain(n) ==
  \/ /\ bits' = bits \cup {n} /\ held' = held \cup {At(stk, n)}
     /\ unused' = unused - 1
     /\ Returns("get", At(stk, n)) /\ UNCHANGED stk
  \/ /\ "rst" \in Failing
     /\ Fails("get", NULL) /\ UNCHANGED <<stk, bits, unused, held>>

pool_get ==
  \/ /\ Full \/ Places \subseteq bits
     /\ Returns("get", NULL) /\ UNCHANGED <<stk, bits, unused, held>>
  \/ /\ ~Full /\ ~(Places \subseteq bits)
     /\ \/ FindFirst = Len(stk.elems) /\ Made(FindFirst)
        \/ FindFirst < Len(stk.elems) /\ UsedAgain(FindFirst)

(* A client gives back what it has.                                         *)
pool_release(x) ==
  /\ x \in held
  /\ LET n == SelectInSeq(stk.elems, LAMBDA y : y = x) - 1
     IN  bits' = bits \ {n}
  /\ unused' = unused + 1 /\ held' = held \ {x}
  /\ Returns("release", 0) /\ UNCHANGED stk

(* pool_clean deletes the objects on top of the last one that is used, and  *)
(* does not count unused down.  When no object is used the loop runs on     *)
(* below bit 0, over an empty stack, to some bit that is set in the memory  *)
(* before the bitset.  A stack_pop that cannot shrink the array gives NULL, *)
(* for which nothing is deleted, and leaves the object where it is.         *)
Unused_slip == Len(stk.elems) - Cardinality(bits)

Unused == LET used == {n \in DOMAIN stk.elems : n - 1 \in bits}
          IN  Len(stk.elems) - (IF used = {} THEN 0 ELSE Max(used))

Popped[n \in 0 .. Unused] ==
  IF n = 0 THEN {stk}
  ELSE UNION {{Pop(s)} \cup (IF Shrinks(s) /\ "memory" \in Failing THEN {s} ELSE {})
              : s \in Popped[n - 1]}

pool_clean ==
  \/ /\ stk.elems = <<>>
     /\ Returns("clean", 0) /\ UNCHANGED <<stk, bits, unused, held>>
  \/ /\ stk.elems # <<>>
     /\ \/ /\ stk' \in {Clean(s) : s \in Popped[Unused]} \cup
                       (IF "memory" \in Failing THEN Popped[Unused] ELSE {})
           /\ IF stk'.size = Len(stk'.elems) THEN Returns("clean", Unused) ELSE Fails("clean", -1)
        \/ /\ "del" \in Failing       \* the n-th deletion fails
           /\ stk' \in UNION {Popped[n] : n \in 1 .. Unused}
           /\ Fails("clean", -1)
     /\ UNCHANGED <<bits, unused, held>>

Next == pool_get \/ (\E x \in held : pool_release(x)) \/ pool_clean

Spec == Init /\ [][Next]_vars
-----------------------------------------------------------------------------
(* An object that a client has is on the stack, its bit is set and no other *)
(* bits are, whatever is made, given back and deleted in between, and       *)
(* whatever fails: no object is given to two clients, and none is deleted   *)
(* while a client has it.  And no more are made than max_size, in a pool    *)
(* for at least as many as an empty stack grows to: a smaller one makes     *)
(* more when pool_clean has left unused too large (LimitKept).              *)
HeldIsKept == /\ held = {At(stk, n) : n \in bits \cap 0 .. Len(stk.elems) - 1}
              /\ bits \subseteq 0 .. Len(stk.elems) - 1
              /\ IsInjective(stk.elems)
              /\ Len(stk.elems) <= stk.size /\ stk.size <= MaxSize

(* pool_get gives an object whenever fewer than max_size are given out and  *)
(* nothing that it calls fails.                                             *)
GetsOne == [][pool_get /\ ret'.answer = NULL => ret'.failed \/ Cardinality(held) = MaxSize]_vars

(* "The pool will limit the number of objects created through the pool to   *)
(* max_size": when StackInit <= MaxSize.                                    *)
LimitKept == Len(stk.elems) <= MaxSize

(* "The number of objects currently in use is pool_size minus pool_unused": *)
(* it is until pool_clean is called.                                        *)
UnusedRight == Cardinality(held) = Len(stk.elems) - unused
=============================================================================
