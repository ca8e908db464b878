----------------------------- MODULE DataFacts ------------------------------
(***************************************************************************)
(* Facts about data that the proofs of several components need: that a set *)
(* of natural numbers has a least one, and what SumFunctionOnSet of the    *)
(* community modules adds up, which the modules use for the units taken    *)
(* from a semaphore and for the bytes of a chunk.  SumFunctionOnSet is a   *)
(* recursive function over the subsets of a set, each time without an      *)
(* element that CHOOSE picks: that there is such a function, and that the  *)
(* order of the elements does not matter, follows from the                 *)
(* well-foundedness of the subsets of a finite set.  A property that       *)
(* failed for some subset would fail for a smallest one.                   *)
(***************************************************************************)
EXTENDS Integers, Functions, FiniteSetTheorems, TLAPS

(* Of subsets of a finite set there is a smallest one, T a set of them.     *)
LEMMA Smallest ==
  ASSUME NEW S, IsFiniteSet(S), NEW T, T \subseteq SUBSET S, T # {}
  PROVE  \E s \in T : \A u \in T : ~(u \subseteq s /\ u # s)
<1>1. T \subseteq FiniteSubsetsOf(S)
  BY FS_FiniteSubsetsOfFinite
<1>2. IsWellFoundedOn(StrictSubsetOrdering(S), FiniteSubsetsOf(S))
  BY FS_StrictSubsetOrderingWellFounded
<1>3. PICK s \in T : \A u \in T : ~(<<u, s>> \in StrictSubsetOrdering(S))
  BY <1>1, <1>2, WFMin
<1>4. ASSUME NEW u \in T, u \subseteq s, u # s PROVE FALSE
  <2>1. <<u, s>> \in StrictSubsetOrdering(S)
    BY <1>4 DEF StrictSubsetOrdering
  <2> QED
    BY <1>3, <2>1
<1> QED
  BY <1>3, <1>4

(* And of natural numbers there is a least one.                             *)
LEMMA LeastNatural ==
  ASSUME NEW M, M \subseteq Nat, M # {}
  PROVE  \E n \in M : \A k \in M : n <= k
<1>1. PICK top \in M : TRUE
  OBVIOUS
<1> DEFINE All == 0 .. top
           T == {0 .. n : n \in {k \in M : k <= top}}
<1>2. IsFiniteSet(All)
  BY <1>1, FS_Interval
<1>3. T \subseteq SUBSET All /\ T # {}
  <2>1. top \in {k \in M : k <= top}
    BY <1>1
  <2>2. 0 .. top \in T
    BY <2>1
  <2> QED
    BY <1>1, <2>2
<1>4. PICK s \in T : \A u \in T : ~(u \subseteq s /\ u # s)
  <2> HIDE DEF T, All
  <2> QED
    BY <1>2, <1>3, Smallest
<1>5. PICK n \in M : s = 0 .. n /\ n <= top
  OBVIOUS
<1>6. ASSUME NEW k \in M, k < n PROVE FALSE
  <2>1. k <= top /\ 0 .. k \subseteq s /\ n \in s /\ n \notin 0 .. k
    BY <1>1, <1>5, <1>6
  <2>2. 0 .. k \in T
    BY <2>1
  <2> QED
    BY <1>4, <2>1, <2>2
<1> QED
  BY <1>5, <1>6

-----------------------------------------------------------------------------
Pick(s) == CHOOSE x \in s : TRUE

IsIter(it, f, S) ==
  it = [s \in SUBSET S |-> IF s = {} THEN 0 ELSE f[Pick(s)] + it[s \ {Pick(s)}]]

Iter(f, S) == CHOOSE it : IsIter(it, f, S)

LEMMA SumIsIter == \A f, S : SumFunctionOnSet(f, S) = Iter(f, S)[S]
  BY DEF SumFunctionOnSet, FoldFunctionOnSet, MapThenFoldSet, Iter, IsIter, Pick

LEMMA PickIn == \A s : s # {} => Pick(s) \in s
  BY DEF Pick

(* Two such functions agree wherever both are defined.                      *)
LEMMA IterAgree ==
  ASSUME NEW f, NEW S, IsFiniteSet(S), NEW U, NEW a, NEW b,
         IsIter(a, f, S), IsIter(b, f, U),
         NEW s \in SUBSET S, s \subseteq U
  PROVE  a[s] = b[s]
<1> DEFINE Bad == {t \in SUBSET S : t \subseteq U /\ a[t] # b[t]}
<1>1. SUFFICES ASSUME Bad # {} PROVE FALSE
  OBVIOUS
<1>2. PICK t \in Bad : \A u \in Bad : ~(u \subseteq t /\ u # t)
  <2>1. Bad \subseteq SUBSET S
    OBVIOUS
  <2> HIDE DEF Bad
  <2> QED
    BY <1>1, <2>1, Smallest
<1>3. /\ a[t] = IF t = {} THEN 0 ELSE f[Pick(t)] + a[t \ {Pick(t)}]
      /\ b[t] = IF t = {} THEN 0 ELSE f[Pick(t)] + b[t \ {Pick(t)}]
  BY DEF IsIter
<1>4. t # {}
  BY <1>3
<1>5. a[t \ {Pick(t)}] # b[t \ {Pick(t)}]
  BY <1>3, <1>4
<1>6. t \ {Pick(t)} \in Bad /\ t \ {Pick(t)} # t
  BY <1>4, <1>5, PickIn
<1> QED
  BY <1>2, <1>6

(* There is such a function: from those of the smaller subsets comes that   *)
(* of the larger.                                                           *)
LEMMA IterExists ==
  ASSUME NEW f, NEW S, IsFiniteSet(S)
  PROVE  \A s \in SUBSET S : IsIter(Iter(f, s), f, s)
<1> DEFINE Bad == {s \in SUBSET S : ~IsIter(Iter(f, s), f, s)}
<1>1. SUFFICES ASSUME Bad # {} PROVE FALSE
  OBVIOUS
<1>2. PICK t \in Bad : \A u \in Bad : ~(u \subseteq t /\ u # t)
  <2>1. Bad \subseteq SUBSET S
    OBVIOUS
  <2> HIDE DEF Bad
  <2> QED
    BY <1>1, <2>1, Smallest
<1>3. \A u \in SUBSET t : u # t => IsIter(Iter(f, u), f, u)
  BY <1>2
<1> DEFINE less(s) == s \ {Pick(s)}
           it == [s \in SUBSET t |-> IF s = {} THEN 0 ELSE f[Pick(s)] + Iter(f, less(s))[less(s)]]
<1>4. ASSUME NEW s \in SUBSET t, s # {}
      PROVE  it[less(s)] = Iter(f, less(s))[less(s)]
  <2>1. less(s) \in SUBSET t /\ less(s) # t /\ less(s) \subseteq less(s)
    BY <1>4, PickIn
  <2>2. IsIter(Iter(f, less(s)), f, less(s))
    BY <1>3, <2>1
  <2>3. CASE less(s) = {}
    BY <2>1, <2>2, <2>3 DEF IsIter
  <2>4. CASE less(s) # {}
    <3> DEFINE u == less(s)
               w == less(u)
    <3>1. u \in SUBSET t /\ w \in SUBSET t /\ w # t /\ w \subseteq u /\ w \subseteq w
      BY <2>1, <2>4, PickIn
    <3>2. it[u] = f[Pick(u)] + Iter(f, w)[w]
      BY <2>4, <3>1
    <3>3. Iter(f, u)[u] = f[Pick(u)] + Iter(f, u)[w]
      <4> HIDE DEF less
      <4> QED
        BY <2>2, <2>4, <3>1 DEF IsIter, less
    <3>4. IsIter(Iter(f, w), f, w) /\ IsIter(Iter(f, u), f, u)
      BY <1>3, <2>2, <3>1
    <3>5. IsFiniteSet(u)
      BY <3>1, <1>2, FS_Subset
    <3> HIDE DEF u, w, it
    <3>6. Iter(f, u)[w] = Iter(f, w)[w]
      BY <3>1, <3>4, <3>5, IterAgree
    <3> QED
      BY <3>2, <3>3, <3>6 DEF u
  <2> QED
    BY <2>3, <2>4
<1>5. IsIter(it, f, t)
  <2> SUFFICES it = [s \in SUBSET t |-> IF s = {} THEN 0 ELSE f[Pick(s)] + it[less(s)]]
    BY DEF IsIter
  <2> HIDE DEF less
  <2> QED
    BY <1>4
<1> HIDE DEF it
<1>6. IsIter(Iter(f, t), f, t)
  BY <1>5 DEF Iter
<1> QED
  BY <1>2, <1>6

-----------------------------------------------------------------------------
(* The sum over no elements, and over some: what is picked first, and the   *)
(* rest.                                                                    *)
LEMMA SumEmpty == \A f : SumFunctionOnSet(f, {}) = 0
<1> TAKE f
<1>1. IsFiniteSet({}) /\ {} \in SUBSET {}
  BY FS_EmptySet
<1>2. IsIter(Iter(f, {}), f, {})
  BY <1>1, IterExists
<1> QED
  BY <1>1, <1>2, SumIsIter DEF IsIter

LEMMA SumPick ==
  ASSUME NEW f, NEW S, IsFiniteSet(S), S # {}
  PROVE  SumFunctionOnSet(f, S) = f[Pick(S)] + SumFunctionOnSet(f, S \ {Pick(S)})
<1> DEFINE w == S \ {Pick(S)}
<1>1. S \in SUBSET S /\ w \in SUBSET S /\ w \subseteq w
  OBVIOUS
<1>2. IsIter(Iter(f, S), f, S) /\ IsIter(Iter(f, w), f, w)
  BY <1>1, IterExists
<1>3. Iter(f, S)[S] = f[Pick(S)] + Iter(f, S)[w]
  BY <1>1, <1>2 DEF IsIter
<1> HIDE DEF w
<1>4. Iter(f, S)[w] = Iter(f, w)[w]
  BY <1>1, <1>2, IterAgree
<1> QED
  BY <1>3, <1>4, SumIsIter DEF w

(* Sums of integers are integers, and of natural numbers natural numbers.   *)
LEMMA SumInt ==
  ASSUME NEW f, NEW S, IsFiniteSet(S), \A x \in S : f[x] \in Int
  PROVE  SumFunctionOnSet(f, S) \in Int
<1> DEFINE Bad == {s \in SUBSET S : SumFunctionOnSet(f, s) \notin Int}
<1>1. SUFFICES ASSUME Bad # {} PROVE FALSE
  OBVIOUS
<1>2. PICK t \in Bad : \A u \in Bad : ~(u \subseteq t /\ u # t)
  <2>1. Bad \subseteq SUBSET S
    OBVIOUS
  <2> HIDE DEF Bad
  <2> QED
    BY <1>1, <2>1, Smallest
<1>3. t # {}
  <2>1. SumFunctionOnSet(f, {}) = 0 /\ 0 \in Int
    BY SumEmpty
  <2>2. SumFunctionOnSet(f, t) \notin Int
    BY <1>2
  <2> QED
    BY <2>1, <2>2
<1>4. IsFiniteSet(t)
  BY <1>2, FS_Subset
<1>5. SumFunctionOnSet(f, t) = f[Pick(t)] + SumFunctionOnSet(f, t \ {Pick(t)})
  BY <1>3, <1>4, SumPick
<1>6. Pick(t) \in t /\ t \ {Pick(t)} \in SUBSET S /\ t \ {Pick(t)} # t
  BY <1>2, <1>3, PickIn
<1>7. SumFunctionOnSet(f, t \ {Pick(t)}) \in Int
  BY <1>2, <1>6
<1> QED
  BY <1>2, <1>5, <1>6, <1>7

LEMMA SumNat ==
  ASSUME NEW f, NEW S, IsFiniteSet(S), \A x \in S : f[x] \in Nat
  PROVE  SumFunctionOnSet(f, S) \in Nat
<1> DEFINE Bad == {s \in SUBSET S : SumFunctionOnSet(f, s) \notin Nat}
<1>1. SUFFICES ASSUME Bad # {} PROVE FALSE
  OBVIOUS
<1>2. PICK t \in Bad : \A u \in Bad : ~(u \subseteq t /\ u # t)
  <2>1. Bad \subseteq SUBSET S
    OBVIOUS
  <2> HIDE DEF Bad
  <2> QED
    BY <1>1, <2>1, Smallest
<1>3. t # {}
  <2>1. SumFunctionOnSet(f, {}) = 0 /\ 0 \in Nat
    BY SumEmpty
  <2>2. SumFunctionOnSet(f, t) \notin Nat
    BY <1>2
  <2> QED
    BY <2>1, <2>2
<1>4. IsFiniteSet(t)
  BY <1>2, FS_Subset
<1>5. SumFunctionOnSet(f, t) = f[Pick(t)] + SumFunctionOnSet(f, t \ {Pick(t)})
  BY <1>3, <1>4, SumPick
<1>6. Pick(t) \in t /\ t \ {Pick(t)} \in SUBSET S /\ t \ {Pick(t)} # t
  BY <1>2, <1>3, PickIn
<1>7. SumFunctionOnSet(f, t \ {Pick(t)}) \in Nat
  BY <1>2, <1>6
<1> QED
  BY <1>2, <1>5, <1>6, <1>7

(* Whatever is picked, any element may be taken out first.                  *)
LEMMA SumSplit ==
  ASSUME NEW f, NEW S, IsFiniteSet(S), \A x \in S : f[x] \in Int, NEW y \in S
  PROVE  SumFunctionOnSet(f, S) = f[y] + SumFunctionOnSet(f, S \ {y})
<1> DEFINE Splits(s, x) == SumFunctionOnSet(f, s) = f[x] + SumFunctionOnSet(f, s \ {x})
           Bad == {s \in SUBSET S : \E x \in s : ~Splits(s, x)}
<1>1. SUFFICES ASSUME Bad # {} PROVE FALSE
  OBVIOUS
<1>2. PICK t \in Bad : \A u \in Bad : ~(u \subseteq t /\ u # t)
  <2>1. Bad \subseteq SUBSET S
    OBVIOUS
  <2> HIDE DEF Bad
  <2> QED
    BY <1>1, <2>1, Smallest
<1>3. PICK x \in t : ~Splits(t, x)
  BY <1>2
<1> DEFINE p == Pick(t)
<1>4. p \in t /\ t \subseteq S
  BY <1>2, <1>3, PickIn
<1> HIDE DEF p
<1>5. IsFiniteSet(t)
  BY <1>4, FS_Subset
<1>6. SumFunctionOnSet(f, t) = f[p] + SumFunctionOnSet(f, t \ {p})
  BY <1>3, <1>5, SumPick DEF p
<1>7. x # p
  BY <1>3, <1>6
<1>8. SumFunctionOnSet(f, t \ {p}) = f[x] + SumFunctionOnSet(f, (t \ {p}) \ {x})
  <2>1. t \ {p} \subseteq t /\ t \ {p} # t /\ x \in t \ {p}
    BY <1>4, <1>7
  <2> QED
    BY <1>2, <1>4, <2>1
<1>9. SumFunctionOnSet(f, t \ {x}) = f[p] + SumFunctionOnSet(f, (t \ {x}) \ {p})
  <2>1. t \ {x} \subseteq t /\ t \ {x} # t /\ p \in t \ {x}
    BY <1>3, <1>4, <1>7
  <2> QED
    BY <1>2, <1>4, <2>1
<1>10. (t \ {x}) \ {p} = (t \ {p}) \ {x}
  OBVIOUS
<1>11. SumFunctionOnSet(f, (t \ {p}) \ {x}) \in Int
  <2>1. IsFiniteSet((t \ {p}) \ {x}) /\ (t \ {p}) \ {x} \subseteq S
    BY <1>4, <1>5, FS_Subset
  <2> QED
    BY <2>1, SumInt
<1>12. f[x] \in Int /\ f[p] \in Int
  BY <1>4
<1> QED
  BY <1>3, <1>6, <1>8, <1>9, <1>10, <1>11, <1>12

(* The sum depends on no more than the values of the elements.              *)
LEMMA SumSame ==
  ASSUME NEW f, NEW g, NEW S, IsFiniteSet(S), \A x \in S : f[x] = g[x]
  PROVE  SumFunctionOnSet(f, S) = SumFunctionOnSet(g, S)
<1> DEFINE Bad == {s \in SUBSET S : SumFunctionOnSet(f, s) # SumFunctionOnSet(g, s)}
<1>1. SUFFICES ASSUME Bad # {} PROVE FALSE
  OBVIOUS
<1>2. PICK t \in Bad : \A u \in Bad : ~(u \subseteq t /\ u # t)
  <2>1. Bad \subseteq SUBSET S
    OBVIOUS
  <2> HIDE DEF Bad
  <2> QED
    BY <1>1, <2>1, Smallest
<1>3. t # {}
  BY <1>2, SumEmpty
<1>4. IsFiniteSet(t)
  BY <1>2, FS_Subset
<1>5. /\ SumFunctionOnSet(f, t) = f[Pick(t)] + SumFunctionOnSet(f, t \ {Pick(t)})
      /\ SumFunctionOnSet(g, t) = g[Pick(t)] + SumFunctionOnSet(g, t \ {Pick(t)})
  BY <1>3, <1>4, SumPick
<1>6. Pick(t) \in t /\ t \ {Pick(t)} \in SUBSET S /\ t \ {Pick(t)} # t
  BY <1>2, <1>3, PickIn
<1>7. SumFunctionOnSet(f, t \ {Pick(t)}) = SumFunctionOnSet(g, t \ {Pick(t)})
  BY <1>2, <1>6
<1> QED
  BY <1>2, <1>5, <1>6, <1>7

(* Adding an element, and changing the value of one.                        *)
LEMMA SumAdd ==
  ASSUME NEW f, NEW S, IsFiniteSet(S), \A x \in S : f[x] \in Int,
         NEW y, y \notin S, f[y] \in Int
  PROVE  SumFunctionOnSet(f, S \cup {y}) = f[y] + SumFunctionOnSet(f, S)
<1>1. IsFiniteSet(S \cup {y}) /\ (S \cup {y}) \ {y} = S
  BY FS_AddElement
<1>2. \A x \in S \cup {y} : f[x] \in Int
  OBVIOUS
<1> QED
  BY <1>1, <1>2, SumSplit

LEMMA SumChange ==
  ASSUME NEW f, NEW g, NEW S, IsFiniteSet(S),
         \A x \in S : f[x] \in Int /\ g[x] \in Int,
         NEW y \in S, \A x \in S \ {y} : f[x] = g[x]
  PROVE  SumFunctionOnSet(g, S) = SumFunctionOnSet(f, S) + g[y] - f[y]
<1>1. /\ SumFunctionOnSet(f, S) = f[y] + SumFunctionOnSet(f, S \ {y})
      /\ SumFunctionOnSet(g, S) = g[y] + SumFunctionOnSet(g, S \ {y})
  BY SumSplit
<1>2. IsFiniteSet(S \ {y})
  BY FS_Subset
<1>3. SumFunctionOnSet(f, S \ {y}) = SumFunctionOnSet(g, S \ {y})
  BY <1>2, SumSame
<1>4. SumFunctionOnSet(f, S \ {y}) \in Int
  BY <1>2, SumInt
<1> QED
  BY <1>1, <1>3, <1>4

(* No value is larger than the sum of values that are not negative; and a   *)
(* sum of zeros is zero.                                                    *)
LEMMA SumBounds ==
  ASSUME NEW f, NEW S, IsFiniteSet(S), \A x \in S : f[x] \in Nat, NEW y \in S
  PROVE  f[y] <= SumFunctionOnSet(f, S)
<1>1. IsFiniteSet(S \ {y})
  BY FS_Subset
<1>2. SumFunctionOnSet(f, S \ {y}) \in Nat
  BY <1>1, SumNat
<1>3. SumFunctionOnSet(f, S) = f[y] + SumFunctionOnSet(f, S \ {y})
  BY SumSplit
<1> QED
  BY <1>2, <1>3

LEMMA SumZero ==
  ASSUME NEW S, IsFiniteSet(S), NEW f, \A x \in S : f[x] = 0
  PROVE  SumFunctionOnSet(f, S) = 0
<1> DEFINE Bad == {s \in SUBSET S : SumFunctionOnSet(f, s) # 0}
<1>1. SUFFICES ASSUME Bad # {} PROVE FALSE
  OBVIOUS
<1>2. PICK t \in Bad : \A u \in Bad : ~(u \subseteq t /\ u # t)
  <2>1. Bad \subseteq SUBSET S
    OBVIOUS
  <2> HIDE DEF Bad
  <2> QED
    BY <1>1, <2>1, Smallest
<1>3. t # {}
  BY <1>2, SumEmpty
<1>4. IsFiniteSet(t)
  BY <1>2, FS_Subset
<1>5. SumFunctionOnSet(f, t) = f[Pick(t)] + SumFunctionOnSet(f, t \ {Pick(t)})
  BY <1>3, <1>4, SumPick
<1>6. Pick(t) \in t /\ t \ {Pick(t)} \in SUBSET S /\ t \ {Pick(t)} # t
  BY <1>2, <1>3, PickIn
<1>7. SumFunctionOnSet(f, t \ {Pick(t)}) = 0
  BY <1>2, <1>6
<1> QED
  BY <1>2, <1>5, <1>6, <1>7

-----------------------------------------------------------------------------
(* What holds of 0, and of each number up to n if of the one before, holds  *)
(* of all up to n; P is the set of numbers it holds of.                     *)
LEMMA UpTo ==
  ASSUME NEW n \in Nat, NEW P, 0 \in P, \A i \in 1 .. n : i - 1 \in P => i \in P
  PROVE  \A i \in 0 .. n : i \in P
<1> DEFINE Bad == {i \in 0 .. n : i \notin P}
<1>1. SUFFICES ASSUME Bad # {} PROVE FALSE
  OBVIOUS
<1>2. PICK m \in Bad : \A k \in Bad : m <= k
  <2>1. Bad \subseteq Nat
    OBVIOUS
  <2> HIDE DEF Bad
  <2> QED
    BY <1>1, <2>1, LeastNatural
<1>3. m \in 1 .. n /\ m \notin P
  BY <1>2
<1>4. m - 1 \notin Bad
  BY <1>2, <1>3
<1> QED
  BY <1>3, <1>4

(* A function of the numbers up to n may be defined by its value at 0 and   *)
(* by a step from each number to the next.                                  *)
Steps(f, step, n) == \A i \in 1 .. n : f[i] = step[<<f[i - 1], i>>]

LEMMA StepsExist ==
  ASSUME NEW S, NEW n \in Nat, NEW base \in S, NEW step \in [S \X (1 .. n) -> S]
  PROVE  \E f \in [0 .. n -> S] : f[0] = base /\ Steps(f, step, n)
<1> DEFINE P == {k \in 0 .. n : \E f \in [0 .. k -> S] : f[0] = base /\ Steps(f, step, k)}
<1>1. 0 \in P
  <2>1. [i \in 0 .. 0 |-> base] \in [0 .. 0 -> S] /\ [i \in 0 .. 0 |-> base][0] = base
    OBVIOUS
  <2>2. Steps([i \in 0 .. 0 |-> base], step, 0)
    BY DEF Steps
  <2> QED
    BY <2>1, <2>2
<1>2. ASSUME NEW k \in 1 .. n, k - 1 \in P PROVE k \in P
  <2>1. PICK f \in [0 .. k - 1 -> S] : f[0] = base /\ Steps(f, step, k - 1)
    BY <1>2
  <2>2. step[<<f[k - 1], k>>] \in S
    BY <2>1
  <2> DEFINE g == [i \in 0 .. k |-> IF i = k THEN step[<<f[k - 1], k>>] ELSE f[i]]
  <2>3. g \in [0 .. k -> S] /\ g[0] = base
    BY <2>1, <2>2
  <2>4. ASSUME NEW i \in 1 .. k PROVE g[i] = step[<<g[i - 1], i>>]
    <3>1. i - 1 \in 0 .. k /\ i - 1 # k /\ g[i - 1] = f[i - 1]
      OBVIOUS
    <3>2. CASE i = k
      BY <3>1, <3>2
    <3>3. CASE i # k
      <4>1. i \in 1 .. k - 1 /\ g[i] = f[i]
        BY <3>3
      <4>2. f[i] = step[<<f[i - 1], i>>]
        BY <2>1, <4>1 DEF Steps
      <4> QED
        BY <3>1, <4>1, <4>2
    <3> QED
      BY <3>2, <3>3
  <2> HIDE DEF g
  <2>5. Steps(g, step, k)
    BY <2>4 DEF Steps
  <2> QED
    BY <2>3, <2>5
<1>3. n \in P
  <2> HIDE DEF P
  <2> QED
    BY <1>1, <1>2, UpTo
<1> QED
  BY <1>3
=============================================================================
