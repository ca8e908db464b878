------------------------- MODULE Linkedlist_proofs --------------------------
(***************************************************************************)
(* For lists of any length and any history of calls: the links, the        *)
(* counter, the cache and the memory agree between any two steps, a sorted *)
(* list stays sorted, every walk comes to its end, and what the caller     *)
(* sees is the abstract list.                                              *)
(***************************************************************************)
EXTENDS Linkedlist, FiniteSetTheorems, SequenceTheorems, TLAPS

(* Sequences: one behind the other, and an element is put in, taken out,   *)
(* or exchanged.                                                           *)
LEMMA Joined ==
  ASSUME NEW S, NEW s1 \in Seq(S), NEW s2 \in Seq(S), NEW t, t = s1 \o s2
  PROVE  /\ t \in Seq(S) /\ Len(t) = Len(s1) + Len(s2)
         /\ \A j \in 1 .. Len(s1) : t[j] = s1[j]
         /\ \A j \in Len(s1) + 1 .. Len(s1) + Len(s2) : t[j] = s2[j - Len(s1)]
<1>1. /\ t \in Seq(S) /\ Len(t) = Len(s1) + Len(s2)
      /\ \A j \in 1 .. Len(s1) + Len(s2) :
           t[j] = IF j <= Len(s1) THEN s1[j] ELSE s2[j - Len(s1)]
  BY ConcatProperties
<1>2. Len(s1) \in Nat /\ Len(s2) \in Nat
  BY LenProperties
<1> QED
  BY <1>1, <1>2

HasInserted(t, s, k, e) ==
  /\ Len(t) = Len(s) + 1
  /\ \A j \in 1 .. k - 1 : t[j] = s[j]
  /\ t[k] = e
  /\ \A j \in k + 1 .. Len(s) + 1 : t[j] = s[j - 1]

LEMMA InsertAtFacts ==
  ASSUME NEW S, NEW s \in Seq(S), NEW k \in 1 .. Len(s) + 1, NEW e \in S,
         NEW t, t = InsertAt(s, k, e)
  PROVE  t \in Seq(S) /\ HasInserted(t, s, k, e)
<1>1. Len(s) \in Nat /\ \A j \in 1 .. Len(s) : s[j] \in S
  BY ElementOfSeq, LenProperties
<1>2. PICK a : a = SubSeq(s, 1, k - 1)
  OBVIOUS
<1>3. /\ a \in Seq(S) /\ Len(a) = k - 1
      /\ \A j \in 1 .. k - 1 : a[j] = s[j]
  BY <1>1, <1>2, SubSeqProperties
<1>4. PICK b : b = <<e>>
  OBVIOUS
<1>5. b \in Seq(S) /\ Len(b) = 1 /\ b[1] = e
  BY <1>4
<1>6. PICK c : c = SubSeq(s, k, Len(s))
  OBVIOUS
<1>7. /\ c \in Seq(S) /\ Len(c) = Len(s) - k + 1
      /\ \A j \in 1 .. Len(s) - k + 1 : c[j] = s[k + j - 1]
  BY <1>1, <1>6, SubSeqProperties
<1>8. PICK d : d = a \o b
  OBVIOUS
<1>9. /\ d \in Seq(S) /\ Len(d) = k
      /\ \A j \in 1 .. k - 1 : d[j] = a[j]
      /\ d[k] = e
  <2>1. /\ d \in Seq(S) /\ Len(d) = Len(a) + Len(b)
        /\ \A j \in 1 .. Len(a) : d[j] = a[j]
        /\ \A j \in Len(a) + 1 .. Len(a) + Len(b) : d[j] = b[j - Len(a)]
    <3>1. a \in Seq(S) /\ b \in Seq(S)
      BY <1>3, <1>5
    <3> QED
      BY <1>8, <3>1, Joined
  <2>2. k \in Nat /\ Len(a) + Len(b) = k /\ Len(a) + 1 = k /\ k - Len(a) = 1
    BY <1>1, <1>3, <1>5
  <2>3. d[k] = b[k - Len(a)]
    BY <2>1, <2>2
  <2> QED
    BY <1>3, <1>5, <2>1, <2>2, <2>3
<1>10. t = d \o c
  BY <1>2, <1>4, <1>6, <1>8 DEF InsertAt
<1>11. /\ t \in Seq(S) /\ Len(t) = Len(d) + Len(c)
       /\ \A j \in 1 .. Len(d) : t[j] = d[j]
       /\ \A j \in Len(d) + 1 .. Len(d) + Len(c) : t[j] = c[j - Len(d)]
  BY <1>7, <1>10, <1>9, Joined
<1>13. Len(t) = Len(s) + 1 /\ Len(d) + Len(c) = Len(s) + 1
  BY <1>1, <1>7, <1>8, <1>9, <1>10, <1>11
<1>14. ASSUME NEW j \in k + 1 .. Len(s) + 1
       PROVE  t[j] = s[j - 1]
  <2>1. j - k \in 1 .. Len(s) - k + 1 /\ k + (j - k) - 1 = j - 1 /\ j \in Len(d) + 1 .. Len(d) + Len(c)
    BY <1>1, <1>8, <1>9, <1>13
  <2>2. t[j] = c[j - k]
    BY <1>8, <1>9, <1>10, <1>11, <2>1
  <2> QED
    BY <1>7, <2>1, <2>2
<1>15. (\A j \in 1 .. k - 1 : t[j] = s[j]) /\ t[k] = e
  BY <1>1, <1>3, <1>9, <1>11
<1> QED
  BY <1>10, <1>11, <1>13, <1>14, <1>15 DEF HasInserted

LEMMA RemoveAtFacts ==
  ASSUME NEW S, NEW s \in Seq(S), NEW k \in 1 .. Len(s)
  PROVE  /\ RemoveAt(s, k) \in Seq(S) /\ Len(RemoveAt(s, k)) = Len(s) - 1
         /\ \A j \in 1 .. k - 1 : RemoveAt(s, k)[j] = s[j]
         /\ \A j \in k .. Len(s) - 1 : RemoveAt(s, k)[j] = s[j + 1]
<1>1. Len(s) \in Nat /\ \A j \in 1 .. Len(s) : s[j] \in S
  BY ElementOfSeq, LenProperties
<1>2. PICK a : a = SubSeq(s, 1, k - 1)
  OBVIOUS
<1>3. /\ a \in Seq(S) /\ Len(a) = k - 1
      /\ \A j \in 1 .. k - 1 : a[j] = s[j]
  BY <1>1, <1>2, SubSeqProperties
<1>4. PICK c : c = SubSeq(s, k + 1, Len(s))
  OBVIOUS
<1>5. /\ c \in Seq(S)
      /\ Len(c) = IF k + 1 <= Len(s) THEN Len(s) - (k + 1) + 1 ELSE 0
      /\ \A j \in 1 .. Len(s) - (k + 1) + 1 : c[j] = s[(k + 1) + j - 1]
  BY <1>1, <1>4, SubSeqProperties
<1>6. PICK t : t = a \o c
  OBVIOUS
<1>7. /\ t \in Seq(S) /\ Len(t) = Len(a) + Len(c)
      /\ \A j \in 1 .. Len(a) : t[j] = a[j]
      /\ \A j \in Len(a) + 1 .. Len(a) + Len(c) : t[j] = c[j - Len(a)]
  <2>1. a \in Seq(S) /\ c \in Seq(S)
    BY <1>3, <1>5
  <2> QED
    BY <1>6, <2>1, Joined
<1>8. t = RemoveAt(s, k)
  BY <1>2, <1>4, <1>6, <1>7 DEF RemoveAt
<1>9. Len(a) + Len(c) = Len(s) - 1 /\ Len(a) + 1 = k
  BY <1>1, <1>3, <1>5
<1>10. ASSUME NEW j \in k .. Len(s) - 1
      PROVE  t[j] = s[j + 1]
  <2>1. /\ j - Len(a) \in 1 .. Len(s) - (k + 1) + 1 /\ (k + 1) + (j - Len(a)) - 1 = j + 1
        /\ j \in Len(a) + 1 .. Len(a) + Len(c)
    BY <1>1, <1>3, <1>9
  <2>2. t[j] = c[j - Len(a)]
    BY <1>6, <1>7, <2>1
  <2> QED
    BY <1>5, <2>1, <2>2
<1> QED
  BY <1>1, <1>3, <1>6, <1>7, <1>8, <1>9, <1>10

HasReplaced(t, s, k, e) ==
  Len(t) = Len(s) /\ \A j \in 1 .. Len(s) : t[j] = IF j = k THEN e ELSE s[j]

LEMMA ReplaceAtFacts ==
  ASSUME NEW S, NEW s \in Seq(S), NEW k \in 1 .. Len(s), NEW e \in S,
         NEW t, t = ReplaceAt(s, k, e)
  PROVE  t \in Seq(S) /\ HasReplaced(t, s, k, e)
  BY ExceptSeq DEF ReplaceAt, HasReplaced

-----------------------------------------------------------------------------
(* Nodes linked by p in the order of c, from f to l.                       *)
IsChain(c, p, f, l, z) ==
  /\ c \in Seq(Nodes) /\ Len(c) = z /\ z \in Nat
  /\ \A j, k \in 1 .. z : c[j] = c[k] => j = k
  /\ z > 0 => f = c[1] /\ l = c[z] /\ p[l] = NULL
  /\ \A j \in 1 .. z - 1 : p[c[j]] = c[j + 1]
  /\ z = 0 => f = NULL

Outside(m, c) == \A j \in 1 .. Len(c) : c[j] # m

(* The node at k, none past the end.                                       *)
NodeAt(c, k) == IF k \in 1 .. Len(c) THEN c[k] ELSE NULL

CacheOf(c, idx, ent) ==
  \A k \in Slots : ent[k] # NULL =>
    idx[k] \in Nat /\ idx[k] < Len(c) /\ c[idx[k] + 1] = ent[k]

LEMMA ChainIs == ASSUME chain \in Seq(Nodes), size \in Nat
                 PROVE  Chained <=> IsChain(chain, ptr, first, last, size)
<1>1. Len(chain) \in Nat /\ DOMAIN chain = 1 .. Len(chain)
  BY LenProperties
<1>2. IsInjective(chain) <=> \A j, k \in 1 .. Len(chain) : chain[j] = chain[k] => j = k
  BY <1>1 DEF IsInjective
<1>3. Len(chain) > 0 => Head(chain) = chain[1] /\ Last(chain) = chain[Len(chain)]
  BY <1>1 DEF Last
<1> QED
  BY <1>1, <1>2, <1>3 DEF Chained, IsChain

LEMMA ChainNext ==
  ASSUME NEW c, NEW p, NEW f, NEW l, NEW z, IsChain(c, p, f, l, z), NEW k \in 1 .. z
  PROVE  c[k] \in Nodes /\ p[c[k]] = NodeAt(c, k + 1)
<1>1. c[k] \in Nodes
  BY ElementOfSeq DEF IsChain
<1>2. CASE k < z
  BY <1>1, <1>2 DEF IsChain, NodeAt
<1>3. CASE k = z
  BY <1>1, <1>3 DEF IsChain, NodeAt
<1> QED
  BY <1>1, <1>2, <1>3 DEF IsChain

(* A node outside may be linked to anything.                               *)
LEMMA ChainApart ==
  ASSUME NEW c, NEW p \in [Nodes -> Nodes \cup {NULL}], NEW f, NEW l, NEW z,
         IsChain(c, p, f, l, z), NEW m \in Nodes, Outside(m, c), NEW x
  PROVE  IsChain(c, [p EXCEPT ![m] = x], f, l, z)
<1>1. \A j \in 1 .. z : c[j] \in Nodes \ {m}
  BY ElementOfSeq DEF IsChain, Outside
<1>2. z > 0 => z \in 1 .. z
  BY DEF IsChain
<1> QED
  BY <1>1, <1>2 DEF IsChain

LEMMA ChainInsert ==
  ASSUME NEW c, NEW p, NEW f, NEW l, NEW z, IsChain(c, p, f, l, z),
         NEW k \in 0 .. z, NEW m \in Nodes, Outside(m, c),
         NEW q, \A x \in Nodes : x # m /\ (k > 0 => x # c[k]) => q[x] = p[x],
         k > 0 => q[c[k]] = m, q[m] = NodeAt(c, k + 1),
         NEW f2, f2 = IF k = 0 THEN m ELSE f,
         NEW l2, l2 = IF k = z THEN m ELSE l
  PROVE  IsChain(InsertAt(c, k + 1, m), q, f2, l2, z + 1)
<1>1. PICK d : d = InsertAt(c, k + 1, m)
  OBVIOUS
<1>2. c \in Seq(Nodes) /\ Len(c) = z /\ z \in Nat /\ k \in Nat
  BY DEF IsChain
<1>3. \A j \in 1 .. z : c[j] \in Nodes /\ c[j] # m
  BY <1>2, ElementOfSeq DEF Outside
<1>4. /\ d \in Seq(Nodes) /\ Len(d) = z + 1
      /\ \A j \in 1 .. k : d[j] = c[j]
      /\ d[k + 1] = m
      /\ \A j \in k + 2 .. z + 1 : d[j] = c[j - 1]
  <2>1. k + 1 \in 1 .. Len(c) + 1 /\ (k + 1) - 1 = k /\ (k + 1) + 1 = k + 2
    BY <1>2
  <2>2. d \in Seq(Nodes) /\ HasInserted(d, c, k + 1, m)
    BY <1>1, <1>2, <2>1, InsertAtFacts
  <2> QED
    BY <1>2, <2>1, <2>2 DEF HasInserted
<1>5. ASSUME NEW a \in 1 .. z + 1, NEW b \in 1 .. z + 1, d[a] = d[b]
      PROVE  a = b
  <2>1. \A j \in 1 .. z + 1 : j \in 1 .. k \/ j = k + 1 \/ (j \in k + 2 .. z + 1 /\ j - 1 \in k + 1 .. z)
    BY <1>2
  <2>2. ASSUME NEW j \in 1 .. z + 1
        PROVE  d[j] = m <=> j = k + 1
    <3>1. CASE j \in 1 .. k
      <4>1. d[j] = c[j] /\ j \in 1 .. z /\ j # k + 1
        BY <1>2, <1>4, <3>1
      <4> QED
        BY <1>3, <4>1
    <3>2. CASE j = k + 1
      BY <1>4, <3>2
    <3>3. CASE j \in k + 2 .. z + 1
      <4>1. d[j] = c[j - 1] /\ j - 1 \in 1 .. z /\ j # k + 1
        BY <1>2, <1>4, <3>3
      <4> QED
        BY <1>3, <4>1
    <3> QED
      BY <2>1, <3>1, <3>2, <3>3
  <2>3. CASE a = k + 1 \/ b = k + 1
    BY <1>5, <2>2, <2>3
  <2>4. CASE a \in 1 .. k /\ b \in 1 .. k
    BY <1>2, <1>4, <1>5, <2>4 DEF IsChain
  <2>5. CASE a \in 1 .. k /\ b \in k + 2 .. z + 1
    <3>1. c[a] = c[b - 1] /\ a \in 1 .. z /\ b - 1 \in 1 .. z
      BY <1>2, <1>4, <1>5, <2>5
    <3> QED
      BY <1>2, <2>5, <3>1 DEF IsChain
  <2>6. CASE b \in 1 .. k /\ a \in k + 2 .. z + 1
    <3>1. c[b] = c[a - 1] /\ b \in 1 .. z /\ a - 1 \in 1 .. z
      BY <1>2, <1>4, <1>5, <2>6
    <3> QED
      BY <1>2, <2>6, <3>1 DEF IsChain
  <2>7. CASE a \in k + 2 .. z + 1 /\ b \in k + 2 .. z + 1
    <3>1. c[a - 1] = c[b - 1] /\ a - 1 \in 1 .. z /\ b - 1 \in 1 .. z
      BY <1>2, <1>4, <1>5, <2>7
    <3> QED
      BY <1>2, <2>7, <3>1 DEF IsChain
  <2> QED
    BY <2>1, <2>3, <2>4, <2>5, <2>6, <2>7
<1>6. f2 = d[1]
  BY <1>2, <1>4 DEF IsChain
<1>7. l2 = d[z + 1] /\ q[l2] = NULL
  <2>1. CASE k = z
    BY <1>2, <1>4, <2>1 DEF NodeAt
  <2>2. CASE k < z
    <3>1. l2 = c[z] /\ d[z + 1] = c[z] /\ p[c[z]] = NULL
      BY <1>2, <1>4, <2>2 DEF IsChain
    <3>2. c[z] \in Nodes /\ c[z] # m /\ (k > 0 => c[z] # c[k])
      BY <1>2, <1>3, <2>2 DEF IsChain
    <3> QED
      BY <3>1, <3>2
  <2> QED
    BY <1>2, <2>1, <2>2
<1>8. ASSUME NEW j \in 1 .. z
      PROVE  q[d[j]] = d[j + 1]
  <2>1. CASE j < k
    <3>1. d[j] = c[j] /\ d[j + 1] = c[j + 1] /\ p[c[j]] = c[j + 1]
      BY <1>2, <1>4, <2>1 DEF IsChain
    <3>2. c[j] # m /\ c[j] # c[k] /\ c[j] \in Nodes
      BY <1>2, <1>3, <2>1 DEF IsChain
    <3> QED
      BY <3>1, <3>2
  <2>2. CASE j = k
    BY <1>2, <1>4, <2>2
  <2>3. CASE j = k + 1
    <3>1. d[j] = m /\ d[j + 1] = c[k + 1] /\ k + 1 \in 1 .. Len(c)
      <4>1. j + 1 \in k + 2 .. z + 1 /\ (j + 1) - 1 = k + 1
        BY <1>2, <2>3
      <4> QED
        BY <1>2, <1>4, <2>3, <4>1
    <3> QED
      BY <3>1 DEF NodeAt
  <2>4. CASE j > k + 1
    <3>1. d[j] = c[j - 1] /\ d[j + 1] = c[j] /\ p[c[j - 1]] = c[j]
      <4>1. /\ j \in k + 2 .. z + 1 /\ j + 1 \in k + 2 .. z + 1 /\ (j + 1) - 1 = j
            /\ j - 1 \in 1 .. z - 1 /\ (j - 1) + 1 = j
        BY <1>2, <2>4
      <4> QED
        BY <1>4, <4>1 DEF IsChain
    <3>2. c[j - 1] # m /\ (k > 0 => c[j - 1] # c[k]) /\ c[j - 1] \in Nodes
      <4>1. j - 1 \in 1 .. z /\ j - 1 # k /\ (k > 0 => k \in 1 .. z)
        BY <1>2, <2>4
      <4> QED
        BY <1>3, <4>1 DEF IsChain
    <3> QED
      BY <3>1, <3>2
  <2> QED
    BY <1>2, <2>1, <2>2, <2>3, <2>4
<1> QED
  BY <1>1, <1>2, <1>4, <1>5, <1>6, <1>7, <1>8 DEF IsChain

LEMMA ChainRemove ==
  ASSUME NEW c, NEW p, NEW f, NEW l, NEW z, IsChain(c, p, f, l, z),
         NEW k \in 1 .. z,
         NEW q, \A x \in Nodes : (k > 1 => x # c[k - 1]) => q[x] = p[x],
         k > 1 => q[c[k - 1]] = NodeAt(c, k + 1),
         NEW f2, f2 = IF k = 1 THEN NodeAt(c, 2) ELSE f,
         NEW l2, z > 1 => l2 = IF k = z THEN c[k - 1] ELSE l
  PROVE  IsChain(RemoveAt(c, k), q, f2, l2, z - 1)
<1>1. PICK d : d = RemoveAt(c, k)
  OBVIOUS
<1>2. c \in Seq(Nodes) /\ Len(c) = z /\ z \in Nat /\ k \in Nat
  BY DEF IsChain
<1>3. \A j \in 1 .. z : c[j] \in Nodes
  BY <1>2, ElementOfSeq
<1>4. /\ d \in Seq(Nodes) /\ Len(d) = z - 1
      /\ \A j \in 1 .. k - 1 : d[j] = c[j]
      /\ \A j \in k .. z - 1 : d[j] = c[j + 1]
  BY <1>1, <1>2, RemoveAtFacts
<1>5. ASSUME NEW a \in 1 .. z - 1, NEW b \in 1 .. z - 1, d[a] = d[b]
      PROVE  a = b
  <2>1. /\ \A j \in 1 .. z - 1 : j \in 1 .. k - 1 \/ j \in k .. z - 1
        /\ \A j \in 1 .. z - 1 : j \in 1 .. z /\ j + 1 \in 1 .. z
    BY <1>2
  <2>2. \A x \in 1 .. z, y \in 1 .. z : c[x] = c[y] => x = y
    BY DEF IsChain
  <2>4. CASE a \in 1 .. k - 1 /\ b \in 1 .. k - 1
    BY <1>4, <1>5, <2>1, <2>2, <2>4
  <2>5. CASE a \in 1 .. k - 1 /\ b \in k .. z - 1
    <3>1. a = b + 1
      BY <1>4, <1>5, <2>1, <2>2, <2>5
    <3> QED
      BY <1>2, <2>5, <3>1
  <2>6. CASE b \in 1 .. k - 1 /\ a \in k .. z - 1
    <3>1. b = a + 1
      BY <1>4, <1>5, <2>1, <2>2, <2>6
    <3> QED
      BY <1>2, <2>6, <3>1
  <2>7. CASE a \in k .. z - 1 /\ b \in k .. z - 1
    <3>1. a + 1 = b + 1
      BY <1>4, <1>5, <2>1, <2>2, <2>7
    <3> QED
      BY <3>1
  <2> QED
    BY <2>1, <2>4, <2>5, <2>6, <2>7
<1>6. IF z = 1 THEN f2 = NULL ELSE f2 = d[1]
  <2>1. CASE k = 1
    <3>1. z > 1 => d[1] = c[1 + 1]
      BY <1>2, <1>4, <2>1
    <3> QED
      BY <1>2, <2>1, <3>1 DEF NodeAt
  <2>2. CASE k > 1
    BY <1>2, <1>4, <2>2 DEF IsChain
  <2> QED
    BY <1>2, <2>1, <2>2
<1>7. z > 1 => l2 = d[z - 1] /\ q[l2] = NULL
  <2> SUFFICES ASSUME z > 1 PROVE l2 = d[z - 1] /\ q[l2] = NULL
    OBVIOUS
  <2>1. CASE k = z
    BY <1>2, <1>4, <2>1 DEF NodeAt
  <2>2. CASE k < z
    <3>1. l2 = c[z] /\ d[z - 1] = c[(z - 1) + 1] /\ (z - 1) + 1 = z /\ p[c[z]] = NULL
      BY <1>2, <1>4, <2>2 DEF IsChain
    <3>2. c[z] \in Nodes /\ (k > 1 => c[z] # c[k - 1])
      BY <1>2, <1>3, <2>2 DEF IsChain
    <3> QED
      BY <3>1, <3>2
  <2> QED
    BY <1>2, <2>1, <2>2
<1>8. ASSUME NEW j \in 1 .. z - 2
      PROVE  q[d[j]] = d[j + 1]
  <2>1. CASE j < k - 1
    <3>1. d[j] = c[j] /\ d[j + 1] = c[j + 1] /\ p[c[j]] = c[j + 1]
      BY <1>2, <1>4, <2>1 DEF IsChain
    <3>2. c[j] # c[k - 1] /\ c[j] \in Nodes
      BY <1>2, <1>3, <2>1 DEF IsChain
    <3> QED
      BY <3>1, <3>2
  <2>2. CASE j = k - 1
    <3>1. d[j] = c[j] /\ d[j + 1] = c[(j + 1) + 1] /\ (j + 1) + 1 = k + 1 /\ k + 1 \in 1 .. Len(c)
      BY <1>2, <1>4, <2>2
    <3> QED
      BY <1>2, <2>2, <3>1 DEF NodeAt
  <2>4. CASE j > k - 1
    <3>1. d[j] = c[j + 1] /\ d[j + 1] = c[(j + 1) + 1] /\ p[c[j + 1]] = c[(j + 1) + 1]
      <4>1. j \in k .. z - 1 /\ j + 1 \in k .. z - 1 /\ j + 1 \in 1 .. z - 1
        BY <1>2, <2>4
      <4> QED
        BY <1>4, <4>1 DEF IsChain
    <3>2. (k > 1 => c[j + 1] # c[k - 1]) /\ c[j + 1] \in Nodes
      <4>1. j + 1 \in 1 .. z /\ j + 1 # k - 1 /\ (k > 1 => k - 1 \in 1 .. z)
        BY <1>2, <2>4
      <4> QED
        BY <1>3, <4>1 DEF IsChain
    <3> QED
      BY <3>1, <3>2
  <2> QED
    BY <1>2, <2>1, <2>2, <2>4
<1>9. z - 1 \in Nat /\ (z - 1) - 1 = z - 2 /\ (z - 1 > 0 <=> z > 1) /\ (z - 1 = 0 <=> z = 1)
  BY <1>2
<1> QED
  BY <1>1, <1>2, <1>4, <1>5, <1>6, <1>7, <1>8, <1>9 DEF IsChain

LEMMA ChainReplace ==
  ASSUME NEW c, NEW p, NEW f, NEW l, NEW z, IsChain(c, p, f, l, z),
         NEW k \in 1 .. z, NEW m \in Nodes, Outside(m, c),
         NEW q, \A x \in Nodes : x # m /\ (k > 1 => x # c[k - 1]) => q[x] = p[x],
         k > 1 => q[c[k - 1]] = m, q[m] = NodeAt(c, k + 1),
         NEW f2, f2 = IF k = 1 THEN m ELSE f,
         NEW l2, l2 = IF k = z THEN m ELSE l
  PROVE  IsChain(ReplaceAt(c, k, m), q, f2, l2, z)
<1>1. PICK d : d = ReplaceAt(c, k, m)
  OBVIOUS
<1>2. c \in Seq(Nodes) /\ Len(c) = z /\ z \in Nat /\ k \in Nat
  BY DEF IsChain
<1>3. \A j \in 1 .. z : c[j] \in Nodes /\ c[j] # m
  BY <1>2, ElementOfSeq DEF Outside
<1>4. /\ d \in Seq(Nodes) /\ Len(d) = z
      /\ \A j \in 1 .. z : d[j] = IF j = k THEN m ELSE c[j]
  <2>1. k \in 1 .. Len(c)
    BY <1>2
  <2>2. d \in Seq(Nodes) /\ HasReplaced(d, c, k, m)
    BY <1>1, <1>2, <2>1, ReplaceAtFacts
  <2> QED
    BY <1>2, <2>2 DEF HasReplaced
<1>5. ASSUME NEW a \in 1 .. z, NEW b \in 1 .. z, d[a] = d[b]
      PROVE  a = b
  BY <1>3, <1>4, <1>5 DEF IsChain
<1>6. f2 = d[1] /\ l2 = d[z] /\ q[l2] = NULL
  <2>1. f2 = d[1] /\ l2 = d[z]
    BY <1>2, <1>4 DEF IsChain
  <2>2. CASE k = z
    BY <1>2, <2>1, <2>2 DEF NodeAt
  <2>3. CASE k # z
    <3>1. c[z] \in Nodes /\ c[z] # m /\ l2 = c[z] /\ p[c[z]] = NULL /\ (k > 1 => c[z] # c[k - 1])
      BY <1>2, <1>3, <2>3 DEF IsChain
    <3> QED
      BY <2>1, <3>1
  <2> QED
    BY <2>1, <2>2, <2>3
<1>7. ASSUME NEW j \in 1 .. z - 1
      PROVE  q[d[j]] = d[j + 1]
  <2>1. j \in 1 .. z /\ j + 1 \in 1 .. z
    BY <1>2
  <2>2. CASE j = k
    BY <1>2, <1>4, <2>1, <2>2 DEF NodeAt
  <2>3. CASE j = k - 1
    BY <1>2, <1>4, <2>1, <2>3
  <2>4. CASE j # k /\ j # k - 1
    <3>1. d[j] = c[j] /\ d[j + 1] = c[j + 1] /\ p[c[j]] = c[j + 1]
      BY <1>2, <1>4, <2>1, <2>4 DEF IsChain
    <3>2. c[j] # m /\ c[j] \in Nodes /\ (k > 1 => c[j] # c[k - 1])
      <4>1. k > 1 => k - 1 \in 1 .. z
        BY <1>2
      <4> QED
        BY <1>2, <1>3, <2>1, <2>4, <4>1 DEF IsChain
    <3> QED
      BY <3>1, <3>2
  <2> QED
    BY <2>2, <2>3, <2>4
<1> QED
  BY <1>1, <1>2, <1>4, <1>5, <1>6, <1>7 DEF IsChain

-----------------------------------------------------------------------------
(* The nodes of the list after each change of it.                          *)
LEMMA RangeIs == ASSUME NEW c \in Seq(Nodes)
                 PROVE  /\ Range(c) = {c[j] : j \in 1 .. Len(c)}
                        /\ Range(c) \subseteq Nodes
                        /\ \A m : m \notin Range(c) <=> Outside(m, c)
<1>1. DOMAIN c = 1 .. Len(c) /\ \A j \in 1 .. Len(c) : c[j] \in Nodes
  BY ElementOfSeq, LenProperties
<1> QED
  BY <1>1 DEF Range, Outside

LEMMA RangeEmpty == ASSUME NEW c \in Seq(Nodes), Len(c) = 0 PROVE Range(c) = {}
<1>1. Range(c) = {c[j] : j \in 1 .. Len(c)}
  BY RangeIs
<1>2. 1 .. Len(c) = {}
  OBVIOUS
<1> QED
  BY <1>1, <1>2

LEMMA RangeInsert ==
  ASSUME NEW c \in Seq(Nodes), NEW k \in 0 .. Len(c), NEW m \in Nodes
  PROVE  Range(InsertAt(c, k + 1, m)) = Range(c) \cup {m}
<1>1. PICK d : d = InsertAt(c, k + 1, m)
  OBVIOUS
<1>2. Len(c) \in Nat /\ k \in Nat
  BY LenProperties
<1>3. k + 1 \in 1 .. Len(c) + 1 /\ (k + 1) - 1 = k /\ (k + 1) + 1 = k + 2
  BY <1>2
<1>4. d \in Seq(Nodes) /\ HasInserted(d, c, k + 1, m)
  BY <1>1, <1>3, InsertAtFacts
<1>5. /\ Len(d) = Len(c) + 1 /\ d[k + 1] = m
      /\ \A j \in 1 .. k : d[j] = c[j]
      /\ \A j \in k + 2 .. Len(c) + 1 : d[j] = c[j - 1]
  BY <1>3, <1>4 DEF HasInserted
<1>6. \A j \in 1 .. Len(d) : d[j] = m \/ \E g \in 1 .. Len(c) : d[j] = c[g]
  <2> SUFFICES ASSUME NEW j \in 1 .. Len(d)
               PROVE  d[j] = m \/ \E g \in 1 .. Len(c) : d[j] = c[g]
    OBVIOUS
  <2>1. j \in 1 .. k \/ j = k + 1 \/ (j \in k + 2 .. Len(c) + 1 /\ j - 1 \in 1 .. Len(c))
    BY <1>2, <1>5
  <2> QED
    BY <1>2, <1>5, <2>1
<1>7. \A g \in 1 .. Len(c) : \E j \in 1 .. Len(d) : d[j] = c[g]
  <2> SUFFICES ASSUME NEW g \in 1 .. Len(c)
               PROVE  \E j \in 1 .. Len(d) : d[j] = c[g]
    OBVIOUS
  <2>1. CASE g <= k
    BY <1>2, <1>5, <2>1
  <2>2. CASE g > k
    <3>1. g + 1 \in k + 2 .. Len(c) + 1 /\ g + 1 \in 1 .. Len(d) /\ (g + 1) - 1 = g
      BY <1>2, <1>5, <2>2
    <3> QED
      BY <1>5, <3>1
  <2> QED
    BY <1>2, <2>1, <2>2
<1>8. k + 1 \in 1 .. Len(d)
  BY <1>2, <1>5
<1>9. Range(d) = {d[j] : j \in 1 .. Len(d)} /\ Range(c) = {c[j] : j \in 1 .. Len(c)}
  BY <1>4, RangeIs
<1>10. \A x : (\E j \in 1 .. Len(d) : x = d[j]) <=> x = m \/ \E g \in 1 .. Len(c) : x = c[g]
  BY <1>5, <1>6, <1>7, <1>8
<1>11. \A x : x \in Range(d) <=> x = m \/ x \in Range(c)
  BY <1>9, <1>10
<1> QED
  BY <1>1, <1>11

LEMMA RangeRemove ==
  ASSUME NEW c, NEW p, NEW f, NEW l, NEW z, IsChain(c, p, f, l, z), NEW k \in 1 .. z
  PROVE  Range(RemoveAt(c, k)) = Range(c) \ {c[k]}
<1>1. PICK d : d = RemoveAt(c, k)
  OBVIOUS
<1>2. c \in Seq(Nodes) /\ Len(c) = z /\ z \in Nat /\ k \in Nat
  BY DEF IsChain
<1>3. /\ d \in Seq(Nodes) /\ Len(d) = z - 1
      /\ \A j \in 1 .. k - 1 : d[j] = c[j]
      /\ \A j \in k .. z - 1 : d[j] = c[j + 1]
  BY <1>1, <1>2, RemoveAtFacts
<1>4. ASSUME NEW j \in 1 .. z - 1 PROVE \E g \in 1 .. z : d[j] = c[g] /\ d[j] # c[k]
  <2>1. CASE j < k
    <3>1. j \in 1 .. z /\ d[j] = c[j]
      BY <1>2, <1>3, <2>1
    <3> QED
      BY <1>2, <2>1, <3>1 DEF IsChain
  <2>2. CASE j >= k
    <3>1. j + 1 \in 1 .. z /\ d[j] = c[j + 1]
      BY <1>2, <1>3, <2>2
    <3>2. c[j + 1] # c[k]
      BY <1>2, <2>2, <3>1 DEF IsChain
    <3> QED
      BY <3>1, <3>2
  <2> QED
    BY <1>2, <2>1, <2>2
<1>5. ASSUME NEW g \in 1 .. z, c[g] # c[k] PROVE \E j \in 1 .. z - 1 : d[j] = c[g]
  <2>1. CASE g < k
    BY <1>2, <1>3, <2>1
  <2>2. CASE g > k
    <3>1. g - 1 \in k .. z - 1 /\ (g - 1) + 1 = g /\ g - 1 \in 1 .. z - 1
      BY <1>2, <2>2
    <3> QED
      BY <1>3, <3>1
  <2> QED
    BY <1>2, <1>5, <2>1, <2>2
<1>6. Range(d) = {d[j] : j \in 1 .. z - 1} /\ Range(c) = {c[j] : j \in 1 .. z}
  BY <1>2, <1>3, RangeIs
<1> QED
  BY <1>1, <1>4, <1>5, <1>6

LEMMA RangeReplace ==
  ASSUME NEW c, NEW p, NEW f, NEW l, NEW z, IsChain(c, p, f, l, z), NEW k \in 1 .. z,
         NEW m \in Nodes
  PROVE  Range(ReplaceAt(c, k, m)) = (Range(c) \ {c[k]}) \cup {m}
<1>1. PICK d : d = ReplaceAt(c, k, m)
  OBVIOUS
<1>2. c \in Seq(Nodes) /\ Len(c) = z /\ z \in Nat /\ k \in Nat
  BY DEF IsChain
<1>3. /\ d \in Seq(Nodes) /\ Len(d) = z
      /\ \A j \in 1 .. z : d[j] = IF j = k THEN m ELSE c[j]
  <2>1. k \in 1 .. Len(c)
    BY <1>2
  <2>2. d \in Seq(Nodes) /\ HasReplaced(d, c, k, m)
    BY <1>1, <1>2, <2>1, ReplaceAtFacts
  <2> QED
    BY <1>2, <2>2 DEF HasReplaced
<1>4. Range(d) = {d[j] : j \in 1 .. z} /\ Range(c) = {c[j] : j \in 1 .. z}
  BY <1>2, <1>3, RangeIs
<1>5. \A j \in 1 .. z : c[j] = c[k] <=> j = k
  BY DEF IsChain
<1> QED
  BY <1>1, <1>3, <1>4, <1>5

-----------------------------------------------------------------------------
(* The cache after each change of the list.                                *)
LEMMA CacheInsert ==
  ASSUME NEW c \in Seq(Nodes), NEW k \in 0 .. Len(c), NEW m \in Nodes,
         NEW ent, CacheOf(c, cacheIdx, ent)
  PROVE  CacheOf(InsertAt(c, k + 1, m), Shifted(ent, k, 1), ent)
<1>1. PICK d : d = InsertAt(c, k + 1, m)
  OBVIOUS
<1>2. Len(c) \in Nat /\ k \in Nat
  BY LenProperties
<1>3. k + 1 \in 1 .. Len(c) + 1 /\ (k + 1) - 1 = k /\ (k + 1) + 1 = k + 2
  BY <1>2
<1>4. d \in Seq(Nodes) /\ HasInserted(d, c, k + 1, m)
  BY <1>1, <1>3, InsertAtFacts
<1>5. /\ Len(d) = Len(c) + 1
      /\ \A j \in 1 .. k : d[j] = c[j]
      /\ \A j \in k + 2 .. Len(c) + 1 : d[j] = c[j - 1]
  BY <1>3, <1>4 DEF HasInserted
<1>6. ASSUME NEW g \in Slots, ent[g] # NULL, NEW x, x = Shifted(ent, k, 1)[g]
      PROVE  x \in Nat /\ x < Len(d) /\ d[x + 1] = ent[g]
  <2>1. cacheIdx[g] \in Nat /\ cacheIdx[g] < Len(c) /\ c[cacheIdx[g] + 1] = ent[g]
    BY <1>6 DEF CacheOf
  <2>2. CASE cacheIdx[g] >= k
    <3>1. x = cacheIdx[g] + 1
      BY <1>6, <2>2 DEF Shifted
    <3>2. x + 1 \in k + 2 .. Len(c) + 1 /\ (x + 1) - 1 = cacheIdx[g] + 1
      BY <1>2, <2>1, <2>2, <3>1
    <3> QED
      BY <1>2, <1>5, <2>1, <3>1, <3>2
  <2>3. CASE cacheIdx[g] < k
    <3>1. x = cacheIdx[g]
      BY <1>2, <1>6, <2>1, <2>3 DEF Shifted
    <3> QED
      BY <1>2, <1>5, <2>1, <2>3, <3>1
  <2> QED
    BY <1>2, <2>1, <2>2, <2>3
<1> QED
  BY <1>1, <1>6 DEF CacheOf

(* linkedlist_add does not look at the cache: the new node is behind it.   *)
LEMMA CacheAdd ==
  ASSUME NEW c \in Seq(Nodes), NEW m \in Nodes, NEW idx, NEW ent, CacheOf(c, idx, ent)
  PROVE  CacheOf(InsertAt(c, Len(c) + 1, m), idx, ent)
<1>1. PICK d : d = InsertAt(c, Len(c) + 1, m)
  OBVIOUS
<1>2. Len(c) \in Nat
  BY LenProperties
<1>3. d \in Seq(Nodes) /\ HasInserted(d, c, Len(c) + 1, m)
  BY <1>1, <1>2, InsertAtFacts
<1>4. Len(d) = Len(c) + 1 /\ \A j \in 1 .. Len(c) : d[j] = c[j]
  BY <1>2, <1>3 DEF HasInserted
<1> QED
  BY <1>1, <1>2, <1>4 DEF CacheOf

(* The node at k is gone; the indices behind it are one less.              *)
LEMMA CacheRemove ==
  ASSUME NEW c, NEW p, NEW f, NEW l, NEW z, IsChain(c, p, f, l, z), NEW k \in 1 .. z,
         CacheOf(c, cacheIdx, cacheEnt),
         NEW ent, \A g \in Slots : ent[g] # NULL => ent[g] = cacheEnt[g] /\ ent[g] # c[k],
         NEW idx, \A g \in Slots : ent[g] # NULL =>
                    idx[g] = IF cacheIdx[g] >= k - 1 THEN cacheIdx[g] - 1 ELSE cacheIdx[g]
  PROVE  CacheOf(RemoveAt(c, k), idx, ent)
<1>1. PICK d : d = RemoveAt(c, k)
  OBVIOUS
<1>2. c \in Seq(Nodes) /\ Len(c) = z /\ z \in Nat /\ k \in Nat
  BY DEF IsChain
<1>3. /\ d \in Seq(Nodes) /\ Len(d) = z - 1
      /\ \A j \in 1 .. k - 1 : d[j] = c[j]
      /\ \A j \in k .. z - 1 : d[j] = c[j + 1]
  BY <1>1, <1>2, RemoveAtFacts
<1>4. ASSUME NEW g \in Slots, ent[g] # NULL
      PROVE  idx[g] \in Nat /\ idx[g] < Len(d) /\ d[idx[g] + 1] = ent[g]
  <2>1. cacheIdx[g] \in Nat /\ cacheIdx[g] < z /\ c[cacheIdx[g] + 1] = ent[g] /\ ent[g] # c[k]
    BY <1>2, <1>4 DEF CacheOf
  <2>2. cacheIdx[g] # k - 1
    BY <1>2, <2>1
  <2>3. CASE cacheIdx[g] >= k - 1
    <3>1. idx[g] = cacheIdx[g] - 1 /\ idx[g] \in Nat /\ idx[g] < z - 1
      BY <1>2, <1>4, <2>1, <2>2, <2>3
    <3>2. idx[g] + 1 \in k .. z - 1 /\ (idx[g] + 1) + 1 = cacheIdx[g] + 1
      BY <1>2, <2>1, <2>2, <2>3, <3>1
    <3>3. d[idx[g] + 1] = c[cacheIdx[g] + 1]
      BY <1>3, <3>2
    <3> QED
      BY <1>3, <2>1, <3>1, <3>3
  <2>4. CASE cacheIdx[g] < k - 1
    <3>1. idx[g] = cacheIdx[g] /\ idx[g] + 1 \in 1 .. k - 1
      BY <1>2, <1>4, <2>1, <2>4
    <3> QED
      BY <1>2, <1>3, <2>1, <3>1
  <2> QED
    BY <1>2, <2>1, <2>3, <2>4
<1> QED
  BY <1>1, <1>4 DEF CacheOf

(* linkedlist_remove_last shifts nothing: no index was behind.             *)
LEMMA CacheRemoveLast ==
  ASSUME NEW c, NEW p, NEW f, NEW l, NEW z, IsChain(c, p, f, l, z), z > 0,
         NEW idx, NEW ent, CacheOf(c, idx, ent), \A g \in Slots : ent[g] # c[z]
  PROVE  CacheOf(RemoveAt(c, z), idx, ent)
<1>1. PICK d : d = RemoveAt(c, z)
  OBVIOUS
<1>2. c \in Seq(Nodes) /\ Len(c) = z /\ z \in Nat /\ z \in 1 .. z
  BY DEF IsChain
<1>3. Len(d) = z - 1 /\ \A j \in 1 .. z - 1 : d[j] = c[j]
  BY <1>1, <1>2, RemoveAtFacts
<1>4. ASSUME NEW g \in Slots, ent[g] # NULL
      PROVE  idx[g] \in Nat /\ idx[g] < Len(d) /\ d[idx[g] + 1] = ent[g]
  <2>1. idx[g] \in Nat /\ idx[g] < z /\ c[idx[g] + 1] = ent[g] /\ ent[g] # c[z]
    BY <1>2, <1>4 DEF CacheOf
  <2>2. idx[g] + 1 # z
    BY <1>2, <2>1
  <2>3. idx[g] + 1 \in 1 .. z - 1
    BY <1>2, <2>1, <2>2
  <2> QED
    BY <1>2, <1>3, <2>1, <2>3
<1> QED
  BY <1>1, <1>4 DEF CacheOf

LEMMA CacheReplace ==
  ASSUME NEW c, NEW p, NEW f, NEW l, NEW z, IsChain(c, p, f, l, z), NEW k \in 1 .. z,
         NEW m \in Nodes, NEW idx, NEW ent, CacheOf(c, idx, ent),
         \A g \in Slots : ent[g] # c[k]
  PROVE  CacheOf(ReplaceAt(c, k, m), idx, ent)
<1>1. PICK d : d = ReplaceAt(c, k, m)
  OBVIOUS
<1>2. c \in Seq(Nodes) /\ Len(c) = z /\ z \in Nat /\ k \in Nat
  BY DEF IsChain
<1>3. Len(d) = z /\ \A j \in 1 .. z : d[j] = IF j = k THEN m ELSE c[j]
  <2>1. k \in 1 .. Len(c)
    BY <1>2
  <2>2. d \in Seq(Nodes) /\ HasReplaced(d, c, k, m)
    BY <1>1, <1>2, <2>1, ReplaceAtFacts
  <2> QED
    BY <1>2, <2>2 DEF HasReplaced
<1>4. ASSUME NEW g \in Slots, ent[g] # NULL
      PROVE  idx[g] \in Nat /\ idx[g] < Len(d) /\ d[idx[g] + 1] = ent[g]
  <2>1. idx[g] \in Nat /\ idx[g] < z /\ c[idx[g] + 1] = ent[g] /\ ent[g] # c[k]
    BY <1>2, <1>4 DEF CacheOf
  <2>2. idx[g] + 1 # k /\ idx[g] + 1 \in 1 .. z
    BY <1>2, <2>1
  <2> QED
    BY <1>2, <1>3, <2>1, <2>2
<1> QED
  BY <1>1, <1>4 DEF CacheOf

LEMMA ForgottenFacts ==
  ASSUME NEW m
  PROVE  \A g \in Slots : /\ Forgotten(m)[g] # NULL => Forgotten(m)[g] = cacheEnt[g]
                          /\ m # NULL => Forgotten(m)[g] # m
  BY DEF Forgotten

-----------------------------------------------------------------------------
(* Where each loop is, in terms of the list.                               *)
WalkRight ==
  /\ pc = "insert" => /\ call.idx \in 1 .. size - 1 /\ size < MaxSize
                      /\ i \in 1 .. call.idx /\ n = chain[i]
                      /\ ptr[new] = chain[i + 1]
  /\ pc = "sorted" => /\ size < MaxSize
                      /\ i \in 0 .. size /\ n = NodeAt(chain, i)
                      /\ ptr[new] = NodeAt(chain, i + 1)
  /\ pc \in {"insert", "sorted"} => new \in Nodes /\ Outside(new, chain)
  /\ pc \notin {"insert", "sorted"} => new = NULL
  /\ pc \in {"fill", "seek"} => call.idx \in 1 .. size - 1
  /\ pc = "fill" => i \in 0 .. call.idx /\ n = chain[i + 1]
  /\ pc = "seek" => cacheEnt[slot] # NULL /\ cacheIdx[slot] <= call.idx
  /\ pc = "remove" => /\ call.idx \in 1 .. size - 1
                      /\ i \in 1 .. call.idx /\ n = chain[i]
  /\ pc = "remove_last" => \E k \in 1 .. size - 1 : n = chain[k]
  /\ pc = "remove_data" => i \in 1 .. size /\ n = chain[i]
  /\ pc = "clear" => \E k \in 1 .. size + 1 : /\ n = NodeAt(chain, k)
                                              /\ owned = {chain[j] : j \in k .. size}

(* linkedlist_remove_data is called for the first element only when no     *)
(* index is cached, and data_del does not fail.                            *)
Granted ==
  /\ pc # "idle" => call \in Calls
  /\ pc = "start" /\ call.op = "remove_data" /\ size # 0 /\ data[first] = call.data
       => cacheEnt = [k \in Slots |-> NULL]
  /\ ~failed

IInv == ListRight /\ WalkRight /\ Granted

LEMMA MaxTyped == /\ Unfound \in Nat
                  /\ MaxSize \in Nat /\ MaxSize > 0 /\ MaxSize <= Unfound
<1>1. Unfound \in Nat
  BY SMT DEF Unfound
<1> QED
  BY <1>1, LinkedlistAssumption

(* All of it but the locals of the call.                                   *)
Body ==
  /\ first \in Nodes \cup {NULL} /\ last \in Nodes \cup {NULL}
  /\ size \in 0 .. MaxSize
  /\ ptr \in [Nodes -> Nodes \cup {NULL}]
  /\ data \in [Nodes -> Data \cup {NULL}]
  /\ cacheIdx \in [Slots -> Nat]
  /\ cacheEnt \in [Slots -> Nodes \cup {NULL}]
  /\ owned \subseteq Nodes
  /\ IsChain(chain, ptr, first, last, size)
  /\ CacheOf(chain, cacheIdx, cacheEnt)

Answers == ((-1 .. MaxSize) \X (Data \cup {NULL})) \cup {NULL}

LocalsTyped ==
  /\ pc \in {"idle", "start", "insert", "sorted", "fill", "seek", "remove",
             "remove_last", "remove_data", "clear"}
  /\ call \in Calls \cup {NULL}
  /\ ret \in Answers
  /\ i \in Nat
  /\ n \in Nodes \cup {NULL} /\ new \in Nodes \cup {NULL}
  /\ slot \in Slots
  /\ failed \in BOOLEAN

LEMMA IInvIs == IInv <=> Body /\ LocalsTyped /\ NoLeak /\ WalkRight /\ Granted
<1> USE LinkedlistAssumption
<1>1. chain \in Seq(Nodes) /\ size \in 0 .. MaxSize => (Chained <=> IsChain(chain, ptr, first, last, size))
  <2>1. size \in 0 .. MaxSize => size \in Nat
    OBVIOUS
  <2> QED
    BY <2>1, ChainIs
<1>2. IsChain(chain, ptr, first, last, size) => chain \in Seq(Nodes) /\ Len(chain) = size
  BY DEF IsChain
<1>3. Len(chain) = size /\ cacheIdx \in [Slots -> Nat] => (CacheRight <=> CacheOf(chain, cacheIdx, cacheEnt))
  BY DEF CacheRight, CacheOf
<1>4. Chained => Len(chain) = size
  BY DEF Chained
<1>5. TypeOK <=> /\ LocalsTyped /\ chain \in Seq(Nodes)
                 /\ first \in Nodes \cup {NULL} /\ last \in Nodes \cup {NULL}
                 /\ size \in 0 .. MaxSize
                 /\ ptr \in [Nodes -> Nodes \cup {NULL}]
                 /\ data \in [Nodes -> Data \cup {NULL}]
                 /\ cacheIdx \in [Slots -> Nat]
                 /\ cacheEnt \in [Slots -> Nodes \cup {NULL}]
                 /\ owned \subseteq Nodes
  BY DEF TypeOK, LocalsTyped, Answers
<1> QED
  BY <1>1, <1>2, <1>3, <1>4, <1>5 DEF IInv, ListRight, LinksRight, Body

(* A call that has returned leaves no local behind.                        *)
LEMMA Returned ==
  ASSUME NEW a \in Answers, Return(a), Body', owned' = Range(chain')
  PROVE  IInv'
<1> USE LinkedlistAssumption, MaxTyped
<1>1. /\ pc' = "idle" /\ call' = NULL /\ ret' = a /\ i' = 0 /\ n' = NULL /\ new' = NULL
      /\ slot' = 0 /\ failed' = FALSE
  BY DEF Return
<1>2. LocalsTyped'
  <2>1. /\ pc' \in {"idle", "start", "insert", "sorted", "fill", "seek", "remove",
                   "remove_last", "remove_data", "clear"}
        /\ call' \in Calls \cup {NULL}
    BY <1>1
  <2>2. ret' \in Answers
    BY <1>1 DEF Answers
  <2>4. failed' \in BOOLEAN
    BY <1>1, Zenon
  <2>3. /\ i' \in Nat /\ slot' \in Slots
        /\ n' \in Nodes \cup {NULL} /\ new' \in Nodes \cup {NULL}
    BY <1>1 DEF Slots
  <2> QED
    BY <2>1, <2>2, <2>3, <2>4 DEF LocalsTyped
<1>3. NoLeak'
  BY <1>1 DEF NoLeak
<1>4. WalkRight'
  BY <1>1 DEF WalkRight
<1>5. Granted'
  BY <1>1 DEF Granted
<1> QED
  BY <1>2, <1>3, <1>4, <1>5, IInvIs, PTL

(* The facts about the list that the steps below start from.               *)
LEMMA BodyFacts ==
  ASSUME Body
  PROVE  /\ size \in Nat /\ size <= MaxSize /\ MaxSize \in Nat
         /\ chain \in Seq(Nodes) /\ Len(chain) = size
         /\ size > 0 => first = chain[1] /\ last = chain[size] /\ first \in Nodes /\ last \in Nodes
         /\ size = 0 => first = NULL
         /\ first = NodeAt(chain, 1)
         /\ NULL \notin Nodes
         /\ \A k \in 1 .. size : chain[k] \in Nodes /\ ptr[chain[k]] = NodeAt(chain, k + 1)
         /\ \A j, k \in 1 .. size : chain[j] = chain[k] => j = k
         /\ \A k : NodeAt(chain, k) \in Nodes \cup {NULL}
<1> USE LinkedlistAssumption
<1>1. size \in Nat /\ size <= MaxSize /\ MaxSize \in Nat
  BY MaxTyped DEF Body
<1>2. IsChain(chain, ptr, first, last, size)
  BY DEF Body
<1>3. chain \in Seq(Nodes) /\ Len(chain) = size
  BY <1>2 DEF IsChain
<1>4. \A k \in 1 .. size : chain[k] \in Nodes /\ ptr[chain[k]] = NodeAt(chain, k + 1)
  BY <1>2, ChainNext
<1>5. \A k : NodeAt(chain, k) \in Nodes \cup {NULL}
  BY <1>3, <1>4 DEF NodeAt
<1>6. \A j, k \in 1 .. size : chain[j] = chain[k] => j = k
  BY <1>2 DEF IsChain
<1>7. /\ size = 0 => first = NULL
      /\ size > 0 => first = chain[1] /\ last = chain[size]
  BY <1>2 DEF IsChain
<1>8. size > 0 => 1 \in 1 .. size /\ size \in 1 .. size
  BY <1>1
<1>9. size > 0 => first \in Nodes /\ last \in Nodes
  BY <1>4, <1>7, <1>8
<1>10. first = NodeAt(chain, 1)
  <2>1. CASE size > 0
    BY <1>3, <1>7, <1>8, <2>1 DEF NodeAt
  <2>2. CASE size = 0
    BY <1>3, <1>7, <2>2 DEF NodeAt
  <2> QED
    BY <1>1, <2>1, <2>2
<1> QED
  BY <1>1, <1>3, <1>4, <1>5, <1>6, <1>7, <1>9, <1>10

-----------------------------------------------------------------------------
(* A node is linked in at k, one is linked out, one takes the other's      *)
(* place: what is left to show of a step is its pointers.                  *)
PtrTyped   == ptr' \in [Nodes -> Nodes \cup {NULL}]
CacheTyped == cacheIdx' \in [Slots -> Nat] /\ cacheEnt' \in [Slots -> Nodes \cup {NULL}]

LEMMA LinkedIn ==
  ASSUME Body, NEW k \in 0 .. size, NEW m \in Nodes, Outside(m, chain), size < MaxSize,
         PtrTyped, \A x \in Nodes : x # m /\ (k > 0 => x # chain[k]) => ptr'[x] = ptr[x],
         k > 0 => ptr'[chain[k]] = m, ptr'[m] = NodeAt(chain, k + 1),
         first' = IF k = 0 THEN m ELSE first,
         last' = IF k = size THEN m ELSE last,
         Grown(k, m),
         CacheTyped, CacheOf(InsertAt(chain, k + 1, m), cacheIdx', cacheEnt'),
         data' \in [Nodes -> Data \cup {NULL}], owned' \subseteq Nodes
  PROVE  Body' /\ Range(chain') = Range(chain) \cup {m}
<1>1. IsChain(chain, ptr, first, last, size)
  BY DEF Body
<1>2. size' = size + 1 /\ chain' = InsertAt(chain, k + 1, m)
  BY DEF Grown
<1>3. IsChain(InsertAt(chain, k + 1, m), ptr', first', last', size + 1)
  BY <1>1, ChainInsert
<1>4. IsChain(chain', ptr', first', last', size')
  BY <1>2, <1>3
<1>5. chain \in Seq(Nodes) /\ k \in 0 .. Len(chain)
  BY BodyFacts
<1>6. Range(chain') = Range(chain) \cup {m}
  BY <1>2, <1>5, RangeInsert
<1>7. size' \in 0 .. MaxSize
  BY <1>2, BodyFacts
<1>8. first' \in Nodes \cup {NULL} /\ last' \in Nodes \cup {NULL}
  BY DEF Body
<1>9. CacheOf(chain', cacheIdx', cacheEnt')
  BY <1>2
<1> QED
  BY <1>4, <1>6, <1>7, <1>8, <1>9 DEF Body, PtrTyped, CacheTyped

LEMMA LinkedOut ==
  ASSUME Body, NEW k \in 1 .. size,
         PtrTyped, \A x \in Nodes : (k > 1 => x # chain[k - 1]) => ptr'[x] = ptr[x],
         k > 1 => ptr'[chain[k - 1]] = NodeAt(chain, k + 1),
         first' = IF k = 1 THEN NodeAt(chain, 2) ELSE first,
         last' \in Nodes \cup {NULL},
         size > 1 => last' = IF k = size THEN chain[k - 1] ELSE last,
         size' = size - 1, chain' = RemoveAt(chain, k),
         CacheTyped, CacheOf(RemoveAt(chain, k), cacheIdx', cacheEnt'),
         data' = data, owned' \subseteq Nodes
  PROVE  Body' /\ Range(chain') = Range(chain) \ {chain[k]}
<1>1. IsChain(chain, ptr, first, last, size)
  BY DEF Body
<1>2. IsChain(RemoveAt(chain, k), ptr', first', last', size - 1)
  BY <1>1, ChainRemove
<1>3. IsChain(chain', ptr', first', last', size')
  BY <1>2
<1>4. Range(chain') = Range(chain) \ {chain[k]}
  BY <1>1, RangeRemove
<1>5. size' \in 0 .. MaxSize
  BY BodyFacts
<1>6. first' \in Nodes \cup {NULL}
  BY BodyFacts DEF Body
<1>7. CacheOf(chain', cacheIdx', cacheEnt')
  OBVIOUS
<1> QED
  BY <1>3, <1>4, <1>5, <1>6, <1>7 DEF Body, PtrTyped, CacheTyped

LEMMA LinkedOver ==
  ASSUME Body, NEW k \in 1 .. size, NEW m \in Nodes, Outside(m, chain),
         PtrTyped, \A x \in Nodes : x # m /\ (k > 1 => x # chain[k - 1]) => ptr'[x] = ptr[x],
         k > 1 => ptr'[chain[k - 1]] = m, ptr'[m] = NodeAt(chain, k + 1),
         first' = IF k = 1 THEN m ELSE first,
         last' = IF k = size THEN m ELSE last,
         size' = size, chain' = ReplaceAt(chain, k, m),
         CacheTyped, CacheOf(ReplaceAt(chain, k, m), cacheIdx', cacheEnt'),
         data' = data, owned' \subseteq Nodes
  PROVE  Body' /\ Range(chain') = (Range(chain) \ {chain[k]}) \cup {m}
<1>1. IsChain(chain, ptr, first, last, size)
  BY DEF Body
<1>2. IsChain(ReplaceAt(chain, k, m), ptr', first', last', size)
  BY <1>1, ChainReplace
<1>3. IsChain(chain', ptr', first', last', size')
  BY <1>2
<1>4. Range(chain') = (Range(chain) \ {chain[k]}) \cup {m}
  BY <1>1, RangeReplace
<1>5. size' \in 0 .. MaxSize
  BY DEF Body
<1>6. first' \in Nodes \cup {NULL} /\ last' \in Nodes \cup {NULL}
  BY DEF Body
<1>7. CacheOf(chain', cacheIdx', cacheEnt')
  OBVIOUS
<1> QED
  BY <1>3, <1>4, <1>5, <1>6, <1>7 DEF Body, PtrTyped, CacheTyped

LEMMA ShiftedTyped ==
  ASSUME Body, NEW k \in Nat
  PROVE  Shifted(cacheEnt, k, 1) \in [Slots -> Nat]
  BY DEF Shifted, Body

LEMMA ForgottenTyped ==
  ASSUME Body, NEW m PROVE Forgotten(m) \in [Slots -> Nodes \cup {NULL}]
  BY DEF Forgotten, Body

(* Before the first and after the last loop the list owns its nodes.       *)
LEMMA StartFacts ==
  ASSUME IInv, pc = "start"
  PROVE  /\ Body /\ call \in Calls /\ owned = Range(chain)
         /\ \A m \in Nodes \ owned : Outside(m, chain)
<1>1. Body /\ LocalsTyped /\ NoLeak /\ WalkRight /\ Granted
  BY IInvIs
<1>2. call \in Calls
  BY <1>1 DEF LocalsTyped, Granted
<1>3. owned = Range(chain)
  BY <1>1 DEF NoLeak, WalkRight
<1>4. chain \in Seq(Nodes)
  BY <1>1, BodyFacts
<1> QED
  BY <1>1, <1>2, <1>3, <1>4, RangeIs

LEMMA CallFacts ==
  ASSUME NEW c \in Calls
  PROVE  /\ c.idx \in Nat /\ c.idx <= MaxSize
         /\ c.data \in Data \cup {NULL}
         /\ c.op \in ByData => c.data \in Data
  BY MaxTyped DEF Calls

LEMMA ObtainFacts ==
  ASSUME IInv, pc = "start", NEW m \in Nodes, Obtain(m)
  PROVE  /\ Outside(m, chain) /\ m \in Nodes
         /\ data' \in [Nodes -> Data \cup {NULL}]
         /\ owned' \subseteq Nodes /\ owned' = Range(chain) \cup {m}
<1>1. m \in Nodes \ owned /\ owned' = owned \cup {m} /\ data' = [data EXCEPT ![m] = call.data]
  BY DEF Obtain
<1>2. Body /\ call \in Calls /\ owned = Range(chain) /\ Outside(m, chain)
  BY <1>1, StartFacts
<1>3. call.data \in Data \cup {NULL}
  BY <1>2, CallFacts
<1> QED
  BY <1>1, <1>2, <1>3 DEF Body

LEMMA AnswersFacts == /\ Fail \in Answers /\ Done \in Answers
                      /\ \A d \in Data \cup {NULL} : Found(d) \in Answers
                      /\ \A k \in 0 .. MaxSize, d \in Data \cup {NULL} : <<k, d>> \in Answers
  BY MaxTyped DEF Fail, Done, Found, Answers

LEMMA PutLastFacts ==
  ASSUME Body, NEW m \in Nodes, Outside(m, chain), PutLast(m)
  PROVE  /\ PtrTyped
         /\ \A x \in Nodes : x # m /\ (size > 0 => x # chain[size]) => ptr'[x] = ptr[x]
         /\ size > 0 => ptr'[chain[size]] = m
         /\ ptr'[m] = NodeAt(chain, size + 1)
         /\ first' = IF size = 0 THEN m ELSE first
         /\ last' = IF size = size THEN m ELSE last
<1>1. ptr \in [Nodes -> Nodes \cup {NULL}] /\ size \in Nat
  BY BodyFacts DEF Body
<1>2. NodeAt(chain, size + 1) = NULL
  BY BodyFacts DEF NodeAt
<1>3. CASE size = 0
  BY <1>1, <1>2, <1>3 DEF PutLast, PtrTyped
<1>4. CASE size > 0
  <2>1. last = chain[size] /\ last \in Nodes /\ last # m
    BY <1>4, BodyFacts DEF Outside
  <2>2. ptr' = [ptr EXCEPT ![m] = NULL, ![last] = m] /\ first' = first /\ last' = m
    BY <1>4 DEF PutLast
  <2> QED
    BY <1>1, <1>2, <1>4, <2>1, <2>2 DEF PtrTyped
<1> QED
  BY <1>1, <1>3, <1>4

LEMMA AddStep == ASSUME IInv, NEW m \in Nodes, Add(m) PROVE IInv'
<1>1. /\ pc = "start" /\ size # MaxSize /\ Obtain(m) /\ PutLast(m) /\ Grown(size, m)
      /\ Return(Done) /\ cacheIdx' = cacheIdx /\ cacheEnt' = cacheEnt
  BY DEF Add, Start, Admitted, cache
<1>2. Body
  BY <1>1, StartFacts
<1>3. size \in 0 .. size /\ size < MaxSize /\ Len(chain) = size /\ chain \in Seq(Nodes)
  BY <1>1, <1>2, BodyFacts
<1>4. CacheOf(InsertAt(chain, size + 1, m), cacheIdx', cacheEnt') /\ CacheTyped
  BY <1>1, <1>2, <1>3, CacheAdd DEF Body, CacheTyped
<1>5. Body' /\ Range(chain') = Range(chain) \cup {m}
  BY <1>1, <1>2, <1>3, <1>4, ObtainFacts, PutLastFacts, LinkedIn
<1> QED
  BY <1>1, <1>5, ObtainFacts, AnswersFacts, Returned

LEMMA InsertLastStep == ASSUME IInv, NEW m \in Nodes, InsertLast(m) PROVE IInv'
<1>1. /\ pc = "start" /\ size # MaxSize /\ Obtain(m) /\ PutLast(m) /\ Grown(size, m)
      /\ call.op = "insert" /\ ~(call.idx > size) /\ (size = 0 \/ call.idx = size)
      /\ Return(Done) /\ cacheIdx' = Shifted(cacheEnt, call.idx, 1) /\ cacheEnt' = cacheEnt
  BY DEF InsertLast, Start, Admitted
<1>2. Body /\ call \in Calls
  BY <1>1, StartFacts
<1>3. size \in 0 .. size /\ size < MaxSize /\ Len(chain) = size /\ chain \in Seq(Nodes)
  BY <1>1, <1>2, BodyFacts
<1>4. call.idx = size
  BY <1>1, <1>2, <1>3, BodyFacts, CallFacts
<1>5. CacheOf(InsertAt(chain, size + 1, m), cacheIdx', cacheEnt')
  BY <1>1, <1>2, <1>3, <1>4, CacheInsert DEF Body
<1>6. CacheTyped
  BY <1>1, <1>2, <1>3, <1>4, ShiftedTyped DEF Body, CacheTyped
<1>7. Body' /\ Range(chain') = Range(chain) \cup {m}
  BY <1>1, <1>2, <1>3, <1>5, <1>6, ObtainFacts, PutLastFacts, LinkedIn
<1> QED
  BY <1>1, <1>7, ObtainFacts, AnswersFacts, Returned

LEMMA InsertFirstStep == ASSUME IInv, NEW m \in Nodes, InsertFirst(m) PROVE IInv'
<1>1. /\ pc = "start" /\ size # MaxSize /\ size # 0 /\ Obtain(m) /\ Grown(0, m)
      /\ ptr' = [ptr EXCEPT ![m] = first] /\ first' = m /\ last' = last
      /\ Return(Done) /\ cacheIdx' = Shifted(cacheEnt, 0, 1) /\ cacheEnt' = cacheEnt
  BY DEF InsertFirst, Start, Admitted
<1>2. Body
  BY <1>1, StartFacts
<1>3. 0 \in 0 .. size /\ size < MaxSize /\ 0 \in 0 .. Len(chain) /\ chain \in Seq(Nodes)
  BY <1>1, <1>2, BodyFacts
<1>4. CacheOf(InsertAt(chain, 0 + 1, m), cacheIdx', cacheEnt')
  BY <1>1, <1>2, <1>3, CacheInsert DEF Body
<1>5. CacheTyped
  BY <1>1, <1>2, ShiftedTyped DEF Body, CacheTyped
<1>6. /\ PtrTyped /\ \A x \in Nodes : x # m => ptr'[x] = ptr[x]
      /\ ptr'[m] = NodeAt(chain, 0 + 1)
  BY <1>1, <1>2, BodyFacts DEF Body, PtrTyped
<1>7. Body' /\ Range(chain') = Range(chain) \cup {m}
  BY <1>1, <1>2, <1>3, <1>4, <1>5, <1>6, ObtainFacts, LinkedIn
<1> QED
  BY <1>1, <1>7, ObtainFacts, AnswersFacts, Returned

-----------------------------------------------------------------------------
(* A step of a loop, or the one that begins it.                            *)
Walks == {"insert", "sorted", "fill", "seek", "remove", "remove_last", "remove_data", "clear"}

LEMMA Walking ==
  ASSUME IInv, pc # "idle", Body', call' = call, ret' = ret, failed' = failed,
         pc' \in Walks, i' \in Nat, n' \in Nodes \cup {NULL}, new' \in Nodes \cup {NULL},
         slot' \in Slots, NoLeak', WalkRight'
  PROVE  IInv'
<1>1. LocalsTyped /\ Granted
  BY IInvIs
<1>2. LocalsTyped'
  <2>1. failed' \in BOOLEAN
    BY <1>1, Zenon DEF LocalsTyped
  <2>2. /\ pc' \in {"idle", "start", "insert", "sorted", "fill", "seek", "remove",
                   "remove_last", "remove_data", "clear"}
        /\ call' \in Calls \cup {NULL} /\ ret' \in Answers
    BY <1>1 DEF LocalsTyped, Walks
  <2> QED
    BY <2>1, <2>2 DEF LocalsTyped
<1>3. Granted'
  <2>1. pc' # "idle" /\ pc' # "start"
    BY DEF Walks
  <2>2. call' \in Calls
    BY <1>1 DEF Granted
  <2>3. ~failed'
    BY <1>1 DEF Granted
  <2> QED
    BY <2>1, <2>2, <2>3 DEF Granted
<1> QED
  BY <1>2, <1>3, IInvIs, PTL

LEMMA BodyStays ==
  ASSUME Body, UNCHANGED <<first, last, size, ptr, data, cacheIdx, cacheEnt, owned, chain>>
  PROVE  Body'
  BY DEF Body

LEMMA BodyApart ==
  ASSUME Body, NEW m \in Nodes, Outside(m, chain), NEW x \in Nodes \cup {NULL},
         ptr' = [ptr EXCEPT ![m] = x],
         UNCHANGED <<first, last, size, cacheIdx, cacheEnt, chain>>,
         data' \in [Nodes -> Data \cup {NULL}], owned' \subseteq Nodes
  PROVE  Body'
<1>1. IsChain(chain, ptr', first, last, size)
  BY ChainApart DEF Body
<1>2. ptr' \in [Nodes -> Nodes \cup {NULL}]
  BY DEF Body
<1> QED
  BY <1>1, <1>2 DEF Body

LEMMA WalkFacts ==
  ASSUME IInv, pc \in Walks
  PROVE  /\ Body /\ NoLeak /\ WalkRight /\ call \in Calls /\ pc # "idle" /\ slot \in Slots
         /\ n \in Nodes \cup {NULL} /\ new \in Nodes \cup {NULL} /\ i \in Nat
<1>1. Body /\ NoLeak /\ WalkRight /\ Granted /\ LocalsTyped
  BY IInvIs
<1> QED
  BY <1>1 DEF Walks, Granted, LocalsTyped

LEMMA InsertWalkStep == ASSUME IInv, NEW m \in Nodes, InsertWalk(m) PROVE IInv'
<1>1. /\ pc = "start" /\ size # MaxSize /\ Obtain(m) /\ call.op = "insert"
      /\ ~(call.idx > size) /\ call.idx \notin {0, size}
      /\ new' = m /\ n' = first /\ i' = 1
      /\ ptr' = [ptr EXCEPT ![m] = ptr[first]]
      /\ pc' = "insert" /\ call' = call /\ ret' = ret
      /\ UNCHANGED <<first, last, size, chain, cacheIdx, cacheEnt, slot, failed>>
  BY DEF InsertWalk, Start, Admitted, Go, cache
<1>2. Body /\ call \in Calls
  BY <1>1, StartFacts
<1>3. call.idx \in 1 .. size - 1 /\ size < MaxSize /\ 1 \in 1 .. call.idx
  BY <1>1, <1>2, BodyFacts, CallFacts
<1>4. first = chain[1] /\ first \in Nodes /\ ptr[first] = chain[2] /\ ptr[first] \in Nodes
  BY <1>2, <1>3, BodyFacts DEF NodeAt
<1>5. Body'
  BY <1>1, <1>2, <1>4, ObtainFacts, BodyApart
<1>6. NoLeak'
  BY <1>1, <1>2, BodyFacts, ObtainFacts DEF NoLeak
<1>7. ptr'[m] = chain[2]
  BY <1>1, <1>2, <1>4 DEF Body
<1>8. WalkRight'
  <2>1. Outside(new', chain') /\ new' \in Nodes
    BY <1>1, ObtainFacts
  <2> QED
    BY <1>1, <1>3, <1>4, <1>7, <2>1 DEF WalkRight
<1>9. slot' \in Slots
  BY <1>1, IInvIs DEF LocalsTyped
<1> QED
  BY <1>1, <1>4, <1>5, <1>6, <1>8, <1>9, Walking DEF Walks

LEMMA InsertOnStep == ASSUME IInv, InsertOn PROVE IInv'
<1>1. /\ pc = "insert" /\ i < call.idx /\ n' = ptr[n] /\ i' = i + 1
      /\ ptr' = [ptr EXCEPT ![new] = ptr[ptr[n]]]
      /\ pc' = pc /\ call' = call /\ ret' = ret
      /\ UNCHANGED <<first, last, size, chain, cacheIdx, cacheEnt, data, owned, new, slot, failed>>
  BY DEF InsertOn, cache, memory
<1>2. Body /\ NoLeak /\ WalkRight /\ call \in Calls
  BY <1>1, WalkFacts DEF Walks
<1>3. /\ call.idx \in 1 .. size - 1 /\ size < MaxSize /\ i \in 1 .. call.idx /\ n = chain[i]
      /\ new \in Nodes /\ Outside(new, chain)
  BY <1>1, <1>2 DEF WalkRight
<1>4. i + 1 \in 1 .. call.idx /\ i \in 1 .. size /\ i + 1 \in 1 .. size /\ (i + 1) + 1 \in 1 .. size
  BY <1>1, <1>2, <1>3, BodyFacts
<1>5. /\ n \in Nodes /\ ptr[n] = chain[i + 1] /\ ptr[n] \in Nodes
      /\ ptr[ptr[n]] = chain[(i + 1) + 1] /\ ptr[ptr[n]] \in Nodes
  BY <1>2, <1>3, <1>4, BodyFacts DEF NodeAt
<1>6. Body'
  BY <1>1, <1>2, <1>3, <1>5, BodyApart DEF Body
<1>7. ptr'[new] = chain[(i + 1) + 1]
  BY <1>1, <1>2, <1>3, <1>5 DEF Body
<1>8. NoLeak'
  BY <1>1, <1>2 DEF NoLeak
<1>9. WalkRight'
  <2>1. Outside(new', chain')
    BY <1>1, <1>3
  <2> QED
    BY <1>1, <1>3, <1>4, <1>5, <1>7, <2>1 DEF WalkRight
<1>10. slot' \in Slots /\ i' \in Nat
  BY <1>1, <1>4, IInvIs DEF LocalsTyped
<1> QED
  BY <1>1, <1>3, <1>5, <1>6, <1>8, <1>9, <1>10, Walking DEF Walks

LEMMA InsertHereStep == ASSUME IInv, InsertHere PROVE IInv'
<1>1. /\ pc = "insert" /\ ~(i < call.idx) /\ ptr' = [ptr EXCEPT ![n] = new]
      /\ Grown(call.idx, new) /\ cacheIdx' = Shifted(cacheEnt, call.idx, 1) /\ Return(Done)
      /\ UNCHANGED <<first, last, cacheEnt, data, owned>>
  BY DEF InsertHere, memory
<1>2. Body /\ NoLeak /\ WalkRight /\ call \in Calls
  BY <1>1, WalkFacts DEF Walks
<1>3. /\ call.idx \in 1 .. size - 1 /\ size < MaxSize /\ i \in 1 .. call.idx /\ n = chain[i]
      /\ new \in Nodes /\ Outside(new, chain) /\ ptr[new] = chain[i + 1]
  BY <1>1, <1>2 DEF WalkRight
<1>4. /\ i = call.idx /\ i \in 0 .. size /\ i > 0 /\ i # size /\ i \in 1 .. size /\ i + 1 \in 1 .. size
      /\ i \in 0 .. Len(chain) /\ i \in Nat /\ chain \in Seq(Nodes)
  BY <1>1, <1>2, <1>3, BodyFacts
<1>5. n \in Nodes /\ n # new /\ NodeAt(chain, i + 1) = chain[i + 1]
  BY <1>2, <1>3, <1>4, BodyFacts DEF NodeAt, Outside
<1>6. CacheOf(InsertAt(chain, i + 1, new), cacheIdx', cacheEnt')
  BY <1>1, <1>2, <1>3, <1>4, CacheInsert DEF Body
<1>7. CacheTyped
  BY <1>1, <1>2, <1>4, ShiftedTyped DEF Body, CacheTyped
<1>8. /\ PtrTyped /\ \A x \in Nodes : x # new /\ (i > 0 => x # chain[i]) => ptr'[x] = ptr[x]
      /\ i > 0 => ptr'[chain[i]] = new
      /\ ptr'[new] = NodeAt(chain, i + 1)
  BY <1>1, <1>2, <1>3, <1>4, <1>5 DEF Body, PtrTyped
<1>9. /\ data' \in [Nodes -> Data \cup {NULL}] /\ owned' \subseteq Nodes /\ Grown(i, new)
      /\ first' = (IF i = 0 THEN new ELSE first) /\ last' = (IF i = size THEN new ELSE last)
  BY <1>1, <1>2, <1>4 DEF Body
<1>10. Body' /\ Range(chain') = Range(chain) \cup {new}
  BY <1>2, <1>3, <1>4, <1>6, <1>7, <1>8, <1>9, LinkedIn
<1>11. owned' = Range(chain')
  BY <1>1, <1>2, <1>3, <1>10, BodyFacts DEF NoLeak
<1> QED
  BY <1>1, <1>10, <1>11, AnswersFacts, Returned

LEMMA SortedStartStep == ASSUME IInv, NEW m \in Nodes, SortedStart(m) PROVE IInv'
<1>1. /\ pc = "start" /\ size # MaxSize /\ Obtain(m)
      /\ new' = m /\ n' = NULL /\ i' = 0
      /\ ptr' = [ptr EXCEPT ![m] = first]
      /\ pc' = "sorted" /\ call' = call /\ ret' = ret
      /\ UNCHANGED <<first, last, size, chain, cacheIdx, cacheEnt, slot, failed>>
  BY DEF SortedStart, Admitted, Go, cache
<1>2. Body /\ call \in Calls
  BY <1>1, StartFacts
<1>3. /\ size < MaxSize /\ 0 \in 0 .. size /\ 0 + 1 = 1
      /\ first = NodeAt(chain, 1) /\ first \in Nodes \cup {NULL} /\ NULL = NodeAt(chain, 0)
  BY <1>1, <1>2, BodyFacts DEF NodeAt, Body
<1>5. Body'
  BY <1>1, <1>2, <1>3, ObtainFacts, BodyApart
<1>6. NoLeak'
  BY <1>1, <1>2, BodyFacts, ObtainFacts DEF NoLeak
<1>7. ptr'[m] = NodeAt(chain, 1)
  BY <1>1, <1>2, <1>3 DEF Body
<1>8. WalkRight'
  <2>1. Outside(new', chain') /\ new' \in Nodes
    BY <1>1, ObtainFacts
  <2>2. n' = NodeAt(chain', i') /\ ptr'[new'] = NodeAt(chain', i' + 1)
    BY <1>1, <1>3, <1>7
  <2> QED
    BY <1>1, <1>3, <2>1, <2>2 DEF WalkRight
<1>9. slot' \in Slots
  BY <1>1, IInvIs DEF LocalsTyped
<1> QED
  BY <1>1, <1>5, <1>6, <1>8, <1>9, Walking DEF Walks

(* What insert_sorted knows of the node it compares with.                  *)
LEMMA SortedFacts ==
  ASSUME IInv, pc = "sorted"
  PROVE  /\ Body /\ NoLeak /\ call \in Calls /\ size < MaxSize
         /\ i \in 0 .. size /\ i \in Nat /\ n = NodeAt(chain, i) /\ At = NodeAt(chain, i + 1)
         /\ new \in Nodes /\ Outside(new, chain)
         /\ i = 0 => n = NULL
         /\ i > 0 => i \in 1 .. size /\ n = chain[i] /\ n \in Nodes /\ n # new
         /\ i = size => At = NULL
         /\ i < size => /\ i + 1 \in 1 .. size /\ At = chain[i + 1] /\ At \in Nodes /\ At # new
                        /\ ptr[At] = NodeAt(chain, (i + 1) + 1)
         /\ owned = Range(chain) \cup {new}
<1>1. Body /\ NoLeak /\ WalkRight /\ call \in Calls
  BY WalkFacts DEF Walks
<1>2. /\ size < MaxSize /\ i \in 0 .. size /\ n = NodeAt(chain, i) /\ At = NodeAt(chain, i + 1)
      /\ new \in Nodes /\ Outside(new, chain)
  BY <1>1 DEF WalkRight, At
<1>3. size \in Nat /\ i \in Nat /\ Len(chain) = size
  BY <1>1, <1>2, BodyFacts
<1>4. i = 0 => n = NULL
  BY <1>2, <1>3 DEF NodeAt
<1>5. i > 0 => i \in 1 .. size /\ n = chain[i] /\ n \in Nodes /\ n # new
  BY <1>1, <1>2, <1>3, BodyFacts DEF NodeAt, Outside
<1>6. i = size => At = NULL
  BY <1>2, <1>3 DEF NodeAt
<1>7. i < size => /\ i + 1 \in 1 .. size /\ At = chain[i + 1] /\ At \in Nodes /\ At # new
                  /\ ptr[At] = NodeAt(chain, (i + 1) + 1)
  <2> SUFFICES ASSUME i < size
               PROVE  /\ i + 1 \in 1 .. size /\ At = chain[i + 1] /\ At \in Nodes /\ At # new
                      /\ ptr[At] = NodeAt(chain, (i + 1) + 1)
    OBVIOUS
  <2>1. i + 1 \in 1 .. size
    BY <1>3
  <2>2. At = chain[i + 1]
    BY <1>2, <1>3, <2>1 DEF NodeAt
  <2> QED
    BY <1>1, <1>2, <1>3, <2>1, <2>2, BodyFacts DEF Outside
<1>8. owned = Range(chain) \cup {new}
  BY <1>1, <1>2, BodyFacts DEF NoLeak
<1> QED
  BY <1>1, <1>2, <1>3, <1>4, <1>5, <1>6, <1>7, <1>8

LEMMA SortedOnStep == ASSUME IInv, SortedOn PROVE IInv'
<1>1. /\ pc = "sorted" /\ At # NULL /\ n' = At /\ i' = i + 1
      /\ ptr' = [ptr EXCEPT ![new] = ptr[At]]
      /\ pc' = pc /\ call' = call /\ ret' = ret
      /\ UNCHANGED <<first, last, size, chain, cacheIdx, cacheEnt, data, owned, new, slot, failed>>
  BY DEF SortedOn, Precedes, cache, memory
<1>2. /\ Body /\ NoLeak /\ size < MaxSize /\ i \in Nat /\ new \in Nodes /\ Outside(new, chain)
      /\ i + 1 \in 1 .. size /\ At = chain[i + 1] /\ At \in Nodes
      /\ At = NodeAt(chain, i + 1)
      /\ ptr[At] = NodeAt(chain, (i + 1) + 1)
  <2>1. i < size
    BY <1>1, SortedFacts, BodyFacts
  <2> QED
    BY <1>1, <2>1, SortedFacts
<1>3. ptr[At] \in Nodes \cup {NULL}
  BY <1>2 DEF Body
<1>6. Body'
  BY <1>1, <1>2, <1>3, BodyApart DEF Body
<1>7. ptr'[new] = NodeAt(chain, (i + 1) + 1)
  BY <1>1, <1>2 DEF Body
<1>8. NoLeak'
  BY <1>1, <1>2 DEF NoLeak
<1>9. WalkRight'
  <2>1. Outside(new', chain')
    BY <1>1, <1>2
  <2>2. n' = NodeAt(chain', i') /\ ptr'[new'] = NodeAt(chain', i' + 1)
    BY <1>1, <1>2, <1>7
  <2>3. i' \in 0 .. size'
    BY <1>1, <1>2, BodyFacts
  <2> QED
    BY <1>1, <1>2, <2>1, <2>2, <2>3 DEF WalkRight
<1>10. slot' \in Slots /\ i' \in Nat
  BY <1>1, <1>2, IInvIs DEF LocalsTyped
<1> QED
  BY <1>1, <1>2, <1>6, <1>8, <1>9, <1>10, Walking DEF Walks

LEMMA SortedHereStep == ASSUME IInv, SortedHere PROVE IInv'
<1>1. /\ pc = "sorted" /\ Linked(At) /\ Grown(i, new)
      /\ cacheIdx' = Shifted(cacheEnt, i, 1) /\ Return(<<i, NULL>>)
      /\ UNCHANGED <<cacheEnt, data, owned>>
  BY DEF SortedHere, memory
<1>2. /\ Body /\ size < MaxSize /\ i \in 0 .. size /\ i \in Nat /\ new \in Nodes /\ Outside(new, chain)
      /\ At = NodeAt(chain, i + 1) /\ (i = 0 => n = NULL)
      /\ (i > 0 => n = chain[i] /\ n \in Nodes /\ n # new)
      /\ (i = size => At = NULL) /\ (i < size => At \in Nodes)
      /\ owned = Range(chain) \cup {new}
  BY <1>1, SortedFacts
<1>3. size \in Nat /\ chain \in Seq(Nodes) /\ Len(chain) = size /\ NULL \notin Nodes
  BY <1>2, BodyFacts
<1>4. CacheOf(InsertAt(chain, i + 1, new), cacheIdx', cacheEnt')
  BY <1>1, <1>2, <1>3, CacheInsert DEF Body
<1>5. CacheTyped
  BY <1>1, <1>2, ShiftedTyped DEF Body, CacheTyped
<1>6. At \in Nodes \cup {NULL}
  BY <1>2, <1>3
<1>7. /\ PtrTyped /\ \A x \in Nodes : x # new /\ (i > 0 => x # chain[i]) => ptr'[x] = ptr[x]
      /\ i > 0 => ptr'[chain[i]] = new
      /\ ptr'[new] = At
  <2>1. CASE i = 0
    <3>1. ptr' = [ptr EXCEPT ![new] = At]
      BY <1>1, <1>2, <2>1 DEF Linked
    <3> QED
      BY <1>2, <1>6, <2>1, <3>1 DEF Body, PtrTyped
  <2>2. CASE i > 0
    <3>1. ptr' = [ptr EXCEPT ![new] = At, ![n] = new]
      BY <1>1, <1>2, <1>3, <2>2 DEF Linked
    <3> QED
      BY <1>2, <1>6, <2>2, <3>1 DEF Body, PtrTyped
  <2> QED
    BY <1>2, <2>1, <2>2
<1>8. first' = (IF i = 0 THEN new ELSE first) /\ last' = (IF i = size THEN new ELSE last)
  <2>1. (n = NULL <=> i = 0) /\ (At = NULL <=> i = size)
    BY <1>2, <1>3
  <2> QED
    BY <1>1, <2>1 DEF Linked
<1>9. data' \in [Nodes -> Data \cup {NULL}] /\ owned' \subseteq Nodes
  BY <1>1, <1>2 DEF Body
<1>10. Body' /\ Range(chain') = Range(chain) \cup {new}
  BY <1>1, <1>2, <1>4, <1>5, <1>7, <1>8, <1>9, LinkedIn
<1>11. i \in 0 .. MaxSize
  BY <1>2, <1>3, BodyFacts
<1> QED
  BY <1>1, <1>2, <1>10, <1>11, AnswersFacts, Returned

LEMMA SortedReplaceStep == ASSUME IInv, SortedReplace PROVE IInv'
<1>1. /\ pc = "sorted" /\ At # NULL /\ Linked(ptr[At]) /\ cacheEnt' = Forgotten(At)
      /\ owned' = owned \ {At} /\ chain' = ReplaceAt(chain, i + 1, new)
      /\ Return(<<i, data[At]>>)
      /\ UNCHANGED <<size, data, cacheIdx>>
  BY DEF SortedReplace, Precedes
<1>2. /\ Body /\ i \in 0 .. size /\ i \in Nat /\ new \in Nodes /\ Outside(new, chain)
      /\ (i = 0 => n = NULL)
      /\ (i > 0 => n = chain[i] /\ n \in Nodes /\ n # new)
      /\ owned = Range(chain) \cup {new}
      /\ i < size /\ i + 1 \in 1 .. size /\ At = chain[i + 1] /\ At \in Nodes /\ At # new
      /\ ptr[At] = NodeAt(chain, (i + 1) + 1)
  <2>1. i < size
    BY <1>1, SortedFacts, BodyFacts
  <2> QED
    BY <1>1, <2>1, SortedFacts
<1>3. size \in Nat /\ chain \in Seq(Nodes) /\ Len(chain) = size /\ NULL \notin Nodes
  BY <1>2, BodyFacts
<1> DEFINE k == i + 1
<1>4. k \in 1 .. size /\ k - 1 = i /\ (k > 1 <=> i > 0) /\ (k = 1 <=> i = 0) /\ chain[k] = At
      /\ ptr[At] = NodeAt(chain, k + 1) /\ chain' = ReplaceAt(chain, k, new)
  BY <1>1, <1>2
<1> HIDE DEF k
<1>5. CacheOf(ReplaceAt(chain, k, new), cacheIdx', cacheEnt') /\ CacheTyped
  <2>1. \A g \in Slots : /\ cacheEnt'[g] # NULL => cacheEnt'[g] = cacheEnt[g]
                         /\ cacheEnt'[g] # chain[k]
    BY <1>1, <1>4, ForgottenFacts
  <2>2. CacheOf(chain, cacheIdx', cacheEnt')
    BY <1>1, <1>2, <2>1 DEF Body, CacheOf
  <2>3. CacheOf(ReplaceAt(chain, k, new), cacheIdx', cacheEnt')
    BY <1>2, <1>4, <2>1, <2>2, CacheReplace DEF Body
  <2> QED
    BY <1>1, <1>2, <2>3, ForgottenTyped DEF Body, CacheTyped
<1>6. ptr[At] \in Nodes \cup {NULL} /\ (ptr[At] = NULL <=> k = size)
  <2>1. k < size => chain[k + 1] \in Nodes /\ k + 1 \in 1 .. size
    BY <1>2, <1>3, <1>4, BodyFacts
  <2> QED
    BY <1>2, <1>3, <1>4, <2>1 DEF NodeAt, Body
<1>7. /\ PtrTyped /\ \A x \in Nodes : x # new /\ (k > 1 => x # chain[k - 1]) => ptr'[x] = ptr[x]
      /\ k > 1 => ptr'[chain[k - 1]] = new
      /\ ptr'[new] = NodeAt(chain, k + 1)
  <2>1. CASE i = 0
    <3>1. ptr' = [ptr EXCEPT ![new] = ptr[At]]
      BY <1>1, <1>2, <2>1 DEF Linked
    <3> QED
      BY <1>2, <1>4, <1>6, <2>1, <3>1 DEF Body, PtrTyped
  <2>2. CASE i > 0
    <3>1. ptr' = [ptr EXCEPT ![new] = ptr[At], ![n] = new]
      BY <1>1, <1>2, <1>3, <2>2 DEF Linked
    <3> QED
      BY <1>2, <1>4, <1>6, <2>2, <3>1 DEF Body, PtrTyped
  <2> QED
    BY <1>2, <2>1, <2>2
<1>8. first' = (IF k = 1 THEN new ELSE first) /\ last' = (IF k = size THEN new ELSE last)
  <2>1. n = NULL <=> k = 1
    BY <1>2, <1>3, <1>4
  <2> QED
    BY <1>1, <1>6, <2>1 DEF Linked
<1>9. owned' \subseteq Nodes
  BY <1>1, <1>2 DEF Body
<1>10. Body' /\ Range(chain') = (Range(chain) \ {chain[k]}) \cup {new}
  BY <1>1, <1>2, <1>4, <1>5, <1>7, <1>8, <1>9, LinkedOver
<1>11. owned' = Range(chain')
  BY <1>1, <1>2, <1>4, <1>10
<1>12. i \in 0 .. MaxSize /\ data[At] \in Data \cup {NULL}
  BY <1>2, <1>3, BodyFacts DEF Body
<1> QED
  BY <1>1, <1>10, <1>11, <1>12, AnswersFacts, Returned

-----------------------------------------------------------------------------
(* linkedlist_get                                                          *)
LEMMA QuietFacts ==
  ASSUME IInv, pc \notin {"insert", "sorted", "clear"}
  PROVE  Body /\ owned = Range(chain) /\ new = NULL
<1>1. Body /\ NoLeak /\ WalkRight
  BY IInvIs
<1> QED
  BY <1>1 DEF NoLeak, WalkRight

LEMMA Answered ==
  ASSUME IInv, pc \notin {"insert", "sorted", "clear"}, NEW a \in Answers, Return(a), Still,
         Body'
  PROVE  IInv'
<1>1. owned' = Range(chain')
  BY QuietFacts DEF Still, links, memory
<1> QED
  BY <1>1, Returned

LEMMA StillBody ==
  ASSUME Body, Still, UNCHANGED cache PROVE Body'
  BY BodyStays DEF Still, links, memory, cache

LEMMA FoundFacts ==
  ASSUME Body
  PROVE  /\ \A m \in Nodes : Found(data[m]) \in Answers
         /\ size > 0 => Found(data[first]) \in Answers /\ Found(data[last]) \in Answers
  BY BodyFacts, AnswersFacts DEF Body

LEMMA GetEndStep == ASSUME IInv, GetEnd PROVE IInv'
<1>1. /\ pc = "start" /\ Still /\ UNCHANGED cache
      /\ Return(IF call.idx >= size THEN Done
                ELSE IF call.idx = 0 THEN Found(data[first]) ELSE Found(data[last]))
  BY DEF GetEnd, Start
<1>2. Body /\ call \in Calls
  BY <1>1, StartFacts
<1>3. call.idx >= size \/ size > 0
  BY <1>2, BodyFacts, CallFacts
<1>4. PICK a \in Answers : Return(a)
  BY <1>1, <1>2, <1>3, FoundFacts, AnswersFacts
<1> QED
  BY <1>1, <1>2, <1>4, StillBody, Answered

LEMMA GetLastStep == ASSUME IInv, GetLast PROVE IInv'
<1>1. /\ pc = "start" /\ Still /\ UNCHANGED cache
      /\ Return(IF size = 0 THEN Done ELSE Found(data[last]))
  BY DEF GetLast, Start
<1>2. Body
  BY <1>1, StartFacts
<1>3. size = 0 \/ size > 0
  BY <1>2, BodyFacts
<1>4. PICK a \in Answers : Return(a)
  BY <1>1, <1>2, <1>3, FoundFacts, AnswersFacts
<1> QED
  BY <1>1, <1>2, <1>4, StillBody, Answered

(* What the loop over the cache has seen: an entry at or before the index, *)
(* or none and one to overwrite.                                           *)
Sight == [best : Nat, closest : Slots \cup {NULL}, stale : Slots \cup {NULL}]

Useful(seen) == seen.best # Unfound =>
  /\ seen.closest \in Slots
  /\ cacheEnt[seen.closest] # NULL /\ cacheIdx[seen.closest] <= call.idx

LEMMA LookFacts ==
  ASSUME Body, call \in Calls, NEW seen \in Sight, Useful(seen), NEW k \in Slots
  PROVE  /\ Look(seen, k) \in Sight /\ Useful(Look(seen, k))
         /\ Look(seen, k).best = Unfound => Look(seen, k).stale \in Slots
<1>1. /\ Unfound \in Nat /\ Unfound > 0 /\ call.idx \in Nat
      /\ cacheIdx[k] \in Nat
      /\ cacheEnt[k] # NULL => cacheIdx[k] # Unfound
  <2>1. Unfound \in Nat /\ Unfound > 0 /\ call.idx \in Nat /\ cacheIdx[k] \in Nat
    BY MaxTyped, CallFacts DEF Body
  <2>2. cacheEnt[k] # NULL => cacheIdx[k] < size
    BY BodyFacts DEF Body, CacheOf
  <2> QED
    BY <2>1, <2>2, BodyFacts, MaxTyped
<1>2. CASE seen.best = 0
  BY <1>1, <1>2 DEF Look, Sight
<1>3. CASE seen.best # 0 /\ cacheEnt[k] = NULL
  BY <1>1, <1>3 DEF Look, Sight, Useful
<1>4. CASE /\ seen.best # 0 /\ cacheEnt[k] # NULL
           /\ call.idx >= cacheIdx[k] /\ call.idx - cacheIdx[k] < seen.best
  <2>1. Look(seen, k) = [seen EXCEPT !.best = cacheIdx[k], !.closest = k]
    BY <1>4 DEF Look
  <2> QED
    BY <1>1, <1>4, <2>1 DEF Sight, Useful
<1>5. CASE /\ seen.best # 0 /\ cacheEnt[k] # NULL
           /\ ~(call.idx >= cacheIdx[k] /\ call.idx - cacheIdx[k] < seen.best)
  <2>1. Look(seen, k) = IF seen.stale = NULL THEN [seen EXCEPT !.stale = k] ELSE seen
    BY <1>5 DEF Look
  <2> QED
    BY <1>1, <1>5, <2>1 DEF Sight, Useful
<1> QED
  BY <1>2, <1>3, <1>4, <1>5

LEMMA LookupFacts ==
  ASSUME Body, call \in Calls
  PROVE  /\ Lookup.best = Unfound => Lookup.stale \in Slots
         /\ Useful(Lookup)
<1> DEFINE none == [best |-> Unfound, closest |-> NULL, stale |-> NULL]
<1>1. none \in Sight /\ Useful(none)
  BY MaxTyped DEF Sight, Useful
<1> HIDE DEF none
<1>2. 0 \in Slots /\ 1 \in Slots
  BY DEF Slots
<1>3. Look(none, 0) \in Sight /\ Useful(Look(none, 0))
  BY <1>1, <1>2, LookFacts
<1>4. PICK s : s = Look(none, 0)
  OBVIOUS
<1>5. /\ Useful(Look(s, 1))
      /\ Look(s, 1).best = Unfound => Look(s, 1).stale \in Slots
  BY <1>2, <1>3, <1>4, LookFacts
<1>6. Lookup = Look(s, 1)
  BY <1>4 DEF Lookup, none
<1> QED
  BY <1>5, <1>6

LEMMA MiddleFacts ==
  ASSUME IInv, Middle
  PROVE  /\ pc = "start" /\ Body /\ call \in Calls /\ call.idx \in 1 .. size - 1 /\ NoLeak
         /\ new = NULL /\ i \in Nat /\ n \in Nodes \cup {NULL} /\ slot \in Slots
<1>1. pc = "start" /\ call.idx < size /\ call.idx # 0
  BY DEF Middle, Start
<1>2. Body /\ call \in Calls
  BY <1>1, StartFacts
<1>3. call.idx \in 1 .. size - 1
  BY <1>1, <1>2, BodyFacts, CallFacts
<1> QED
  BY <1>1, <1>2, <1>3, IInvIs, QuietFacts DEF LocalsTyped

LEMMA GetFillStep == ASSUME IInv, GetFill PROVE IInv'
<1>1. /\ Middle /\ Lookup.best = Unfound /\ slot' = Lookup.stale /\ n' = first /\ i' = 0
      /\ pc' = "fill" /\ call' = call /\ ret' = ret /\ Still /\ UNCHANGED cache
      /\ new' = new /\ failed' = failed
  BY DEF GetFill, Go
<1>2. /\ pc = "start" /\ Body /\ call \in Calls /\ call.idx \in 1 .. size - 1 /\ NoLeak
      /\ new = NULL
  BY <1>1, MiddleFacts
<1>3. slot' \in Slots
  BY <1>1, <1>2, LookupFacts
<1>4. first = chain[1] /\ first \in Nodes /\ 0 \in 0 .. call.idx /\ 0 + 1 = 1
  BY <1>2, BodyFacts
<1>5. Body'
  BY <1>1, <1>2, StillBody
<1>6. WalkRight' /\ NoLeak'
  BY <1>1, <1>2, <1>4 DEF WalkRight, NoLeak, Still, links, memory
<1> QED
  BY <1>1, <1>2, <1>3, <1>4, <1>5, <1>6, Walking DEF Walks

LEMMA FillOnStep == ASSUME IInv, FillOn PROVE IInv'
<1>1. /\ pc = "fill" /\ i < call.idx /\ n' = ptr[n] /\ i' = i + 1 /\ Still /\ UNCHANGED cache
      /\ pc' = pc /\ call' = call /\ ret' = ret
      /\ new' = new /\ slot' = slot /\ failed' = failed
  BY DEF FillOn
<1>2. /\ Body /\ NoLeak /\ call \in Calls /\ slot \in Slots
      /\ call.idx \in 1 .. size - 1 /\ i \in 0 .. call.idx /\ n = chain[i + 1] /\ new = NULL
  BY <1>1, WalkFacts DEF Walks, WalkRight
<1>3. i + 1 \in 1 .. size /\ (i + 1) + 1 \in 1 .. size /\ i + 1 \in 0 .. call.idx
  BY <1>1, <1>2, BodyFacts
<1>4. ptr[n] = chain[(i + 1) + 1] /\ ptr[n] \in Nodes
  BY <1>2, <1>3, BodyFacts DEF NodeAt
<1>5. Body'
  BY <1>1, <1>2, StillBody
<1>6. WalkRight' /\ NoLeak'
  BY <1>1, <1>2, <1>3, <1>4 DEF WalkRight, NoLeak, Still, links, memory
<1> QED
  BY <1>1, <1>2, <1>3, <1>4, <1>5, <1>6, Walking DEF Walks

LEMMA FillHereStep == ASSUME IInv, FillHere PROVE IInv'
<1>1. /\ pc = "fill" /\ ~(i < call.idx) /\ Still /\ Return(Found(data[n]))
      /\ cacheIdx' = [cacheIdx EXCEPT ![slot] = i]
      /\ cacheEnt' = [cacheEnt EXCEPT ![slot] = n]
  BY DEF FillHere
<1>2. /\ Body /\ NoLeak /\ call \in Calls /\ slot \in Slots
      /\ call.idx \in 1 .. size - 1 /\ i \in 0 .. call.idx /\ n = chain[i + 1]
  BY <1>1, WalkFacts DEF Walks, WalkRight
<1>3. i < size /\ i \in Nat /\ i + 1 \in 1 .. size /\ n \in Nodes /\ Len(chain) = size
  BY <1>2, BodyFacts
<1>4. cacheIdx' \in [Slots -> Nat] /\ cacheEnt' \in [Slots -> Nodes \cup {NULL}]
  BY <1>1, <1>2, <1>3 DEF Body
<1>5. CacheOf(chain, cacheIdx', cacheEnt')
  BY <1>1, <1>2, <1>3 DEF CacheOf, Body
<1>6. Body'
  BY <1>1, <1>2, <1>4, <1>5 DEF Body, Still, links, memory
<1>7. Found(data[n]) \in Answers
  BY <1>2, <1>3, FoundFacts
<1> QED
  BY <1>1, <1>6, <1>7, Answered

LEMMA GetSeekStep == ASSUME IInv, GetSeek PROVE IInv'
<1>1. /\ Middle /\ Lookup.best # Unfound /\ slot' = Lookup.closest
      /\ pc' = "seek" /\ call' = call /\ ret' = ret /\ Still /\ UNCHANGED cache
      /\ i' = i /\ n' = n /\ new' = new /\ failed' = failed
  BY DEF GetSeek, Go
<1>2. /\ pc = "start" /\ Body /\ call \in Calls /\ call.idx \in 1 .. size - 1 /\ NoLeak
      /\ new = NULL /\ i \in Nat /\ n \in Nodes \cup {NULL}
  BY <1>1, MiddleFacts
<1>3. slot' \in Slots /\ cacheEnt[slot'] # NULL /\ cacheIdx[slot'] <= call.idx
  BY <1>1, <1>2, LookupFacts DEF Useful
<1>5. Body'
  BY <1>1, <1>2, StillBody
<1>6. WalkRight' /\ NoLeak'
  BY <1>1, <1>2, <1>3 DEF WalkRight, NoLeak, Still, links, memory, cache
<1> QED
  BY <1>1, <1>2, <1>3, <1>5, <1>6, Walking DEF Walks

LEMMA SeekFacts ==
  ASSUME IInv, pc = "seek"
  PROVE  /\ Body /\ NoLeak /\ call \in Calls /\ call.idx \in 1 .. size - 1 /\ new = NULL
         /\ slot \in Slots /\ cacheEnt[slot] \in Nodes /\ cacheEnt[slot] = chain[cacheIdx[slot] + 1]
         /\ cacheIdx[slot] \in Nat /\ cacheIdx[slot] <= call.idx
         /\ cacheIdx[slot] < call.idx =>
              /\ cacheIdx[slot] + 2 \in 1 .. size
              /\ ptr[cacheEnt[slot]] = chain[cacheIdx[slot] + 2] /\ ptr[cacheEnt[slot]] \in Nodes
<1>1. /\ Body /\ NoLeak /\ call \in Calls /\ call.idx \in 1 .. size - 1 /\ new = NULL
      /\ slot \in Slots /\ cacheEnt[slot] # NULL /\ cacheIdx[slot] <= call.idx
  BY WalkFacts DEF Walks, WalkRight
<1>2. /\ cacheEnt[slot] = chain[cacheIdx[slot] + 1] /\ cacheIdx[slot] \in Nat
      /\ cacheEnt[slot] \in Nodes
  BY <1>1 DEF Body, CacheOf
<1>3. size \in Nat /\ call.idx \in Nat
  BY <1>1, BodyFacts, CallFacts
<1>4. cacheIdx[slot] + 1 \in 1 .. size
  BY <1>1, <1>2, <1>3
<1>5. cacheIdx[slot] < call.idx =>
        cacheIdx[slot] + 2 \in 1 .. size /\ (cacheIdx[slot] + 1) + 1 = cacheIdx[slot] + 2
  BY <1>1, <1>2, <1>3
<1> QED
  BY <1>1, <1>2, <1>4, <1>5, BodyFacts DEF NodeAt

LEMMA SeekOnStep == ASSUME IInv, SeekOn PROVE IInv'
<1>1. /\ pc = "seek" /\ cacheIdx[slot] < call.idx /\ Still
      /\ cacheIdx' = [cacheIdx EXCEPT ![slot] = @ + 1]
      /\ cacheEnt' = [cacheEnt EXCEPT ![slot] = ptr[cacheEnt[slot]]]
      /\ cacheEnt'[slot] # NULL => UNCHANGED <<pc, call, ret, locals>>
  BY DEF SeekOn
<1>2. /\ Body /\ NoLeak /\ call \in Calls /\ call.idx \in 1 .. size - 1 /\ new = NULL
      /\ slot \in Slots /\ cacheIdx[slot] \in Nat
      /\ cacheIdx[slot] + 2 \in 1 .. size
      /\ ptr[cacheEnt[slot]] = chain[cacheIdx[slot] + 2] /\ ptr[cacheEnt[slot]] \in Nodes
  BY <1>1, SeekFacts
<1>3. /\ cacheIdx' \in [Slots -> Nat] /\ cacheEnt' \in [Slots -> Nodes \cup {NULL}]
      /\ cacheIdx'[slot] = cacheIdx[slot] + 1 /\ cacheEnt'[slot] = ptr[cacheEnt[slot]]
      /\ \A g \in Slots \ {slot} : cacheIdx'[g] = cacheIdx[g] /\ cacheEnt'[g] = cacheEnt[g]
  BY <1>1, <1>2 DEF Body
<1>4. cacheEnt'[slot] # NULL
  BY <1>2, <1>3, BodyFacts
<1>5. pc' = pc /\ call' = call /\ ret' = ret /\ i' = i /\ n' = n /\ new' = new /\ slot' = slot
      /\ failed' = failed
  BY <1>1, <1>4 DEF locals
<1>6. cacheIdx[slot] + 1 <= call.idx /\ cacheIdx[slot] + 1 < size /\ Len(chain) = size
      /\ (cacheIdx[slot] + 1) + 1 = cacheIdx[slot] + 2
  BY <1>1, <1>2, BodyFacts, CallFacts
<1>7. CacheOf(chain, cacheIdx', cacheEnt')
  BY <1>2, <1>3, <1>6 DEF CacheOf, Body
<1>8. Body'
  BY <1>1, <1>2, <1>3, <1>7 DEF Body, Still, links, memory
<1>9. NoLeak'
  BY <1>1, <1>2, <1>5 DEF NoLeak, Still, links, memory
<1>10. WalkRight'
  <2>1. cacheEnt'[slot'] # NULL /\ cacheIdx'[slot'] <= call'.idx /\ call'.idx \in 1 .. size' - 1
        /\ pc' = "seek" /\ new' = NULL
    BY <1>1, <1>2, <1>3, <1>4, <1>5, <1>6 DEF Still, links
  <2> QED
    BY <2>1 DEF WalkRight
<1>11. i \in Nat /\ n \in Nodes \cup {NULL} /\ new \in Nodes \cup {NULL}
  BY IInvIs DEF LocalsTyped
<1> QED
  BY <1>1, <1>2, <1>5, <1>8, <1>9, <1>10, <1>11, Walking DEF Walks

LEMMA SeekHereStep == ASSUME IInv, SeekHere PROVE IInv'
<1>1. pc = "seek" /\ Return(Found(data[cacheEnt[slot]])) /\ Still /\ UNCHANGED cache
  BY DEF SeekHere
<1>2. Body /\ cacheEnt[slot] \in Nodes
  BY <1>1, SeekFacts
<1>3. Found(data[cacheEnt[slot]]) \in Answers
  BY <1>2, FoundFacts
<1> QED
  BY <1>1, <1>2, <1>3, StillBody, Answered

-----------------------------------------------------------------------------
(* The removals                                                            *)
LEMMA Dropped ==
  ASSUME Body, owned = Range(chain), NEW j \in 0 .. size - 1, NEW x, x = chain[j + 1],
         Drop(x, j), NEW a \in Answers, Return(a),
         PtrTyped, \A y \in Nodes : (j > 0 => y # chain[j]) => ptr'[y] = ptr[y],
         j > 0 => ptr'[chain[j]] = NodeAt(chain, j + 2),
         first' = IF j = 0 THEN NodeAt(chain, 2) ELSE first,
         last' \in Nodes \cup {NULL},
         size > 1 => last' = IF j = size - 1 THEN chain[j] ELSE last,
         cacheIdx' \in [Slots -> Nat],
         \A g \in Slots : cacheEnt'[g] # NULL =>
           cacheIdx'[g] = IF cacheIdx[g] >= j THEN cacheIdx[g] - 1 ELSE cacheIdx[g]
  PROVE  IInv'
<1> DEFINE k == j + 1
<1>1. /\ k \in 1 .. size /\ k - 1 = j /\ k + 1 = j + 2 /\ (k > 1 <=> j > 0) /\ (k = 1 <=> j = 0)
      /\ (k = size <=> j = size - 1) /\ x = chain[k]
  BY BodyFacts
<1>2. /\ cacheEnt' = Forgotten(x) /\ owned' = owned \ {x} /\ size' = size - 1
      /\ chain' = RemoveAt(chain, k) /\ data' = data
  BY DEF Drop
<1> HIDE DEF k
<1>3. x \in Nodes
  BY <1>1, BodyFacts
<1>4. CacheTyped
  BY <1>2, ForgottenTyped DEF CacheTyped
<1>5. \A g \in Slots : cacheEnt'[g] # NULL => cacheEnt'[g] = cacheEnt[g] /\ cacheEnt'[g] # chain[k]
  BY <1>1, <1>2, ForgottenFacts
<1>6. \A g \in Slots : cacheEnt'[g] # NULL =>
        cacheIdx'[g] = IF cacheIdx[g] >= k - 1 THEN cacheIdx[g] - 1 ELSE cacheIdx[g]
  BY <1>1
<1>7. IsChain(chain, ptr, first, last, size) /\ CacheOf(chain, cacheIdx, cacheEnt)
  BY DEF Body
<1>8. CacheOf(RemoveAt(chain, k), cacheIdx', cacheEnt')
  BY <1>1, <1>5, <1>6, <1>7, CacheRemove
<1>9. owned' \subseteq Nodes
  BY <1>2 DEF Body
<1>10. /\ \A y \in Nodes : (k > 1 => y # chain[k - 1]) => ptr'[y] = ptr[y]
       /\ k > 1 => ptr'[chain[k - 1]] = NodeAt(chain, k + 1)
       /\ first' = IF k = 1 THEN NodeAt(chain, 2) ELSE first
       /\ size > 1 => last' = IF k = size THEN chain[k - 1] ELSE last
  BY <1>1
<1>11. Body' /\ Range(chain') = Range(chain) \ {chain[k]}
  BY <1>1, <1>2, <1>4, <1>8, <1>9, <1>10, LinkedOut
<1>12. owned' = Range(chain')
  BY <1>1, <1>2, <1>11
<1> QED
  BY <1>11, <1>12, Returned

(* The indices behind a removed node are one less; none was zero.          *)
LEMMA ShiftedBack ==
  ASSUME Body, NEW j \in Nat, NEW ent,
         \A g \in Slots : ent[g] # NULL => cacheIdx[g] # 0 \/ j > 0
  PROVE  /\ Shifted(ent, j, -1) \in [Slots -> Nat]
         /\ \A g \in Slots : ent[g] # NULL =>
              Shifted(ent, j, -1)[g] = IF cacheIdx[g] >= j THEN cacheIdx[g] - 1 ELSE cacheIdx[g]
<1>1. cacheIdx \in [Slots -> Nat]
  BY DEF Body
<1>2. ASSUME NEW g \in Slots
      PROVE  /\ (IF ent[g] # NULL /\ cacheIdx[g] >= j THEN cacheIdx[g] + (-1) ELSE cacheIdx[g]) \in Nat
             /\ cacheIdx[g] + (-1) = cacheIdx[g] - 1
  BY <1>1
<1> QED
  BY <1>1, <1>2 DEF Shifted

LEMMA RemoveNoneStep == ASSUME IInv, RemoveNone PROVE IInv'
<1>1. pc = "start" /\ Return(Done) /\ UNCHANGED cache /\ Still
  BY DEF RemoveNone, Start
<1>2. Body
  BY <1>1, StartFacts
<1> QED
  BY <1>1, <1>2, StillBody, AnswersFacts, Answered

LEMMA RemoveHeadStep == ASSUME IInv, RemoveHead PROVE IInv'
<1>1. /\ pc = "start" /\ call.idx < size /\ call.idx = 0
      /\ first' = ptr[first] /\ Drop(first, 0) /\ cacheIdx' = Shifted(cacheEnt', 0, -1)
      /\ Return(Found(data[first])) /\ last' = last /\ ptr' = ptr
  BY DEF RemoveHead, Start
<1>2. Body /\ owned = Range(chain)
  BY <1>1, StartFacts
<1>3. size > 0 /\ first = chain[1] /\ first \in Nodes /\ 0 \in 0 .. size - 1 /\ 0 + 1 = 1
      /\ ptr[first] = NodeAt(chain, 2)
  <2>1. size > 0 /\ 1 \in 1 .. size /\ 1 + 1 = 2
    BY <1>1, <1>2, BodyFacts
  <2> QED
    BY <1>2, <2>1, BodyFacts
<1>4. /\ PtrTyped /\ last' \in Nodes \cup {NULL}
      /\ size > 1 => last' = IF 0 = size - 1 THEN chain[0] ELSE last
  BY <1>1, <1>2, BodyFacts DEF Body, PtrTyped
<1>5. \A g \in Slots : cacheEnt'[g] # NULL => cacheIdx[g] # 0 \/ 0 > 0
  <2> SUFFICES ASSUME NEW g \in Slots, cacheEnt'[g] # NULL PROVE cacheIdx[g] # 0
    OBVIOUS
  <2>1. cacheEnt' = Forgotten(first)
    BY <1>1 DEF Drop
  <2>2. cacheEnt'[g] = cacheEnt[g] /\ cacheEnt'[g] # first
    BY <1>2, <1>3, <2>1, BodyFacts, ForgottenFacts
  <2>3. cacheEnt[g] = chain[cacheIdx[g] + 1]
    BY <1>2, <2>2 DEF Body, CacheOf
  <2> QED
    BY <1>3, <2>2, <2>3
<1>6. /\ cacheIdx' \in [Slots -> Nat]
      /\ \A g \in Slots : cacheEnt'[g] # NULL =>
           cacheIdx'[g] = IF cacheIdx[g] >= 0 THEN cacheIdx[g] - 1 ELSE cacheIdx[g]
  <2>1. PICK ent : ent = cacheEnt'
    OBVIOUS
  <2> QED
    <3>1. cacheIdx' = Shifted(ent, 0, -1)
      BY <1>1, <2>1
    <3>2. \A g \in Slots : ent[g] # NULL => cacheIdx[g] # 0 \/ 0 > 0
      BY <1>5, <2>1
    <3>3. /\ Shifted(ent, 0, -1) \in [Slots -> Nat]
          /\ \A g \in Slots : ent[g] # NULL =>
               Shifted(ent, 0, -1)[g] = IF cacheIdx[g] >= 0 THEN cacheIdx[g] - 1 ELSE cacheIdx[g]
      BY <1>2, <3>2, ShiftedBack
    <3> QED
      BY <2>1, <3>1, <3>3
<1>7. Found(data[first]) \in Answers
  BY <1>2, <1>3, FoundFacts
<1>8. PICK j : j = 0
  OBVIOUS
<1>9. /\ j \in 0 .. size - 1 /\ first = chain[j + 1] /\ Drop(first, j)
      /\ \A y \in Nodes : (j > 0 => y # chain[j]) => ptr'[y] = ptr[y]
      /\ j > 0 => ptr'[chain[j]] = NodeAt(chain, j + 2)
      /\ first' = IF j = 0 THEN NodeAt(chain, 2) ELSE first
      /\ size > 1 => last' = IF j = size - 1 THEN chain[j] ELSE last
      /\ \A g \in Slots : cacheEnt'[g] # NULL =>
           cacheIdx'[g] = IF cacheIdx[g] >= j THEN cacheIdx[g] - 1 ELSE cacheIdx[g]
  BY <1>1, <1>3, <1>4, <1>6, <1>8
<1> QED
  BY <1>1, <1>2, <1>4, <1>6, <1>7, <1>9, Dropped

LEMMA RemoveWalkStep == ASSUME IInv, RemoveWalk PROVE IInv'
<1>1. /\ pc = "start" /\ call.idx < size /\ call.idx # 0 /\ n' = first /\ i' = 1
      /\ pc' = "remove" /\ call' = call /\ ret' = ret /\ Still /\ UNCHANGED cache
      /\ new' = new /\ slot' = slot /\ failed' = failed
  BY DEF RemoveWalk, Start, Go
<1>2. Body /\ call \in Calls /\ NoLeak /\ new = NULL /\ slot \in Slots
  BY <1>1, StartFacts, IInvIs, QuietFacts DEF LocalsTyped
<1>3. call.idx \in 1 .. size - 1 /\ 1 \in 1 .. call.idx /\ first = chain[1] /\ first \in Nodes
  BY <1>1, <1>2, BodyFacts, CallFacts
<1>5. Body'
  BY <1>1, <1>2, StillBody
<1>6. WalkRight' /\ NoLeak'
  BY <1>1, <1>2, <1>3 DEF WalkRight, NoLeak, Still, links, memory
<1> QED
  BY <1>1, <1>2, <1>3, <1>5, <1>6, Walking DEF Walks

LEMMA RemoveOnStep == ASSUME IInv, RemoveOn PROVE IInv'
<1>1. /\ pc = "remove" /\ i < call.idx /\ n' = ptr[n] /\ i' = i + 1
      /\ pc' = pc /\ call' = call /\ ret' = ret /\ Still /\ UNCHANGED cache
      /\ new' = new /\ slot' = slot /\ failed' = failed
  BY DEF RemoveOn
<1>2. /\ Body /\ NoLeak /\ call \in Calls /\ slot \in Slots /\ new = NULL
      /\ call.idx \in 1 .. size - 1 /\ i \in 1 .. call.idx /\ n = chain[i]
  BY <1>1, WalkFacts DEF Walks, WalkRight
<1>3. i \in 1 .. size /\ i + 1 \in 1 .. size /\ i + 1 \in 1 .. call.idx
  BY <1>1, <1>2, BodyFacts
<1>4. ptr[n] = chain[i + 1] /\ ptr[n] \in Nodes
  BY <1>2, <1>3, BodyFacts DEF NodeAt
<1>5. Body'
  BY <1>1, <1>2, StillBody
<1>6. WalkRight' /\ NoLeak'
  BY <1>1, <1>2, <1>3, <1>4 DEF WalkRight, NoLeak, Still, links, memory
<1> QED
  BY <1>1, <1>2, <1>3, <1>4, <1>5, <1>6, Walking DEF Walks

(* The node after p = chain[j] is linked out.                              *)
LEMMA UnlinkFacts ==
  ASSUME Body, NEW j \in 1 .. size - 1, NEW p, p = chain[j], Unlink(p)
  PROVE  /\ p \in Nodes /\ ptr[p] = chain[j + 1] /\ ptr[p] \in Nodes
         /\ PtrTyped /\ \A y \in Nodes : y # chain[j] => ptr'[y] = ptr[y]
         /\ ptr'[chain[j]] = NodeAt(chain, j + 2)
         /\ first' = first /\ last' \in Nodes \cup {NULL}
         /\ last' = IF j = size - 1 THEN chain[j] ELSE last
<1>1. /\ ptr' = [ptr EXCEPT ![p] = ptr[ptr[p]]] /\ first' = first
      /\ last' = IF ptr[p] = last THEN p ELSE last
  BY DEF Unlink
<1>2. size > 1 /\ j \in 1 .. size /\ j + 1 \in 1 .. size /\ (j + 1) + 1 = j + 2
      /\ (j = size - 1 <=> j + 1 = size) /\ size \in 1 .. size
  BY BodyFacts
<1>3. p \in Nodes /\ ptr[p] = chain[j + 1] /\ ptr[p] \in Nodes
  BY <1>2, BodyFacts DEF NodeAt
<1>4. ptr[ptr[p]] = NodeAt(chain, j + 2) /\ ptr[ptr[p]] \in Nodes \cup {NULL}
  BY <1>2, <1>3, BodyFacts
<1>5. ptr[p] = last <=> j + 1 = size
  BY <1>2, <1>3, BodyFacts
<1>6. last \in Nodes
  BY <1>2, BodyFacts
<1> QED
  BY <1>1, <1>2, <1>3, <1>4, <1>5, <1>6 DEF Body, PtrTyped

LEMMA RemoveHereStep == ASSUME IInv, RemoveHere PROVE IInv'
<1>1. /\ pc = "remove" /\ ~(i < call.idx) /\ Unlink(n) /\ Drop(ptr[n], call.idx)
      /\ cacheIdx' = Shifted(cacheEnt', call.idx, -1) /\ Return(Found(data[ptr[n]]))
  BY DEF RemoveHere
<1>2. /\ Body /\ owned = Range(chain) /\ call \in Calls
      /\ call.idx \in 1 .. size - 1 /\ i \in 1 .. call.idx /\ n = chain[i]
  BY <1>1, WalkFacts, QuietFacts DEF Walks, WalkRight
<1>3. PICK j \in 1 .. size - 1 : j = call.idx /\ n = chain[j]
  BY <1>1, <1>2, BodyFacts
<1>4. j \in Nat /\ j > 0 /\ j # 0 /\ j \in 0 .. size - 1 /\ size > 1
  BY <1>2, BodyFacts
<1>5. /\ ptr[n] = chain[j + 1] /\ ptr[n] \in Nodes
      /\ PtrTyped /\ \A y \in Nodes : y # chain[j] => ptr'[y] = ptr[y]
      /\ ptr'[chain[j]] = NodeAt(chain, j + 2)
      /\ first' = first /\ last' \in Nodes \cup {NULL}
      /\ last' = IF j = size - 1 THEN chain[j] ELSE last
  BY <1>1, <1>2, <1>3, UnlinkFacts
<1>6. /\ cacheIdx' \in [Slots -> Nat]
      /\ \A g \in Slots : cacheEnt'[g] # NULL =>
           cacheIdx'[g] = IF cacheIdx[g] >= j THEN cacheIdx[g] - 1 ELSE cacheIdx[g]
  <2>1. PICK ent : ent = cacheEnt'
    OBVIOUS
  <2> QED
    BY <1>1, <1>2, <1>3, <1>4, <2>1, ShiftedBack
<1>7. Found(data[ptr[n]]) \in Answers /\ Drop(ptr[n], j) /\ Return(Found(data[ptr[n]]))
  BY <1>1, <1>2, <1>3, <1>5, FoundFacts
<1> QED
  BY <1>2, <1>4, <1>5, <1>6, <1>7, Dropped

LEMMA RemoveOnlyStep == ASSUME IInv, RemoveOnly PROVE IInv'
<1>1. /\ pc = "start" /\ size = 1 /\ first' = NULL /\ last' = NULL /\ Drop(first, 0)
      /\ Return(Found(data[first])) /\ ptr' = ptr /\ cacheIdx' = cacheIdx
  BY DEF RemoveOnly, Start
<1>2. Body /\ owned = Range(chain)
  BY <1>1, StartFacts
<1>3. /\ first = chain[1] /\ first \in Nodes /\ 0 \in 0 .. size - 1 /\ 0 + 1 = 1 /\ size > 0
      /\ NodeAt(chain, 2) = NULL /\ ~(size > 1)
  <2>1. 1 \in 1 .. size /\ 0 \in 0 .. size - 1 /\ size > 0 /\ ~(size > 1) /\ ~(2 \in 1 .. size)
    BY <1>1
  <2>2. Len(chain) = size /\ first = chain[1] /\ first \in Nodes
    BY <1>2, <2>1, BodyFacts
  <2> QED
    BY <2>1, <2>2 DEF NodeAt
<1>4. PtrTyped /\ last' \in Nodes \cup {NULL} /\ cacheIdx' \in [Slots -> Nat]
  BY <1>1, <1>2 DEF Body, PtrTyped
<1>5. \A g \in Slots : cacheEnt'[g] = NULL
  <2> SUFFICES ASSUME NEW g \in Slots, cacheEnt'[g] # NULL PROVE FALSE
    OBVIOUS
  <2>1. cacheEnt' = Forgotten(first)
    BY <1>1 DEF Drop
  <2>2. cacheEnt'[g] = cacheEnt[g] /\ cacheEnt'[g] # first
    BY <1>2, <1>3, <2>1, BodyFacts, ForgottenFacts
  <2>3. cacheEnt[g] = chain[cacheIdx[g] + 1] /\ cacheIdx[g] \in Nat /\ cacheIdx[g] < size
    BY <1>2, <2>2, BodyFacts DEF Body, CacheOf
  <2> QED
    BY <1>1, <1>3, <2>2, <2>3
<1>7. Found(data[first]) \in Answers
  BY <1>2, <1>3, FoundFacts
<1> QED
  BY <1>1, <1>2, <1>3, <1>4, <1>5, <1>7, Dropped

LEMMA LastWalkStep == ASSUME IInv, LastWalk PROVE IInv'
<1>1. /\ pc = "start" /\ size > 1 /\ n' = first
      /\ pc' = "remove_last" /\ call' = call /\ ret' = ret /\ Still /\ UNCHANGED cache
      /\ i' = i /\ new' = new /\ slot' = slot /\ failed' = failed
  BY DEF LastWalk, Start, Go
<1>2. Body /\ call \in Calls /\ NoLeak /\ new = NULL /\ slot \in Slots /\ i \in Nat
  BY <1>1, StartFacts, IInvIs, QuietFacts DEF LocalsTyped
<1>3. 1 \in 1 .. size - 1 /\ first = chain[1] /\ first \in Nodes
  BY <1>1, <1>2, BodyFacts
<1>5. Body'
  BY <1>1, <1>2, StillBody
<1>6. WalkRight' /\ NoLeak'
  BY <1>1, <1>2, <1>3 DEF WalkRight, NoLeak, Still, links, memory
<1> QED
  BY <1>1, <1>2, <1>3, <1>5, <1>6, Walking DEF Walks

LEMMA LastFacts ==
  ASSUME IInv, pc = "remove_last"
  PROVE  /\ Body /\ NoLeak /\ call \in Calls /\ slot \in Slots /\ new = NULL /\ i \in Nat
         /\ \E k \in 1 .. size - 1 : /\ n = chain[k] /\ n \in Nodes
                                     /\ ptr[n] = chain[k + 1] /\ ptr[n] \in Nodes
                                     /\ ptr[n] = last <=> k + 1 = size
<1>1. /\ Body /\ NoLeak /\ call \in Calls /\ slot \in Slots /\ new = NULL /\ i \in Nat
      /\ \E k \in 1 .. size - 1 : n = chain[k]
  BY WalkFacts DEF Walks, WalkRight
<1>2. PICK k \in 1 .. size - 1 : n = chain[k]
  BY <1>1
<1>3. k \in 1 .. size /\ k + 1 \in 1 .. size /\ size \in 1 .. size /\ size > 0
  BY <1>1, BodyFacts
<1>4. n \in Nodes /\ ptr[n] = chain[k + 1] /\ ptr[n] \in Nodes
  BY <1>1, <1>2, <1>3, BodyFacts DEF NodeAt
<1>5. ptr[n] = last <=> k + 1 = size
  BY <1>1, <1>3, <1>4, BodyFacts
<1> QED
  BY <1>1, <1>2, <1>4, <1>5

LEMMA LastOnStep == ASSUME IInv, LastOn PROVE IInv'
<1>1. /\ pc = "remove_last" /\ ptr[n] # last /\ n' = ptr[n]
      /\ pc' = pc /\ call' = call /\ ret' = ret /\ Still /\ UNCHANGED cache
      /\ i' = i /\ new' = new /\ slot' = slot /\ failed' = failed
  BY DEF LastOn
<1>2. Body /\ NoLeak /\ call \in Calls /\ slot \in Slots /\ new = NULL /\ i \in Nat
  BY <1>1, LastFacts
<1>3. PICK k \in 1 .. size - 1 : /\ n = chain[k] /\ ptr[n] = chain[k + 1] /\ ptr[n] \in Nodes
                                 /\ ptr[n] = last <=> k + 1 = size
  BY <1>1, LastFacts
<1>4. k + 1 \in 1 .. size - 1
  BY <1>1, <1>2, <1>3, BodyFacts
<1>5. Body'
  BY <1>1, <1>2, StillBody
<1>6. WalkRight' /\ NoLeak'
  BY <1>1, <1>2, <1>3, <1>4 DEF WalkRight, NoLeak, Still, links, memory
<1> QED
  BY <1>1, <1>2, <1>3, <1>5, <1>6, Walking DEF Walks

LEMMA LastHereStep == ASSUME IInv, LastHere PROVE IInv'
<1>1. /\ pc = "remove_last" /\ ptr[n] = last /\ last' = n /\ ptr' = [ptr EXCEPT ![n] = NULL]
      /\ Drop(last, size - 1) /\ Return(Found(data[last]))
      /\ first' = first /\ cacheIdx' = cacheIdx
  BY DEF LastHere
<1>2. Body /\ owned = Range(chain)
  BY <1>1, LastFacts, QuietFacts
<1>3. PICK k \in 1 .. size - 1 : /\ n = chain[k] /\ n \in Nodes /\ ptr[n] = chain[k + 1]
                                 /\ ptr[n] \in Nodes
                                 /\ ptr[n] = last <=> k + 1 = size
  BY <1>1, LastFacts
<1> DEFINE j == size - 1
<1>4. /\ j \in 0 .. size - 1 /\ j > 0 /\ k = j /\ j + 1 = size /\ size > 1
      /\ chain[j + 1] = last /\ last \in Nodes
      /\ NodeAt(chain, j + 2) = NULL
  BY <1>1, <1>2, <1>3, BodyFacts DEF NodeAt
<1>5. Drop(last, j)
  BY <1>1
<1> HIDE DEF j
<1>6. /\ PtrTyped /\ \A y \in Nodes : (j > 0 => y # chain[j]) => ptr'[y] = ptr[y]
      /\ ptr'[chain[j]] = NodeAt(chain, j + 2)
      /\ last' \in Nodes \cup {NULL} /\ last' = chain[j] /\ j # 0 /\ j = size - 1
      /\ cacheIdx' \in [Slots -> Nat]
  BY <1>1, <1>2, <1>3, <1>4, BodyFacts DEF Body, PtrTyped
<1>7. \A g \in Slots : cacheEnt'[g] # NULL =>
        cacheIdx'[g] = IF cacheIdx[g] >= j THEN cacheIdx[g] - 1 ELSE cacheIdx[g]
  <2> SUFFICES ASSUME NEW g \in Slots, cacheEnt'[g] # NULL PROVE ~(cacheIdx[g] >= j)
    BY <1>1
  <2>1. cacheEnt' = Forgotten(last)
    BY <1>1 DEF Drop
  <2>2. cacheEnt'[g] = cacheEnt[g] /\ cacheEnt'[g] # last
    BY <1>2, <1>4, <2>1, BodyFacts, ForgottenFacts
  <2>3. cacheEnt[g] = chain[cacheIdx[g] + 1] /\ cacheIdx[g] \in Nat /\ cacheIdx[g] < size
    BY <1>2, <2>2, BodyFacts DEF Body, CacheOf
  <2>4. cacheIdx[g] # j
    BY <1>4, <2>2, <2>3
  <2> QED
    BY <1>2, <1>4, <2>3, <2>4, BodyFacts
<1>8. Found(data[last]) \in Answers
  BY <1>2, <1>4, FoundFacts
<1>9. /\ first' = IF j = 0 THEN NodeAt(chain, 2) ELSE first
      /\ size > 1 => last' = IF j = size - 1 THEN chain[j] ELSE last
      /\ j > 0 => ptr'[chain[j]] = NodeAt(chain, j + 2)
      /\ last = chain[j + 1]
  BY <1>1, <1>4, <1>6
<1> QED
  BY <1>1, <1>2, <1>4, <1>5, <1>6, <1>7, <1>8, <1>9, Dropped

LEMMA DataFirstStep == ASSUME IInv, DataFirst PROVE IInv'
<1>1. /\ pc = "start" /\ call.op = "remove_data" /\ size # 0 /\ data[first] = call.data
      /\ first' = ptr[first] /\ Drop(first, 0) /\ Return(Found(call.data))
      /\ last' = last /\ ptr' = ptr /\ cacheIdx' = cacheIdx
  BY DEF DataFirst, Start
<1>2. Body /\ owned = Range(chain) /\ call \in Calls /\ Granted
  BY <1>1, StartFacts, IInvIs
<1>3. size > 0 /\ first = chain[1] /\ first \in Nodes /\ 0 \in 0 .. size - 1 /\ 0 + 1 = 1
      /\ ptr[first] = NodeAt(chain, 2)
  <2>1. size > 0 /\ 1 \in 1 .. size /\ 1 + 1 = 2
    BY <1>1, <1>2, BodyFacts
  <2> QED
    BY <1>2, <2>1, BodyFacts
<1>4. /\ PtrTyped /\ last' \in Nodes \cup {NULL} /\ cacheIdx' \in [Slots -> Nat]
      /\ size > 1 => last' = IF 0 = size - 1 THEN chain[0] ELSE last
  BY <1>1, <1>2, BodyFacts DEF Body, PtrTyped
<1>5. \A g \in Slots : cacheEnt'[g] = NULL
  <2>1. cacheEnt = [g \in Slots |-> NULL]
    BY <1>1, <1>2 DEF Granted
  <2> QED
    BY <1>1, <2>1 DEF Drop, Forgotten
<1>6. Found(call.data) \in Answers
  BY <1>2, CallFacts, AnswersFacts
<1>7. PICK j : j = 0
  OBVIOUS
<1>8. /\ j \in 0 .. size - 1 /\ first = chain[j + 1] /\ Drop(first, j)
      /\ \A y \in Nodes : (j > 0 => y # chain[j]) => ptr'[y] = ptr[y]
      /\ j > 0 => ptr'[chain[j]] = NodeAt(chain, j + 2)
      /\ first' = IF j = 0 THEN NodeAt(chain, 2) ELSE first
      /\ size > 1 => last' = IF j = size - 1 THEN chain[j] ELSE last
  BY <1>1, <1>3, <1>4, <1>7
<1> QED
  BY <1>1, <1>2, <1>4, <1>5, <1>6, <1>8, Dropped

LEMMA DataWalkStep == ASSUME IInv, DataWalk PROVE IInv'
<1>1. /\ pc = "start" /\ size # 0 /\ n' = first /\ i' = 1
      /\ pc' = "remove_data" /\ call' = call /\ ret' = ret /\ Still /\ UNCHANGED cache
      /\ new' = new /\ slot' = slot /\ failed' = failed
  BY DEF DataWalk, Start, Go
<1>2. Body /\ call \in Calls /\ NoLeak /\ new = NULL /\ slot \in Slots
  BY <1>1, StartFacts, IInvIs, QuietFacts DEF LocalsTyped
<1>3. 1 \in 1 .. size /\ first = chain[1] /\ first \in Nodes
  BY <1>1, <1>2, BodyFacts
<1>5. Body'
  BY <1>1, <1>2, StillBody
<1>6. WalkRight' /\ NoLeak'
  BY <1>1, <1>2, <1>3 DEF WalkRight, NoLeak, Still, links, memory
<1> QED
  BY <1>1, <1>2, <1>3, <1>5, <1>6, Walking DEF Walks

LEMMA DataWalkFacts ==
  ASSUME IInv, pc = "remove_data"
  PROVE  /\ Body /\ NoLeak /\ owned = Range(chain) /\ call \in Calls /\ slot \in Slots /\ new = NULL
         /\ i \in 1 .. size /\ n = chain[i] /\ n \in Nodes /\ ptr[n] = NodeAt(chain, i + 1)
         /\ ptr[n] # NULL => /\ i \in 1 .. size - 1 /\ i + 1 \in 1 .. size
                             /\ ptr[n] = chain[i + 1] /\ ptr[n] \in Nodes
<1>1. /\ Body /\ NoLeak /\ owned = Range(chain) /\ call \in Calls /\ slot \in Slots /\ new = NULL
      /\ i \in 1 .. size /\ n = chain[i]
  BY WalkFacts, QuietFacts DEF Walks, WalkRight
<1>2. n \in Nodes /\ ptr[n] = NodeAt(chain, i + 1)
  BY <1>1, BodyFacts
<1>3. ptr[n] # NULL => i \in 1 .. size - 1 /\ i + 1 \in 1 .. size /\ ptr[n] = chain[i + 1]
  BY <1>1, <1>2, BodyFacts DEF NodeAt
<1> QED
  BY <1>1, <1>2, <1>3, BodyFacts

LEMMA DataOnStep == ASSUME IInv, DataOn PROVE IInv'
<1>1. /\ pc = "remove_data" /\ ptr[n] # NULL /\ n' = ptr[n] /\ i' = i + 1
      /\ pc' = pc /\ call' = call /\ ret' = ret /\ Still /\ UNCHANGED cache
      /\ new' = new /\ slot' = slot /\ failed' = failed
  BY DEF DataOn
<1>2. /\ Body /\ NoLeak /\ call \in Calls /\ slot \in Slots /\ new = NULL
      /\ i + 1 \in 1 .. size /\ ptr[n] = chain[i + 1] /\ ptr[n] \in Nodes
  BY <1>1, DataWalkFacts
<1>5. Body'
  BY <1>1, <1>2, StillBody
<1>6. WalkRight' /\ NoLeak'
  BY <1>1, <1>2 DEF WalkRight, NoLeak, Still, links, memory
<1> QED
  BY <1>1, <1>2, <1>5, <1>6, Walking DEF Walks

LEMMA DataMissingStep == ASSUME IInv, DataMissing PROVE IInv'
<1>1. pc = "remove_data" /\ Return(Done) /\ UNCHANGED cache /\ Still
  BY DEF DataMissing
<1>2. Body
  BY <1>1, DataWalkFacts
<1> QED
  BY <1>1, <1>2, StillBody, AnswersFacts, Answered

LEMMA DataHereStep == ASSUME IInv, DataHere PROVE IInv'
<1>1. /\ pc = "remove_data" /\ ptr[n] # NULL /\ Unlink(n) /\ Drop(ptr[n], i)
      /\ cacheIdx' = Shifted(cacheEnt, i, -1) /\ Return(Found(call.data))
  BY DEF DataHere, Matches
<1>2. /\ Body /\ owned = Range(chain) /\ call \in Calls /\ n = chain[i]
      /\ i \in 1 .. size - 1
  BY <1>1, DataWalkFacts
<1>4. i \in Nat /\ i > 0 /\ i # 0 /\ i \in 0 .. size - 1 /\ size > 1
  BY <1>2, BodyFacts
<1>5. /\ ptr[n] = chain[i + 1] /\ ptr[n] \in Nodes
      /\ PtrTyped /\ \A y \in Nodes : y # chain[i] => ptr'[y] = ptr[y]
      /\ ptr'[chain[i]] = NodeAt(chain, i + 2)
      /\ first' = first /\ last' \in Nodes \cup {NULL}
      /\ last' = IF i = size - 1 THEN chain[i] ELSE last
  BY <1>1, <1>2, UnlinkFacts
<1>6. /\ cacheIdx' \in [Slots -> Nat]
      /\ \A g \in Slots : cacheEnt[g] # NULL =>
           cacheIdx'[g] = IF cacheIdx[g] >= i THEN cacheIdx[g] - 1 ELSE cacheIdx[g]
  BY <1>1, <1>2, <1>4, ShiftedBack
<1>7. \A g \in Slots : cacheEnt'[g] # NULL => cacheEnt[g] # NULL
  <2>1. cacheEnt' = Forgotten(ptr[n])
    BY <1>1 DEF Drop
  <2> QED
    BY <2>1, ForgottenFacts
<1>8. Found(call.data) \in Answers
  BY <1>2, CallFacts, AnswersFacts
<1>9. PICK j : j = i
  OBVIOUS
<1>10. /\ j \in 0 .. size - 1 /\ ptr[n] = chain[j + 1] /\ Drop(ptr[n], j)
       /\ \A y \in Nodes : (j > 0 => y # chain[j]) => ptr'[y] = ptr[y]
       /\ j > 0 => ptr'[chain[j]] = NodeAt(chain, j + 2)
       /\ first' = IF j = 0 THEN NodeAt(chain, 2) ELSE first
       /\ size > 1 => last' = IF j = size - 1 THEN chain[j] ELSE last
       /\ \A g \in Slots : cacheEnt'[g] # NULL =>
            cacheIdx'[g] = IF cacheIdx[g] >= j THEN cacheIdx[g] - 1 ELSE cacheIdx[g]
  BY <1>1, <1>4, <1>5, <1>6, <1>7, <1>9
<1> QED
  BY <1>1, <1>2, <1>5, <1>6, <1>8, <1>10, Dropped

-----------------------------------------------------------------------------
(* linkedlist_clear: the nodes behind the loop are freed.                  *)
LEMMA ClearStartStep == ASSUME IInv, ClearStart PROVE IInv'
<1>1. /\ pc = "start" /\ n' = first
      /\ pc' = "clear" /\ call' = call /\ ret' = ret /\ Still /\ UNCHANGED cache
      /\ i' = i /\ new' = new /\ slot' = slot /\ failed' = failed
  BY DEF ClearStart, Start, Go
<1>2. /\ Body /\ owned = Range(chain) /\ new = NULL /\ slot \in Slots /\ i \in Nat
  BY <1>1, StartFacts, IInvIs, QuietFacts DEF LocalsTyped
<1>3. /\ 1 \in 1 .. size + 1 /\ first = NodeAt(chain, 1) /\ first \in Nodes \cup {NULL}
      /\ owned = {chain[j] : j \in 1 .. size}
  BY <1>2, BodyFacts, RangeIs
<1>4. Body'
  BY <1>1, <1>2, StillBody
<1>5. NoLeak'
  BY <1>1 DEF NoLeak
<1>6. WalkRight'
  BY <1>1, <1>2, <1>3 DEF WalkRight, Still, links, memory
<1> QED
  BY <1>1, <1>2, <1>3, <1>4, <1>5, <1>6, Walking DEF Walks

LEMMA ClearFacts ==
  ASSUME IInv, pc = "clear"
  PROVE  /\ Body /\ slot \in Slots /\ new = NULL /\ i \in Nat /\ ~failed
         /\ \E k \in 1 .. size + 1 : n = NodeAt(chain, k) /\ owned = {chain[j] : j \in k .. size}
<1>1. Body /\ WalkRight /\ slot \in Slots /\ i \in Nat
  BY WalkFacts DEF Walks
<1> QED
  BY <1>1, IInvIs DEF WalkRight, Granted

LEMMA ClearOnStep == ASSUME IInv, ClearOn, ~DelFails PROVE IInv'
<1>1. /\ pc = "clear" /\ n # NULL /\ n' = ptr[n] /\ owned' = owned \ {n}
      /\ pc' = pc /\ call' = call /\ ret' = ret /\ i' = i /\ new' = new /\ slot' = slot
      /\ UNCHANGED <<first, last, size, ptr, chain, cacheIdx, cacheEnt, data>>
  BY DEF ClearOn, links, cache
<1>2. Body /\ slot \in Slots /\ new = NULL /\ i \in Nat /\ ~failed
  BY <1>1, ClearFacts
<1>3. failed' = failed
  <2>1. PICK bad \in {FALSE} : failed' = (failed \/ bad)
    BY DEF ClearOn
  <2>2. failed \in BOOLEAN
    BY IInvIs, Zenon DEF LocalsTyped
  <2> QED
    BY <1>2, <2>1, <2>2
<1>4. PICK k \in 1 .. size + 1 : n = NodeAt(chain, k) /\ owned = {chain[j] : j \in k .. size}
  BY <1>1, ClearFacts
<1>5. k \in 1 .. size /\ k + 1 \in 1 .. size + 1 /\ n = chain[k] /\ ptr[n] = NodeAt(chain, k + 1)
  <2>1. k \in 1 .. size /\ n = chain[k]
    BY <1>1, <1>2, <1>4, BodyFacts DEF NodeAt
  <2> QED
    BY <1>2, <2>1, BodyFacts
<1>6. owned' = {chain[j] : j \in k + 1 .. size}
  <2>1. \A j \in k .. size : j \in 1 .. size /\ (j = k \/ j \in k + 1 .. size)
    BY <1>2, <1>5, BodyFacts
  <2>2. \A j \in k + 1 .. size : j \in k .. size /\ j # k
    BY <1>2, <1>5, BodyFacts
  <2>3. \A j \in k .. size : chain[j] = chain[k] => j = k
    BY <1>2, <1>5, <2>1, BodyFacts
  <2> QED
    BY <1>1, <1>4, <1>5, <2>1, <2>2, <2>3
<1>7. Body'
  BY <1>1, <1>2 DEF Body
<1>8. NoLeak'
  BY <1>1 DEF NoLeak
<1>9. WalkRight'
  BY <1>1, <1>2, <1>5, <1>6 DEF WalkRight
<1>10. n' \in Nodes \cup {NULL}
  BY <1>1, <1>2, <1>5, BodyFacts
<1> QED
  BY <1>1, <1>2, <1>3, <1>7, <1>8, <1>9, <1>10, Walking DEF Walks

LEMMA ClearEndStep == ASSUME IInv, ClearEnd PROVE IInv'
<1>1. pc = "clear" /\ n = NULL
  BY DEF ClearEnd
<1>2. Body /\ ~failed
  BY <1>1, ClearFacts
<1>3. /\ first' = NULL /\ last' = NULL /\ size' = 0 /\ chain' = <<>> /\ ptr' = ptr
      /\ cacheIdx' = [k \in Slots |-> 0] /\ cacheEnt' = [k \in Slots |-> NULL]
      /\ Return(Done) /\ data' = data /\ owned' = owned
  BY <1>2 DEF ClearEnd, memory
<1>4. PICK k \in 1 .. size + 1 : n = NodeAt(chain, k) /\ owned = {chain[j] : j \in k .. size}
  BY <1>1, ClearFacts
<1>5. owned = {}
  <2>1. k \notin 1 .. size
    BY <1>1, <1>2, <1>4, BodyFacts DEF NodeAt
  <2> QED
    BY <1>2, <1>4, <2>1, BodyFacts
<1>6. chain' \in Seq(Nodes) /\ Len(chain') = 0
  BY <1>3
<1>7. IsChain(chain', ptr', first', last', size')
  BY <1>3, <1>6 DEF IsChain
<1>8. CacheOf(chain', cacheIdx', cacheEnt')
  BY <1>3 DEF CacheOf
<1>9. Body'
  BY <1>2, <1>3, <1>5, <1>7, <1>8, MaxTyped DEF Body
<1>10. owned' = Range(chain')
  BY <1>3, <1>5, <1>6, RangeEmpty
<1> QED
  BY <1>3, <1>9, <1>10, AnswersFacts, Returned

-----------------------------------------------------------------------------
LEMMA RefuseStep == ASSUME IInv, Refuse PROVE IInv'
<1>1. pc = "start" /\ Return(Fail) /\ Still /\ UNCHANGED cache
  BY DEF Refuse, Start, Still
<1>2. Body
  BY <1>1, StartFacts
<1> QED
  BY <1>1, <1>2, StillBody, AnswersFacts, Answered

LEMMA CallStep == ASSUME IInv, NEW c \in Calls, Call(c), ~FirstByData PROVE IInv'
<1>1. /\ pc = "idle" /\ pc' = "start" /\ call' = c /\ ret' = NULL
      /\ UNCHANGED <<first, last, size, ptr, chain, cacheIdx, cacheEnt, data, owned,
                     i, n, new, slot, failed>>
      /\ \/ cacheEnt = [k \in Slots |-> NULL]
         \/ c.op = "remove_data" /\ size # 0 => data[first] # c.data
  BY DEF Call, links, cache, memory, locals
<1>2. Body /\ LocalsTyped /\ NoLeak /\ WalkRight /\ Granted
  BY IInvIs
<1>3. Body'
  BY <1>1, <1>2, BodyStays
<1>4. LocalsTyped'
  <2>1. failed' \in BOOLEAN
    BY <1>1, <1>2, Zenon DEF LocalsTyped
  <2>2. pc' = "start" /\ call' \in Calls /\ ret' \in Answers
    BY <1>1 DEF Answers
  <2> QED
    BY <1>1, <1>2, <2>1, <2>2 DEF LocalsTyped
<1>5. NoLeak' /\ WalkRight'
  BY <1>1, <1>2 DEF NoLeak, WalkRight
<1>6. Granted'
  <2>1. ~failed'
    BY <1>1, <1>2 DEF Granted
  <2> QED
    BY <1>1, <2>1 DEF Granted
<1> QED
  BY <1>3, <1>4, <1>5, <1>6, IInvIs, PTL

LEMMA InitRight == Init => IInv
<1> SUFFICES ASSUME Init PROVE IInv
  OBVIOUS
<1>1. /\ first = NULL /\ last = NULL /\ size = 0 /\ owned = {} /\ chain = <<>>
      /\ ptr = [m \in Nodes |-> NULL] /\ data = [m \in Nodes |-> NULL]
      /\ cacheIdx = [k \in Slots |-> 0] /\ cacheEnt = [k \in Slots |-> NULL]
      /\ pc = "idle" /\ call = NULL /\ ret = NULL
      /\ i = 0 /\ n = NULL /\ new = NULL /\ slot = 0 /\ failed = FALSE
  BY DEF Init
<1>2. chain \in Seq(Nodes) /\ Len(chain) = 0
  BY <1>1
<1>3. IsChain(chain, ptr, first, last, size) /\ CacheOf(chain, cacheIdx, cacheEnt)
  BY <1>1, <1>2 DEF IsChain, CacheOf
<1>4. Body
  BY <1>1, <1>3, MaxTyped DEF Body
<1>5. LocalsTyped
  <2>1. failed \in BOOLEAN
    BY <1>1, Zenon
  <2>2. slot \in Slots /\ ret \in Answers
    BY <1>1 DEF Slots, Answers
  <2> QED
    BY <1>1, <2>1, <2>2 DEF LocalsTyped
<1>6. NoLeak
  <2>1. Range(chain) = {}
    BY <1>2, RangeEmpty
  <2> QED
    BY <1>1, <2>1 DEF NoLeak
<1>7. WalkRight /\ Granted
  BY <1>1 DEF WalkRight, Granted
<1> QED
  BY <1>4, <1>5, <1>6, <1>7, IInvIs

LEMMA NextRight == ASSUME ~FirstByData, ~DelFails, IInv, Next PROVE IInv'
<1>1. ASSUME NEW c \in Calls, Call(c) PROVE IInv'
  BY <1>1, CallStep
<1>2. CASE Refuse
  BY <1>2, RefuseStep
<1>3. ASSUME NEW m \in Nodes, Link(m) PROVE IInv'
  BY <1>3, AddStep, InsertLastStep, InsertFirstStep, InsertWalkStep, SortedStartStep DEF Link
<1>4. CASE Insert
  BY <1>4, InsertOnStep, InsertHereStep, SortedOnStep, SortedHereStep, SortedReplaceStep
  DEF Insert
<1>5. CASE Get
  BY <1>5, GetEndStep, GetFillStep, FillOnStep, FillHereStep, GetSeekStep, SeekOnStep,
     SeekHereStep, GetLastStep DEF Get
<1>6. CASE Removal
  BY <1>6, RemoveNoneStep, RemoveHeadStep, RemoveWalkStep, RemoveOnStep, RemoveHereStep,
     RemoveOnlyStep, LastWalkStep, LastOnStep, LastHereStep, DataFirstStep, DataWalkStep,
     DataOnStep, DataMissingStep, DataHereStep DEF Removal
<1>7. CASE Clear
  BY <1>7, ClearStartStep, ClearOnStep, ClearEndStep DEF Clear
<1> QED
  BY <1>1, <1>2, <1>3, <1>4, <1>5, <1>6, <1>7 DEF Next, Step

LEMMA IInvHolds == ASSUME ~FirstByData, ~DelFails PROVE Spec => []IInv
<1>1. IInv /\ UNCHANGED vars => IInv'
  <2> SUFFICES ASSUME IInv, UNCHANGED vars PROVE IInv'
    OBVIOUS
  <2>1. Body /\ LocalsTyped /\ NoLeak /\ WalkRight /\ Granted
    BY IInvIs
  <2>2. UNCHANGED <<first, last, size, ptr, data, cacheIdx, cacheEnt, owned, chain, pc,
                    call, ret, i, n, new, slot, failed>>
    BY DEF vars
  <2>3. Body'
    BY <2>1, <2>2, BodyStays
  <2>4. LocalsTyped' /\ Granted'
    BY <2>1, <2>2, Zenon DEF LocalsTyped, Granted
  <2>5. NoLeak' /\ WalkRight'
    BY <2>1, <2>2 DEF NoLeak, WalkRight
  <2> QED
    BY <2>3, <2>4, <2>5, IInvIs, PTL
<1>2. IInv /\ [Next]_vars => IInv'
  BY <1>1, NextRight
<1> QED
  BY <1>2, InitRight, PTL DEF Spec

(* The links, the counter, the nodes the allocator has handed out and the  *)
(* cache of linkedlist_get agree between any two steps of any calls, when  *)
(* the client does not remove the first element with linkedlist_remove_    *)
(* data while an index is cached, and its data_del does not fail: after    *)
(* either of the two they do not (linkedlist.c:479 and :143).               *)
THEOREM ListIsRight == ASSUME ~FirstByData, ~DelFails PROVE Spec => []ListRight
<1>1. IInv => ListRight
  BY DEF IInv
<1> QED
  BY <1>1, IInvHolds, PTL

-----------------------------------------------------------------------------
(* Every walk comes nearer to the end of the list.                         *)
LEMMA AheadIs ==
  ASSUME Body, NEW k \in 1 .. size + 1, Cursor = NodeAt(chain, k)
  PROVE  Ahead = size - k + 1
<1>1. size \in Nat /\ Len(chain) = size /\ k \in Nat
  BY BodyFacts
<1>2. {h \in 1 .. Len(chain) : \E j \in 1 .. h : chain[j] = Cursor} = k .. size
  <2>1. CASE k = size + 1
    <3>1. Cursor = NULL /\ \A j \in 1 .. size : chain[j] # NULL
      BY <1>1, <2>1, BodyFacts DEF NodeAt
    <3>2. \A h \in 1 .. size : \A j \in 1 .. h : j \in 1 .. size
      BY <1>1
    <3>3. k .. size = {}
      BY <1>1, <2>1
    <3> QED
      BY <1>1, <3>1, <3>2, <3>3
  <2>2. CASE k \in 1 .. size
    <3>1. Cursor = chain[k] /\ \A j \in 1 .. size : chain[j] = chain[k] => j = k
      BY <1>1, <2>2, BodyFacts DEF NodeAt
    <3>2. \A h \in 1 .. size : \A j \in 1 .. h : j \in 1 .. size
      BY <1>1
    <3>3. \A h \in 1 .. size : (\E j \in 1 .. h : chain[j] = Cursor) <=> h \in k .. size
      BY <1>1, <2>2, <3>1, <3>2
    <3>4. k .. size \subseteq 1 .. size
      BY <1>1
    <3> QED
      BY <1>1, <3>3, <3>4
  <2> QED
    BY <1>1, <2>1, <2>2
<1>3. Cardinality(k .. size) = IF k > size THEN 0 ELSE size - k + 1
  BY <1>1, FS_Interval
<1>4. Ahead = Cardinality(k .. size)
  BY <1>2, Zenon DEF Ahead
<1>5. CASE k > size
  BY <1>1, <1>3, <1>4, <1>5
<1>6. CASE k <= size
  BY <1>1, <1>3, <1>4, <1>6
<1> QED
  BY <1>1, <1>5, <1>6

LEMMA AheadAll ==
  Body => \A h \in 1 .. size + 1 : Cursor = NodeAt(chain, h) => Ahead = size - h + 1
  BY AheadIs

LEMMA Nearer ==
  ASSUME IInv, IInv', size' = size, chain' = chain, NEW k \in 1 .. size,
         Cursor = NodeAt(chain, k), Cursor' = NodeAt(chain, k + 1)
  PROVE  Ahead' < Ahead
<1>1. Body /\ Body' /\ size \in Nat
  BY IInvIs, BodyFacts, PTL
<1>2. Ahead = size - k + 1
  <2>1. \A h \in 1 .. size + 1 : Cursor = NodeAt(chain, h) => Ahead = size - h + 1
    BY <1>1, AheadAll
  <2>2. k \in 1 .. size + 1
    BY <1>1
  <2> QED
    BY <2>1, <2>2
<1>3. k + 1 \in 1 .. size' + 1 /\ Cursor' = NodeAt(chain', k + 1)
  BY <1>1
<1>4. (\A h \in 1 .. size + 1 : Cursor = NodeAt(chain, h) => Ahead = size - h + 1)'
  BY <1>1, AheadAll, PTL
<1>5. Ahead' = size' - (k + 1) + 1
  BY <1>3, <1>4
<1> QED
  BY <1>1, <1>2, <1>5

LEMMA SeekNearer == ASSUME IInv, IInv', SeekOn, pc' = pc PROVE Ahead' < Ahead
<1>1. /\ pc = "seek" /\ cacheIdx[slot] < call.idx /\ Still
      /\ cacheEnt' = [cacheEnt EXCEPT ![slot] = ptr[cacheEnt[slot]]]
      /\ cacheEnt'[slot] # NULL => UNCHANGED <<pc, call, ret, locals>>
      /\ cacheEnt'[slot] = NULL => pc' = "idle"
  BY DEF SeekOn, Return
<1>2. /\ Body /\ slot \in Slots /\ cacheIdx[slot] \in Nat /\ cacheEnt[slot] = chain[cacheIdx[slot] + 1]
      /\ cacheIdx[slot] + 2 \in 1 .. size /\ ptr[cacheEnt[slot]] = chain[cacheIdx[slot] + 2]
  BY <1>1, SeekFacts
<1>3. PICK k : k = cacheIdx[slot] + 1
  OBVIOUS
<1>4. k \in 1 .. size /\ k + 1 = cacheIdx[slot] + 2 /\ k + 1 \in 1 .. size /\ Len(chain) = size
  BY <1>2, <1>3, BodyFacts
<1>5. Cursor = NodeAt(chain, k)
  BY <1>1, <1>2, <1>3, <1>4 DEF Cursor, NodeAt
<1>6. Cursor' = NodeAt(chain, k + 1)
  <2>1. slot' = slot /\ pc' = "seek"
    BY <1>1 DEF locals
  <2>2. cacheEnt'[slot] = chain[k + 1]
    BY <1>1, <1>2, <1>4 DEF Body
  <2>3. Cursor' = cacheEnt'[slot']
    BY <2>1 DEF Cursor
  <2> QED
    BY <1>4, <2>1, <2>2, <2>3 DEF NodeAt
<1> QED
  BY <1>1, <1>4, <1>5, <1>6, Nearer DEF Still, links

LEMMA SortedNearer == ASSUME IInv, IInv', SortedOn PROVE Ahead' < Ahead
<1>1. /\ pc = "sorted" /\ At # NULL /\ ptr' = [ptr EXCEPT ![new] = ptr[At]]
      /\ pc' = pc /\ new' = new /\ size' = size /\ chain' = chain
  BY DEF SortedOn, Precedes
<1>2. i < size
  BY <1>1, SortedFacts, BodyFacts
<1>3. /\ Body /\ new \in Nodes /\ i \in Nat /\ i + 1 \in 1 .. size
      /\ At = NodeAt(chain, i + 1) /\ ptr[At] = NodeAt(chain, (i + 1) + 1)
  BY <1>1, <1>2, SortedFacts
<1>4. At' = ptr[At]
  BY <1>1, <1>3 DEF At, Body
<1>5. Cursor = At /\ Cursor' = At'
  BY <1>1 DEF Cursor
<1> QED
  BY <1>1, <1>3, <1>4, <1>5, Nearer

(* The other loops look at n.                                              *)
LEMMA NextNearer ==
  ASSUME IInv, IInv', pc \in Walks \ {"sorted", "seek"}, pc' = pc, n' = ptr[n],
         size' = size, chain' = chain, NEW k \in 1 .. size, n = chain[k]
  PROVE  Ahead' < Ahead
<1>1. Body
  BY IInvIs
<1>2. n = NodeAt(chain, k) /\ ptr[n] = NodeAt(chain, k + 1)
  BY <1>1, BodyFacts DEF NodeAt
<1>3. Cursor = n /\ Cursor' = n'
  BY DEF Cursor, Walks
<1> QED
  BY <1>2, <1>3, Nearer

LEMMA InsertNearer == ASSUME IInv, IInv', InsertOn PROVE Ahead' < Ahead
<1>1. /\ pc = "insert" /\ n' = ptr[n] /\ pc' = pc /\ size' = size /\ chain' = chain
  BY DEF InsertOn
<1>2. Body /\ call \in Calls /\ call.idx \in 1 .. size - 1 /\ i \in 1 .. call.idx /\ n = chain[i]
  BY <1>1, WalkFacts DEF Walks, WalkRight
<1>3. PICK k \in 1 .. size : n = chain[k]
  BY <1>2, BodyFacts
<1> QED
  BY <1>1, <1>3, NextNearer DEF Walks

LEMMA FillNearer == ASSUME IInv, IInv', FillOn PROVE Ahead' < Ahead
<1>1. /\ pc = "fill" /\ i < call.idx /\ n' = ptr[n] /\ pc' = pc /\ size' = size /\ chain' = chain
  BY DEF FillOn, Still, links
<1>2. Body /\ call.idx \in 1 .. size - 1 /\ i \in 0 .. call.idx /\ n = chain[i + 1]
  BY <1>1, WalkFacts DEF Walks, WalkRight
<1>3. PICK k \in 1 .. size : n = chain[k]
  <2>1. i + 1 \in 1 .. size
    BY <1>1, <1>2, BodyFacts
  <2> QED
    BY <1>2, <2>1
<1> QED
  BY <1>1, <1>3, NextNearer DEF Walks

LEMMA RemoveNearer == ASSUME IInv, IInv', RemoveOn PROVE Ahead' < Ahead
<1>1. /\ pc = "remove" /\ n' = ptr[n] /\ pc' = pc /\ size' = size /\ chain' = chain
  BY DEF RemoveOn, Still, links
<1>2. Body /\ call.idx \in 1 .. size - 1 /\ i \in 1 .. call.idx /\ n = chain[i]
  BY <1>1, WalkFacts DEF Walks, WalkRight
<1>3. PICK k \in 1 .. size : n = chain[k]
  BY <1>2, BodyFacts
<1> QED
  BY <1>1, <1>3, NextNearer DEF Walks

LEMMA LastNearer == ASSUME IInv, IInv', LastOn PROVE Ahead' < Ahead
<1>1. /\ pc = "remove_last" /\ n' = ptr[n] /\ pc' = pc /\ size' = size /\ chain' = chain
  BY DEF LastOn, Still, links
<1>2. Body /\ \E k \in 1 .. size - 1 : n = chain[k]
  BY <1>1, LastFacts
<1>3. PICK k \in 1 .. size : n = chain[k]
  BY <1>2, BodyFacts
<1> QED
  BY <1>1, <1>3, NextNearer DEF Walks

LEMMA DataNearer == ASSUME IInv, IInv', DataOn PROVE Ahead' < Ahead
<1>1. /\ pc = "remove_data" /\ n' = ptr[n] /\ pc' = pc /\ size' = size /\ chain' = chain
  BY DEF DataOn, Still, links
<1>2. i \in 1 .. size /\ n = chain[i]
  BY <1>1, DataWalkFacts
<1>3. PICK k \in 1 .. size : n = chain[k]
  BY <1>2
<1> QED
  BY <1>1, <1>3, NextNearer DEF Walks

LEMMA ClearNearer == ASSUME IInv, IInv', ClearOn PROVE Ahead' < Ahead
<1>1. /\ pc = "clear" /\ n # NULL /\ n' = ptr[n] /\ pc' = pc /\ size' = size /\ chain' = chain
  BY DEF ClearOn, links
<1>2. Body /\ \E k \in 1 .. size + 1 : n = NodeAt(chain, k)
  BY <1>1, ClearFacts
<1>3. PICK k \in 1 .. size : n = chain[k]
  BY <1>1, <1>2, BodyFacts DEF NodeAt
<1> QED
  BY <1>1, <1>3, NextNearer DEF Walks

LEMMA StepNearer ==
  ASSUME IInv, IInv', Next, pc' = pc, pc \notin {"idle", "start"}
  PROVE  Ahead' < Ahead
<1>1. ASSUME NEW c \in Calls, Call(c) PROVE FALSE
  BY <1>1 DEF Call
<1>2. CASE Refuse
  BY <1>2 DEF Refuse, Start
<1>3. ASSUME NEW m \in Nodes, Link(m) PROVE FALSE
  BY <1>3 DEF Link, Add, InsertLast, InsertFirst, InsertWalk, SortedStart, Start
<1>4. CASE Insert
  <2>1. ~InsertHere /\ ~SortedHere /\ ~SortedReplace
    BY DEF InsertHere, SortedHere, SortedReplace, Return
  <2> QED
    BY <1>4, <2>1, InsertNearer, SortedNearer DEF Insert
<1>5. CASE Get
  <2>1. ~GetEnd /\ ~GetFill /\ ~FillHere /\ ~GetSeek /\ ~SeekHere /\ ~GetLast
    BY DEF GetEnd, GetFill, FillHere, GetSeek, SeekHere, GetLast, Middle, Start, Return
  <2> QED
    BY <1>5, <2>1, FillNearer, SeekNearer DEF Get
<1>6. CASE Removal
  <2>1. /\ ~RemoveNone /\ ~RemoveHead /\ ~RemoveWalk /\ ~RemoveHere /\ ~RemoveOnly /\ ~LastWalk
        /\ ~LastHere /\ ~DataFirst /\ ~DataWalk /\ ~DataMissing /\ ~DataHere
    BY DEF RemoveNone, RemoveHead, RemoveWalk, RemoveHere, RemoveOnly, LastWalk, LastHere,
           DataFirst, DataWalk, DataMissing, DataHere, Start, Return
  <2> QED
    BY <1>6, <2>1, RemoveNearer, LastNearer, DataNearer DEF Removal
<1>7. CASE Clear
  <2>1. ~ClearStart /\ ~ClearEnd
    BY DEF ClearStart, ClearEnd, Start, Return
  <2> QED
    BY <1>7, <2>1, ClearNearer DEF Clear
<1> QED
  BY <1>1, <1>2, <1>3, <1>4, <1>5, <1>6, <1>7 DEF Next, Step

-----------------------------------------------------------------------------
(* The order of the data in c.                                             *)
Filled(c, d)  == \A j \in 1 .. Len(c) : d[c[j]] \in Data
Ordered(c, d) == \A j, k \in 1 .. Len(c) : j < k => Key[d[c[j]]] <= Key[d[c[k]]]

LEMMA KeyTyped == \A d \in Data : Key[d] \in Int
  BY LinkedlistAssumption

LEMMA OrderInsert ==
  ASSUME NEW c \in Seq(Nodes), NEW k \in 0 .. Len(c), NEW m \in Nodes,
         NEW d, Filled(c, d), d[m] \in Data
  PROVE  /\ Filled(InsertAt(c, k + 1, m), d)
         /\ (/\ Ordered(c, d)
             /\ \A j \in 1 .. k : Key[d[c[j]]] <= Key[d[m]]
             /\ k < Len(c) => Key[d[m]] <= Key[d[c[k + 1]]])
            => Ordered(InsertAt(c, k + 1, m), d)
<1>1. PICK t : t = InsertAt(c, k + 1, m)
  OBVIOUS
<1>2. Len(c) \in Nat /\ k \in Nat
  BY LenProperties
<1>3. k + 1 \in 1 .. Len(c) + 1 /\ (k + 1) - 1 = k /\ (k + 1) + 1 = k + 2
  BY <1>2
<1>4. t \in Seq(Nodes) /\ HasInserted(t, c, k + 1, m)
  BY <1>1, <1>3, InsertAtFacts
<1>5. /\ Len(t) = Len(c) + 1 /\ t[k + 1] = m
      /\ \A j \in 1 .. k : t[j] = c[j]
      /\ \A j \in k + 2 .. Len(c) + 1 : t[j] = c[j - 1]
  BY <1>3, <1>4 DEF HasInserted
<1>6. \A j \in 1 .. Len(t) : \/ j \in 1 .. k /\ j \in 1 .. Len(c)
                             \/ j = k + 1
                             \/ j \in k + 2 .. Len(c) + 1 /\ j - 1 \in 1 .. Len(c)
  BY <1>2, <1>5
<1>7. Filled(t, d)
  BY <1>5, <1>6 DEF Filled
<1>8. ASSUME Ordered(c, d), \A j \in 1 .. k : Key[d[c[j]]] <= Key[d[m]],
             k < Len(c) => Key[d[m]] <= Key[d[c[k + 1]]]
      PROVE  Ordered(t, d)
  <2>1. ASSUME NEW h \in k + 1 .. Len(c) PROVE Key[d[m]] <= Key[d[c[h]]]
    <3>1. k + 1 \in 1 .. Len(c) /\ h \in 1 .. Len(c) /\ k < Len(c)
      BY <1>2
    <3>2. Key[d[c[k + 1]]] <= Key[d[c[h]]]
      <4>1. CASE h = k + 1
        BY <3>1, <4>1, KeyTyped DEF Filled
      <4>2. CASE k + 1 < h
        BY <1>8, <3>1, <4>2 DEF Ordered
      <4> QED
        BY <1>2, <4>1, <4>2
    <3>3. Key[d[m]] \in Int /\ Key[d[c[k + 1]]] \in Int /\ Key[d[c[h]]] \in Int
      BY <3>1, KeyTyped DEF Filled
    <3> QED
      BY <1>8, <3>1, <3>2, <3>3
  <2> SUFFICES ASSUME NEW j \in 1 .. Len(t), NEW h \in 1 .. Len(t), j < h
               PROVE  Key[d[t[j]]] <= Key[d[t[h]]]
    BY DEF Ordered
  <2>2. CASE j \in 1 .. k /\ j \in 1 .. Len(c)
    <3>1. CASE h \in 1 .. k /\ h \in 1 .. Len(c)
      BY <1>5, <1>8, <2>2, <3>1 DEF Ordered
    <3>2. CASE h = k + 1
      BY <1>5, <1>8, <2>2, <3>2
    <3>3. CASE h \in k + 2 .. Len(c) + 1 /\ h - 1 \in 1 .. Len(c)
      <4>1. j < h - 1
        BY <1>2, <2>2, <3>3
      <4> QED
        BY <1>5, <1>8, <2>2, <3>3, <4>1 DEF Ordered
    <3> QED
      BY <1>6, <3>1, <3>2, <3>3
  <2>3. CASE j = k + 1
    <3>1. h \in k + 2 .. Len(c) + 1 /\ h - 1 \in k + 1 .. Len(c)
      BY <1>2, <1>5, <2>3
    <3> QED
      BY <1>5, <2>1, <2>3, <3>1
  <2>4. CASE j \in k + 2 .. Len(c) + 1 /\ j - 1 \in 1 .. Len(c)
    <3>1. h \in k + 2 .. Len(c) + 1 /\ h - 1 \in 1 .. Len(c) /\ j - 1 < h - 1
      BY <1>2, <1>5, <2>4
    <3> QED
      BY <1>5, <1>8, <2>4, <3>1 DEF Ordered
  <2> QED
    BY <1>6, <2>2, <2>3, <2>4
<1> QED
  BY <1>1, <1>7, <1>8

LEMMA OrderRemove ==
  ASSUME NEW c \in Seq(Nodes), NEW k \in 1 .. Len(c), NEW d
  PROVE  /\ Filled(c, d) => Filled(RemoveAt(c, k), d)
         /\ Ordered(c, d) => Ordered(RemoveAt(c, k), d)
<1>1. PICK t : t = RemoveAt(c, k)
  OBVIOUS
<1>2. /\ Len(c) \in Nat /\ k \in Nat /\ Len(t) = Len(c) - 1
      /\ \A j \in 1 .. k - 1 : t[j] = c[j]
      /\ \A j \in k .. Len(c) - 1 : t[j] = c[j + 1]
  BY <1>1, RemoveAtFacts, LenProperties
<1>3. \A j \in 1 .. Len(t) : \/ j \in 1 .. k - 1 /\ j \in 1 .. Len(c)
                             \/ j \in k .. Len(c) - 1 /\ j + 1 \in 1 .. Len(c)
  BY <1>2
<1>4. Filled(c, d) => Filled(t, d)
  BY <1>2, <1>3 DEF Filled
<1>5. ASSUME Ordered(c, d), NEW j \in 1 .. Len(t), NEW h \in 1 .. Len(t), j < h
      PROVE  Key[d[t[j]]] <= Key[d[t[h]]]
  <2>1. CASE h \in 1 .. k - 1 /\ h \in 1 .. Len(c)
    <3>1. j \in 1 .. k - 1 /\ j \in 1 .. Len(c)
      BY <1>2, <1>5, <2>1
    <3> QED
      BY <1>2, <1>5, <2>1, <3>1 DEF Ordered
  <2>2. CASE h \in k .. Len(c) - 1 /\ h + 1 \in 1 .. Len(c)
    <3>1. j < h + 1 /\ j + 1 < h + 1
      BY <1>2, <1>5, <2>2
    <3> QED
      BY <1>2, <1>3, <1>5, <2>2, <3>1 DEF Ordered
  <2> QED
    BY <1>3, <2>1, <2>2
<1> QED
  BY <1>1, <1>4, <1>5 DEF Ordered

LEMMA OrderReplace ==
  ASSUME NEW c \in Seq(Nodes), NEW k \in 1 .. Len(c), NEW m \in Nodes,
         NEW d, Filled(c, d), d[m] \in Data, Key[d[m]] = Key[d[c[k]]]
  PROVE  /\ Filled(ReplaceAt(c, k, m), d)
         /\ Ordered(c, d) => Ordered(ReplaceAt(c, k, m), d)
<1>1. PICK t : t = ReplaceAt(c, k, m)
  OBVIOUS
<1>2. t \in Seq(Nodes) /\ HasReplaced(t, c, k, m)
  BY <1>1, ReplaceAtFacts
<1>3. Len(t) = Len(c) /\ \A j \in 1 .. Len(c) : t[j] = IF j = k THEN m ELSE c[j]
  BY <1>2 DEF HasReplaced
<1>4. \A j \in 1 .. Len(c) : Key[d[t[j]]] = Key[d[c[j]]]
  BY <1>3
<1>5. Filled(t, d)
  BY <1>3 DEF Filled
<1>6. Ordered(c, d) => Ordered(t, d)
  BY <1>3, <1>4 DEF Ordered
<1> QED
  BY <1>1, <1>5, <1>6

LEMMA OrderApart ==
  ASSUME NEW c, NEW d, NEW b, \A j \in 1 .. Len(c) : b[c[j]] = d[c[j]]
  PROVE  /\ Filled(c, d) => Filled(c, b)
         /\ Ordered(c, d) => Ordered(c, b)
  BY DEF Filled, Ordered

-----------------------------------------------------------------------------
(* The data of the nodes, and how far insert_sorted has compared.          *)
DataRight ==
  /\ Filled(chain, data)
  /\ pc \in {"insert", "sorted"} => data[new] = call.data /\ call.data \in Data
  /\ pc = "insert" => call.op = "insert"
  /\ pc = "sorted" => \A j \in 1 .. i : Key[data[chain[j]]] <= Key[call.data]

(* What a step does with the order.                                        *)
OrderKept == Sorted /\ call.op \notin {"add", "insert"} => Sorted'

LEMMA QuietOrder ==
  ASSUME DataRight, chain' = chain, data' = data, pc' \notin {"insert", "sorted"}
  PROVE  DataRight' /\ (Sorted => Sorted')
<1>1. DataRight'
  BY DEF DataRight
<1>2. Sorted => Sorted'
  BY DEF Sorted
<1> QED
  BY <1>1, <1>2

LEMMA DropOrder ==
  ASSUME DataRight, NEW k \in 0 .. Len(chain) - 1, NEW m, Drop(m, k), pc' = "idle",
         chain \in Seq(Nodes)
  PROVE  DataRight' /\ (Sorted => Sorted')
<1>1. chain' = RemoveAt(chain, k + 1) /\ data' = data
  BY DEF Drop
<1>2. k + 1 \in 1 .. Len(chain)
  BY LenProperties
<1>3. Filled(chain', data') /\ (Ordered(chain, data) => Ordered(chain', data'))
  BY <1>1, <1>2, OrderRemove DEF DataRight
<1>4. DataRight'
  BY <1>3 DEF DataRight
<1>5. Sorted => Sorted'
  BY <1>3 DEF Sorted, Ordered
<1> QED
  BY <1>4, <1>5

LEMMA AddOrder ==
  ASSUME IInv, DataRight, pc = "start", NEW m \in Nodes, Obtain(m), call.op \in Growing
  PROVE  /\ Filled(chain, data') /\ data'[m] = call.data /\ call.data \in Data
         /\ Ordered(chain, data) => Ordered(chain, data')
<1>1. data' = [data EXCEPT ![m] = call.data] /\ Outside(m, chain)
  BY ObtainFacts DEF Obtain
<1>2. Body /\ call \in Calls
  BY StartFacts
<1>3. call.data \in Data
  BY <1>2, CallFacts DEF ByData
<1>4. \A j \in 1 .. Len(chain) : data'[chain[j]] = data[chain[j]]
  BY <1>1, <1>2, BodyFacts DEF Outside, Body
<1>5. data'[m] = call.data
  BY <1>1, <1>2 DEF Body
<1>6. PICK b : b = data'
  OBVIOUS
<1>7. Filled(chain, b) /\ (Ordered(chain, data) => Ordered(chain, b))
  BY <1>4, <1>6, OrderApart DEF DataRight
<1> QED
  BY <1>3, <1>5, <1>6, <1>7

-----------------------------------------------------------------------------
(* A step that links a node in: the node is at its place in the order.     *)
LEMMA GrownOrder ==
  ASSUME NEW k \in 0 .. Len(chain), NEW m \in Nodes, chain \in Seq(Nodes), Grown(k, m),
         Filled(chain, data'), data'[m] \in Data, pc' = "idle"
  PROVE  DataRight'
<1>1. chain' = InsertAt(chain, k + 1, m)
  BY DEF Grown
<1>2. PICK b : b = data'
  OBVIOUS
<1>3. Filled(InsertAt(chain, k + 1, m), b)
  BY <1>2, OrderInsert
<1> QED
  BY <1>1, <1>2, <1>3 DEF DataRight

LEMMA LinkOrder ==
  ASSUME IInv, DataRight, NEW m \in Nodes, Link(m)
  PROVE  DataRight' /\ OrderKept
<1>1. pc = "start" /\ Obtain(m) /\ call.op \in Growing
  BY DEF Link, Add, InsertLast, InsertFirst, InsertWalk, SortedStart, Start, Growing
<1>2. Body /\ chain \in Seq(Nodes) /\ Len(chain) = size /\ size \in Nat
  BY <1>1, StartFacts, BodyFacts
<1>3. /\ Filled(chain, data') /\ data'[m] = call.data /\ call.data \in Data
      /\ Ordered(chain, data) => Ordered(chain, data')
  BY <1>1, AddOrder
<1>4. CASE Add(m) \/ InsertLast(m) \/ InsertFirst(m)
  <2>1. PICK k \in 0 .. Len(chain) : Grown(k, m)
    BY <1>2, <1>4 DEF Add, InsertLast, InsertFirst
  <2>2. pc' = "idle" /\ call.op \in {"add", "insert"}
    BY <1>4 DEF Add, InsertLast, InsertFirst, Return, Start
  <2>3. DataRight'
    BY <1>2, <1>3, <2>1, <2>2, GrownOrder
  <2> QED
    BY <2>2, <2>3 DEF OrderKept
<1>5. CASE InsertWalk(m)
  <2>1. chain' = chain /\ pc' = "insert" /\ call' = call /\ new' = m /\ call.op = "insert"
    BY <1>5 DEF InsertWalk, Start, Go
  <2> QED
    BY <1>3, <2>1 DEF DataRight, OrderKept
<1>6. CASE SortedStart(m)
  <2>1. chain' = chain /\ pc' = "sorted" /\ call' = call /\ new' = m /\ i' = 0
    BY <1>6 DEF SortedStart, Go
  <2>2. DataRight'
    BY <1>3, <2>1 DEF DataRight
  <2>3. Sorted => Sorted'
    BY <1>3, <2>1 DEF Sorted, Ordered
  <2> QED
    BY <2>2, <2>3 DEF OrderKept
<1> QED
  BY <1>4, <1>5, <1>6 DEF Link

LEMMA SortedOnOrder == ASSUME IInv, DataRight, SortedOn PROVE DataRight' /\ OrderKept
<1>1. /\ pc = "sorted" /\ At # NULL /\ ~(Cmp < 0) /\ i' = i + 1
      /\ UNCHANGED <<pc, call, chain, data, new>>
  BY DEF SortedOn, Precedes, memory
<1>2. Body /\ i \in 0 .. size /\ At = NodeAt(chain, i + 1) /\ size = Len(chain) /\ size \in Nat
  BY <1>1, SortedFacts, BodyFacts
<1>3. i + 1 \in 1 .. Len(chain) /\ At = chain[i + 1]
  BY <1>1, <1>2 DEF NodeAt
<1>4. call.data \in Data /\ data[At] \in Data
  BY <1>1, <1>3 DEF DataRight, Filled
<1>5. Key[data[chain[i + 1]]] <= Key[call.data]
  BY <1>1, <1>3, <1>4, KeyTyped DEF Cmp
<1>6. \A j \in 1 .. i + 1 : j \in 1 .. i \/ j = i + 1
  BY <1>2
<1>7. \A j \in 1 .. i + 1 : Key[data[chain[j]]] <= Key[call.data]
  BY <1>1, <1>5, <1>6 DEF DataRight
<1>8. DataRight'
  BY <1>1, <1>7 DEF DataRight
<1> QED
  BY <1>1, <1>8 DEF OrderKept, Sorted

LEMMA SortedHereOrder == ASSUME IInv, DataRight, SortedHere PROVE DataRight' /\ OrderKept
<1>1. /\ pc = "sorted" /\ Precedes /\ Grown(i, new) /\ pc' = "idle" /\ data' = data
  BY DEF SortedHere, Return, memory
<1>2. /\ Body /\ i \in 0 .. size /\ At = NodeAt(chain, i + 1) /\ size = Len(chain) /\ size \in Nat
      /\ new \in Nodes /\ chain \in Seq(Nodes) /\ NULL \notin Nodes
  BY <1>1, SortedFacts, BodyFacts
<1>3. /\ Filled(chain, data) /\ data[new] = call.data /\ data[new] \in Data
      /\ \A j \in 1 .. i : Key[data[chain[j]]] <= Key[data[new]]
  BY <1>1 DEF DataRight
<1>4. i < Len(chain) => Key[data[new]] <= Key[data[chain[i + 1]]]
  <2> SUFFICES ASSUME i < Len(chain) PROVE Key[data[new]] <= Key[data[chain[i + 1]]]
    OBVIOUS
  <2>1. i + 1 \in 1 .. Len(chain) /\ At = chain[i + 1]
    BY <1>2 DEF NodeAt
  <2>2. At # NULL
    BY <1>2, <2>1, BodyFacts
  <2>3. Cmp < 0 /\ data[At] \in Data
    BY <1>1, <1>3, <2>1, <2>2 DEF Precedes, Filled
  <2> QED
    BY <1>3, <2>1, <2>3, KeyTyped DEF Cmp
<1>5. i \in 0 .. Len(chain) /\ chain' = InsertAt(chain, i + 1, new)
  BY <1>1, <1>2 DEF Grown
<1>6. Filled(chain', data) /\ (Ordered(chain, data) => Ordered(chain', data))
  BY <1>2, <1>3, <1>4, <1>5, OrderInsert
<1>7. DataRight'
  BY <1>1, <1>6 DEF DataRight
<1>8. Sorted => Sorted'
  BY <1>1, <1>6 DEF Sorted, Ordered
<1> QED
  BY <1>7, <1>8 DEF OrderKept

LEMMA SortedReplaceOrder ==
  ASSUME IInv, DataRight, SortedReplace PROVE DataRight' /\ OrderKept
<1>1. /\ pc = "sorted" /\ At # NULL /\ Cmp = 0 /\ chain' = ReplaceAt(chain, i + 1, new)
      /\ pc' = "idle" /\ data' = data
  BY DEF SortedReplace, Replaces, Return
<1>2. /\ Body /\ i \in 0 .. size /\ At = NodeAt(chain, i + 1) /\ size = Len(chain) /\ size \in Nat
      /\ new \in Nodes /\ chain \in Seq(Nodes)
  BY <1>1, SortedFacts, BodyFacts
<1>3. i + 1 \in 1 .. Len(chain) /\ At = chain[i + 1]
  BY <1>1, <1>2 DEF NodeAt
<1>4. /\ Filled(chain, data) /\ data[new] = call.data /\ data[new] \in Data
      /\ data[At] \in Data
  BY <1>1, <1>3 DEF DataRight, Filled
<1>5. Key[data[new]] = Key[data[chain[i + 1]]]
  BY <1>1, <1>3, <1>4, KeyTyped DEF Cmp
<1>6. Filled(chain', data) /\ (Ordered(chain, data) => Ordered(chain', data))
  <2>1. PICK k \in 1 .. Len(chain) : k = i + 1
    BY <1>3
  <2> QED
    BY <1>1, <1>2, <1>4, <1>5, <2>1, OrderReplace
<1>7. DataRight'
  BY <1>1, <1>6 DEF DataRight
<1>8. Sorted => Sorted'
  BY <1>1, <1>6 DEF Sorted, Ordered
<1> QED
  BY <1>7, <1>8 DEF OrderKept

LEMMA InsertOrder == ASSUME IInv, DataRight, Insert PROVE DataRight' /\ OrderKept
<1>1. CASE InsertOn
  <2>1. UNCHANGED <<pc, call, chain, data, new>> /\ pc = "insert"
    BY <1>1 DEF InsertOn, memory
  <2> QED
    BY <2>1 DEF DataRight, OrderKept, Sorted
<1>2. CASE InsertHere
  <2>1. pc = "insert" /\ Grown(call.idx, new) /\ pc' = "idle" /\ data' = data
    BY <1>2 DEF InsertHere, Return, memory
  <2>2. Body /\ call.idx \in 1 .. size - 1 /\ new \in Nodes
    BY <2>1, WalkFacts DEF Walks, WalkRight
  <2>3. chain \in Seq(Nodes) /\ call.idx \in 0 .. Len(chain)
    BY <2>2, BodyFacts
  <2>4. Filled(chain, data') /\ data'[new] \in Data /\ call.op = "insert"
    BY <2>1 DEF DataRight
  <2>5. DataRight'
    BY <2>1, <2>2, <2>3, <2>4, GrownOrder
  <2> QED
    BY <2>4, <2>5 DEF OrderKept
<1> QED
  BY <1>1, <1>2, SortedOnOrder, SortedHereOrder, SortedReplaceOrder DEF Insert

LEMMA GetOrder == ASSUME DataRight, Get PROVE DataRight' /\ OrderKept
<1>1. chain' = chain /\ data' = data
  BY DEF Get, GetEnd, GetFill, FillOn, FillHere, GetSeek, SeekOn, SeekHere, GetLast,
         Still, links, memory
<1>2. pc' \notin {"insert", "sorted"}
  BY DEF Get, GetEnd, GetFill, FillOn, FillHere, GetSeek, SeekOn, SeekHere, GetLast,
         Return, Go
<1> QED
  BY <1>1, <1>2, QuietOrder DEF OrderKept

LEMMA RemovalOrder == ASSUME IInv, DataRight, Removal PROVE DataRight' /\ OrderKept
<1>1. CASE RemoveNone \/ RemoveWalk \/ RemoveOn \/ LastWalk \/ LastOn \/ DataWalk \/ DataOn
           \/ DataMissing
  <2>1. chain' = chain /\ data' = data
    BY <1>1 DEF RemoveNone, RemoveWalk, RemoveOn, LastWalk, LastOn, DataWalk, DataOn,
                DataMissing, Still, links, memory
  <2>2. pc' \notin {"insert", "sorted"}
    BY <1>1 DEF RemoveNone, RemoveWalk, RemoveOn, LastWalk, LastOn, DataWalk, DataOn,
                DataMissing, Return, Go
  <2> QED
    BY <2>1, <2>2, QuietOrder DEF OrderKept
<1>2. CASE RemoveHead \/ RemoveHere \/ RemoveOnly \/ LastHere \/ DataFirst \/ DataHere
  <2>1. Body
    BY IInvIs
  <2>2. chain \in Seq(Nodes) /\ Len(chain) = size /\ size \in Nat
    BY <2>1, BodyFacts
  <2>3. pc' = "idle"
    BY <1>2 DEF RemoveHead, RemoveHere, RemoveOnly, LastHere, DataFirst, DataHere, Return
  <2>4. \E k \in 0 .. Len(chain) - 1 : \E m : Drop(m, k)
    <3>1. CASE RemoveHead \/ RemoveOnly \/ DataFirst
      <4>1. Drop(first, 0) /\ size > 0
        BY <2>2, <3>1 DEF RemoveHead, RemoveOnly, DataFirst
      <4> QED
        BY <2>2, <4>1
    <3>2. CASE RemoveHere
      <4>1. pc = "remove" /\ Drop(ptr[n], call.idx)
        BY <3>2 DEF RemoveHere
      <4>2. call.idx \in 1 .. size - 1
        BY <4>1, WalkFacts DEF Walks, WalkRight
      <4> QED
        BY <2>2, <4>1, <4>2
    <3>3. CASE LastHere
      <4>1. pc = "remove_last" /\ Drop(last, size - 1)
        BY <3>3 DEF LastHere
      <4>2. \E k \in 1 .. size - 1 : n = chain[k]
        BY <4>1, WalkFacts DEF Walks, WalkRight
      <4>3. size - 1 \in 0 .. Len(chain) - 1
        BY <2>2, <4>2
      <4> QED
        BY <4>1, <4>3
    <3>4. CASE DataHere
      <4>1. pc = "remove_data" /\ ptr[n] # NULL /\ Drop(ptr[n], i)
        BY <3>4 DEF DataHere, Matches
      <4>2. i \in 1 .. size - 1
        BY <4>1, DataWalkFacts
      <4> QED
        BY <2>2, <4>1, <4>2
    <3> QED
      BY <1>2, <3>1, <3>2, <3>3, <3>4
  <2> QED
    BY <2>2, <2>3, <2>4, DropOrder DEF OrderKept
<1> QED
  BY <1>1, <1>2 DEF Removal

LEMMA ClearOrder == ASSUME IInv, DataRight, Clear PROVE DataRight' /\ OrderKept
<1>1. CASE ClearStart \/ ClearOn
  <2>1. chain' = chain /\ data' = data /\ pc' \notin {"insert", "sorted"}
    BY <1>1 DEF ClearStart, ClearOn, Go, Still, links, memory
  <2> QED
    BY <2>1, QuietOrder DEF OrderKept
<1>2. CASE ClearEnd
  <2>1. ~failed
    BY IInvIs DEF Granted
  <2>2. chain' = <<>> /\ pc' = "idle"
    BY <1>2, <2>1 DEF ClearEnd, Return
  <2>3. Len(chain') = 0
    BY <2>2
  <2>4. DataRight'
    BY <2>2, <2>3 DEF DataRight, Filled
  <2>5. Sorted'
    BY <2>3 DEF Sorted
  <2> QED
    BY <2>4, <2>5 DEF OrderKept
<1> QED
  BY <1>1, <1>2 DEF Clear

LEMMA NextOrder ==
  ASSUME IInv, DataRight, Next
  PROVE  DataRight' /\ (Sorted /\ (call # NULL => call.op \notin {"add", "insert"}) => Sorted')
<1>1. CASE \E c \in Calls : Call(c)
  <2>1. chain' = chain /\ data' = data /\ pc' = "start"
    BY <1>1 DEF Call, links, memory
  <2> QED
    BY <2>1, QuietOrder
<1>2. CASE Step
  <2>1. ASSUME Refuse PROVE DataRight' /\ OrderKept
    <3>1. chain' = chain /\ data' = data /\ pc' = "idle"
      BY <2>1 DEF Refuse, Return, links, memory
    <3> QED
      BY <3>1, QuietOrder DEF OrderKept
  <2>2. DataRight' /\ OrderKept
    BY <1>2, <2>1, LinkOrder, InsertOrder, GetOrder, RemovalOrder, ClearOrder DEF Step
  <2>3. call # NULL
    <3>1. pc # "idle"
      BY <1>2 DEF Step, Refuse, Link, Add, InsertLast, InsertFirst, InsertWalk, SortedStart,
         Insert, InsertOn, InsertHere, SortedOn, SortedHere, SortedReplace,
         Get, GetEnd, GetFill, FillOn, FillHere, GetSeek, SeekOn, SeekHere, GetLast, Middle,
         Removal, RemoveNone, RemoveHead, RemoveWalk, RemoveOn, RemoveHere, RemoveOnly,
         LastWalk, LastOn, LastHere, DataFirst, DataWalk, DataOn, DataMissing, DataHere,
         Clear, ClearStart, ClearOn, ClearEnd, Start
    <3>2. call \in Calls
      BY <3>1 DEF IInv, Granted
    <3> QED
      BY <3>2, LinkedlistAssumption
  <2> QED
    BY <2>2, <2>3 DEF OrderKept
<1> QED
  BY <1>1, <1>2 DEF Next

LEMMA DataRightHolds == ASSUME ~FirstByData, ~DelFails PROVE Spec => [](IInv /\ DataRight)
<1>1. Init => DataRight
  <2> SUFFICES ASSUME Init PROVE DataRight
    OBVIOUS
  <2>1. chain = <<>> /\ pc = "idle"
    BY DEF Init
  <2>2. Len(chain) = 0
    BY <2>1
  <2> QED
    BY <2>1, <2>2 DEF DataRight, Filled
<1>2. IInv /\ DataRight /\ [Next]_vars => DataRight'
  <2>1. DataRight /\ UNCHANGED vars => DataRight'
    BY DEF DataRight, vars
  <2> QED
    BY <2>1, NextOrder
<1> QED
  BY <1>1, <1>2, IInvHolds, PTL DEF Spec

(* In every history of calls of the same kind: a sorted list stays sorted  *)
(* through every call but linkedlist_add and linkedlist_insert, an         *)
(* insertion beside or in the place of an equal element included, and each *)
(* turn of each loop comes nearer to the end of the list, so that every    *)
(* call returns.                                                           *)
THEOREM StepsAreRight == ASSUME ~FirstByData, ~DelFails PROVE Spec => StepsRight
<1>1. ASSUME IInv, DataRight, IInv', [Next]_vars
      PROVE  /\ [Sorted /\ (call # NULL => call.op \notin {"add", "insert"}) => Sorted']_vars
             /\ [pc' = pc /\ pc \notin {"idle", "start"} => Ahead' < Ahead]_vars
  BY <1>1, NextOrder, StepNearer
<1> QED
  BY <1>1, IInvHolds, DataRightHolds, PTL DEF Spec, StepsRight, StaysSorted, WalksEnd

-----------------------------------------------------------------------------
(* What each walk is for, and what it has passed over.                     *)
AskRight ==
  /\ pc = "idle" => call = NULL
  /\ pc \in {"fill", "seek"} => call.op = "get"
  /\ pc \in {"remove", "remove_last", "remove_data", "clear"} => call.op = pc
  /\ pc = "remove_data" => \A j \in 1 .. i : data[chain[j]] # call.data
  /\ pc = "sorted" => /\ call.op \in {"insert_sorted", "insert_replacing"}
                      /\ call.op = "insert_replacing" =>
                           \A j \in 1 .. i : Key[data[chain[j]]] # Key[call.data]

LEMMA ReturnAsk == ASSUME pc' = "idle", call' = NULL PROVE AskRight'
  BY DEF AskRight

LEMMA WalkAsk ==
  ASSUME AskRight, pc' = pc, call' = call, pc \notin {"remove_data", "sorted"}
  PROVE  AskRight'
  BY DEF AskRight

LEMMA LinkAsk == ASSUME NEW m \in Nodes, Link(m) PROVE AskRight'
<1>1. CASE Add(m) \/ InsertLast(m) \/ InsertFirst(m)
  BY <1>1, ReturnAsk DEF Add, InsertLast, InsertFirst, Return
<1>2. CASE InsertWalk(m)
  <2>1. pc' = "insert"
    BY <1>2 DEF InsertWalk, Go
  <2> QED
    BY <2>1 DEF AskRight
<1>3. CASE SortedStart(m)
  <2>1. pc' = "sorted" /\ call' = call /\ i' = 0 /\ call.op \in {"insert_sorted", "insert_replacing"}
    BY <1>3 DEF SortedStart, Go
  <2> QED
    BY <2>1 DEF AskRight
<1> QED
  BY <1>1, <1>2, <1>3 DEF Link

LEMMA InsertAsk == ASSUME IInv, DataRight, AskRight, Insert PROVE AskRight'
<1>1. CASE InsertHere \/ SortedHere \/ SortedReplace
  BY <1>1, ReturnAsk DEF InsertHere, SortedHere, SortedReplace, Return
<1>2. CASE InsertOn
  BY <1>2, WalkAsk DEF InsertOn
<1>3. CASE SortedOn
  <2>1. /\ pc = "sorted" /\ At # NULL /\ ~Replaces /\ i' = i + 1
        /\ UNCHANGED <<pc, call, chain, data, new>>
    BY <1>3 DEF SortedOn, Precedes, memory
  <2>2. i \in 0 .. size /\ At = NodeAt(chain, i + 1) /\ size = Len(chain) /\ size \in Nat
    BY <2>1, SortedFacts, BodyFacts
  <2>3. i + 1 \in 1 .. Len(chain) /\ At = chain[i + 1]
    BY <2>1, <2>2 DEF NodeAt
  <2>4. call.data \in Data /\ data[At] \in Data
    BY <2>1, <2>3 DEF DataRight, Filled
  <2>5. call.op = "insert_replacing" => Key[data[chain[i + 1]]] # Key[call.data]
    BY <2>1, <2>3, <2>4, KeyTyped DEF Replaces, Cmp
  <2>6. \A j \in 1 .. i + 1 : j \in 1 .. i \/ j = i + 1
    BY <2>2
  <2>7. call.op = "insert_replacing" =>
          \A j \in 1 .. i + 1 : Key[data[chain[j]]] # Key[call.data]
    BY <2>1, <2>5, <2>6 DEF AskRight
  <2> QED
    BY <2>1, <2>7 DEF AskRight
<1> QED
  BY <1>1, <1>2, <1>3 DEF Insert

LEMMA GetAsk == ASSUME AskRight, Get PROVE AskRight'
<1>1. CASE GetEnd \/ FillHere \/ SeekHere \/ GetLast
  BY <1>1, ReturnAsk DEF GetEnd, FillHere, SeekHere, GetLast, Return
<1>2. CASE GetFill \/ GetSeek
  <2>1. pc' \in {"fill", "seek"} /\ call' = call /\ call.op = "get"
    BY <1>2 DEF GetFill, GetSeek, Middle, Start, Go
  <2> QED
    BY <2>1 DEF AskRight
<1>3. CASE FillOn
  BY <1>3, WalkAsk DEF FillOn
<1>4. CASE SeekOn
  <2>1. pc = "seek" /\ ((pc' = pc /\ call' = call) \/ (pc' = "idle" /\ call' = NULL))
    BY <1>4 DEF SeekOn, Return
  <2> QED
    BY <2>1, WalkAsk, ReturnAsk
<1> QED
  BY <1>1, <1>2, <1>3, <1>4 DEF Get

LEMMA RemovalAsk == ASSUME IInv, AskRight, Removal PROVE AskRight'
<1>1. CASE \/ RemoveNone \/ RemoveHead \/ RemoveHere \/ RemoveOnly \/ LastHere \/ DataFirst
           \/ DataMissing \/ DataHere
  BY <1>1, ReturnAsk DEF RemoveNone, RemoveHead, RemoveHere, RemoveOnly, LastHere, DataFirst,
     DataMissing, DataHere, Return
<1>2. CASE RemoveWalk \/ LastWalk
  <2>1. pc' \in {"remove", "remove_last"} /\ call' = call /\ call.op = pc'
    BY <1>2 DEF RemoveWalk, LastWalk, Start, Go
  <2> QED
    BY <2>1 DEF AskRight
<1>3. CASE RemoveOn \/ LastOn
  BY <1>3, WalkAsk DEF RemoveOn, LastOn
<1>4. CASE DataWalk
  <2>1. /\ pc = "start" /\ pc' = "remove_data" /\ call' = call /\ call.op = "remove_data" /\ i' = 1
        /\ size # 0 /\ data[first] # call.data /\ chain' = chain /\ data' = data
    BY <1>4 DEF DataWalk, Start, Go, Still, links, memory
  <2>2. first = chain[1]
    BY <2>1, StartFacts, BodyFacts
  <2>3. \A j \in 1 .. 1 : j = 1
    OBVIOUS
  <2> QED
    BY <2>1, <2>2, <2>3 DEF AskRight
<1>5. CASE DataOn
  <2>1. /\ pc = "remove_data" /\ ptr[n] # NULL /\ ~Matches /\ i' = i + 1
        /\ UNCHANGED <<pc, call, chain, data>>
    BY <1>5 DEF DataOn, Still, links, memory
  <2>2. ptr[n] = chain[i + 1] /\ i \in 1 .. size
    BY <2>1, DataWalkFacts
  <2>3. data[chain[i + 1]] # call.data
    BY <2>1, <2>2 DEF Matches
  <2>4. \A j \in 1 .. i + 1 : j \in 1 .. i \/ j = i + 1
    BY <2>2
  <2>5. \A j \in 1 .. i + 1 : data[chain[j]] # call.data
    BY <2>1, <2>3, <2>4 DEF AskRight
  <2> QED
    BY <2>1, <2>5 DEF AskRight
<1> QED
  BY <1>1, <1>2, <1>3, <1>4, <1>5 DEF Removal

LEMMA ClearAsk == ASSUME AskRight, Clear PROVE AskRight'
<1>1. CASE ClearStart
  <2>1. pc' = "clear" /\ call' = call /\ call.op = "clear"
    BY <1>1 DEF ClearStart, Start, Go
  <2> QED
    BY <2>1 DEF AskRight
<1>2. CASE ClearOn
  BY <1>2, WalkAsk DEF ClearOn
<1>3. CASE ClearEnd
  BY <1>3, ReturnAsk DEF ClearEnd, Return
<1> QED
  BY <1>1, <1>2, <1>3 DEF Clear

LEMMA NextAsk == ASSUME IInv, DataRight, AskRight, Next PROVE AskRight'
<1>1. ASSUME NEW c \in Calls, Call(c) PROVE AskRight'
  <2>1. pc' = "start"
    BY <1>1 DEF Call
  <2> QED
    BY <2>1 DEF AskRight
<1>2. CASE Refuse
  BY <1>2, ReturnAsk DEF Refuse, Return
<1> QED
  BY <1>1, <1>2, LinkAsk, InsertAsk, GetAsk, RemovalAsk, ClearAsk DEF Next, Step

-----------------------------------------------------------------------------
(* The data of the nodes in c, in their order: what the caller sees.       *)
View(c, d) == [k \in 1 .. Len(c) |-> d[c[k]]]

LEMMA ViewTyped ==
  ASSUME NEW c \in Seq(Nodes), NEW d, Filled(c, d)
  PROVE  /\ View(c, d) \in Seq(Data) /\ Len(View(c, d)) = Len(c)
         /\ \A k \in 1 .. Len(c) : View(c, d)[k] = d[c[k]]
<1>1. Len(c) \in Nat
  BY LenProperties
<1>2. View(c, d) \in [1 .. Len(c) -> Data]
  BY DEF View, Filled
<1>3. View(c, d) \in Seq(Data) /\ Len(View(c, d)) = Len(c)
  BY <1>1, <1>2, IsASeq, LenProperties
<1> QED
  BY <1>3 DEF View

LEMMA ViewEmpty == ASSUME NEW c \in Seq(Nodes), Len(c) = 0, NEW d PROVE View(c, d) = <<>>
<1>1. Filled(c, d)
  BY DEF Filled
<1>2. View(c, d) \in Seq(Data) /\ Len(View(c, d)) = 0
  BY <1>1, ViewTyped
<1> QED
  BY <1>2, EmptySeq

LEMMA ViewApart ==
  ASSUME NEW c, NEW d, NEW b, \A k \in 1 .. Len(c) : b[c[k]] = d[c[k]]
  PROVE  View(c, b) = View(c, d)
  BY DEF View

LEMMA ViewInsert ==
  ASSUME NEW c \in Seq(Nodes), NEW k \in 0 .. Len(c), NEW m \in Nodes,
         NEW d, Filled(c, d), d[m] \in Data
  PROVE  View(InsertAt(c, k + 1, m), d) = InsertAt(View(c, d), k + 1, d[m])
<1>1. PICK t : t = InsertAt(c, k + 1, m)
  OBVIOUS
<1>2. PICK v : v = InsertAt(View(c, d), k + 1, d[m])
  OBVIOUS
<1>3. PICK u : u = View(c, d)
  OBVIOUS
<1>4. u \in Seq(Data) /\ Len(u) = Len(c) /\ \A j \in 1 .. Len(c) : u[j] = d[c[j]]
  BY <1>3, ViewTyped
<1>5. Len(c) \in Nat /\ k + 1 \in 1 .. Len(c) + 1 /\ (k + 1) - 1 = k
  BY LenProperties
<1>6. t \in Seq(Nodes) /\ HasInserted(t, c, k + 1, m)
  BY <1>1, <1>5, InsertAtFacts
<1>7. v \in Seq(Data) /\ HasInserted(v, u, k + 1, d[m])
  <2>1. k + 1 \in 1 .. Len(u) + 1 /\ v = InsertAt(u, k + 1, d[m])
    BY <1>2, <1>3, <1>4, <1>5
  <2> QED
    BY <1>4, <2>1, InsertAtFacts
<1>8. Filled(t, d)
  BY <1>1, OrderInsert
<1>9. View(t, d) \in Seq(Data) /\ Len(View(t, d)) = Len(t)
      /\ \A j \in 1 .. Len(t) : View(t, d)[j] = d[t[j]]
  BY <1>6, <1>8, ViewTyped
<1>10. Len(t) = Len(c) + 1 /\ Len(v) = Len(c) + 1
  BY <1>4, <1>6, <1>7 DEF HasInserted
<1>11. ASSUME NEW j \in 1 .. Len(c) + 1 PROVE d[t[j]] = v[j]
  <2>1. CASE j \in 1 .. (k + 1) - 1
    <3>1. j \in 1 .. Len(c)
      BY <1>5, <2>1
    <3> QED
      BY <1>4, <1>6, <1>7, <2>1, <3>1 DEF HasInserted
  <2>2. CASE j = k + 1
    BY <1>6, <1>7, <2>2 DEF HasInserted
  <2>3. CASE j \in (k + 1) + 1 .. Len(c) + 1
    <3>1. j - 1 \in 1 .. Len(c)
      BY <1>5, <2>3
    <3> QED
      BY <1>4, <1>6, <1>7, <2>3, <3>1 DEF HasInserted
  <2> QED
    BY <1>5, <2>1, <2>2, <2>3
<1>12. View(t, d) = v
  BY <1>7, <1>9, <1>10, <1>11, SeqEqual
<1> QED
  BY <1>1, <1>2, <1>12

LEMMA ViewRemove ==
  ASSUME NEW c \in Seq(Nodes), NEW k \in 1 .. Len(c), NEW d, Filled(c, d)
  PROVE  View(RemoveAt(c, k), d) = RemoveAt(View(c, d), k)
<1>1. PICK t : t = RemoveAt(c, k)
  OBVIOUS
<1>2. PICK u : u = View(c, d)
  OBVIOUS
<1>3. PICK v : v = RemoveAt(u, k)
  OBVIOUS
<1>4. u \in Seq(Data) /\ Len(u) = Len(c) /\ \A j \in 1 .. Len(c) : u[j] = d[c[j]]
  BY <1>2, ViewTyped
<1>5. Len(c) \in Nat
  BY LenProperties
<1>6. /\ t \in Seq(Nodes) /\ Len(t) = Len(c) - 1
      /\ \A j \in 1 .. k - 1 : t[j] = c[j]
      /\ \A j \in k .. Len(c) - 1 : t[j] = c[j + 1]
  BY <1>1, RemoveAtFacts
<1>7. /\ v \in Seq(Data) /\ Len(v) = Len(c) - 1
      /\ \A j \in 1 .. k - 1 : v[j] = u[j]
      /\ \A j \in k .. Len(c) - 1 : v[j] = u[j + 1]
  <2>1. k \in 1 .. Len(u)
    BY <1>4
  <2> QED
    BY <1>3, <1>4, <2>1, RemoveAtFacts
<1>8. Filled(t, d)
  BY <1>1, OrderRemove
<1>9. View(t, d) \in Seq(Data) /\ Len(View(t, d)) = Len(t)
      /\ \A j \in 1 .. Len(t) : View(t, d)[j] = d[t[j]]
  BY <1>6, <1>8, ViewTyped
<1>10. ASSUME NEW j \in 1 .. Len(c) - 1 PROVE d[t[j]] = v[j]
  <2>1. CASE j \in 1 .. k - 1
    <3>1. j \in 1 .. Len(c)
      BY <1>5, <2>1
    <3> QED
      BY <1>4, <1>6, <1>7, <2>1, <3>1
  <2>2. CASE j \in k .. Len(c) - 1
    <3>1. j + 1 \in 1 .. Len(c)
      BY <1>5, <2>2
    <3> QED
      BY <1>4, <1>6, <1>7, <2>2, <3>1
  <2> QED
    BY <1>5, <2>1, <2>2
<1>11. View(t, d) = v
  BY <1>6, <1>7, <1>9, <1>10, SeqEqual
<1> QED
  BY <1>1, <1>2, <1>3, <1>11

LEMMA ViewReplace ==
  ASSUME NEW c \in Seq(Nodes), NEW k \in 1 .. Len(c), NEW m \in Nodes,
         NEW d, Filled(c, d), d[m] \in Data
  PROVE  View(ReplaceAt(c, k, m), d) = ReplaceAt(View(c, d), k, d[m])
<1>1. PICK t : t = ReplaceAt(c, k, m)
  OBVIOUS
<1>2. PICK u : u = View(c, d)
  OBVIOUS
<1>3. PICK v : v = ReplaceAt(u, k, d[m])
  OBVIOUS
<1>4. u \in Seq(Data) /\ Len(u) = Len(c) /\ \A j \in 1 .. Len(c) : u[j] = d[c[j]]
  BY <1>2, ViewTyped
<1>5. t \in Seq(Nodes) /\ HasReplaced(t, c, k, m)
  BY <1>1, ReplaceAtFacts
<1>6. v \in Seq(Data) /\ HasReplaced(v, u, k, d[m])
  <2>1. k \in 1 .. Len(u)
    BY <1>4
  <2> QED
    BY <1>3, <1>4, <2>1, ReplaceAtFacts
<1>7. Filled(t, d)
  BY <1>4, <1>5 DEF HasReplaced, Filled
<1>8. View(t, d) \in Seq(Data) /\ Len(View(t, d)) = Len(t)
      /\ \A j \in 1 .. Len(t) : View(t, d)[j] = d[t[j]]
  BY <1>5, <1>7, ViewTyped
<1>9. Len(t) = Len(c) /\ Len(v) = Len(c) /\ \A j \in 1 .. Len(c) : d[t[j]] = v[j]
  BY <1>4, <1>5, <1>6 DEF HasReplaced
<1>10. View(t, d) = v
  BY <1>6, <1>8, <1>9, SeqEqual
<1> QED
  BY <1>1, <1>2, <1>3, <1>10

-----------------------------------------------------------------------------
(* The list of List that the nodes stand for, and when a step of List is   *)
(* taken.                                                                  *)
Seen == View(chain, data)

Asked(op)     == call # NULL /\ call.op = op
Serves(op, a) == Asked(op) /\ call' = NULL /\ ret' = a

Place(K) == IF K = {} THEN Len(Seen) + 1 ELSE Min(K)
Above    == {k \in 1 .. Len(Seen) : Key[Seen[k]] > Key[call.data]}
Upon     == {k \in 1 .. Len(Seen) : Key[Seen[k]] >= Key[call.data]}
Same     == {k \in 1 .. Len(Seen) : Seen[k] = call.data}

LEMMA DoNothing ==
  ASSUME Seen' = Seen, call' = call, ret' = ret
  PROVE  UNCHANGED L!vars
  BY DEF L!vars, Seen, View

LEMMA DoRequest ==
  ASSUME call = NULL, call' \in Calls, ret' = NULL, Seen' = Seen
  PROVE  L!Next
  BY DEF L!Next, L!Request, Seen, View

LEMMA DoRefuse ==
  ASSUME NEW op \in Growing, Serves(op, Fail), Seen' = Seen
  PROVE  L!Next
  BY DEF L!Next, L!Refuse, L!Serve, L!Asked, L!Growing, L!Fail, Growing, Fail,
         Serves, Asked, Seen, View

LEMMA DoAdd ==
  ASSUME Serves("add", Done), Len(Seen) \in Nat, Len(Seen) < MaxSize,
         Seen' = InsertAt(Seen, Len(Seen) + 1, call.data)
  PROVE  L!Next
<1>1. Len(Seen) + 1 \in 1 .. Len(Seen) + 1
  OBVIOUS
<1> QED
  BY <1>1 DEF L!Next, L!Add, L!Grow, L!Serve, L!Asked, L!Done, L!InsertAt, InsertAt, Done,
         Serves, Asked, Seen, View

LEMMA DoInsert ==
  ASSUME Serves("insert", Done), Len(Seen) < MaxSize, call.idx + 1 \in 1 .. Len(Seen) + 1,
         Seen' = InsertAt(Seen, call.idx + 1, call.data)
  PROVE  L!Next
  BY DEF L!Next, L!Insert, L!Grow, L!Serve, L!Asked, L!Done, L!InsertAt, InsertAt, Done,
         Serves, Asked, Seen, View

LEMMA PlaceIs ==
  ASSUME NEW K, NEW k \in 1 .. Len(Seen) + 1, K \subseteq 1 .. Len(Seen), Len(Seen) \in Nat,
         \A j \in 1 .. k - 1 : j \notin K, k <= Len(Seen) => k \in K
  PROVE  Place(K) = k
<1>1. CASE k = Len(Seen) + 1
  <2>1. K = {}
    BY <1>1
  <2> QED
    BY <1>1, <2>1 DEF Place
<1>2. CASE k <= Len(Seen)
  <2>1. k \in K /\ \A j \in K : j \in Nat /\ k <= j
    BY <1>2
  <2>2. Min(K) = k
    <3>1. \A m : m \in K /\ (\A j \in K : m <= j) => m = k
      BY <2>1
    <3> QED
      BY <2>1, <3>1 DEF Min
  <2> QED
    BY <2>1, <2>2 DEF Place
<1> QED
  BY <1>1, <1>2

LEMMA DoSorted ==
  ASSUME NEW k \in Nat, Place(Above) = k + 1, k + 1 \in 1 .. Len(Seen) + 1,
         Serves("insert_sorted", <<k, NULL>>), Len(Seen) < MaxSize,
         Seen' = InsertAt(Seen, k + 1, call.data)
  PROVE  L!Next
<1>1. L!Above = Place(Above)
  BY DEF L!Above, L!Place, L!Min, Min, Place, Above, Seen, View
<1>2. <<L!Above - 1, NULL>> = <<k, NULL>>
  BY <1>1
<1>3. L!Grow("insert_sorted", L!Above, <<L!Above - 1, NULL>>)
  BY <1>1, <1>2 DEF L!Grow, L!Serve, L!Asked, L!InsertAt, InsertAt, Serves, Asked, Seen, View
<1>4. <<L!Above - 1, NULL>> \in L!Answers(L!Above, NULL)
  BY DEF L!Answers
<1>5. \E r \in L!Answers(L!Above, NULL) : L!Grow("insert_sorted", L!Above, r)
  BY <1>3, <1>4, Zenon DEF L!Grow, L!Serve
<1>6. L!Asked("insert_sorted")
  BY DEF L!Asked, Serves, Asked
<1>7. L!InsertSorted
  BY <1>5, <1>6, Zenon DEF L!InsertSorted
<1> QED
  BY <1>7 DEF L!Next

LEMMA DoReplacing ==
  ASSUME NEW k \in Nat, Place(Upon) = k + 1, k + 1 \in 1 .. Len(Seen) + 1,
         \/ /\ k = Len(Seen) \/ Key[Seen[k + 1]] # Key[call.data]
            /\ Serves("insert_replacing", <<k, NULL>>)
            /\ Len(Seen) < MaxSize
            /\ Seen' = InsertAt(Seen, k + 1, call.data)
         \/ /\ k < Len(Seen) /\ Key[Seen[k + 1]] = Key[call.data]
            /\ Serves("insert_replacing", <<k, Seen[k + 1]>>)
            /\ Seen' = ReplaceAt(Seen, k + 1, call.data),
         Len(Seen) \in Nat
  PROVE  L!Next
<1>1. L!Upon = k + 1
  BY DEF L!Upon, L!Place, L!Min, Min, Place, Upon, Seen, View
<1>2. <<L!Upon - 1, NULL>> = <<k, NULL>> /\ <<L!Upon - 1, Seen[L!Upon]>> = <<k, Seen[k + 1]>>
  BY <1>1
<1>3. L!Equal <=> k < Len(Seen) /\ Key[Seen[k + 1]] = Key[call.data]
  BY <1>1 DEF L!Equal, Seen, View
<1>4. Asked("insert_replacing")
  BY DEF Serves
<1>5. CASE k < Len(Seen) /\ Key[Seen[k + 1]] = Key[call.data]
  <2>1. Serves("insert_replacing", <<k, Seen[k + 1]>>) /\ Seen' = ReplaceAt(Seen, k + 1, call.data)
    BY <1>5
  <2>2. L!Serve("insert_replacing", <<L!Upon - 1, Seen[L!Upon]>>)
    BY <1>2, <2>1 DEF L!Serve, L!Asked, Serves, Asked
  <2>3. <<L!Upon - 1, Seen[L!Upon]>> \in L!Answers(L!Upon, Seen[L!Upon])
    BY DEF L!Answers
  <2>4. \E r \in L!Answers(L!Upon, Seen[L!Upon]) : L!Serve("insert_replacing", r)
    BY <2>2, <2>3, Zenon
  <2> QED
    BY <1>1, <1>3, <1>4, <1>5, <2>1, <2>4 DEF L!Next, L!InsertReplacing, L!Asked,
       L!ReplaceAt, ReplaceAt, Asked, Seen, View
<1>6. CASE ~(k < Len(Seen) /\ Key[Seen[k + 1]] = Key[call.data])
  <2>1. /\ Serves("insert_replacing", <<k, NULL>>) /\ Len(Seen) < MaxSize
        /\ Seen' = InsertAt(Seen, k + 1, call.data)
    BY <1>6
  <2>2. L!Grow("insert_replacing", L!Upon, <<L!Upon - 1, NULL>>)
    BY <1>1, <1>2, <2>1 DEF L!Grow, L!Serve, L!Asked, L!InsertAt, InsertAt, Serves, Asked,
       Seen, View
  <2>3. <<L!Upon - 1, NULL>> \in L!Answers(L!Upon, NULL)
    BY DEF L!Answers
  <2>4. \E r \in L!Answers(L!Upon, NULL) : L!Grow("insert_replacing", L!Upon, r)
    BY <2>2, <2>3, Zenon DEF L!Grow, L!Serve
  <2> QED
    BY <1>3, <1>4, <1>6, <2>4, Zenon DEF L!Next, L!InsertReplacing, L!Asked, Asked
<1> QED
  BY <1>5, <1>6

LEMMA DoGet ==
  ASSUME NEW d, Serves("get", d), Seen' = Seen,
         d = IF call.idx < Len(Seen) THEN Found(Seen[call.idx + 1]) ELSE Done
  PROVE  L!Next
  BY DEF L!Next, L!Get, L!Serve, L!Asked, L!Found, L!Done, Found, Done, Serves, Asked, Seen, View

LEMMA DoGetLast ==
  ASSUME NEW d, Serves("get_last", d), Seen' = Seen, Seen \in Seq(Data),
         d = IF Len(Seen) # 0 THEN Found(Seen[Len(Seen)]) ELSE Done
  PROVE  L!Next
<1>1. Seen # <<>> <=> Len(Seen) # 0
  BY EmptySeq
<1>2. ret' = IF Seen # <<>> THEN Found(Last(Seen)) ELSE Done
  BY <1>1 DEF Serves, Last
<1> QED
  BY <1>2 DEF L!Next, L!GetLast, L!Serve, L!Asked, L!Found, L!Done, L!Last, Last, Found, Done,
     Serves, Asked, Seen, View

(* An element is taken from the place k, if there is one.                  *)
Takes(op, k) == IF k \in 1 .. Len(Seen)
                THEN Serves(op, Found(Seen[k])) /\ Seen' = RemoveAt(Seen, k)
                ELSE Serves(op, Done) /\ Seen' = Seen

LEMMA DoRemove == ASSUME Asked("remove"), Takes("remove", call.idx + 1) PROVE L!Next
  BY DEF L!Next, L!RemoveIdx, L!Take, L!Serve, L!Asked, L!Found, L!Done, L!RemoveAt, RemoveAt,
         Found, Done, Takes, Serves, Asked, Seen, View

LEMMA DoRemoveLast == ASSUME Takes("remove_last", Len(Seen)) PROVE L!Next
  BY DEF L!Next, L!RemoveLast, L!Take, L!Serve, L!Asked, L!Found, L!Done, L!RemoveAt, RemoveAt,
         Found, Done, Takes, Serves, Asked, Seen, View

LEMMA DoRemoveData ==
  ASSUME Asked("remove_data"), NEW k, Place(Same) = k, Takes("remove_data", k)
  PROVE  L!Next
<1>1. L!Same = Place(Same)
  BY Zenon DEF L!Same, L!Place, L!Min, Min, Place, Same, Seen, View
<1>2. L!Same = k
  BY <1>1
<1> QED
  BY <1>2 DEF L!Next, L!RemoveData, L!Take, L!Serve, L!Asked, L!Found, L!Done, L!RemoveAt,
         RemoveAt, Found, Done, Takes, Serves, Asked, Seen, View

LEMMA DoClear == ASSUME Serves("clear", Done), Seen' = <<>> PROVE L!Next
  BY DEF L!Next, L!Clear, L!Serve, L!Asked, L!Done, Done, Serves, Asked, Seen, View

-----------------------------------------------------------------------------
(* Every step is a step of List on the data that are seen, or changes      *)
(* nothing of it.                                                          *)
Mapped == L!Next \/ UNCHANGED L!vars

LEMMA SeenFacts ==
  ASSUME IInv, DataRight
  PROVE  /\ Seen \in Seq(Data) /\ Len(Seen) = size /\ size \in Nat
         /\ chain \in Seq(Nodes) /\ Len(chain) = size
         /\ \A k \in 1 .. size : Seen[k] = data[chain[k]] /\ Seen[k] \in Data
<1>1. Body
  BY IInvIs
<1>2. chain \in Seq(Nodes) /\ Len(chain) = size /\ size \in Nat
  BY <1>1, BodyFacts
<1>3. Filled(chain, data)
  BY DEF DataRight
<1> QED
  BY <1>2, <1>3, ViewTyped DEF Seen, Filled

LEMMA AskedIs ==
  ASSUME IInv, pc # "idle"
  PROVE  /\ call # NULL /\ call \in Calls
         /\ \A op : Asked(op) <=> call.op = op
<1>1. call \in Calls
  BY DEF IInv, Granted
<1>2. call # NULL
  BY <1>1, LinkedlistAssumption
<1> QED
  BY <1>1, <1>2 DEF Asked

LEMMA StayMapped ==
  ASSUME chain' = chain, data' = data, call' = call, ret' = ret
  PROVE  Mapped
<1>1. Seen' = Seen
  BY DEF Seen
<1> QED
  BY <1>1, DoNothing DEF Mapped

(* A node m is linked in at k: so is its data.                             *)
LEMMA SeenGrown ==
  ASSUME chain \in Seq(Nodes), NEW k \in 0 .. Len(chain), NEW m \in Nodes, Grown(k, m),
         Filled(chain, data'), data'[m] = call.data, call.data \in Data,
         \A j \in 1 .. Len(chain) : data'[chain[j]] = data[chain[j]]
  PROVE  Seen' = InsertAt(Seen, k + 1, call.data)
<1>1. PICK b : b = data'
  OBVIOUS
<1>2. View(InsertAt(chain, k + 1, m), b) = InsertAt(View(chain, b), k + 1, call.data)
  BY <1>1, ViewInsert
<1>3. View(chain, b) = Seen
  BY <1>1, ViewApart DEF Seen
<1>4. Seen' = View(InsertAt(chain, k + 1, m), b)
  BY <1>1 DEF Seen, Grown
<1> QED
  BY <1>2, <1>3, <1>4

LEMMA ObtainSeen ==
  ASSUME IInv, DataRight, pc = "start", NEW m \in Nodes, Obtain(m), call.op \in Growing
  PROVE  /\ Filled(chain, data') /\ data'[m] = call.data /\ call.data \in Data
         /\ \A j \in 1 .. Len(chain) : data'[chain[j]] = data[chain[j]]
<1>1. data' = [data EXCEPT ![m] = call.data] /\ Outside(m, chain)
  BY ObtainFacts DEF Obtain
<1>2. Body
  BY StartFacts
<1>3. \A j \in 1 .. Len(chain) : data'[chain[j]] = data[chain[j]]
  BY <1>1, <1>2, BodyFacts DEF Outside, Body
<1> QED
  BY <1>3, AddOrder

LEMMA LinkMapped ==
  ASSUME IInv, DataRight, AskRight, NEW m \in Nodes, Link(m)
  PROVE  Mapped
<1>1. pc = "start" /\ Obtain(m) /\ call.op \in Growing /\ size # MaxSize
  BY DEF Link, Add, InsertLast, InsertFirst, InsertWalk, SortedStart, Start, Growing, Admitted
<1>2. /\ Filled(chain, data') /\ data'[m] = call.data /\ call.data \in Data
      /\ \A j \in 1 .. Len(chain) : data'[chain[j]] = data[chain[j]]
  BY <1>1, ObtainSeen
<1>3. /\ Len(Seen) = size /\ size \in Nat /\ chain \in Seq(Nodes) /\ Len(chain) = size
  BY SeenFacts
<1>4. call # NULL /\ call \in Calls /\ Body
  BY <1>1, AskedIs, StartFacts
<1>5. Len(Seen) < MaxSize
  BY <1>1, <1>3, <1>4, BodyFacts
<1>6. CASE Add(m)
  <2>1. Grown(size, m) /\ Serves("add", Done)
    BY <1>4, <1>6 DEF Add, Return, Start, Serves, Asked
  <2>2. Seen' = InsertAt(Seen, size + 1, call.data)
    BY <1>2, <1>3, <2>1, SeenGrown
  <2> QED
    BY <1>3, <1>5, <2>1, <2>2, DoAdd DEF Mapped
<1>7. CASE InsertLast(m)
  <2>1. Grown(size, m) /\ Serves("insert", Done) /\ ~(call.idx > size) /\ (size = 0 \/ call.idx = size)
    BY <1>4, <1>7 DEF InsertLast, Return, Start, Serves, Asked, Admitted
  <2>2. call.idx = size
    BY <1>3, <1>4, <2>1, CallFacts
  <2>3. Seen' = InsertAt(Seen, size + 1, call.data)
    BY <1>2, <1>3, <2>1, SeenGrown
  <2> QED
    BY <1>3, <1>5, <2>1, <2>2, <2>3, DoInsert DEF Mapped
<1>8. CASE InsertFirst(m)
  <2>1. Grown(0, m) /\ Serves("insert", Done) /\ call.idx = 0
    BY <1>4, <1>8 DEF InsertFirst, Return, Start, Serves, Asked
  <2>2. 0 \in 0 .. Len(chain)
    BY <1>3
  <2>3. Seen' = InsertAt(Seen, 0 + 1, call.data)
    BY <1>2, <1>3, <2>1, <2>2, SeenGrown
  <2>4. call.idx + 1 \in 1 .. Len(Seen) + 1 /\ call.idx + 1 = 0 + 1
    BY <1>3, <2>1
  <2> QED
    BY <1>5, <2>1, <2>3, <2>4, DoInsert DEF Mapped
<1>9. CASE InsertWalk(m) \/ SortedStart(m)
  <2>1. chain' = chain /\ call' = call /\ ret' = ret
    BY <1>9 DEF InsertWalk, SortedStart, Go
  <2>2. PICK b : b = data'
    OBVIOUS
  <2>3. View(chain, b) = View(chain, data)
    BY <1>2, <2>2, ViewApart
  <2>4. Seen' = Seen
    BY <2>1, <2>2, <2>3 DEF Seen
  <2> QED
    BY <2>1, <2>4, DoNothing DEF Mapped
<1> QED
  BY <1>6, <1>7, <1>8, <1>9 DEF Link

LEMMA SortedHereMapped ==
  ASSUME IInv, DataRight, AskRight, SortedHere PROVE Mapped
<1>1. /\ pc = "sorted" /\ Precedes /\ Grown(i, new) /\ data' = data
      /\ call' = NULL /\ ret' = <<i, NULL>>
  BY DEF SortedHere, Return, memory
<1>2. /\ i \in 0 .. size /\ i \in Nat /\ At = NodeAt(chain, i + 1) /\ size < MaxSize /\ new \in Nodes
      /\ NULL \notin Nodes /\ Body
  BY <1>1, SortedFacts, BodyFacts
<1>3. /\ Len(Seen) = size /\ size \in Nat /\ chain \in Seq(Nodes) /\ Len(chain) = size
      /\ \A k \in 1 .. size : Seen[k] = data[chain[k]] /\ Seen[k] \in Data
  BY SeenFacts
<1>4. /\ Filled(chain, data) /\ data[new] = call.data /\ call.data \in Data
      /\ \A j \in 1 .. i : Key[data[chain[j]]] <= Key[call.data]
  BY <1>1 DEF DataRight
<1>5. Seen' = InsertAt(Seen, i + 1, call.data)
  BY <1>1, <1>2, <1>3, <1>4, SeenGrown
<1>6. i < size => Key[Seen[i + 1]] > Key[call.data]
  <2> SUFFICES ASSUME i < size PROVE Key[Seen[i + 1]] > Key[call.data]
    OBVIOUS
  <2>1. i + 1 \in 1 .. size /\ At = chain[i + 1]
    BY <1>2, <1>3 DEF NodeAt
  <2>2. At # NULL
    BY <1>2, <2>1, BodyFacts
  <2>3. Cmp < 0 /\ Seen[i + 1] = data[At] /\ data[At] \in Data
    BY <1>1, <1>3, <2>1, <2>2 DEF Precedes
  <2> QED
    BY <1>4, <2>3, KeyTyped DEF Cmp
<1>7. \A j \in 1 .. i : j \in 1 .. size /\ Key[Seen[j]] <= Key[call.data] /\ Key[Seen[j]] \in Int
  <2> SUFFICES ASSUME NEW j \in 1 .. i
               PROVE  j \in 1 .. size /\ Key[Seen[j]] <= Key[call.data] /\ Key[Seen[j]] \in Int
    OBVIOUS
  <2>1. j \in 1 .. size
    BY <1>2, <1>3
  <2> QED
    BY <1>3, <1>4, <2>1, KeyTyped
<1>8. /\ i + 1 \in 1 .. Len(Seen) + 1 /\ (i + 1) - 1 = i
      /\ i + 1 <= Len(Seen) => i < size /\ i + 1 \in 1 .. size
  BY <1>2, <1>3
<1>9. Key[call.data] \in Int
  BY <1>4, KeyTyped
<1>10. CASE call.op = "insert_sorted"
  <2>1. Serves("insert_sorted", <<i, NULL>>)
    BY <1>1, <1>10, AskedIs DEF Serves
  <2>2. \A j \in 1 .. (i + 1) - 1 : j \notin Above
    BY <1>7, <1>8, <1>9 DEF Above
  <2>3. i + 1 <= Len(Seen) => i + 1 \in Above
    BY <1>3, <1>6, <1>8 DEF Above
  <2>4. Above \subseteq 1 .. Len(Seen) /\ Len(Seen) \in Nat
    BY <1>3 DEF Above
  <2>5. Place(Above) = i + 1
    BY <1>8, <2>2, <2>3, <2>4, PlaceIs
  <2> QED
    BY <1>2, <1>3, <1>5, <1>8, <2>1, <2>5, DoSorted DEF Mapped
<1>11. CASE call.op = "insert_replacing"
  <2>1. Serves("insert_replacing", <<i, NULL>>)
    BY <1>1, <1>11, AskedIs DEF Serves
  <2>2. \A j \in 1 .. (i + 1) - 1 : j \notin Upon
    <3>1. \A j \in 1 .. i : Key[data[chain[j]]] # Key[call.data]
      BY <1>1, <1>11 DEF AskRight
    <3>2. \A j \in 1 .. i : Key[Seen[j]] < Key[call.data]
      BY <1>3, <1>7, <1>9, <3>1
    <3> QED
      BY <1>7, <1>8, <1>9, <3>2 DEF Upon
  <2>3. i + 1 <= Len(Seen) => i + 1 \in Upon /\ Key[Seen[i + 1]] # Key[call.data]
    <3> SUFFICES ASSUME i + 1 <= Len(Seen)
                 PROVE  i + 1 \in Upon /\ Key[Seen[i + 1]] # Key[call.data]
      OBVIOUS
    <3>1. i + 1 \in 1 .. size /\ Key[Seen[i + 1]] > Key[call.data] /\ Key[Seen[i + 1]] \in Int
      BY <1>3, <1>6, <1>8, KeyTyped
    <3> QED
      BY <1>3, <1>9, <3>1 DEF Upon
  <2>4. Upon \subseteq 1 .. Len(Seen) /\ Len(Seen) \in Nat
    BY <1>3 DEF Upon
  <2>5. Place(Upon) = i + 1
    BY <1>8, <2>2, <2>3, <2>4, PlaceIs
  <2>6. i = Len(Seen) \/ Key[Seen[i + 1]] # Key[call.data]
    BY <1>2, <1>3, <2>3
  <2> QED
    BY <1>2, <1>3, <1>5, <1>8, <2>1, <2>5, <2>6, DoReplacing DEF Mapped
<1> QED
  BY <1>1, <1>10, <1>11 DEF AskRight

LEMMA SortedReplaceMapped ==
  ASSUME IInv, DataRight, AskRight, SortedReplace PROVE Mapped
<1>1. /\ pc = "sorted" /\ At # NULL /\ Cmp = 0 /\ call.op = "insert_replacing"
      /\ chain' = ReplaceAt(chain, i + 1, new) /\ data' = data
      /\ call' = NULL /\ ret' = <<i, data[At]>>
  BY DEF SortedReplace, Replaces, Return
<1>2. /\ i \in 0 .. size /\ i \in Nat /\ At = NodeAt(chain, i + 1) /\ new \in Nodes
  BY <1>1, SortedFacts
<1>3. /\ Len(Seen) = size /\ size \in Nat /\ chain \in Seq(Nodes) /\ Len(chain) = size
      /\ \A k \in 1 .. size : Seen[k] = data[chain[k]] /\ Seen[k] \in Data
  BY SeenFacts
<1>4. /\ Filled(chain, data) /\ data[new] = call.data /\ call.data \in Data
      /\ \A j \in 1 .. i : Key[data[chain[j]]] <= Key[call.data]
      /\ \A j \in 1 .. i : Key[data[chain[j]]] # Key[call.data]
  BY <1>1 DEF DataRight, AskRight
<1>5. PICK k \in 1 .. size : k = i + 1 /\ At = chain[k]
  BY <1>1, <1>2, <1>3 DEF NodeAt
<1>6. Seen[k] = data[At] /\ Key[Seen[k]] = Key[call.data] /\ Key[call.data] \in Int
  BY <1>1, <1>3, <1>4, <1>5, KeyTyped DEF Cmp
<1>7. Seen' = ReplaceAt(Seen, k, call.data)
  BY <1>1, <1>2, <1>3, <1>4, <1>5, ViewReplace DEF Seen
<1>8. \A j \in 1 .. k - 1 : j \notin Upon
  <2> SUFFICES ASSUME NEW j \in 1 .. k - 1, j \in Upon PROVE FALSE
    OBVIOUS
  <2>1. j \in 1 .. i /\ j \in 1 .. size
    BY <1>2, <1>3, <1>5
  <2>2. Key[Seen[j]] \in Int /\ Key[Seen[j]] <= Key[call.data] /\ Key[Seen[j]] # Key[call.data]
    BY <1>3, <1>4, <2>1, KeyTyped
  <2> QED
    BY <1>6, <2>2 DEF Upon
<1>9. k \in Upon /\ Upon \subseteq 1 .. Len(Seen) /\ k \in 1 .. Len(Seen) + 1
  BY <1>3, <1>6 DEF Upon
<1>10. Place(Upon) = k
  BY <1>3, <1>8, <1>9, PlaceIs
<1>11. Serves("insert_replacing", <<i, Seen[k]>>)
  BY <1>1, <1>6, AskedIs DEF Serves
<1>12. i < Len(Seen)
  BY <1>2, <1>3, <1>5
<1> QED
  BY <1>2, <1>3, <1>5, <1>6, <1>7, <1>9, <1>10, <1>11, <1>12, DoReplacing DEF Mapped

LEMMA InsertMapped ==
  ASSUME IInv, DataRight, AskRight, Insert PROVE Mapped
<1>1. CASE InsertOn \/ SortedOn
  <2>1. chain' = chain /\ data' = data /\ call' = call /\ ret' = ret
    BY <1>1 DEF InsertOn, SortedOn, memory
  <2> QED
    BY <2>1, StayMapped
<1>2. CASE InsertHere
  <2>1. /\ pc = "insert" /\ Grown(call.idx, new) /\ data' = data /\ call' = NULL /\ ret' = Done
    BY <1>2 DEF InsertHere, Return, memory
  <2>2. /\ call.idx \in 1 .. size - 1 /\ new \in Nodes /\ size < MaxSize
    BY <2>1, WalkFacts DEF Walks, WalkRight
  <2>3. /\ Len(Seen) = size /\ size \in Nat /\ chain \in Seq(Nodes) /\ Len(chain) = size
    BY SeenFacts
  <2>4. Filled(chain, data) /\ data[new] = call.data /\ call.data \in Data /\ call.op = "insert"
    BY <2>1 DEF DataRight
  <2>5. call.idx \in 0 .. Len(chain) /\ call.idx + 1 \in 1 .. Len(Seen) + 1
    BY <2>2, <2>3
  <2>6. Seen' = InsertAt(Seen, call.idx + 1, call.data)
    BY <2>1, <2>2, <2>3, <2>4, <2>5, SeenGrown
  <2>7. Serves("insert", Done)
    BY <2>1, <2>4, AskedIs DEF Serves
  <2> QED
    BY <2>2, <2>3, <2>5, <2>6, <2>7, DoInsert DEF Mapped
<1> QED
  BY <1>1, <1>2, SortedHereMapped, SortedReplaceMapped DEF Insert

LEMMA GetMapped == ASSUME IInv, DataRight, AskRight, Get PROVE Mapped
<1>1. /\ Seen \in Seq(Data) /\ Len(Seen) = size /\ size \in Nat
      /\ \A k \in 1 .. size : Seen[k] = data[chain[k]] /\ Seen[k] \in Data
  BY SeenFacts
<1>2. chain' = chain /\ data' = data /\ Seen' = Seen
  BY DEF Get, GetEnd, GetFill, FillOn, FillHere, GetSeek, SeekOn, SeekHere, GetLast,
         Still, links, memory, Seen
<1>3. ASSUME NEW k \in 1 .. size, k = call.idx + 1, call.op = "get", pc # "idle", call' = NULL,
             call.idx \in Nat, ret' = Found(data[chain[k]])
      PROVE  Mapped
  <2>1. Serves("get", Found(Seen[call.idx + 1]))
    BY <1>1, <1>3, AskedIs DEF Serves
  <2>2. call.idx < Len(Seen)
    BY <1>1, <1>3
  <2> QED
    BY <1>2, <2>1, <2>2, DoGet DEF Mapped
<1>4. CASE GetEnd
  <2>1. /\ pc = "start" /\ call.op = "get" /\ (call.idx >= size \/ call.idx \in {0, size - 1})
        /\ call' = NULL
        /\ ret' = IF call.idx >= size THEN Done
                  ELSE IF call.idx = 0 THEN Found(data[first]) ELSE Found(data[last])
    BY <1>4 DEF GetEnd, Start, Return
  <2>2. Body /\ call \in Calls /\ call.idx \in Nat
    BY <2>1, StartFacts, CallFacts
  <2>3. CASE call.idx >= size
    <3>1. Serves("get", Done) /\ ~(call.idx < Len(Seen))
      BY <1>1, <2>1, <2>2, <2>3, AskedIs DEF Serves
    <3> QED
      BY <1>2, <3>1, DoGet DEF Mapped
  <2>4. CASE call.idx < size
    <3>1. PICK k \in 1 .. size : k = call.idx + 1
      BY <1>1, <2>2, <2>4
    <3>2. size > 0 /\ first = chain[1] /\ last = chain[size]
      BY <2>2, <2>4, BodyFacts
    <3>3. ret' = Found(data[chain[k]])
      BY <1>1, <2>1, <2>2, <2>4, <3>1, <3>2
    <3> QED
      BY <1>3, <2>1, <2>2, <3>1, <3>3
  <2> QED
    BY <1>1, <2>2, <2>3, <2>4
<1>5. CASE FillHere
  <2>1. pc = "fill" /\ ~(i < call.idx) /\ call' = NULL /\ ret' = Found(data[n])
    BY <1>5 DEF FillHere, Return
  <2>2. call.idx \in 1 .. size - 1 /\ i \in 0 .. call.idx /\ n = chain[i + 1] /\ call.op = "get"
    BY <2>1, WalkFacts DEF Walks, WalkRight, AskRight
  <2>3. PICK k \in 1 .. size : k = call.idx + 1 /\ k = i + 1 /\ call.idx \in Nat
    BY <1>1, <2>1, <2>2
  <2> QED
    BY <1>3, <2>1, <2>2, <2>3
<1>6. CASE SeekOn
  <2>1. /\ pc = "seek" /\ cacheIdx[slot] < call.idx
        /\ cacheEnt' = [cacheEnt EXCEPT ![slot] = ptr[cacheEnt[slot]]]
        /\ cacheEnt'[slot] # NULL => UNCHANGED <<pc, call, ret, locals>>
    BY <1>6 DEF SeekOn
  <2>2. Body /\ slot \in Slots /\ ptr[cacheEnt[slot]] \in Nodes
    BY <2>1, SeekFacts
  <2>3. cacheEnt'[slot] # NULL
    BY <2>1, <2>2, BodyFacts DEF Body
  <2> QED
    BY <1>2, <2>1, <2>3, StayMapped
<1>7. CASE SeekHere
  <2>1. /\ pc = "seek" /\ ~(cacheIdx[slot] < call.idx) /\ call' = NULL
        /\ ret' = Found(data[cacheEnt[slot]])
    BY <1>7 DEF SeekHere, Return
  <2>2. /\ call.idx \in 1 .. size - 1 /\ cacheIdx[slot] \in Nat /\ cacheIdx[slot] <= call.idx
        /\ cacheEnt[slot] = chain[cacheIdx[slot] + 1]
    BY <2>1, SeekFacts
  <2>3. PICK k \in 1 .. size : k = call.idx + 1 /\ call.idx \in Nat /\ cacheIdx[slot] = call.idx
    BY <1>1, <2>1, <2>2
  <2>4. call.op = "get" /\ ret' = Found(data[chain[k]])
    BY <2>1, <2>2, <2>3 DEF AskRight
  <2> QED
    BY <1>3, <2>1, <2>3, <2>4
<1>8. CASE GetFill \/ FillOn \/ GetSeek
  <2>1. call' = call /\ ret' = ret
    BY <1>8 DEF GetFill, FillOn, GetSeek, Go
  <2> QED
    BY <1>2, <2>1, StayMapped
<1>9. CASE GetLast
  <2>1. /\ pc = "start" /\ call.op = "get_last" /\ call' = NULL
        /\ ret' = IF size = 0 THEN Done ELSE Found(data[last])
    BY <1>9 DEF GetLast, Start, Return
  <2>2. size # 0 => last = chain[size] /\ size \in 1 .. size
    BY <1>1, <2>1, StartFacts, BodyFacts
  <2>3. ret' = IF Len(Seen) # 0 THEN Found(Seen[Len(Seen)]) ELSE Done
    BY <1>1, <2>1, <2>2
  <2>4. Serves("get_last", IF Len(Seen) # 0 THEN Found(Seen[Len(Seen)]) ELSE Done)
    BY <2>1, <2>3, AskedIs DEF Serves
  <2> QED
    BY <1>1, <1>2, <2>4, DoGetLast DEF Mapped
<1> QED
  BY <1>4, <1>5, <1>6, <1>7, <1>8, <1>9 DEF Get

(* The node at k + 1 leaves the list: so does its data.                    *)
LEMMA DropTakes ==
  ASSUME IInv, DataRight, pc # "idle", call' = NULL, NEW k \in 0 .. size - 1, NEW x,
         Drop(x, k), ret' = Found(data[chain[k + 1]])
  PROVE  Takes(call.op, k + 1)
<1>1. /\ Len(Seen) = size /\ size \in Nat /\ chain \in Seq(Nodes) /\ Len(chain) = size
      /\ \A j \in 1 .. size : Seen[j] = data[chain[j]]
  BY SeenFacts
<1>2. PICK j \in 1 .. size : j = k + 1
  BY <1>1
<1>3. Filled(chain, data)
  BY DEF DataRight
<1>4. chain' = RemoveAt(chain, j) /\ data' = data
  BY <1>2 DEF Drop
<1>5. Seen' = RemoveAt(Seen, j)
  BY <1>1, <1>3, <1>4, ViewRemove DEF Seen
<1>6. Serves(call.op, Found(Seen[j]))
  BY <1>1, <1>2, AskedIs DEF Serves
<1> QED
  BY <1>1, <1>2, <1>5, <1>6 DEF Takes

LEMMA RemovalMapped == ASSUME IInv, DataRight, AskRight, Removal PROVE Mapped
<1>1. /\ Seen \in Seq(Data) /\ Len(Seen) = size /\ size \in Nat /\ Len(chain) = size
      /\ \A k \in 1 .. size : Seen[k] = data[chain[k]] /\ Seen[k] \in Data
  BY SeenFacts
<1>2. Body
  BY IInvIs
<1>3. CASE RemoveWalk \/ RemoveOn \/ LastWalk \/ LastOn \/ DataWalk \/ DataOn
  <2>1. chain' = chain /\ data' = data
    BY <1>3 DEF RemoveWalk, RemoveOn, LastWalk, LastOn, DataWalk, DataOn, Still, links, memory
  <2>2. call' = call /\ ret' = ret
    BY <1>3 DEF RemoveWalk, RemoveOn, LastWalk, LastOn, DataWalk, DataOn, Go
  <2> QED
    BY <2>1, <2>2, StayMapped
<1>4. CASE RemoveNone
  <2>1. /\ pc = "start" /\ call' = NULL /\ ret' = Done /\ Seen' = Seen
        /\ \/ call.op = "remove" /\ call.idx >= size
           \/ call.op \in {"remove_last", "remove_data"} /\ size = 0
    BY <1>4 DEF RemoveNone, Start, Return, Still, links, memory, Seen
  <2>2. Serves(call.op, Done) /\ Asked(call.op)
    BY <2>1, AskedIs DEF Serves
  <2>3. CASE call.op = "remove" /\ call.idx >= size
    <3>1. call.idx + 1 \notin 1 .. Len(Seen)
      BY <1>1, <2>1, <2>3, StartFacts, CallFacts
    <3>2. Asked("remove") /\ Takes("remove", call.idx + 1)
      BY <2>1, <2>2, <2>3, <3>1 DEF Takes
    <3> QED
      BY <3>2, DoRemove DEF Mapped
  <2>4. CASE call.op = "remove_last" /\ size = 0
    <3>1. Takes("remove_last", Len(Seen))
      BY <1>1, <2>1, <2>2, <2>4 DEF Takes
    <3> QED
      BY <3>1, DoRemoveLast DEF Mapped
  <2>5. CASE call.op = "remove_data" /\ size = 0
    <3>1. Same \subseteq 1 .. Len(Seen) /\ 1 \in 1 .. Len(Seen) + 1 /\ ~(1 <= Len(Seen))
          /\ \A j \in 1 .. 1 - 1 : j \notin Same
      BY <1>1, <2>5 DEF Same
    <3>2. Place(Same) = 1
      BY <1>1, <3>1, PlaceIs
    <3>3. Asked("remove_data") /\ Takes("remove_data", 1)
      BY <2>1, <2>2, <2>5, <3>1 DEF Takes
    <3> QED
      BY <3>2, <3>3, DoRemoveData DEF Mapped
  <2> QED
    BY <2>1, <2>3, <2>4, <2>5
<1>5. CASE RemoveHead
  <2>1. /\ pc = "start" /\ call.op = "remove" /\ call.idx < size /\ call.idx = 0
        /\ Drop(first, 0) /\ call' = NULL /\ ret' = Found(data[first])
    BY <1>5 DEF RemoveHead, Start, Return
  <2>2. first = chain[0 + 1] /\ 0 \in 0 .. size - 1 /\ call.idx + 1 = 0 + 1
    BY <1>1, <1>2, <2>1, BodyFacts
  <2>3. Takes("remove", call.idx + 1)
    BY <2>1, <2>2, DropTakes
  <2> QED
    BY <2>1, <2>3, AskedIs, DoRemove DEF Mapped
<1>6. CASE RemoveHere
  <2>1. /\ pc = "remove" /\ ~(i < call.idx) /\ Drop(ptr[n], call.idx) /\ call' = NULL
        /\ ret' = Found(data[ptr[n]])
    BY <1>6 DEF RemoveHere, Return
  <2>2. /\ call.idx \in 1 .. size - 1 /\ i \in 1 .. call.idx /\ n = chain[i] /\ call.op = "remove"
    BY <2>1, WalkFacts DEF Walks, WalkRight, AskRight
  <2>3. i = call.idx /\ i \in 1 .. size /\ i + 1 \in 1 .. size /\ call.idx \in 0 .. size - 1
    BY <1>1, <2>1, <2>2
  <2>4. ptr[n] = chain[call.idx + 1]
    BY <1>1, <1>2, <2>2, <2>3, BodyFacts DEF NodeAt
  <2>5. Takes("remove", call.idx + 1)
    BY <2>1, <2>2, <2>3, <2>4, DropTakes
  <2> QED
    BY <2>1, <2>2, <2>5, AskedIs, DoRemove DEF Mapped
<1>7. CASE RemoveOnly
  <2>1. /\ pc = "start" /\ call.op = "remove_last" /\ size = 1
        /\ Drop(first, 0) /\ call' = NULL /\ ret' = Found(data[first])
    BY <1>7 DEF RemoveOnly, Start, Return
  <2>2. first = chain[0 + 1] /\ 0 \in 0 .. size - 1 /\ Len(Seen) = 0 + 1
    BY <1>1, <1>2, <2>1, BodyFacts
  <2>3. Takes("remove_last", Len(Seen))
    BY <2>1, <2>2, DropTakes
  <2> QED
    BY <2>3, DoRemoveLast DEF Mapped
<1>8. CASE LastHere
  <2>1. /\ pc = "remove_last" /\ Drop(last, size - 1) /\ call' = NULL /\ ret' = Found(data[last])
        /\ call.op = "remove_last"
    BY <1>8 DEF LastHere, Return, AskRight
  <2>2. \E k \in 1 .. size - 1 : n = chain[k]
    BY <2>1, LastFacts
  <2>3. PICK k \in 0 .. size - 1 : k = size - 1 /\ k + 1 = size
    BY <1>1, <2>2
  <2>4. last = chain[k + 1]
    BY <1>1, <1>2, <2>3, BodyFacts
  <2>5. Takes("remove_last", Len(Seen))
    BY <1>1, <2>1, <2>3, <2>4, DropTakes
  <2> QED
    BY <2>5, DoRemoveLast DEF Mapped
<1>9. ASSUME NEW k \in 0 .. size - 1, NEW x, pc # "idle", call.op = "remove_data", Drop(x, k),
             call' = NULL, ret' = Found(call.data), data[chain[k + 1]] = call.data,
             \A j \in 1 .. k : data[chain[j]] # call.data
      PROVE  Mapped
  <2>1. Takes("remove_data", k + 1)
    BY <1>9, DropTakes
  <2>2. PICK h \in 1 .. size : h = k + 1
    BY <1>1
  <2>3. \A j \in 1 .. h - 1 : j \in 1 .. k /\ j \in 1 .. size
    BY <1>1, <2>2
  <2>4. Same \subseteq 1 .. Len(Seen) /\ h \in Same /\ \A j \in 1 .. h - 1 : j \notin Same
    BY <1>1, <1>9, <2>2, <2>3 DEF Same
  <2>5. Place(Same) = h
    <3>1. h \in 1 .. Len(Seen) + 1
      BY <1>1
    <3> QED
      BY <1>1, <2>4, <3>1, PlaceIs
  <2> QED
    BY <1>9, <2>1, <2>2, <2>5, AskedIs, DoRemoveData DEF Mapped
<1>10. CASE DataFirst
  <2>1. /\ pc = "start" /\ call.op = "remove_data" /\ size # 0 /\ data[first] = call.data
        /\ Drop(first, 0) /\ call' = NULL /\ ret' = Found(call.data)
    BY <1>10 DEF DataFirst, Start, Return
  <2>2. first = chain[0 + 1] /\ 0 \in 0 .. size - 1
    BY <1>1, <1>2, <2>1, BodyFacts
  <2> QED
    BY <1>9, <2>1, <2>2
<1>11. CASE DataHere
  <2>1. /\ pc = "remove_data" /\ ptr[n] # NULL /\ data[ptr[n]] = call.data /\ Drop(ptr[n], i)
        /\ call' = NULL /\ ret' = Found(call.data)
    BY <1>11 DEF DataHere, Matches, Return
  <2>2. /\ i \in 1 .. size - 1 /\ ptr[n] = chain[i + 1] /\ call.op = "remove_data"
        /\ \A j \in 1 .. i : data[chain[j]] # call.data
    BY <2>1, DataWalkFacts DEF AskRight
  <2>3. PICK k \in 0 .. size - 1 : k = i
    BY <1>1, <2>2
  <2> QED
    BY <1>9, <2>1, <2>2, <2>3
<1>12. CASE DataMissing
  <2>1. /\ pc = "remove_data" /\ ptr[n] = NULL /\ call' = NULL /\ ret' = Done /\ Seen' = Seen
    BY <1>12 DEF DataMissing, Return, Still, links, memory, Seen
  <2>2. /\ i \in 1 .. size /\ ptr[n] = NodeAt(chain, i + 1) /\ call.op = "remove_data"
        /\ \A j \in 1 .. i : data[chain[j]] # call.data
    BY <2>1, DataWalkFacts DEF AskRight
  <2>3. i = size
    <3>1. CASE i < size
      <4>1. i + 1 \in 1 .. size
        BY <1>1, <2>2, <3>1
      <4>2. NodeAt(chain, i + 1) \in Nodes /\ NULL \notin Nodes
        BY <1>1, <1>2, <4>1, BodyFacts DEF NodeAt
      <4> QED
        BY <2>1, <2>2, <4>2
    <3> QED
      BY <1>1, <2>2, <3>1
  <2>4. PICK h : h = size + 1
    OBVIOUS
  <2>5. /\ h \in 1 .. Len(Seen) + 1 /\ ~(h <= Len(Seen)) /\ h \notin 1 .. Len(Seen)
        /\ \A j \in 1 .. h - 1 : j \in 1 .. size
    BY <1>1, <2>4
  <2>6. Same \subseteq 1 .. Len(Seen) /\ \A j \in 1 .. h - 1 : j \notin Same
    BY <1>1, <2>2, <2>3, <2>5 DEF Same
  <2>7. Place(Same) = h
    BY <1>1, <2>5, <2>6, PlaceIs
  <2>8. Asked("remove_data") /\ Takes("remove_data", h)
    BY <2>1, <2>2, <2>5, AskedIs DEF Takes, Serves
  <2> QED
    BY <2>7, <2>8, DoRemoveData DEF Mapped
<1> QED
  BY <1>3, <1>4, <1>5, <1>6, <1>7, <1>8, <1>10, <1>11, <1>12 DEF Removal

LEMMA ClearMapped == ASSUME IInv, DataRight, AskRight, Clear PROVE Mapped
<1>1. CASE ClearStart \/ ClearOn
  <2>1. chain' = chain /\ data' = data /\ call' = call /\ ret' = ret
    BY <1>1 DEF ClearStart, ClearOn, Go, Still, links, memory
  <2> QED
    BY <2>1, StayMapped
<1>2. CASE ClearEnd
  <2>1. ~failed
    BY IInvIs DEF Granted
  <2>2. pc = "clear" /\ chain' = <<>> /\ call' = NULL /\ ret' = Done /\ call.op = "clear"
    BY <1>2, <2>1 DEF ClearEnd, Return, AskRight
  <2>3. Len(chain') = 0 /\ chain' \in Seq(Nodes)
    BY <2>2
  <2>4. PICK c : c = chain'
    OBVIOUS
  <2>5. PICK b : b = data'
    OBVIOUS
  <2>6. View(c, b) = <<>>
    BY <2>3, <2>4, ViewEmpty
  <2>7. Seen' = <<>>
    BY <2>4, <2>5, <2>6 DEF Seen
  <2>8. Serves("clear", Done)
    BY <2>2, AskedIs DEF Serves
  <2> QED
    BY <2>7, <2>8, DoClear DEF Mapped
<1> QED
  BY <1>1, <1>2 DEF Clear

LEMMA NextMapped == ASSUME IInv, DataRight, AskRight, Next PROVE Mapped
<1>1. ASSUME NEW c \in Calls, Call(c) PROVE Mapped
  <2>1. pc = "idle" /\ call' = c /\ ret' = NULL /\ Seen' = Seen
    BY <1>1 DEF Call, links, memory, Seen
  <2>2. call = NULL
    BY <2>1 DEF AskRight
  <2> QED
    BY <2>1, <2>2, DoRequest DEF Mapped
<1>2. CASE Refuse
  <2>1. PICK op \in Growing : Start(op)
    BY <1>2 DEF Refuse
  <2>2. pc = "start" /\ call.op = op /\ call' = NULL /\ ret' = Fail /\ Seen' = Seen
    BY <1>2, <2>1 DEF Refuse, Start, Return, links, memory, Seen
  <2>3. Serves(op, Fail)
    BY <2>2, AskedIs DEF Serves
  <2> QED
    BY <2>2, <2>3, DoRefuse DEF Mapped
<1> QED
  BY <1>1, <1>2, LinkMapped, InsertMapped, GetMapped, RemovalMapped, ClearMapped DEF Next, Step

LEMMA AllHolds == ASSUME ~FirstByData, ~DelFails
                  PROVE  Spec => [](IInv /\ DataRight /\ AskRight)
<1>1. Init => AskRight
  BY DEF Init, AskRight
<1>2. IInv /\ DataRight /\ AskRight /\ [Next]_vars => AskRight'
  <2>1. AskRight /\ UNCHANGED vars => AskRight'
    BY DEF AskRight, vars
  <2> QED
    BY <2>1, NextAsk
<1> QED
  BY <1>1, <1>2, DataRightHolds, PTL DEF Spec

LEMMA InitMapped == Init => L!Init
<1> SUFFICES ASSUME Init PROVE L!Init
  OBVIOUS
<1>1. chain = <<>> /\ call = NULL /\ ret = NULL
  BY DEF Init
<1>2. Len(chain) = 0 /\ chain \in Seq(Nodes)
  BY <1>1
<1>3. Seen = <<>>
  BY <1>2, ViewEmpty DEF Seen
<1> QED
  BY <1>1, <1>3 DEF L!Init, Seen, View

(* linkedlist is a list: every call of every function, whatever was called *)
(* before, does to the sequence of data and returns what List says, the    *)
(* walks of insert_sorted and the indices of the cache included.           *)
THEOREM LinkedlistImplementsList == ASSUME ~FirstByData, ~DelFails PROVE Spec => ListSpec
<1>1. IInv /\ DataRight /\ AskRight /\ [Next]_vars => [L!Next]_(L!vars)
  <2>1. UNCHANGED vars => UNCHANGED L!vars
    BY DEF vars, L!vars
  <2> QED
    BY <2>1, NextMapped DEF Mapped
<1> QED
  BY <1>1, InitMapped, AllHolds, PTL DEF Spec, ListSpec, L!Spec
=============================================================================
