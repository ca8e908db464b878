--------------------------- MODULE Hashmap_proofs ---------------------------
(***************************************************************************)
(* For any keys, hash function and sizes that are primes: every entry can  *)
(* be found, once, and is counted, and the answers are those of a map.     *)
(***************************************************************************)
EXTENDS Hashmap, DataFacts, SequenceTheorems

(* Division, and what a remainder of zero means.                           *)
Divides(n, x) == \E q \in Int : x = n * q

LEMMA Division ==
  ASSUME NEW a \in Int, NEW n \in Nat, n > 0
  PROVE  a \div n \in Int /\ a % n \in 0 .. n - 1 /\ a = n * (a \div n) + (a % n)
  OBVIOUS

LEMMA DividesDifference ==
  ASSUME NEW a \in Int, NEW b \in Int, NEW n \in Nat, n > 0, a % n = b % n
  PROVE  Divides(n, a - b)
<1>1. PICK q \in Int, r \in Int : a = n * q + (a % n) /\ b = n * r + (a % n) /\ a % n \in Int
  BY Division
<1>2. a - b = n * (q - r) /\ q - r \in Int
  BY <1>1
<1> QED
  BY <1>2 DEF Divides

LEMMA SmallNotDivided ==
  ASSUME NEW n \in Nat, NEW x \in 1 .. n - 1
  PROVE  ~Divides(n, x)
<1> SUFFICES ASSUME NEW q \in Int, x = n * q PROVE FALSE
  BY DEF Divides
<1>1. CASE q <= 0
  <2>1. n * q <= 0
    BY <1>1
  <2> QED
    BY <2>1
<1>2. CASE q >= 1
  <2>1. n * q >= n
    BY <1>2
  <2> QED
    BY <2>1
<1> QED
  BY <1>1, <1>2

(* A prime divides no product of two smaller numbers: of those that it      *)
(* divides when they are multiplied by d, the least leaves a remainder that *)
(* is smaller still.                                                        *)
LEMMA Euclid ==
  ASSUME NEW p \in Nat, IsPrime(p), NEW d \in 1 .. p - 1, NEW a \in 1 .. p - 1
  PROVE  ~Divides(p, a * d)
<1> DEFINE Bad == {x \in 1 .. p - 1 : Divides(p, x * d)}
<1>1. SUFFICES ASSUME Bad # {} PROVE FALSE
  OBVIOUS
<1>2. PICK m \in Bad : \A k \in Bad : m <= k
  <2>1. Bad \subseteq Nat
    OBVIOUS
  <2> HIDE DEF Bad
  <2> QED
    BY <1>1, <2>1, LeastNatural
<1>3. m \in 1 .. p - 1 /\ Divides(p, m * d)
  BY <1>2
<1>4. m # 1
  <2>1. 1 * d = d
    OBVIOUS
  <2> QED
    BY <1>3, <2>1, SmallNotDivided
<1>5. PICK q \in Int, r \in 0 .. m - 1 : p = m * q + r /\ r = p % m
  <2>1. p \div m \in Int /\ p % m \in 0 .. m - 1 /\ p = m * (p \div m) + (p % m)
    BY <1>3, Division
  <2> QED
    BY <2>1
<1>6. r \in 1 .. m - 1
  <2>1. m \in 2 .. p - 1
    BY <1>3, <1>4
  <2>2. p % m # 0
    BY <2>1 DEF IsPrime
  <2> QED
    BY <1>5, <2>2
<1>7. PICK c \in Int : m * d = p * c
  BY <1>3 DEF Divides
<1>8. r * d = p * (d - q * c) /\ d - q * c \in Int
  <2>1. r = p - m * q /\ d \in Int /\ m \in Int /\ p \in Int /\ q * c \in Int
    BY <1>3, <1>5
  <2>2. r * d = p * d - (m * q) * d
    BY <2>1, <1>5
  <2>3. (m * q) * d = q * (m * d)
    BY <2>1, <1>5
  <2>4. q * (p * c) = p * (q * c)
    BY <2>1, <1>5, <1>7
  <2>5. p * (d - q * c) = p * d - p * (q * c)
    BY <2>1
  <2> QED
    BY <1>7, <2>1, <2>2, <2>3, <2>4, <2>5
<1>9. r \in Bad
  <2>1. r \in 1 .. p - 1
    BY <1>3, <1>6
  <2> QED
    BY <1>8, <2>1 DEF Divides
<1> QED
  BY <1>2, <1>3, <1>6, <1>9

-----------------------------------------------------------------------------
(* The probe sequence of a key in a table whose size is a prime visits      *)
(* every slot once.                                                         *)
Size(n) == n \in Nat /\ n > 2 /\ IsPrime(n)

LEMMA SizesRight == \A i \in 1 .. Largest : Size(TableSizes[i])
<1> TAKE i \in 1 .. Largest
<1>1. TableSizes \in Seq(Nat \ {0, 1, 2}) /\ IsPrime(TableSizes[i])
  BY HashmapAssumption DEF Largest
<1>2. TableSizes[i] \in Nat \ {0, 1, 2}
  BY <1>1, ElementOfSeq DEF Largest
<1> QED
  BY <1>1, <1>2 DEF Size

LEMMA HashNat == \A k \in Keys : Hash[k] \in Nat
  BY HashmapAssumption

LEMMA ProbeForm ==
  ASSUME NEW k \in Keys, NEW n, Size(n)
  PROVE  \E a \in 0 .. n - 1, b \in 1 .. n - 1 : \A j : Probe(k, n, j) = (a + j * b) % n
<1>1. n \in Nat /\ n > 0 /\ n - 2 \in Nat /\ n - 2 > 0 /\ Hash[k] \in Int
  BY HashNat DEF Size
<1>2. Hash[k] % n \in 0 .. n - 1 /\ Hash[k] % (n - 2) \in 0 .. (n - 2) - 1
  BY <1>1, Division
<1>3. 1 + (Hash[k] % (n - 2)) \in 1 .. n - 1
  BY <1>1, <1>2
<1> QED
  BY <1>2, <1>3 DEF Probe

LEMMA ProbeIn ==
  ASSUME NEW k \in Keys, NEW n, Size(n), NEW j \in Nat
  PROVE  Probe(k, n, j) \in 0 .. n - 1
<1>1. PICK a \in 0 .. n - 1, b \in 1 .. n - 1 : Probe(k, n, j) = (a + j * b) % n
  BY ProbeForm
<1>2. a + j * b \in Int /\ n \in Nat /\ n > 0
  BY DEF Size
<1> QED
  BY <1>1, <1>2, Division

LEMMA ProbeLater ==
  ASSUME NEW k \in Keys, NEW n, Size(n), NEW i \in 0 .. n - 1, NEW j \in 0 .. n - 1, i < j
  PROVE  Probe(k, n, i) # Probe(k, n, j)
<1>1. PICK a \in 0 .. n - 1, b \in 1 .. n - 1 : \A h : Probe(k, n, h) = (a + h * b) % n
  BY ProbeForm
<1>2. n \in Nat /\ n > 0 /\ a + i * b \in Int /\ a + j * b \in Int /\ j - i \in 1 .. n - 1
  BY DEF Size
<1>3. (a + j * b) - (a + i * b) = (j - i) * b
  BY <1>2
<1>4. ~Divides(n, (j - i) * b)
  BY <1>2, Euclid DEF Size
<1> QED
  BY <1>1, <1>2, <1>3, <1>4, DividesDifference

LEMMA ProbeApart ==
  ASSUME NEW k \in Keys, NEW n, Size(n), NEW i \in 0 .. n - 1, NEW j \in 0 .. n - 1,
         Probe(k, n, i) = Probe(k, n, j)
  PROVE  i = j
<1>1. ~(i < j) /\ ~(j < i)
  BY ProbeLater
<1> QED
  BY <1>1 DEF Size

LEMMA ProbeAll ==
  ASSUME NEW k \in Keys, NEW n, Size(n), NEW s \in 0 .. n - 1
  PROVE  \E j \in 0 .. n - 1 : Probe(k, n, j) = s
<1> DEFINE All == 0 .. n - 1
           f == [j \in All |-> Probe(k, n, j)]
<1>1. IsFiniteSet(All)
  BY FS_Interval DEF Size
<1>2. f \in [All -> All]
  BY ProbeIn
<1>3. \A i, j \in All : f[i] = f[j] => i = j
  BY ProbeApart
<1> HIDE DEF All, f
<1>4. f \in Injection(All, All)
  BY <1>2, <1>3, Zenon DEF Injection, IsInjective
<1>5. f \in Surjection(All, All)
  BY <1>1, <1>4, FS_Injection
<1>6. PICK j \in All : f[j] = s
  BY <1>5, Zenon DEF Surjection, All
<1> QED
  BY <1>6 DEF f, All

-----------------------------------------------------------------------------
(* Tables.                                                                 *)
Entries == {Entry(k, d) : k \in Keys, d \in Data}
Rows(t) == {t[s] : s \in Live(t)}

TableOf(t, n) == t \in [0 .. n - 1 -> {Empty, Mark} \cup Entries]

Reached(t, n, s) == \E j \in 0 .. n - 1 :
                      /\ Probe(t[s].key, n, j) = s
                      /\ \A h \in 0 .. j - 1 : t[Probe(t[s].key, n, h)].key # 0

Sound(t, n) == /\ n \in Nat /\ TableOf(t, n)
               /\ \A s \in Live(t) : Reached(t, n, s)
               /\ \A r, s \in Live(t) : t[r].key = t[s].key => r = s

NoMarks(t) == \A s \in Slots(t) : t[s] # Mark

LEMMA KeysAbove == \A k \in Keys : k \in Nat /\ k > 1
  BY HashmapAssumption

LEMMA EntryFacts ==
  ASSUME NEW e \in Entries
  PROVE  /\ e.key \in Keys /\ e.data \in Data /\ e = Entry(e.key, e.data)
         /\ e.key \in Nat /\ e.key > 1 /\ e.key # 0
<1>1. PICK k \in Keys, d \in Data : e = Entry(k, d)
  BY DEF Entries
<1>2. e.key = k /\ e.data = d
  BY <1>1 DEF Entry
<1> QED
  BY <1>1, <1>2, KeysAbove

LEMMA SlotFacts ==
  ASSUME NEW t, NEW n \in Nat, TableOf(t, n)
  PROVE  /\ Slots(t) = 0 .. n - 1
         /\ Live(t) \subseteq 0 .. n - 1
         /\ \A s \in 0 .. n - 1 : /\ t[s].key \in Nat
                                  /\ s \in Live(t) <=> t[s] \in Entries
                                  /\ t[s].key = 0 <=> t[s] = Empty
                                  /\ s \in Live(t) \/ t[s] = Empty \/ t[s] = Mark
         /\ IsFiniteSet(Live(t)) /\ Cardinality(Live(t)) \in Nat
<1>1. Slots(t) = 0 .. n - 1 /\ Live(t) \subseteq 0 .. n - 1
  BY DEF TableOf, Slots, Live
<1>2. Empty.key = 0 /\ Mark.key = 1 /\ DELETED = 1 /\ Empty # Mark
  BY DEF Empty, Mark, Entry, DELETED
<1>3. ASSUME NEW s \in 0 .. n - 1
      PROVE  /\ t[s].key \in Nat
             /\ s \in Live(t) <=> t[s] \in Entries
             /\ t[s].key = 0 <=> t[s] = Empty
             /\ s \in Live(t) \/ t[s] = Empty \/ t[s] = Mark
  <2>1. s \in Live(t) <=> t[s].key > 1
    BY <1>1, <1>2 DEF Live
  <2>2. t[s] = Empty \/ t[s] = Mark \/ t[s] \in Entries
    BY DEF TableOf
  <2>3. CASE t[s] = Empty
    <3>1. t[s] \notin Entries
      BY <1>2, <2>3, EntryFacts
    <3> QED
      BY <1>2, <2>1, <2>3, <3>1
  <2>4. CASE t[s] = Mark
    <3>1. t[s] \notin Entries
      BY <1>2, <2>4, EntryFacts
    <3> QED
      BY <1>2, <2>1, <2>4, <3>1
  <2>5. CASE t[s] \in Entries
    <3>1. t[s].key \in Nat /\ t[s].key > 1 /\ t[s].key # 0
      BY <2>5, EntryFacts
    <3> QED
      BY <1>2, <2>1, <2>5, <3>1
  <2> QED
    BY <2>2, <2>3, <2>4, <2>5
<1>4. IsFiniteSet(0 .. n - 1)
  BY FS_Interval
<1>5. IsFiniteSet(Live(t))
  BY <1>1, <1>4, FS_Subset
<1>6. Cardinality(Live(t)) \in Nat
  BY <1>5, FS_CardinalityType
<1> QED
  BY <1>1, <1>3, <1>5, <1>6

(* What a search along the sequence finds.                                 *)
Found(k, n, steps, goal, s) ==
  \/ s = -1 /\ \A j \in 0 .. steps - 1 : Probe(k, n, j) \notin goal
  \/ \E j \in 0 .. steps - 1 : /\ s = Probe(k, n, j) /\ s \in goal
                               /\ \A h \in 0 .. j - 1 : Probe(k, n, h) \notin goal

LEMMA SeekFacts ==
  ASSUME NEW k, NEW n, NEW steps \in Nat, NEW goal
  PROVE  Found(k, n, steps, goal, Seek(k, n, steps, goal))
<1> DEFINE J == {j \in 0 .. steps - 1 : Probe(k, n, j) \in goal}
<1>1. CASE J = {}
  <2>1. Seek(k, n, steps, goal) = -1
    BY <1>1 DEF Seek
  <2> QED
    BY <1>1, <2>1 DEF Found
<1>2. CASE J # {}
  <2>1. J \subseteq Nat
    OBVIOUS
  <2>2. Seek(k, n, steps, goal) = Probe(k, n, Min(J))
    BY <1>2 DEF Seek
  <2> HIDE DEF J
  <2>3. PICK m \in J : \A j \in J : m <= j
    BY <1>2, <2>1, LeastNatural
  <2>4. Min(J) \in J /\ \A j \in J : Min(J) <= j
    BY <2>3 DEF Min
  <2>5. PICK j \in 0 .. steps - 1 : j = Min(J) /\ Probe(k, n, j) \in goal
    BY <2>4 DEF J
  <2>6. \A h \in 0 .. j - 1 : Probe(k, n, h) \notin goal
    <3> SUFFICES ASSUME NEW h \in 0 .. j - 1, Probe(k, n, h) \in goal PROVE FALSE
      OBVIOUS
    <3>1. h \in J /\ h < j
      BY <2>5 DEF J
    <3> QED
      BY <2>4, <2>5, <3>1
  <2> QED
    BY <2>2, <2>5, <2>6 DEF Found
<1> QED
  BY <1>1, <1>2

-----------------------------------------------------------------------------
(* An entry comes into the first slot of its sequence that is not taken, or *)
(* one behind slots that are not empty; and one leaves a mark.              *)
IsPut(u, t, n, s, e) == TableOf(u, n) /\ u[s] = e /\ \A r \in 0 .. n - 1 : r # s => u[r] = t[r]

LEMMA ExceptIsPut ==
  ASSUME NEW t, NEW n, TableOf(t, n), NEW s \in 0 .. n - 1, NEW e \in {Empty, Mark} \cup Entries,
         NEW u, u = [t EXCEPT ![s] = e]
  PROVE  IsPut(u, t, n, s, e)
  BY DEF IsPut, TableOf

LEMMA PutIn ==
  ASSUME NEW t, NEW n, Sound(t, n), Size(n), NEW e \in Entries, e.key \notin KeysIn(t),
         NEW j \in 0 .. n - 1, NEW s \in 0 .. n - 1, s = Probe(e.key, n, j), s \notin Live(t),
         \A h \in 0 .. j - 1 : t[Probe(e.key, n, h)].key # 0,
         NEW u, IsPut(u, t, n, s, e)
  PROVE  /\ Sound(u, n) /\ Live(u) = Live(t) \cup {s} /\ Rows(u) = Rows(t) \cup {e}
         /\ Cardinality(Live(u)) = Cardinality(Live(t)) + 1
         /\ NoMarks(t) => NoMarks(u)
<1>1. n \in Nat /\ TableOf(t, n)
  BY DEF Sound
<1>2. TableOf(u, n)
  BY DEF IsPut
<1>3. u[s] = e /\ \A r \in 0 .. n - 1 : r # s => u[r] = t[r]
  BY DEF IsPut
<1>4. Live(u) = Live(t) \cup {s}
  <2>1. Live(t) \subseteq 0 .. n - 1 /\ Live(u) \subseteq 0 .. n - 1
    BY <1>1, <1>2, SlotFacts
  <2>2. \A r \in 0 .. n - 1 : /\ r \in Live(t) <=> t[r] \in Entries
                              /\ r \in Live(u) <=> u[r] \in Entries
    BY <1>1, <1>2, SlotFacts
  <2>3. \A r \in 0 .. n - 1 : r \in Live(u) <=> r \in Live(t) \/ r = s
    BY <1>3, <2>2
  <2> QED
    BY <2>1, <2>3
<1>5. Live(t) \subseteq 0 .. n - 1 /\ \A r \in Live(t) : r # s /\ u[r] = t[r] /\ t[r] \in Entries
  BY <1>1, <1>3, SlotFacts
<1>6. Rows(u) = Rows(t) \cup {e}
  <2>1. \A x : x \in Rows(u) <=> \E r \in Live(u) : u[r] = x
    BY DEF Rows
  <2>2. \A x : x \in Rows(t) <=> \E r \in Live(t) : t[r] = x
    BY DEF Rows
  <2>3. ASSUME NEW x \in Rows(u) PROVE x \in Rows(t) \cup {e}
    <3>1. PICK r \in Live(t) \cup {s} : u[r] = x
      BY <1>4, <2>1
    <3> QED
      BY <1>3, <1>5, <2>2, <3>1
  <2>4. ASSUME NEW x \in Rows(t) PROVE x \in Rows(u)
    <3>1. PICK r \in Live(t) : t[r] = x
      BY <2>2
    <3> QED
      BY <1>4, <1>5, <2>1, <3>1
  <2>5. e \in Rows(u)
    <3>1. s \in Live(u)
      BY <1>4
    <3> QED
      BY <1>3, <3>1 DEF Rows
  <2> QED
    BY <2>3, <2>4, <2>5
<1>7. ASSUME NEW r \in 0 .. n - 1, t[r].key # 0
      PROVE  u[r].key # 0
  BY <1>3, <1>7, EntryFacts
<1>8. ASSUME NEW r \in Live(u)
      PROVE  Reached(u, n, r)
  <2>1. CASE r = s
    <3>1. \A h \in 0 .. j - 1 : u[Probe(e.key, n, h)].key # 0
      <4> SUFFICES ASSUME NEW h \in 0 .. j - 1 PROVE u[Probe(e.key, n, h)].key # 0
        OBVIOUS
      <4>1. t[Probe(e.key, n, h)].key # 0
        OBVIOUS
      <4>2. CASE Probe(e.key, n, h) = s
        BY <1>3, <4>2, EntryFacts
      <4>3. CASE Probe(e.key, n, h) # s
        <5>1. Probe(e.key, n, h) \in 0 .. n - 1
          BY EntryFacts, ProbeIn
        <5> QED
          BY <1>3, <4>1, <4>3, <5>1
      <4> QED
        BY <4>2, <4>3
    <3> QED
      BY <1>3, <2>1, <3>1 DEF Reached
  <2>2. CASE r \in Live(t)
    <3>1. Reached(t, n, r) /\ u[r] = t[r]
      BY <1>5, <2>2 DEF Sound
    <3>2. PICK i \in 0 .. n - 1 : /\ Probe(t[r].key, n, i) = r
                                  /\ \A h \in 0 .. i - 1 : t[Probe(t[r].key, n, h)].key # 0
      BY <3>1 DEF Reached
    <3>3. \A h \in 0 .. i - 1 : u[Probe(t[r].key, n, h)].key # 0
      <4> SUFFICES ASSUME NEW h \in 0 .. i - 1 PROVE u[Probe(t[r].key, n, h)].key # 0
        OBVIOUS
      <4>1. t[Probe(t[r].key, n, h)].key # 0
        BY <3>2
      <4>2. CASE Probe(t[r].key, n, h) = s
        BY <1>3, <4>2, EntryFacts
      <4>3. CASE Probe(t[r].key, n, h) # s
        <5>1. Probe(t[r].key, n, h) \in 0 .. n - 1
          BY <1>5, <2>2, EntryFacts, ProbeIn
        <5> QED
          BY <1>3, <4>1, <4>3, <5>1
      <4> QED
        BY <4>2, <4>3
    <3> QED
      BY <3>1, <3>2, <3>3 DEF Reached
  <2> QED
    BY <1>4, <2>1, <2>2
<1>9. ASSUME NEW q \in Live(u), NEW r \in Live(u), u[q].key = u[r].key
      PROVE  q = r
  <2>1. \A x \in Live(t) : t[x].key # e.key
    BY DEF KeysIn
  <2>2. \A x, y \in Live(t) : t[x].key = t[y].key => x = y
    BY DEF Sound
  <2> QED
    BY <1>3, <1>4, <1>5, <1>9, <2>1, <2>2
<1>10. Cardinality(Live(u)) = Cardinality(Live(t)) + 1
  <2>1. IsFiniteSet(Live(t))
    BY <1>1, SlotFacts
  <2> QED
    BY <1>4, <2>1, FS_AddElement
<1>11. ASSUME NoMarks(t) PROVE NoMarks(u)
  <2>1. Slots(t) = 0 .. n - 1 /\ Slots(u) = 0 .. n - 1
    BY <1>1, <1>2, SlotFacts
  <2>2. e # Mark
    BY EntryFacts DEF Mark, Entry, DELETED
  <2> QED
    BY <1>3, <1>11, <2>1, <2>2 DEF NoMarks
<1>12. Sound(u, n)
  BY <1>1, <1>2, <1>8, <1>9 DEF Sound
<1> QED
  BY <1>4, <1>6, <1>10, <1>11, <1>12

LEMMA TakeOut ==
  ASSUME NEW t, NEW n, Sound(t, n), Size(n), NEW s \in Live(t), NEW u, IsPut(u, t, n, s, Mark)
  PROVE  /\ Sound(u, n) /\ Live(u) = Live(t) \ {s} /\ Rows(u) = Rows(t) \ {t[s]}
         /\ Cardinality(Live(u)) = Cardinality(Live(t)) - 1
<1>1. n \in Nat /\ TableOf(t, n)
  BY DEF Sound
<1>2. TableOf(u, n) /\ s \in 0 .. n - 1
  <2>1. s \in 0 .. n - 1
    BY <1>1, SlotFacts
  <2> QED
    BY <2>1 DEF IsPut
<1>3. u[s] = Mark /\ \A r \in 0 .. n - 1 : r # s => u[r] = t[r]
  BY DEF IsPut
<1>4. Mark.key = 1 /\ Mark \notin Entries
  <2>1. Mark.key = 1
    BY DEF Mark, Entry, DELETED
  <2> QED
    BY <2>1, EntryFacts
<1>5. Live(u) = Live(t) \ {s}
  <2>1. Live(t) \subseteq 0 .. n - 1 /\ Live(u) \subseteq 0 .. n - 1
    BY <1>1, <1>2, SlotFacts
  <2>2. \A r \in 0 .. n - 1 : /\ r \in Live(t) <=> t[r] \in Entries
                              /\ r \in Live(u) <=> u[r] \in Entries
    BY <1>1, <1>2, SlotFacts
  <2>3. \A r \in 0 .. n - 1 : r \in Live(u) <=> r \in Live(t) /\ r # s
    BY <1>3, <1>4, <2>2
  <2> QED
    BY <2>1, <2>3
<1>6. \A r \in Live(u) : r \in Live(t) /\ r # s /\ u[r] = t[r]
  BY <1>1, <1>3, <1>5, SlotFacts
<1>7. Rows(u) = Rows(t) \ {t[s]}
  <2>1. \A r \in Live(t) : t[r] = t[s] => r = s
    BY DEF Sound
  <2> QED
    BY <1>5, <1>6, <2>1 DEF Rows
<1>8. ASSUME NEW r \in Live(u)
      PROVE  Reached(u, n, r)
  <2>1. Reached(t, n, r) /\ u[r] = t[r]
    BY <1>6 DEF Sound
  <2>2. PICK i \in 0 .. n - 1 : /\ Probe(t[r].key, n, i) = r
                                /\ \A h \in 0 .. i - 1 : t[Probe(t[r].key, n, h)].key # 0
    BY <2>1 DEF Reached
  <2>3. \A h \in 0 .. i - 1 : u[Probe(t[r].key, n, h)].key # 0
    <3> SUFFICES ASSUME NEW h \in 0 .. i - 1 PROVE u[Probe(t[r].key, n, h)].key # 0
      OBVIOUS
    <3>1. t[Probe(t[r].key, n, h)].key # 0
      BY <2>2
    <3>2. CASE Probe(t[r].key, n, h) = s
      BY <1>3, <1>4, <3>2
    <3>3. CASE Probe(t[r].key, n, h) # s
      <4>1. t[r] \in Entries
        BY <1>1, <1>6, SlotFacts
      <4>2. Probe(t[r].key, n, h) \in 0 .. n - 1
        BY <4>1, EntryFacts, ProbeIn
      <4> QED
        BY <1>3, <3>1, <3>3, <4>2
    <3> QED
      BY <3>2, <3>3
  <2> QED
    BY <2>1, <2>2, <2>3 DEF Reached
<1>9. \A q, r \in Live(u) : u[q].key = u[r].key => q = r
  BY <1>6 DEF Sound
<1>10. Cardinality(Live(u)) = Cardinality(Live(t)) - 1
  <2>1. IsFiniteSet(Live(t))
    BY <1>1, SlotFacts
  <2> QED
    BY <1>5, <2>1, FS_RemoveElement
<1> QED
  BY <1>1, <1>2, <1>5, <1>7, <1>8, <1>9, <1>10 DEF Sound

-----------------------------------------------------------------------------
(* A table without marks that is not full has an empty slot, which every    *)
(* sequence comes to.                                                       *)
LEMMA PlaceIn ==
  ASSUME NEW t, NEW n, Sound(t, n), Size(n), NoMarks(t), Cardinality(Live(t)) < n,
         NEW e \in Entries, e.key \notin KeysIn(t)
  PROVE  LET u == Place(t, n, e) IN
         /\ Sound(u, n) /\ Rows(u) = Rows(t) \cup {e} /\ NoMarks(u)
         /\ Cardinality(Live(u)) = Cardinality(Live(t)) + 1
<1> DEFINE goal == {s \in Slots(t) : t[s].key = 0}
<1>1. n \in Nat /\ TableOf(t, n) /\ Slots(t) = 0 .. n - 1 /\ Live(t) \subseteq 0 .. n - 1
  BY SlotFacts DEF Sound
<1>2. PICK r \in 0 .. n - 1 : r \notin Live(t)
  <2>1. IsFiniteSet(0 .. n - 1) /\ Cardinality(0 .. n - 1) = n
    <3>1. n > 0 /\ n \in Int
      BY DEF Size
    <3> QED
      BY <3>1, FS_Interval
  <2>2. Live(t) # 0 .. n - 1
    BY <1>1, <2>1
  <2> QED
    BY <1>1, <2>2
<1>3. r \in goal
  <2>1. t[r] = Empty
    BY <1>1, <1>2, SlotFacts DEF NoMarks
  <2> QED
    BY <1>1, <1>2, <2>1, SlotFacts
<1>4. PICK i \in 0 .. n - 1 : Probe(e.key, n, i) = r
  BY ProbeAll, EntryFacts
<1>5. PICK s : s = Seek(e.key, n, n, goal)
  OBVIOUS
<1> HIDE DEF goal
<1>6. Found(e.key, n, n, goal, s)
  BY <1>1, <1>5, SeekFacts
<1>7. PICK j \in 0 .. n - 1 : /\ s = Probe(e.key, n, j) /\ s \in goal
                              /\ \A h \in 0 .. j - 1 : Probe(e.key, n, h) \notin goal
  BY <1>3, <1>4, <1>6 DEF Found
<1>8. s \in 0 .. n - 1 /\ s \notin Live(t)
  BY <1>1, <1>7 DEF goal, Live, DELETED
<1>9. \A h \in 0 .. j - 1 : t[Probe(e.key, n, h)].key # 0
  <2> SUFFICES ASSUME NEW h \in 0 .. j - 1 PROVE t[Probe(e.key, n, h)].key # 0
    OBVIOUS
  <2>1. Probe(e.key, n, h) \in 0 .. n - 1
    BY ProbeIn, EntryFacts
  <2> QED
    BY <1>1, <1>7, <2>1 DEF goal
<1>10. PICK u : u = [t EXCEPT ![s] = e] /\ u = Place(t, n, e)
  BY <1>5 DEF Place, goal
<1>11. /\ Sound(u, n) /\ Rows(u) = Rows(t) \cup {e} /\ NoMarks(u)
       /\ Cardinality(Live(u)) = Cardinality(Live(t)) + 1
  <2>1. IsPut(u, t, n, s, e)
    BY <1>1, <1>8, <1>10, ExceptIsPut
  <2> QED
    BY <1>7, <1>8, <1>9, <2>1, PutIn
<1> QED
  BY <1>10, <1>11

LEMMA BlankIs ==
  ASSUME NEW n \in Nat
  PROVE  /\ Sound(Blank(n), n) /\ NoMarks(Blank(n)) /\ Live(Blank(n)) = {} /\ Rows(Blank(n)) = {}
         /\ Cardinality(Live(Blank(n))) = 0
<1>1. TableOf(Blank(n), n) /\ \A s \in 0 .. n - 1 : Blank(n)[s] = Empty
  BY DEF TableOf, Blank
<1>2. Slots(Blank(n)) = 0 .. n - 1
  BY <1>1, SlotFacts
<1>3. Empty.key = 0 /\ Empty # Mark
  BY DEF Empty, Mark, Entry, DELETED
<1>4. Live(Blank(n)) = {}
  BY <1>1, <1>2, <1>3 DEF Live, DELETED
<1>5. Rows(Blank(n)) = {}
  BY <1>4 DEF Rows
<1>6. NoMarks(Blank(n))
  BY <1>1, <1>2, <1>3 DEF NoMarks
<1>7. Cardinality(Live(Blank(n))) = 0
  BY <1>4, FS_EmptySet
<1>8. Sound(Blank(n), n)
  BY <1>1, <1>4 DEF Sound
<1> QED
  BY <1>4, <1>5, <1>6, <1>7, <1>8

-----------------------------------------------------------------------------
(* The table that a resize fills, for the entries of some of the slots.    *)
IsMove(it, t, n, S) ==
  it = [s \in SUBSET S |-> IF s = {} THEN Blank(n) ELSE Place(it[s \ {Max(s)}], n, t[Max(s)])]

Move(t, n, S) == CHOOSE it : IsMove(it, t, n, S)

LEMMA RehashedIsMove == \A t, n : Rehashed(t, n) = Move(t, n, Live(t))[Live(t)]
  BY DEF Rehashed, MapThenFoldSet, Move, IsMove

LEMMA MaxIn ==
  ASSUME NEW S, S # {}, IsFiniteSet(S), NEW n \in Nat, S \subseteq 0 .. n
  PROVE  Max(S) \in S
<1> DEFINE Top == {m \in 0 .. n : \A x \in S : x <= m}
<1>1. PICK m \in Top : \A k \in Top : m <= k
  <2>1. n \in Top /\ Top \subseteq Nat
    OBVIOUS
  <2> HIDE DEF Top
  <2> QED
    BY <2>1, LeastNatural
<1>2. m \in 0 .. n /\ \A x \in S : x <= m
  OBVIOUS
<1>3. m \in S
  <2> SUFFICES ASSUME m \notin S PROVE FALSE
    OBVIOUS
  <2>1. PICK x \in S : TRUE
    OBVIOUS
  <2>2. m - 1 \in 0 .. n /\ \A y \in S : y <= m - 1
    BY <1>2, <2>1
  <2>3. m - 1 \in Top
    BY <2>2
  <2> QED
    BY <1>1, <1>2, <2>3
<1> QED
  BY <1>2, <1>3 DEF Max

Within(S, m) == S \subseteq 0 .. m

LEMMA WithinFinite ==
  ASSUME NEW m \in Nat, NEW S, Within(S, m)
  PROVE  IsFiniteSet(S) /\ \A s \in SUBSET S : Within(s, m)
<1>1. IsFiniteSet(0 .. m)
  BY FS_Interval
<1>2. S \in SUBSET (0 .. m)
  BY DEF Within
<1>3. IsFiniteSet(S)
  BY <1>1, <1>2, FS_Subset
<1>4. \A s \in SUBSET S : Within(s, m)
  BY DEF Within
<1> QED
  BY <1>3, <1>4

LEMMA MaxWithin ==
  ASSUME NEW m \in Nat, NEW S, Within(S, m), NEW s \in SUBSET S, s # {}
  PROVE  Max(s) \in s
<1>1. Within(s, m)
  BY WithinFinite
<1>2. IsFiniteSet(s)
  BY <1>1, WithinFinite
<1> QED
  BY <1>1, <1>2, MaxIn DEF Within

(* Two such functions agree wherever both are defined, and there is one.    *)
LEMMA MoveAgree ==
  ASSUME NEW t, NEW n, NEW m \in Nat, NEW S, Within(S, m), NEW U, NEW a, NEW b,
         IsMove(a, t, n, S), IsMove(b, t, n, U), NEW s \in SUBSET S, s \subseteq U
  PROVE  a[s] = b[s]
<1> DEFINE Bad == {x \in SUBSET S : x \subseteq U /\ a[x] # b[x]}
<1>1. SUFFICES ASSUME Bad # {} PROVE FALSE
  OBVIOUS
<1>2. PICK x \in Bad : \A u \in Bad : ~(u \subseteq x /\ u # x)
  <2>1. Bad \subseteq SUBSET S
    OBVIOUS
  <2>2. IsFiniteSet(S)
    BY WithinFinite
  <2> HIDE DEF Bad
  <2> QED
    BY <1>1, <2>1, <2>2, Smallest
<1>3. x \in SUBSET S /\ x \subseteq U /\ a[x] # b[x]
  BY <1>2
<1> DEFINE w == x \ {Max(x)}
<1>4. /\ a[x] = IF x = {} THEN Blank(n) ELSE Place(a[w], n, t[Max(x)])
      /\ b[x] = IF x = {} THEN Blank(n) ELSE Place(b[w], n, t[Max(x)])
  BY <1>3 DEF IsMove
<1>5. x # {}
  BY <1>3, <1>4
<1>6. Max(x) \in x
  BY <1>3, <1>5, MaxWithin
<1>7. w \in SUBSET S /\ w \subseteq U /\ w # x /\ w \subseteq x
  BY <1>3, <1>6
<1>8. a[w] # b[w]
  <2> HIDE DEF w
  <2> QED
    BY <1>3, <1>4, <1>5
<1>9. w \in Bad
  BY <1>7, <1>8
<1> QED
  BY <1>2, <1>7, <1>9

LEMMA MoveExists ==
  ASSUME NEW t, NEW n, NEW m \in Nat, NEW S, Within(S, m)
  PROVE  \A s \in SUBSET S : IsMove(Move(t, n, s), t, n, s)
<1> DEFINE Bad == {s \in SUBSET S : ~IsMove(Move(t, n, s), t, n, s)}
<1>1. SUFFICES ASSUME Bad # {} PROVE FALSE
  OBVIOUS
<1>2. PICK x \in Bad : \A u \in Bad : ~(u \subseteq x /\ u # x)
  <2>1. Bad \subseteq SUBSET S
    OBVIOUS
  <2>2. IsFiniteSet(S)
    BY WithinFinite
  <2> HIDE DEF Bad
  <2> QED
    BY <1>1, <2>1, <2>2, Smallest
<1>3. x \subseteq S /\ \A u \in SUBSET x : u # x => IsMove(Move(t, n, u), t, n, u)
  BY <1>2
<1>4. \A s \in SUBSET x : s # {} => Max(s) \in s
  BY <1>3, MaxWithin
<1> DEFINE less(s) == s \ {Max(s)}
           it == [s \in SUBSET x |-> IF s = {} THEN Blank(n)
                                     ELSE Place(Move(t, n, less(s))[less(s)], n, t[Max(s)])]
<1>5. ASSUME NEW s \in SUBSET x, s # {}
      PROVE  it[less(s)] = Move(t, n, less(s))[less(s)]
  <2>1. less(s) \in SUBSET x /\ less(s) # x /\ less(s) \subseteq less(s)
    BY <1>4, <1>5
  <2>2. IsMove(Move(t, n, less(s)), t, n, less(s))
    BY <1>3, <2>1
  <2>3. CASE less(s) = {}
    BY <2>1, <2>2, <2>3 DEF IsMove
  <2>4. CASE less(s) # {}
    <3> DEFINE u == less(s)
               w == less(u)
    <3>1. u \in SUBSET x /\ w \in SUBSET x /\ w # x /\ w \subseteq u /\ w \subseteq w
      BY <1>4, <2>1, <2>4
    <3>2. it[u] = Place(Move(t, n, w)[w], n, t[Max(u)])
      BY <2>4, <3>1
    <3>3. Move(t, n, u)[u] = Place(Move(t, n, u)[w], n, t[Max(u)])
      <4> HIDE DEF less
      <4> QED
        BY <2>2, <2>4, <3>1 DEF IsMove, less
    <3>4. IsMove(Move(t, n, w), t, n, w) /\ IsMove(Move(t, n, u), t, n, u)
      BY <1>3, <2>2, <3>1
    <3>5. Within(u, m)
      BY <1>3, <3>1, WithinFinite
    <3> HIDE DEF u, w, it
    <3>6. Move(t, n, u)[w] = Move(t, n, w)[w]
      BY <3>1, <3>4, <3>5, MoveAgree
    <3> QED
      BY <3>2, <3>3, <3>6 DEF u
  <2> QED
    BY <2>3, <2>4
<1>6. IsMove(it, t, n, x)
  <2> SUFFICES it = [s \in SUBSET x |-> IF s = {} THEN Blank(n) ELSE Place(it[less(s)], n, t[Max(s)])]
    BY DEF IsMove
  <2> HIDE DEF less
  <2> QED
    BY <1>5
<1> HIDE DEF it
<1>7. IsMove(Move(t, n, x), t, n, x)
  BY <1>6 DEF Move
<1> QED
  BY <1>2, <1>7

LEMMA KeysOfRows == \A t : KeysIn(t) = {e.key : e \in Rows(t)}
  BY DEF KeysIn, Rows

(* A resize keeps the entries, wherever it puts them.                       *)
LEMMA RehashedIs ==
  ASSUME NEW t, NEW m, Sound(t, m), NEW n, Size(n), Cardinality(Live(t)) <= n
  PROVE  LET u == Rehashed(t, n) IN
         /\ Sound(u, n) /\ Rows(u) = Rows(t) /\ NoMarks(u)
         /\ Cardinality(Live(u)) = Cardinality(Live(t))
<1> DEFINE S == Live(t)
<1>1. m \in Nat /\ TableOf(t, m) /\ Within(S, m) /\ IsFiniteSet(S) /\ S \in SUBSET S
  <2>1. m \in Nat /\ TableOf(t, m)
    BY DEF Sound
  <2>2. S \subseteq 0 .. m - 1 /\ IsFiniteSet(S)
    BY <2>1, SlotFacts
  <2>3. 0 .. m - 1 \subseteq 0 .. m
    BY <2>1
  <2> QED
    BY <2>1, <2>2, <2>3 DEF Within
<1>2. \A r \in S : t[r] \in Entries
  BY <1>1, SlotFacts
<1>3. \A q, r \in S : t[q].key = t[r].key => q = r
  BY DEF Sound
<1>4. n \in Nat
  BY DEF Size
<1> HIDE DEF S
<1> DEFINE Moved(u, s) == /\ Sound(u, n) /\ Rows(u) = {t[r] : r \in s} /\ NoMarks(u)
                          /\ Cardinality(Live(u)) = Cardinality(s)
<1>5. PICK it : it = Move(t, n, S)
  OBVIOUS
<1>6. IsMove(it, t, n, S)
  BY <1>1, <1>5, MoveExists
<1>7. \A s \in SUBSET S : Moved(it[s], s)
  <2> DEFINE Bad == {s \in SUBSET S : ~Moved(it[s], s)}
  <2>1. SUFFICES ASSUME Bad # {} PROVE FALSE
    OBVIOUS
  <2>2. PICK x \in Bad : \A u \in Bad : ~(u \subseteq x /\ u # x)
    <3>1. Bad \subseteq SUBSET S
      OBVIOUS
    <3>2. IsFiniteSet(S)
      BY <1>1
    <3> HIDE DEF Bad
    <3> QED
      BY <2>1, <3>1, <3>2, Smallest
  <2>3. x \in SUBSET S /\ ~Moved(it[x], x) /\ IsFiniteSet(x)
    BY <1>1, <2>2, FS_Subset
  <2>4. x # {}
    <3> SUFFICES ASSUME x = {} PROVE FALSE
      OBVIOUS
    <3>1. it[x] = Blank(n)
      BY <1>6, <2>3 DEF IsMove
    <3>2. Cardinality(x) = 0 /\ {t[r] : r \in x} = {}
      BY FS_EmptySet
    <3> QED
      BY <1>4, <2>3, <3>1, <3>2, BlankIs
  <2> DEFINE a == Max(x)
             w == x \ {a}
  <2>5. a \in x
    BY <1>1, <2>3, <2>4, MaxWithin
  <2>6. it[x] = Place(it[w], n, t[a])
    BY <1>6, <2>3, <2>4 DEF IsMove
  <2> HIDE DEF a
  <2>7. w \in SUBSET S /\ Moved(it[w], w)
    <3>1. w \in SUBSET S /\ w \subseteq x /\ w # x
      BY <2>3, <2>5
    <3> QED
      BY <2>2, <3>1
  <2>8. Cardinality(x) = Cardinality(w) + 1 /\ Cardinality(w) \in Nat /\ Cardinality(x) <= n
    <3>1. Cardinality(x) <= Cardinality(S) /\ Cardinality(S) \in Nat /\ Cardinality(x) \in Nat
      BY <1>1, <2>3, FS_Subset, FS_CardinalityType
    <3>2. Cardinality(w) = Cardinality(x) - 1 /\ IsFiniteSet(w)
      BY <2>3, <2>5, FS_RemoveElement
    <3>3. Cardinality(w) \in Nat
      BY <3>2, FS_CardinalityType
    <3> QED
      BY <1>4, <3>1, <3>2, <3>3 DEF S
  <2>9. t[a] \in Entries /\ t[a].key \notin KeysIn(it[w])
    <3>1. KeysIn(it[w]) = {e.key : e \in {t[r] : r \in w}}
      BY <2>7, KeysOfRows
    <3>2. \A r \in w : t[r].key # t[a].key
      BY <1>3, <2>3, <2>5
    <3> QED
      BY <1>2, <2>3, <2>5, <3>1, <3>2
  <2>10. Rows(it[w]) \cup {t[a]} = {t[r] : r \in x}
    BY <2>5, <2>7
  <2>11. /\ Sound(it[w], n) /\ NoMarks(it[w]) /\ Cardinality(Live(it[w])) = Cardinality(w)
    BY <2>7
  <2>12. Moved(Place(it[w], n, t[a]), x)
    <3> HIDE DEF w
    <3>1. Cardinality(Live(it[w])) < n
      BY <1>4, <2>8, <2>11
    <3>2. PICK u : u = Place(it[w], n, t[a])
      OBVIOUS
    <3>3. /\ Sound(u, n) /\ Rows(u) = Rows(it[w]) \cup {t[a]} /\ NoMarks(u)
          /\ Cardinality(Live(u)) = Cardinality(Live(it[w])) + 1
      BY <2>9, <2>11, <3>1, <3>2, PlaceIn
    <3> QED
      BY <2>8, <2>10, <2>11, <3>2, <3>3
  <2> QED
    BY <2>3, <2>6, <2>12
<1>8. Rehashed(t, n) = it[S]
  BY <1>5, RehashedIsMove DEF S
<1>9. Moved(it[S], S) /\ {t[r] : r \in S} = Rows(t)
  BY <1>1, <1>7 DEF S, Rows
<1> QED
  BY <1>8, <1>9 DEF S

-----------------------------------------------------------------------------
(* What the two searches find in a sound table: for hashmap_put, if the key *)
(* is not in it or there is no mark in front of it.                         *)
LEMMA InKeys == \A t, k : k \in KeysIn(t) <=> \E r \in Live(t) : t[r].key = k
  BY DEF KeysIn

LEMMA OnTheWay ==
  ASSUME NEW t, NEW n, Sound(t, n), NEW r \in Live(t), NEW k, t[r].key = k
  PROVE  \E j \in 0 .. n - 1 : /\ Probe(k, n, j) = r
                               /\ \A h \in 0 .. j - 1 : t[Probe(k, n, h)].key # 0
<1>1. Reached(t, n, r)
  BY DEF Sound
<1> QED
  BY <1>1 DEF Reached

Halts(t, k) == {x \in Slots(t) : Stops(t, k, x)}

LEMMA PutLook ==
  ASSUME NEW t, NEW n, Sound(t, n), Size(n), NEW k \in Keys, k \notin KeysIn(t) \/ NoMarks(t),
         NEW s, s = Seek(k, n, n, Halts(t, k))
  PROVE  \/ s = -1 /\ k \notin KeysIn(t) /\ Live(t) = 0 .. n - 1
         \/ s \in Live(t) /\ s # -1 /\ t[s].key = k
         \/ /\ s \in 0 .. n - 1 /\ s # -1 /\ s \notin Live(t) /\ t[s].key # k /\ k \notin KeysIn(t)
            /\ \E j \in 0 .. n - 1 : /\ s = Probe(k, n, j)
                                     /\ \A h \in 0 .. j - 1 : t[Probe(k, n, h)].key # 0
<1> DEFINE goal == Halts(t, k)
<1>1. n \in Nat /\ TableOf(t, n) /\ Slots(t) = 0 .. n - 1 /\ Live(t) \subseteq 0 .. n - 1
  BY SlotFacts DEF Sound
<1>2. \A x \in 0 .. n - 1 : x \in goal <=> x \notin Live(t) \/ t[x].key = k
  <2> SUFFICES ASSUME NEW x \in 0 .. n - 1 PROVE x \in goal <=> x \notin Live(t) \/ t[x].key = k
    OBVIOUS
  <2>1. t[x].key \in Nat
    BY <1>1, SlotFacts
  <2>2. x \in Live(t) <=> ~(t[x].key <= DELETED)
    BY <1>1, <2>1 DEF Live, DELETED
  <2> QED
    BY <1>1, <2>2 DEF Stops, Halts
<1>3. k \in Nat /\ k > 1 /\ \A x \in 0 .. n - 1 : t[x].key = k => x \in Live(t)
  BY <1>1, KeysAbove DEF Live, DELETED
<1> HIDE DEF goal
<1>4. Found(k, n, n, goal, s)
  BY <1>1, SeekFacts DEF goal
<1>5. CASE s = -1 /\ \A j \in 0 .. n - 1 : Probe(k, n, j) \notin goal
  <2>1. \A x \in 0 .. n - 1 : x \notin goal
    BY <1>5, ProbeAll
  <2>2. \A x \in 0 .. n - 1 : x \in Live(t) /\ t[x].key # k
    BY <1>2, <2>1
  <2>3. Live(t) = 0 .. n - 1
    BY <1>1, <2>2
  <2> QED
    BY <1>5, <2>2, <2>3, InKeys
<1>6. ASSUME NEW j \in 0 .. n - 1, s = Probe(k, n, j), s \in goal,
             \A h \in 0 .. j - 1 : Probe(k, n, h) \notin goal
      PROVE  \/ s \in Live(t) /\ s # -1 /\ t[s].key = k
             \/ /\ s \in 0 .. n - 1 /\ s # -1 /\ s \notin Live(t) /\ t[s].key # k
                /\ k \notin KeysIn(t)
                /\ \A h \in 0 .. j - 1 : t[Probe(k, n, h)].key # 0
  <2>1. s \in 0 .. n - 1 /\ s # -1
    BY <1>1, <1>6, ProbeIn
  <2>2. CASE t[s].key = k
    BY <1>3, <2>1, <2>2
  <2>3. CASE t[s].key # k
    <3>1. s \notin Live(t)
      BY <1>2, <1>6, <2>1, <2>3
    <3>2. ASSUME NEW h \in 0 .. j - 1 PROVE t[Probe(k, n, h)].key # 0
      <4>1. Probe(k, n, h) \in 0 .. n - 1
        BY <1>1, ProbeIn
      <4>2. Probe(k, n, h) \in Live(t)
        BY <1>2, <1>6, <4>1
      <4> QED
        BY <4>2 DEF Live, DELETED
    <3>3. k \notin KeysIn(t)
      <4> SUFFICES ASSUME k \in KeysIn(t) PROVE FALSE
        OBVIOUS
      <4>1. NoMarks(t)
        OBVIOUS
      <4>2. PICK r \in Live(t) : t[r].key = k
        BY InKeys
      <4>3. PICK i \in 0 .. n - 1 : /\ Probe(k, n, i) = r
                                    /\ \A h \in 0 .. i - 1 : t[Probe(k, n, h)].key # 0
        BY <4>2, OnTheWay
      <4>4. r \in goal
        BY <1>1, <1>2, <4>2
      <4>5. ~(i < j)
        BY <1>1, <1>6, <4>3, <4>4
      <4>6. ~(j < i)
        <5>1. t[s].key = 0
          BY <1>1, <2>1, <3>1, <4>1, SlotFacts DEF NoMarks
        <5> QED
          BY <1>1, <1>6, <4>3, <5>1
      <4>7. i = j
        BY <1>1, <4>5, <4>6
      <4> QED
        BY <1>6, <2>3, <4>2, <4>3, <4>7
    <3> QED
      BY <2>1, <2>3, <3>1, <3>2, <3>3
  <2> QED
    BY <2>2, <2>3
<1> QED
  BY <1>4, <1>5, <1>6 DEF Found

LEMMA GetLook ==
  ASSUME NEW t, NEW n, Sound(t, n), Size(n), NEW k \in Keys, NEW s, s = Where(t, k, n)
  PROVE  \/ s = -1 /\ k \notin KeysIn(t)
         \/ s \in Live(t) /\ s # -1 /\ t[s].key = k
<1> DEFINE goal == {x \in Slots(t) : Finds(t, k, x)}
<1>1. n \in Nat /\ n + 1 \in Nat /\ TableOf(t, n) /\ Slots(t) = 0 .. n - 1
      /\ Live(t) \subseteq 0 .. n - 1
  BY SlotFacts DEF Sound
<1>2. \A x \in 0 .. n - 1 : x \in goal <=> t[x].key = 0 \/ t[x].key = k
  BY <1>1 DEF Finds
<1>3. k \in Nat /\ k > 1 /\ \A x \in 0 .. n - 1 : t[x].key = k => x \in Live(t)
  BY <1>1, KeysAbove DEF Live, DELETED
<1>4. PICK at : at = Seek(k, n, n + 1, goal)
  OBVIOUS
<1>5. s = IF at # -1 /\ t[at].key = k THEN at ELSE -1
  BY <1>4 DEF Where
<1> HIDE DEF goal
<1>6. Found(k, n, n + 1, goal, at)
  BY <1>1, <1>4, SeekFacts
<1>7. CASE at = -1 /\ \A j \in 0 .. (n + 1) - 1 : Probe(k, n, j) \notin goal
  <2>1. k \notin KeysIn(t)
    <3> SUFFICES ASSUME NEW r \in Live(t), t[r].key = k PROVE FALSE
      BY InKeys
    <3>1. PICK i \in 0 .. n - 1 : Probe(k, n, i) = r
      BY OnTheWay
    <3>2. r \in goal
      BY <1>1, <1>2
    <3> QED
      BY <1>1, <1>7, <3>1, <3>2
  <2> QED
    BY <1>5, <1>7, <2>1
<1>8. ASSUME NEW j \in 0 .. (n + 1) - 1, at = Probe(k, n, j), at \in goal,
             \A h \in 0 .. j - 1 : Probe(k, n, h) \notin goal
      PROVE  \/ s = -1 /\ k \notin KeysIn(t)
             \/ s \in Live(t) /\ s # -1 /\ t[s].key = k
  <2>1. at \in 0 .. n - 1 /\ at # -1
    BY <1>1, <1>8, ProbeIn
  <2>2. CASE t[at].key = k
    BY <1>3, <1>5, <2>1, <2>2
  <2>3. CASE t[at].key # k
    <3>1. t[at].key = 0 /\ s = -1
      BY <1>2, <1>5, <1>8, <2>1, <2>3
    <3>2. k \notin KeysIn(t)
      <4> SUFFICES ASSUME NEW r \in Live(t), t[r].key = k PROVE FALSE
        BY InKeys
      <4>1. PICK i \in 0 .. n - 1 : /\ Probe(k, n, i) = r
                                    /\ \A h \in 0 .. i - 1 : t[Probe(k, n, h)].key # 0
        BY OnTheWay
      <4>2. r \in goal
        BY <1>1, <1>2
      <4>3. ~(i < j)
        BY <1>1, <1>8, <4>1, <4>2
      <4>4. ~(j < i)
        BY <1>1, <1>8, <3>1, <4>1
      <4>5. i = j
        BY <1>1, <4>3, <4>4
      <4> QED
        BY <1>8, <2>3, <4>1, <4>5
    <3> QED
      BY <3>1, <3>2
  <2> QED
    BY <2>2, <2>3
<1> QED
  BY <1>6, <1>7, <1>8 DEF Found

-----------------------------------------------------------------------------
(* The state between two calls.                                            *)
Width == IF index = 0 THEN 0 ELSE TableSizes[index]

Core == /\ index \in 0 .. Largest
        /\ Sound(table, Width)
        /\ size = Cardinality(Live(table))

LEMMA LargestIs == Largest \in Nat /\ Largest >= 1
<1>1. TableSizes \in Seq(Nat \ {0, 1, 2}) /\ TableSizes # <<>>
  BY HashmapAssumption
<1> QED
  BY <1>1, EmptySeq, LenProperties DEF Largest

LEMMA Apart ==
  ASSUME NEW i \in 2 .. Largest
  PROVE  /\ TableSizes[i - 1] < TableSizes[i]
         /\ TableSizes[i] <= 4 * TableSizes[i - 1]
  BY HashmapAssumption DEF Largest

LEMMA Fits ==
  ASSUME NEW t, NEW n, Sound(t, n)
  PROVE  Cardinality(Live(t)) \in Nat /\ Cardinality(Live(t)) <= n
<1>1. n \in Nat /\ Live(t) \in SUBSET (0 .. n - 1)
  BY SlotFacts DEF Sound
<1>2. IsFiniteSet(0 .. n - 1) /\ Cardinality(0 .. n - 1) = n
  <2>1. n - 1 \in Int /\ 0 \in Int
    BY <1>1
  <2>2. IsFiniteSet(0 .. n - 1) /\ Cardinality(0 .. n - 1) = IF 0 > n - 1 THEN 0 ELSE (n - 1) - 0 + 1
    BY <2>1, FS_Interval
  <2> QED
    BY <1>1, <2>2
<1>3. IsFiniteSet(Live(t)) /\ Cardinality(Live(t)) <= n
  BY <1>1, <1>2, FS_Subset
<1> QED
  BY <1>3, FS_CardinalityType

(* A load that is below a bound, as a number of entries.                    *)
LEMMA Loaded ==
  ASSUME NEW sz \in Nat, NEW n \in Nat, n > 0, NEW b \in Nat, (sz * 100) \div n < b
  PROVE  sz * 100 < n * b
<1>1. PICK q \in Int, r \in 0 .. n - 1 : sz * 100 = n * q + r /\ q < b
  <2>1. sz * 100 \in Int
    OBVIOUS
  <2> QED
    BY <2>1, Division
<1>2. q <= b - 1
  BY <1>1
<1>3. n * q <= n * (b - 1)
  BY <1>2
<1>4. n * (b - 1) = n * b - n
  OBVIOUS
<1> QED
  BY <1>1, <1>3, <1>4

LEMMA GrownIs ==
  ASSUME Core, NEW i, i = IF NeedsGrowth THEN index + 1 ELSE index, NEW t, t = ResizedTo(i)
  PROVE  /\ i \in 1 .. Largest /\ Size(TableSizes[i]) /\ Sound(t, TableSizes[i])
         /\ Rows(t) = Rows(table) /\ Cardinality(Live(t)) = size /\ size \in Nat
         /\ NoMarks(table) => NoMarks(t)
         /\ i < Largest => size < TableSizes[i]
<1>1. index \in 0 .. Largest /\ Largest \in Nat /\ Largest >= 1
  BY LargestIs DEF Core
<1>2. Sound(table, Width) /\ size = Cardinality(Live(table)) /\ size \in Nat /\ size <= Width
  BY Fits DEF Core
<1>3. CASE NeedsGrowth
  <2>1. i = index + 1 /\ i \in 1 .. Largest /\ i # index
    BY <1>1, <1>3 DEF NeedsGrowth
  <2>2. Size(TableSizes[i])
    BY <2>1, SizesRight
  <2>3. size < TableSizes[i]
    <3>1. CASE index = 0
      BY <1>2, <2>2, <3>1 DEF Width, Size
    <3>2. CASE index # 0
      <4>1. i \in 2 .. Largest /\ i - 1 = index
        BY <1>1, <2>1, <3>2
      <4>2. TableSizes[index] < TableSizes[i] /\ TableSizes[index] \in Nat /\ TableSizes[i] \in Nat
        BY <1>1, <2>2, <3>2, <4>1, Apart, SizesRight DEF Size
      <4> QED
        BY <1>2, <3>2, <4>2 DEF Width
    <3> QED
      BY <3>1, <3>2
  <2>4. t = Rehashed(table, TableSizes[i])
    BY <2>1 DEF ResizedTo
  <2>5. Cardinality(Live(table)) <= TableSizes[i]
    BY <1>2, <2>2, <2>3 DEF Size
  <2>6. /\ Sound(t, TableSizes[i]) /\ Rows(t) = Rows(table) /\ NoMarks(t)
        /\ Cardinality(Live(t)) = Cardinality(Live(table))
    BY <1>2, <2>2, <2>4, <2>5, RehashedIs
  <2> QED
    BY <1>2, <2>1, <2>2, <2>3, <2>6
<1>4. CASE ~NeedsGrowth
  <2>1. i = index /\ index # 0 /\ i \in 1 .. Largest /\ t = table /\ Width = TableSizes[i]
    BY <1>1, <1>4 DEF NeedsGrowth, ResizedTo, Width
  <2>2. Size(TableSizes[i])
    BY <2>1, SizesRight
  <2>3. i < Largest => size < TableSizes[i]
    <3> SUFFICES ASSUME i < Largest PROVE size < TableSizes[i]
      OBVIOUS
    <3>1. LoadHigh \in 1 .. 100
      BY HashmapAssumption
    <3>2. ~(Load >= LoadHigh)
      BY <1>1, <1>4, <2>1 DEF NeedsGrowth
    <3>3. PICK n \in Nat : n = TableSizes[i] /\ n > 0
      BY <2>2 DEF Size
    <3>4. (size * 100) \div n < 100
      <4>1. (size * 100) \div n = Load /\ (size * 100) \div n \in Int
        BY <1>2, <2>1, <3>3, Division DEF Load
      <4> QED
        BY <3>1, <3>2, <4>1
    <3>5. size * 100 < n * 100
      BY <1>2, <3>3, <3>4, Loaded
    <3> QED
      BY <1>2, <3>3, <3>5
  <2> QED
    BY <1>2, <2>1, <2>2, <2>3
<1> QED
  BY <1>3, <1>4

LEMMA ShrunkIs ==
  ASSUME Core, NEW i, i = IF NeedsShrinking THEN index - 1 ELSE index, NEW t, t = ResizedTo(i)
  PROVE  /\ i \in 0 .. Largest /\ (i = 0 <=> index = 0)
         /\ i # 0 => Size(TableSizes[i])
         /\ Sound(t, IF i = 0 THEN 0 ELSE TableSizes[i])
         /\ Rows(t) = Rows(table) /\ Cardinality(Live(t)) = size /\ size \in Nat
<1>1. index \in 0 .. Largest /\ Largest \in Nat /\ Largest >= 1
  BY LargestIs DEF Core
<1>2. Sound(table, Width) /\ size = Cardinality(Live(table)) /\ size \in Nat /\ size <= Width
  BY Fits DEF Core
<1>3. CASE NeedsShrinking
  <2>1. index > 1 /\ i = index - 1 /\ i \in 1 .. Largest /\ i # index /\ i # 0
        /\ index \in 2 .. Largest
    BY <1>1, <1>3 DEF NeedsShrinking
  <2>2. Size(TableSizes[i]) /\ Size(TableSizes[index])
    BY <2>1, SizesRight
  <2>3. PICK m \in Nat, n \in Nat : m = TableSizes[index] /\ n = TableSizes[i] /\ m > 0 /\ m <= 4 * n
    BY <2>1, <2>2, Apart DEF Size
  <2>4. size <= n
    <3>1. LoadLow \in Int /\ LoadLow <= 25
      <4>1. LoadHigh \in 1 .. 100
        BY HashmapAssumption
      <4>2. PICK q \in Int, r \in 0 .. 3 : q = LoadHigh \div 4 /\ LoadHigh = 4 * q + r
        <5>1. LoadHigh \in Int /\ 4 \in Nat /\ 4 > 0 /\ 4 - 1 = 3
          BY <4>1
        <5> QED
          BY <5>1, Division
      <4> QED
        BY <4>1, <4>2 DEF LoadLow
    <3>2. (size * 100) \div m < 25
      <4>1. (size * 100) \div m = Load /\ (size * 100) \div m \in Int
        BY <1>2, <2>3, Division DEF Load
      <4> QED
        BY <1>3, <3>1, <4>1 DEF NeedsShrinking
    <3>3. size * 100 < m * 25
      BY <1>2, <2>3, <3>2, Loaded
    <3> QED
      BY <1>2, <2>3, <3>3
  <2>5. t = Rehashed(table, TableSizes[i])
    BY <2>1 DEF ResizedTo
  <2>6. Cardinality(Live(table)) <= TableSizes[i]
    BY <1>2, <2>3, <2>4
  <2>7. /\ Sound(t, TableSizes[i]) /\ Rows(t) = Rows(table)
        /\ Cardinality(Live(t)) = Cardinality(Live(table))
    BY <1>2, <2>2, <2>5, <2>6, RehashedIs
  <2> QED
    BY <1>1, <1>2, <2>1, <2>2, <2>7
<1>4. CASE ~NeedsShrinking
  <2>1. i = index /\ t = table
    BY <1>4 DEF ResizedTo
  <2> QED
    BY <1>1, <1>2, <2>1, SizesRight DEF Width
<1> QED
  BY <1>3, <1>4

-----------------------------------------------------------------------------
(* What each call does to the table, and what it answers.                  *)
LEMMA KeysCount ==
  ASSUME NEW t, NEW n, Sound(t, n)
  PROVE  Cardinality(KeysIn(t)) = Cardinality(Live(t))
<1> DEFINE f == [s \in Live(t) |-> t[s].key]
<1>1. IsFiniteSet(Live(t))
  BY SlotFacts DEF Sound
<1>2. f \in [Live(t) -> KeysIn(t)]
  BY DEF KeysIn
<1>3. \A q, r \in Live(t) : f[q] = f[r] => q = r
  BY DEF Sound
<1>4. \A k \in KeysIn(t) : \E s \in Live(t) : f[s] = k
  BY DEF KeysIn
<1> HIDE DEF f
<1>5. f \in Surjection(Live(t), KeysIn(t))
  BY <1>2, <1>4, Zenon DEF Surjection
<1>6. f \in Injection(Live(t), KeysIn(t))
  BY <1>2, <1>3, Zenon DEF Injection, IsInjective
<1> QED
  BY <1>1, <1>5, <1>6, FS_Surjection

LEMMA EntryIn == \A k \in Keys, d \in Data : Entry(k, d) \in Entries /\ Entry(k, d).key = k /\ Entry(k, d).data = d
  BY DEF Entries, Entry

PutAnswer(k, d) ==
  \/ /\ ret' = <<"put", k, "ENOSPC">> /\ Rows(table') = Rows(table)
     /\ k \notin KeysIn(table) /\ Cardinality(KeysIn(table)) = TableSizes[Largest]
  \/ /\ ret' = <<"put", k, "EEXIST">> /\ Rows(table') = Rows(table) /\ k \in KeysIn(table)
  \/ /\ ret' = <<"put", k, "ok">> /\ Rows(table') = Rows(table) \cup {Entry(k, d)}
     /\ k \notin KeysIn(table)

LEMMA PutStep ==
  ASSUME Core, ~PutsAgain, NEW k \in Keys, NEW d \in Data, Put(k, d)
  PROVE  Core' /\ PutAnswer(k, d)
<1>1. PICK i : i = IF NeedsGrowth THEN index + 1 ELSE index
  OBVIOUS
<1>2. PICK t : t = ResizedTo(i)
  OBVIOUS
<1>3. MayPut(k) /\ Entered(k, d, i, t)
  BY <1>1, <1>2 DEF Put
<1>4. k \notin KeysIn(table) \/ NoMarks(table)
  BY <1>3 DEF MayPut, NoMarks
<1>5. /\ i \in 1 .. Largest /\ Size(TableSizes[i]) /\ Sound(t, TableSizes[i])
      /\ Rows(t) = Rows(table) /\ Cardinality(Live(t)) = size /\ size \in Nat
      /\ NoMarks(table) => NoMarks(t)
      /\ i < Largest => size < TableSizes[i]
  BY <1>1, <1>2, GrownIs
<1>6. i # 0 /\ i \in 0 .. Largest /\ KeysIn(t) = KeysIn(table)
      /\ Cardinality(KeysIn(table)) = size
  <2>1. KeysIn(t) = KeysIn(table)
    BY <1>5, KeysOfRows
  <2>2. Cardinality(KeysIn(t)) = size
    BY <1>5, KeysCount
  <2> QED
    BY <1>5, <2>1, <2>2, LargestIs
<1>7. PICK n : n = TableSizes[i] /\ n \in Nat /\ n > 0
  BY <1>5 DEF Size
<1>8. PICK s : s = Seek(k, n, n, Halts(t, k))
  OBVIOUS
<1>9. \/ s = -1 /\ k \notin KeysIn(t) /\ Live(t) = 0 .. n - 1
      \/ s \in Live(t) /\ s # -1 /\ t[s].key = k
      \/ /\ s \in 0 .. n - 1 /\ s # -1 /\ s \notin Live(t) /\ t[s].key # k /\ k \notin KeysIn(t)
         /\ \E j \in 0 .. n - 1 : /\ s = Probe(k, n, j)
                                  /\ \A h \in 0 .. j - 1 : t[Probe(k, n, h)].key # 0
  <2>1. Sound(t, n) /\ Size(n)
    BY <1>5, <1>7
  <2>2. k \notin KeysIn(t) \/ NoMarks(t)
    BY <1>4, <1>5, <1>6
  <2> QED
    BY <1>8, <2>1, <2>2, PutLook
<1>10. \/ s = -1 /\ Leaves(i, t, size, <<"put", k, "ENOSPC">>)
       \/ s # -1 /\ t[s].key = k /\ Leaves(i, t, size, <<"put", k, "EEXIST">>)
       \/ s # -1 /\ t[s].key # k
          /\ Leaves(i, [t EXCEPT ![s] = Entry(k, d)], size + 1, <<"put", k, "ok">>)
  BY <1>3, <1>7, <1>8 DEF Entered, Halts
<1>11. ASSUME NEW u, NEW sz, NEW a, Leaves(i, u, sz, a), Sound(u, n), Cardinality(Live(u)) = sz
       PROVE  Core' /\ table' = u /\ ret' = a
  BY <1>6, <1>7, <1>11 DEF Leaves, Core, Width
<1>12. CASE s = -1
  <2>1. Leaves(i, t, size, <<"put", k, "ENOSPC">>)
    BY <1>10, <1>12
  <2>2. Live(t) = 0 .. n - 1 /\ k \notin KeysIn(table)
    BY <1>6, <1>9, <1>12
  <2>3. Cardinality(0 .. n - 1) = n
    <3>1. n - 1 \in Int /\ 0 \in Int
      BY <1>7
    <3>2. Cardinality(0 .. n - 1) = IF 0 > n - 1 THEN 0 ELSE (n - 1) - 0 + 1
      BY <3>1, FS_Interval
    <3> QED
      BY <1>7, <3>2
  <2>4. size = n /\ i = Largest
    <3>1. size = n
      BY <1>5, <2>2, <2>3
    <3>2. ~(i < Largest)
      BY <1>5, <1>7, <3>1
    <3> QED
      BY <1>5, <3>1, <3>2, LargestIs
  <2>5. Core' /\ table' = t /\ ret' = <<"put", k, "ENOSPC">>
    BY <1>5, <1>7, <1>11, <2>1
  <2> QED
    BY <1>5, <1>6, <1>7, <2>2, <2>4, <2>5 DEF PutAnswer
<1>13. CASE s # -1 /\ t[s].key = k
  <2>1. Leaves(i, t, size, <<"put", k, "EEXIST">>)
    BY <1>10, <1>13
  <2>2. k \in KeysIn(table)
    BY <1>6, <1>9, <1>13, InKeys
  <2>3. Core' /\ table' = t /\ ret' = <<"put", k, "EEXIST">>
    BY <1>5, <1>7, <1>11, <2>1
  <2> QED
    BY <1>5, <2>2, <2>3 DEF PutAnswer
<1>14. CASE s # -1 /\ t[s].key # k
  <2>1. PICK u : u = [t EXCEPT ![s] = Entry(k, d)]
    OBVIOUS
  <2>2. Leaves(i, u, size + 1, <<"put", k, "ok">>)
    BY <1>10, <1>14, <2>1
  <2>3. s \in 0 .. n - 1 /\ s \notin Live(t) /\ k \notin KeysIn(t)
    BY <1>9, <1>14
  <2>4. PICK j \in 0 .. n - 1 : /\ s = Probe(k, n, j)
                                /\ \A h \in 0 .. j - 1 : t[Probe(k, n, h)].key # 0
    BY <1>9, <1>14
  <2>5. PICK e \in Entries : e = Entry(k, d) /\ e.key = k
    BY EntryIn
  <2>6. IsPut(u, t, n, s, e)
    BY <1>5, <1>7, <2>1, <2>3, <2>5, ExceptIsPut DEF Sound
  <2>7. /\ Sound(u, n) /\ Rows(u) = Rows(t) \cup {e}
        /\ Cardinality(Live(u)) = Cardinality(Live(t)) + 1
    BY <1>5, <1>7, <2>3, <2>4, <2>5, <2>6, PutIn
  <2>8. Core' /\ table' = u /\ ret' = <<"put", k, "ok">>
    BY <1>5, <1>11, <2>2, <2>7
  <2> QED
    BY <1>5, <1>6, <2>3, <2>5, <2>7, <2>8 DEF PutAnswer
<1> QED
  BY <1>12, <1>13, <1>14

RemoveAnswer(k) ==
  \/ /\ ret' = <<"remove", k, "ENOENT">> /\ Rows(table') = Rows(table) /\ k \notin KeysIn(table)
  \/ \E e \in Rows(table) : /\ e.key = k /\ ret' = <<"remove", k, e.data>>
                            /\ Rows(table') = Rows(table) \ {e}

LEMMA RemoveStep ==
  ASSUME Core, NEW k \in Keys, Remove(k)
  PROVE  Core' /\ RemoveAnswer(k)
<1>1. PICK i : i = IF NeedsShrinking THEN index - 1 ELSE index
  OBVIOUS
<1>2. PICK t : t = ResizedTo(i)
  OBVIOUS
<1>3. Removed(k, i, t)
  BY <1>1, <1>2 DEF Remove
<1>4. /\ i \in 0 .. Largest /\ (i = 0 <=> index = 0)
      /\ i # 0 => Size(TableSizes[i])
      /\ Sound(t, IF i = 0 THEN 0 ELSE TableSizes[i])
      /\ Rows(t) = Rows(table) /\ Cardinality(Live(t)) = size /\ size \in Nat
  BY <1>1, <1>2, ShrunkIs
<1>5. KeysIn(t) = KeysIn(table)
  BY <1>4, KeysOfRows
<1>6. PICK n : n = IF i = 0 THEN 0 ELSE TableSizes[i]
  OBVIOUS
<1>7. PICK s : s = IF index = 0 THEN -1 ELSE Where(t, k, TableSizes[i])
  OBVIOUS
<1>8. IF s = -1 THEN Leaves(i, t, size, <<"remove", k, "ENOENT">>)
      ELSE Leaves(i, [t EXCEPT ![s] = Mark], size - 1, <<"remove", k, t[s].data>>)
  BY <1>3, <1>7 DEF Removed
<1>9. \/ s = -1 /\ k \notin KeysIn(t)
      \/ i # 0 /\ s \in Live(t) /\ s # -1 /\ t[s].key = k
  <2>1. CASE index = 0
    <3>1. Live(t) \subseteq 0 .. 0 - 1
      BY <1>4, <2>1, SlotFacts DEF Sound
    <3>2. k \notin KeysIn(t)
      BY <3>1, InKeys
    <3> QED
      BY <1>7, <2>1, <3>2
  <2>2. CASE index # 0
    BY <1>4, <1>7, <2>2, GetLook
  <2> QED
    BY <2>1, <2>2
<1>10. ASSUME NEW u, NEW sz, NEW a, Leaves(i, u, sz, a), Sound(u, n), Cardinality(Live(u)) = sz
       PROVE  Core' /\ table' = u /\ ret' = a
  BY <1>4, <1>6, <1>10 DEF Leaves, Core, Width
<1>11. CASE s = -1
  <2>1. Leaves(i, t, size, <<"remove", k, "ENOENT">>)
    BY <1>8, <1>11
  <2>2. Core' /\ table' = t /\ ret' = <<"remove", k, "ENOENT">>
    BY <1>4, <1>6, <1>10, <2>1
  <2>3. k \notin KeysIn(t)
    <3>1. \A r \in Live(t) : r # -1
      BY <1>4, SlotFacts DEF Sound
    <3> QED
      BY <1>9, <1>11, <3>1
  <2> QED
    BY <1>4, <1>5, <2>2, <2>3 DEF RemoveAnswer
<1>12. CASE s # -1
  <2>1. PICK u : u = [t EXCEPT ![s] = Mark]
    OBVIOUS
  <2>2. Leaves(i, u, size - 1, <<"remove", k, t[s].data>>)
    BY <1>8, <1>12, <2>1
  <2>3. i # 0 /\ s \in Live(t) /\ t[s].key = k /\ Size(n) /\ Sound(t, n)
    BY <1>4, <1>6, <1>9, <1>12
  <2>4. TableOf(t, n) /\ s \in 0 .. n - 1
    BY <2>3, SlotFacts DEF Sound
  <2>5. IsPut(u, t, n, s, Mark)
    BY <2>1, <2>4, ExceptIsPut
  <2>6. /\ Sound(u, n) /\ Rows(u) = Rows(t) \ {t[s]}
        /\ Cardinality(Live(u)) = Cardinality(Live(t)) - 1
    BY <2>3, <2>5, TakeOut
  <2>7. Core' /\ table' = u /\ ret' = <<"remove", k, t[s].data>>
    BY <1>4, <1>10, <2>2, <2>6
  <2>8. t[s] \in Rows(table)
    BY <1>4, <2>3 DEF Rows
  <2> QED
    BY <1>4, <2>3, <2>6, <2>7, <2>8 DEF RemoveAnswer
<1> QED
  BY <1>11, <1>12

-----------------------------------------------------------------------------
(* The map that a table stands for.                                        *)
MapOf(t) == [k \in KeysIn(t) |-> (CHOOSE e \in Rows(t) : e.key = k).data]

MapWith(t, k, d) == [x \in KeysIn(t) \cup {k} |-> IF x = k THEN d ELSE MapOf(t)[x]]
MapWithout(t, k) == [x \in KeysIn(t) \ {k} |-> MapOf(t)[x]]

LEMMA RowOnce ==
  ASSUME NEW t, NEW n, Sound(t, n)
  PROVE  \A e, f \in Rows(t) : e.key = f.key => e = f
  BY DEF Sound, Rows

LEMMA RowEntries ==
  ASSUME NEW t, NEW n, Sound(t, n)
  PROVE  Rows(t) \subseteq Entries
<1>1. \A s \in Live(t) : t[s] \in Entries
  BY SlotFacts DEF Sound
<1> QED
  BY <1>1 DEF Rows

LEMMA InKeysRows == \A t, k : k \in KeysIn(t) <=> \E e \in Rows(t) : e.key = k
  BY KeysOfRows

LEMMA MapAt ==
  ASSUME NEW t, NEW n, Sound(t, n)
  PROVE  /\ DOMAIN MapOf(t) = KeysIn(t)
         /\ \A e \in Rows(t) : e.key \in KeysIn(t) /\ MapOf(t)[e.key] = e.data
<1>1. DOMAIN MapOf(t) = KeysIn(t)
  BY DEF MapOf
<1>2. ASSUME NEW e \in Rows(t) PROVE e.key \in KeysIn(t) /\ MapOf(t)[e.key] = e.data
  <2>1. e.key \in KeysIn(t)
    BY InKeysRows
  <2>2. (CHOOSE f \in Rows(t) : f.key = e.key) = e
    BY RowOnce
  <2> QED
    BY <2>1, <2>2 DEF MapOf
<1> QED
  BY <1>1, <1>2

LEMMA MapSame ==
  ASSUME NEW t, NEW u, Rows(u) = Rows(t)
  PROVE  KeysIn(u) = KeysIn(t) /\ MapOf(u) = MapOf(t)
<1>1. KeysIn(u) = KeysIn(t)
  BY KeysOfRows
<1> QED
  BY <1>1 DEF MapOf

LEMMA MapPut ==
  ASSUME NEW t, NEW n, Sound(t, n), NEW u, NEW m, Sound(u, m), NEW e, Rows(u) = Rows(t) \cup {e},
         e.key \notin KeysIn(t)
  PROVE  MapOf(u) = MapWith(t, e.key, e.data)
<1>1. KeysIn(u) = KeysIn(t) \cup {e.key}
  <2>1. \A k : k \in KeysIn(u) <=> k \in KeysIn(t) \/ k = e.key
    BY InKeysRows
  <2> QED
    BY <2>1
<1>2. DOMAIN MapOf(u) = KeysIn(t) \cup {e.key}
  BY <1>1, MapAt
<1>3. MapOf(u)[e.key] = e.data
  BY MapAt
<1>4. ASSUME NEW x \in KeysIn(t) PROVE MapOf(u)[x] = MapOf(t)[x]
  <2>1. PICK f \in Rows(t) : f.key = x
    BY InKeysRows
  <2>2. MapOf(t)[x] = f.data
    BY <2>1, MapAt
  <2>3. f \in Rows(u)
    OBVIOUS
  <2>4. MapOf(u)[x] = f.data
    BY <2>1, <2>3, MapAt
  <2> QED
    BY <2>2, <2>4
<1>5. MapOf(u) = [x \in DOMAIN MapOf(u) |-> MapOf(u)[x]]
  BY DEF MapOf
<1> QED
  BY <1>2, <1>3, <1>4, <1>5 DEF MapWith

LEMMA MapRemove ==
  ASSUME NEW t, NEW n, Sound(t, n), NEW u, NEW m, Sound(u, m), NEW e \in Rows(t),
         Rows(u) = Rows(t) \ {e}
  PROVE  MapOf(u) = MapWithout(t, e.key)
<1>1. KeysIn(u) = KeysIn(t) \ {e.key}
  <2>1. \A k : k \in KeysIn(u) <=> k \in KeysIn(t) /\ k # e.key
    BY InKeysRows, RowOnce
  <2> QED
    BY <2>1
<1>2. DOMAIN MapOf(u) = KeysIn(t) \ {e.key}
  BY <1>1, MapAt
<1>3. ASSUME NEW x \in KeysIn(t) \ {e.key} PROVE MapOf(u)[x] = MapOf(t)[x]
  <2>1. PICK f \in Rows(t) : f.key = x
    BY InKeysRows
  <2>2. MapOf(t)[x] = f.data
    BY <2>1, MapAt
  <2>3. f \in Rows(u)
    BY <2>1
  <2>4. MapOf(u)[x] = f.data
    BY <2>1, <2>3, MapAt
  <2> QED
    BY <2>2, <2>4
<1>4. MapOf(u) = [x \in DOMAIN MapOf(u) |-> MapOf(u)[x]]
  BY DEF MapOf
<1> QED
  BY <1>2, <1>3, <1>4 DEF MapWithout

(* The steps of the abstract map, in terms of MapOf.                       *)
LEMMA AbstractVars == /\ MapOf(table)' = MapOf(table') /\ KeysIn(table)' = KeysIn(table')
                      /\ MapOf(table') = MapOf(table) /\ ret' = ret => UNCHANGED M!vars
<1>1. MapOf(table)' = MapOf(table') /\ KeysIn(table)' = KeysIn(table')
  BY DEF MapOf, KeysIn, Rows, Live, Slots
<1>2. ASSUME MapOf(table') = MapOf(table), ret' = ret PROVE UNCHANGED M!vars
  BY <1>1, <1>2 DEF M!vars, MapOf, Rows
<1> QED
  BY <1>1, <1>2

LEMMA AbstractPut ==
  ASSUME NEW k \in Keys, NEW d \in Data, k \notin KeysIn(table),
         MapOf(table') = MapWith(table, k, d), ret' = <<"put", k, "ok">>
  PROVE  M!Next
<1>1. DOMAIN MapOf(table) = KeysIn(table)
  BY DEF MapOf
<1>2. M!Put(k, d)
  BY <1>1, AbstractVars DEF M!Put, MapOf, Rows, MapWith
<1> QED
  BY <1>2 DEF M!Next

LEMMA AbstractPutAgain ==
  ASSUME NEW k \in Keys, k \in KeysIn(table), MapOf(table') = MapOf(table),
         ret' = <<"put", k, "EEXIST">>
  PROVE  M!Next
<1>1. M!PutAgain(k)
  BY AbstractVars DEF M!PutAgain, MapOf, Rows
<1> QED
  BY <1>1 DEF M!Next

LEMMA MapCardinality == \A S : M!Cardinality(S) = Cardinality(S)
  BY DEF M!Cardinality, Cardinality

LEMMA AbstractNoSpace ==
  ASSUME NEW k \in Keys, k \notin KeysIn(table), Cardinality(KeysIn(table)) = TableSizes[Largest],
         MapOf(table') = MapOf(table), ret' = <<"put", k, "ENOSPC">>
  PROVE  M!Next
<1>1. DOMAIN MapOf(table) = KeysIn(table)
  BY DEF MapOf
<1>2. Cardinality(DOMAIN MapOf(table)) = TableSizes[Largest] /\ k \notin DOMAIN MapOf(table)
  BY <1>1
<1>3. MapOf(table)' = MapOf(table)
  BY AbstractVars
<1>4. MapOf(table)' = MapOf(table) <=> UNCHANGED [x \in KeysIn(table) |->
        (CHOOSE e \in {table[s] : s \in Live(table)} : e.key = x).data]
  BY DEF MapOf, Rows
<1>5. MapOf(table) = [x \in KeysIn(table) |->
        (CHOOSE e \in {table[s] : s \in Live(table)} : e.key = x).data]
  BY DEF MapOf, Rows
<1>6. M!NoSpace(k)
  BY <1>2, <1>3, <1>4, <1>5, MapCardinality, Zenon DEF M!NoSpace
<1> QED
  BY <1>6 DEF M!Next

LEMMA AbstractGet ==
  ASSUME NEW k \in Keys, MapOf(table') = MapOf(table),
         ret' = <<"get", k, IF k \in KeysIn(table) THEN MapOf(table)[k] ELSE NULL>>
  PROVE  M!Next
<1>1. M!Get(k)
  BY AbstractVars DEF M!Get, MapOf, Rows
<1> QED
  BY <1>1 DEF M!Next

LEMMA AbstractRemove ==
  ASSUME NEW k \in Keys, k \in KeysIn(table), ret' = <<"remove", k, MapOf(table)[k]>>,
         MapOf(table') = MapWithout(table, k)
  PROVE  M!Next
<1>1. DOMAIN MapOf(table) = KeysIn(table)
  BY DEF MapOf
<1>2. M!Without(k) = MapWithout(table, k)
  BY <1>1 DEF M!Without, M!Restrict, MapWithout, MapOf, Rows
<1>3. M!Remove(k)
  BY <1>1, <1>2, AbstractVars DEF M!Remove, MapOf, Rows
<1> QED
  BY <1>3 DEF M!Next

LEMMA AbstractRemoveMissing ==
  ASSUME NEW k \in Keys, k \notin KeysIn(table), MapOf(table') = MapOf(table),
         ret' = <<"remove", k, "ENOENT">>
  PROVE  M!Next
<1>1. M!RemoveMissing(k)
  BY AbstractVars DEF M!RemoveMissing, MapOf, Rows
<1> QED
  BY <1>1 DEF M!Next

LEMMA AbstractNoMemory ==
  ASSUME NEW k \in Keys, MapOf(table') = MapOf(table),
         ret' = <<"put", k, "ENOMEM">> \/ ret' = <<"remove", k, "ENOMEM">>
  PROVE  M!Next
<1>1. M!NoMemory(k)
  BY AbstractVars DEF M!NoMemory, MapOf, Rows
<1> QED
  BY <1>1 DEF M!Next

(* Every step keeps the table right and is one of the abstract map.        *)
LEMMA CoreStep ==
  ASSUME Core, ~PutsAgain, [Next]_vars
  PROVE  Core' /\ [M!Next]_(M!vars)
<1>1. Sound(table, Width)
  BY DEF Core
<1>2. ASSUME NEW k \in Keys, NEW d \in Data, Put(k, d) PROVE Core' /\ M!Next
  <2>1. Core' /\ PutAnswer(k, d)
    BY <1>2, PutStep
  <2>2. Sound(table', Width')
    BY <2>1 DEF Core
  <2>3. CASE /\ ret' = <<"put", k, "ok">> /\ Rows(table') = Rows(table) \cup {Entry(k, d)}
             /\ k \notin KeysIn(table)
    <3>1. PICK e : e = Entry(k, d) /\ e.key = k /\ e.data = d
      BY EntryIn
    <3>2. MapOf(table') = MapWith(table, e.key, e.data)
      BY <1>1, <2>2, <2>3, <3>1, MapPut
    <3> QED
      BY <2>1, <2>3, <3>1, <3>2, AbstractPut
  <2>4. CASE ~(ret' = <<"put", k, "ok">>)
    <3>1. MapOf(table') = MapOf(table)
      BY <2>1, <2>4, MapSame DEF PutAnswer
    <3> QED
      BY <2>1, <2>4, <3>1, AbstractPutAgain, AbstractNoSpace DEF PutAnswer
  <2> QED
    BY <2>1, <2>3, <2>4 DEF PutAnswer
<1>3. ASSUME NEW k \in Keys, Get(k) PROVE Core' /\ M!Next
  <2>1. UNCHANGED <<index, table, size>>
    BY <1>3 DEF Get
  <2>2. Core'
    BY <2>1 DEF Core, Width
  <2>3. PICK s : s = IF index = 0 THEN -1 ELSE Where(table, k, TableSizes[index])
    OBVIOUS
  <2>4. ret' = <<"get", k, IF s = -1 THEN NULL ELSE table[s].data>>
    BY <1>3, <2>3 DEF Get
  <2>5. \/ s = -1 /\ k \notin KeysIn(table)
        \/ s \in Live(table) /\ s # -1 /\ table[s].key = k
    <3>1. CASE index = 0
      <4>1. Live(table) \subseteq 0 .. 0 - 1
        BY <1>1, <3>1, SlotFacts DEF Sound, Width
      <4> QED
        BY <2>3, <3>1, <4>1, InKeys
    <3>2. CASE index # 0
      <4>1. Sound(table, TableSizes[index]) /\ Size(TableSizes[index])
        BY <1>1, <3>2, SizesRight DEF Core, Width
      <4> QED
        BY <2>3, <3>2, <4>1, GetLook
    <3> QED
      BY <3>1, <3>2
  <2>6. ret' = <<"get", k, IF k \in KeysIn(table) THEN MapOf(table)[k] ELSE NULL>>
    <3>1. CASE s = -1
      <4>1. \A r \in Live(table) : r # -1
        BY <1>1, SlotFacts DEF Sound
      <4> QED
        BY <2>4, <2>5, <3>1, <4>1
    <3>2. CASE s # -1
      <4>1. table[s] \in Rows(table) /\ table[s].key = k
        BY <2>5, <3>2 DEF Rows
      <4>2. k \in KeysIn(table) /\ MapOf(table)[k] = table[s].data
        BY <1>1, <4>1, MapAt
      <4> QED
        BY <2>4, <3>2, <4>2
    <3> QED
      BY <3>1, <3>2
  <2>7. MapOf(table') = MapOf(table)
    BY <2>1
  <2> QED
    BY <2>2, <2>6, <2>7, AbstractGet
<1>4. ASSUME NEW k \in Keys, Remove(k) PROVE Core' /\ M!Next
  <2>1. Core' /\ RemoveAnswer(k)
    BY <1>4, RemoveStep
  <2>2. Sound(table', Width')
    BY <2>1 DEF Core
  <2>3. CASE ret' = <<"remove", k, "ENOENT">> /\ Rows(table') = Rows(table) /\ k \notin KeysIn(table)
    <3>1. MapOf(table') = MapOf(table)
      BY <2>3, MapSame
    <3> QED
      BY <2>1, <2>3, <3>1, AbstractRemoveMissing
  <2>4. ASSUME NEW e \in Rows(table), e.key = k, ret' = <<"remove", k, e.data>>,
               Rows(table') = Rows(table) \ {e}
        PROVE  M!Next
    <3>1. MapOf(table') = MapWithout(table, e.key)
      BY <1>1, <2>2, <2>4, MapRemove
    <3>2. k \in KeysIn(table) /\ MapOf(table)[k] = e.data
      BY <1>1, <2>4, MapAt
    <3> QED
      BY <2>4, <3>1, <3>2, AbstractRemove
  <2> QED
    BY <2>1, <2>3, <2>4 DEF RemoveAnswer
<1>5. ASSUME NEW k \in Keys, OutOfMemory(k) PROVE Core' /\ M!Next
  <2>1. UNCHANGED <<index, table, size>> /\ (ret' = <<"put", k, "ENOMEM">> \/ ret' = <<"remove", k, "ENOMEM">>)
    BY <1>5 DEF OutOfMemory
  <2>2. Core'
    BY <2>1 DEF Core, Width
  <2>3. MapOf(table') = MapOf(table)
    BY <2>1
  <2> QED
    BY <2>1, <2>2, <2>3, AbstractNoMemory
<1>6. ASSUME Clear PROVE Core' /\ M!Next
  <2>1. index' = 0 /\ table' = Blank(0) /\ size' = 0 /\ ret' = <<"clear">>
    BY <1>6 DEF Clear, Leaves
  <2>2. Sound(Blank(0), 0) /\ Rows(Blank(0)) = {} /\ Cardinality(Live(Blank(0))) = 0
    BY BlankIs
  <2>3. Core'
    BY <2>1, <2>2, LargestIs DEF Core, Width
  <2>4. KeysIn(table') = {}
    BY <2>1, <2>2, KeysOfRows
  <2>5. MapOf(table') = [k \in {} |-> NULL]
    BY <2>4 DEF MapOf
  <2>6. M!Clear
    BY <2>1, <2>5, AbstractVars DEF M!Clear, MapOf, Rows
  <2> QED
    BY <2>3, <2>6 DEF M!Next
<1>7. ASSUME UNCHANGED <<index, table, size, ret>> PROVE Core' /\ UNCHANGED M!vars
  <2>1. Core'
    BY <1>7 DEF Core, Width
  <2>2. MapOf(table') = MapOf(table)
    BY <1>7
  <2> QED
    BY <1>7, <2>1, <2>2, AbstractVars
<1>8. Iterate \/ NextKey \/ NextNull \/ UNCHANGED vars => UNCHANGED <<index, table, size, ret>>
  BY DEF Iterate, NextKey, NextNull, vars
<1> QED
  BY <1>2, <1>3, <1>4, <1>5, <1>6, <1>7, <1>8 DEF Next

-----------------------------------------------------------------------------
(* What an enumeration has returned: every key that is in the map since it *)
(* began, once if the slot of the key is behind the iterator.              *)
Traced == /\ iter = -1 => steady = {}
          /\ \A k \in steady : \E s \in Live(table) :
                table[s].key = k /\ seen[k] = IF s < iter THEN 1 ELSE 0

Trail == /\ iter \in -1 .. TableSizes[Largest]
         /\ seen \in [Keys -> Nat]
         /\ steady = NULL \/ steady \subseteq Keys
         /\ steady # NULL => Traced

(* The keys that stay in the map stay in their slots.                      *)
Kept == \A s \in Live(table) : table[s].key \in KeysIn(table') =>
           s \in Live(table') /\ table'[s] = table[s]

Returns == steady # NULL => \A k \in steady :
              /\ seen[k] <= 1
              /\ iter # -1 /\ iter' = -1 => seen[k] = 1

LEMMA KeysInKeys ==
  ASSUME NEW t, NEW n, Sound(t, n)
  PROVE  KeysIn(t) \subseteq Keys
<1> SUFFICES ASSUME NEW s \in Live(t) PROVE t[s].key \in Keys
  BY DEF KeysIn
<1>1. t[s] \in Entries
  BY SlotFacts DEF Sound
<1> QED
  BY <1>1, EntryFacts

LEMMA LeavesTrail ==
  ASSUME Trail, NEW i, NEW t, NEW sz, NEW answer, Leaves(i, t, sz, answer),
         i = index => Kept
  PROVE  Trail' /\ iter' = iter
<1>1. /\ table' = t /\ iter' = iter
      /\ steady' = IF iter = -1 THEN {} ELSE IF i # index \/ steady = NULL THEN NULL
                   ELSE steady \cap KeysIn(t)
      /\ seen' = IF steady' = NULL THEN Unseen
                 ELSE [k \in Keys |-> IF k \in steady' THEN seen[k] ELSE 0]
  BY DEF Leaves
<1>2. seen' \in [Keys -> Nat]
  BY <1>1 DEF Trail, Unseen
<1>3. iter' \in -1 .. TableSizes[Largest]
  BY <1>1 DEF Trail
<1>4. steady' = NULL \/ steady' \subseteq Keys
  BY <1>1 DEF Trail
<1>5. CASE steady' = NULL
  BY <1>1, <1>2, <1>3, <1>5 DEF Trail
<1>6. CASE steady' # NULL /\ steady' = {}
  <2>1. Traced'
    BY <1>6 DEF Traced
  <2> QED
    BY <1>1, <1>2, <1>3, <1>4, <2>1 DEF Trail
<1>7. CASE steady' # NULL /\ steady' # {}
  <2>1. iter # -1 /\ i = index /\ steady # NULL /\ steady' = steady \cap KeysIn(t)
    BY <1>1, <1>7
  <2>2. ASSUME NEW k \in steady'
        PROVE  \E s \in Live(table') : table'[s].key = k /\ seen'[k] = IF s < iter' THEN 1 ELSE 0
    <3>1. k \in steady /\ k \in KeysIn(table') /\ k \in Keys
      BY <1>1, <1>4, <1>7, <2>1
    <3>2. PICK s \in Live(table) : table[s].key = k /\ seen[k] = IF s < iter THEN 1 ELSE 0
      BY <2>1, <3>1 DEF Trail, Traced
    <3>3. s \in Live(table') /\ table'[s] = table[s]
      BY <2>1, <3>1, <3>2 DEF Kept
    <3>4. seen'[k] = seen[k]
      BY <1>1, <1>7, <3>1
    <3> QED
      BY <1>1, <3>2, <3>3, <3>4
  <2>3. Traced'
    BY <1>1, <2>1, <2>2 DEF Traced
  <2> QED
    BY <1>1, <1>2, <1>3, <1>4, <2>3 DEF Trail
<1> QED
  BY <1>1, <1>5, <1>6, <1>7

(* A put takes no slot of an entry, a remove that of its key only.         *)
LEMMA PutKeeps ==
  ASSUME Core, NEW k \in Keys, NEW d \in Data, Put(k, d)
  PROVE  \E i, t, sz, answer : Leaves(i, t, sz, answer) /\ (i = index => Kept)
<1>1. PICK i : i = IF NeedsGrowth THEN index + 1 ELSE index
  OBVIOUS
<1>2. PICK t : t = ResizedTo(i)
  OBVIOUS
<1>3. Entered(k, d, i, t)
  BY <1>1, <1>2 DEF Put
<1>4. PICK s : s = Seek(k, TableSizes[i], TableSizes[i], {x \in Slots(t) : Stops(t, k, x)})
  OBVIOUS
<1>5. \/ s = -1 /\ Leaves(i, t, size, <<"put", k, "ENOSPC">>)
      \/ s # -1 /\ t[s].key = k /\ Leaves(i, t, size, <<"put", k, "EEXIST">>)
      \/ s # -1 /\ t[s].key # k
         /\ Leaves(i, [t EXCEPT ![s] = Entry(k, d)], size + 1, <<"put", k, "ok">>)
  BY <1>3, <1>4 DEF Entered
<1>6. i = index => t = table
  BY <1>2 DEF ResizedTo
<1>7. CASE table' = t
  BY <1>5, <1>6, <1>7 DEF Kept
<1>8. CASE s # -1 /\ t[s].key # k
           /\ Leaves(i, [t EXCEPT ![s] = Entry(k, d)], size + 1, <<"put", k, "ok">>)
  <2> SUFFICES ASSUME i = index, NEW r \in Live(table)
               PROVE  r \in Live(table') /\ table'[r] = table[r]
    BY <1>8 DEF Kept
  <2>1. t = table /\ table' = [table EXCEPT ![s] = Entry(k, d)]
    BY <1>6, <1>8 DEF Leaves
  <2>2. Found(k, TableSizes[i], TableSizes[i], {x \in Slots(t) : Stops(t, k, x)}, s)
    <3>1. index # 0
      BY <1>1 DEF NeedsGrowth
    <3>2. TableSizes[i] \in Nat
      BY <3>1, SizesRight DEF Core, Size
    <3> QED
      BY <1>4, <3>2, SeekFacts
  <2>3. Stops(t, k, s)
    BY <1>8, <2>2 DEF Found
  <2>4. t[s].key <= DELETED /\ t[r].key > DELETED
    BY <1>8, <2>1, <2>3 DEF Stops, Live
  <2>5. t[r].key \in Nat /\ DELETED = 1
    BY <2>1, SlotFacts DEF Core, Sound, DELETED
  <2>6. r # s
    BY <2>4, <2>5
  <2> QED
    BY <2>1, <2>6 DEF Live, Slots
<1> QED
  BY <1>5, <1>7, <1>8 DEF Leaves

LEMMA RemoveKeeps ==
  ASSUME Core, NEW k \in Keys, Remove(k)
  PROVE  \E i, t, sz, answer : Leaves(i, t, sz, answer) /\ (i = index => Kept)
<1>1. PICK i : i = IF NeedsShrinking THEN index - 1 ELSE index
  OBVIOUS
<1>2. PICK t : t = ResizedTo(i)
  OBVIOUS
<1>3. Removed(k, i, t)
  BY <1>1, <1>2 DEF Remove
<1>4. PICK s : s = IF index = 0 THEN -1 ELSE Where(t, k, TableSizes[i])
  OBVIOUS
<1>5. \/ s = -1 /\ Leaves(i, t, size, <<"remove", k, "ENOENT">>)
      \/ s # -1 /\ Leaves(i, [t EXCEPT ![s] = Mark], size - 1, <<"remove", k, t[s].data>>)
  BY <1>3, <1>4 DEF Removed
<1>6. i = index => t = table
  BY <1>2 DEF ResizedTo
<1>7. CASE table' = t
  BY <1>5, <1>6, <1>7 DEF Kept
<1>8. CASE s # -1 /\ Leaves(i, [t EXCEPT ![s] = Mark], size - 1, <<"remove", k, t[s].data>>)
  <2> SUFFICES ASSUME i = index, NEW r \in Live(table), table[r].key \in KeysIn(table')
               PROVE  r \in Live(table') /\ table'[r] = table[r]
    BY <1>8 DEF Kept
  <2>1. t = table /\ table' = [table EXCEPT ![s] = Mark]
    BY <1>6, <1>8 DEF Leaves
  <2>2. index # 0 /\ Sound(table, TableSizes[index]) /\ Size(TableSizes[index])
    BY <1>4, <1>8, SizesRight DEF Core, Width
  <2>3. s \in Live(table) /\ table[s].key = k
    BY <1>4, <1>8, <2>1, <2>2, GetLook
  <2>4. PICK q \in Live(table') : table'[q].key = table[r].key
    BY InKeys
  <2>5. q \in Live(table) /\ q # s /\ table'[q] = table[q]
    <3>1. q \in Slots(table) /\ table'[q].key > DELETED
      BY <2>1, <2>4 DEF Live, Slots
    <3>2. q # s
      <4>1. s \in DOMAIN table
        BY <2>3 DEF Live, Slots
      <4>2. table'[s].key = 1 /\ DELETED = 1
        BY <2>1, <4>1 DEF Mark, Entry, DELETED
      <4> QED
        BY <3>1, <4>2
    <3>3. table'[q] = table[q]
      BY <2>1, <3>1, <3>2 DEF Slots
    <3> QED
      BY <3>1, <3>2, <3>3 DEF Live
  <2>6. q = r
    BY <2>2, <2>4, <2>5 DEF Sound
  <2> QED
    BY <2>4, <2>5, <2>6
<1> QED
  BY <1>5, <1>7, <1>8 DEF Leaves

LEMMA WidthBound ==
  ASSUME NEW i \in 1 .. Largest
  PROVE  TableSizes[i] <= TableSizes[Largest]
<1> DEFINE Above == {j \in i .. Largest : TableSizes[i] <= TableSizes[j]}
           Under == {h \in Nat : Largest - h \in Above}
<1>1. Largest \in Nat /\ \A j \in 1 .. Largest : TableSizes[j] \in Nat
  BY LargestIs, SizesRight DEF Size
<1>2. Largest - i \in Under
  BY <1>1
<1>3. Under \subseteq Nat
  OBVIOUS
<1> HIDE DEF Under
<1>4. PICK h \in Under : \A g \in Under : h <= g
  BY <1>2, <1>3, LeastNatural
<1> USE DEF Under
<1>5. h \in Nat /\ Largest - h \in i .. Largest /\ TableSizes[i] <= TableSizes[Largest - h]
  BY <1>4
<1>6. CASE h = 0
  BY <1>1, <1>5, <1>6
<1>7. CASE h # 0
  <2>1. PICK j : j = Largest - h + 1
    OBVIOUS
  <2>2. j \in 2 .. Largest /\ j \in i .. Largest /\ j - 1 = Largest - h /\ h - 1 \in Nat
        /\ Largest - (h - 1) = j
    BY <1>1, <1>5, <1>7, <2>1
  <2>3. TableSizes[j - 1] < TableSizes[j]
    BY <2>2, Apart
  <2>4. TableSizes[i] <= TableSizes[j]
    <3>1. TableSizes[j - 1] \in Nat /\ TableSizes[j] \in Nat /\ TableSizes[i] \in Nat
      BY <1>1, <2>2
    <3> QED
      BY <1>5, <2>2, <2>3, <3>1
  <2>5. h - 1 \in Under
    BY <2>2, <2>4
  <2> HIDE DEF Under
  <2>6. h <= h - 1
    BY <1>4, <2>5
  <2> QED
    BY <1>5, <2>6
<1> QED
  BY <1>6, <1>7

LEMMA MinIn ==
  ASSUME NEW S, S \subseteq Nat, S # {}
  PROVE  Min(S) \in S /\ \A y \in S : Min(S) <= y
<1>1. PICK m \in S : \A y \in S : m <= y
  BY LeastNatural
<1> QED
  BY <1>1 DEF Min

LEMMA NextKeyTrail ==
  ASSUME Core, Trail, NextKey
  PROVE  Trail' /\ Returns
<1>1. PICK m : m = Min(Rest)
  OBVIOUS
<1>2. PICK k : k = table[m].key
  OBVIOUS
<1>3. /\ iter # -1 /\ Rest # {} /\ iter' = m + 1
      /\ seen' = IF steady # NULL /\ k \in steady THEN [seen EXCEPT ![k] = @ + 1] ELSE seen
      /\ table' = table /\ steady' = steady
  BY <1>1, <1>2 DEF NextKey, Resume
<1>4. index \in 0 .. Largest /\ Sound(table, Width) /\ Width \in Nat
  BY DEF Core, Sound
<1>5. \A s \in Live(table) : s \in 0 .. Width - 1
  BY <1>4, SlotFacts DEF Sound
<1>6. m \in Live(table) /\ m >= iter /\ \A s \in Live(table) : s >= iter => m <= s
  <2>1. Rest \subseteq Nat
    BY <1>4, <1>5 DEF Rest
  <2>2. m \in Rest /\ \A s \in Rest : m <= s
    BY <1>1, <1>3, <2>1, MinIn
  <2> QED
    BY <2>2 DEF Rest
<1>7. m \in Nat /\ m + 1 <= Width /\ iter \in Int
  BY <1>4, <1>5, <1>6 DEF Trail
<1>8. iter' \in -1 .. TableSizes[Largest]
  <2>1. index \in 1 .. Largest /\ Width = TableSizes[index]
    BY <1>4, <1>7 DEF Width
  <2>2. TableSizes[index] <= TableSizes[Largest] /\ TableSizes[Largest] \in Nat
        /\ TableSizes[index] \in Nat
    BY <2>1, WidthBound, SizesRight, LargestIs DEF Size
  <2> QED
    BY <1>3, <1>7, <2>1, <2>2
<1>9. seen' \in [Keys -> Nat]
  BY <1>3 DEF Trail
<1>10. ASSUME steady # NULL, NEW x \in steady
       PROVE  /\ seen[x] <= 1
              /\ \E s \in Live(table') : table'[s].key = x /\ seen'[x] = IF s < iter' THEN 1 ELSE 0
  <2>1. x \in Keys /\ seen[x] \in Nat
    BY <1>10 DEF Trail
  <2>2. PICK s \in Live(table) : table[s].key = x /\ seen[x] = IF s < iter THEN 1 ELSE 0
    BY <1>10 DEF Trail, Traced
  <2>3. s \in Nat
    BY <1>4, <1>5
  <2>4. CASE s = m
    <3>1. k = x /\ seen[x] = 0
      BY <1>2, <1>6, <1>7, <2>2, <2>4
    <3>2. seen'[x] = 1
      BY <1>3, <1>10, <2>1, <3>1 DEF Trail
    <3> QED
      BY <1>3, <1>7, <2>2, <2>4, <3>1, <3>2
  <2>5. CASE s # m
    <3>1. k # x
      BY <1>2, <1>4, <1>6, <2>2, <2>5 DEF Sound
    <3>2. seen'[x] = seen[x]
      BY <1>3, <2>1, <3>1 DEF Trail
    <3>3. s < iter <=> s < m + 1
      BY <1>6, <1>7, <2>3, <2>5
    <3> QED
      BY <1>3, <2>2, <3>2, <3>3
  <2> QED
    BY <2>4, <2>5
<1>11. iter' # -1
  BY <1>3, <1>7
<1>12. steady # NULL => Traced'
  BY <1>3, <1>10, <1>11 DEF Traced
<1>13. Trail'
  BY <1>3, <1>8, <1>9, <1>12 DEF Trail
<1>14. Returns
  BY <1>10, <1>11 DEF Returns
<1> QED
  BY <1>13, <1>14

LEMMA IterateTrail ==
  ASSUME Core, Trail, Iterate
  PROVE  Trail' /\ iter' # -1
<1>1. iter' = 0 /\ seen' = Unseen /\ steady' = KeysIn(table) /\ table' = table
  BY DEF Iterate
<1>2. seen' \in [Keys -> Nat] /\ \A k \in Keys : seen'[k] = 0
  BY <1>1 DEF Unseen
<1>3. steady' \subseteq Keys
  BY <1>1, KeysInKeys DEF Core
<1>4. iter' \in -1 .. TableSizes[Largest]
  <2>1. TableSizes[Largest] \in Nat
    BY LargestIs, SizesRight DEF Size
  <2> QED
    BY <1>1, <2>1
<1>5. ASSUME NEW k \in steady'
      PROVE  \E s \in Live(table') : table'[s].key = k /\ seen'[k] = IF s < iter' THEN 1 ELSE 0
  <2>1. PICK s \in Live(table) : table[s].key = k
    BY <1>1, InKeys
  <2>2. s \in Nat
    BY SlotFacts DEF Core, Sound
  <2> QED
    BY <1>1, <1>2, <1>3, <2>1, <2>2
<1>6. Traced'
  BY <1>1, <1>5 DEF Traced
<1> QED
  BY <1>1, <1>2, <1>3, <1>4, <1>6 DEF Trail

LEMMA NextNullTrail ==
  ASSUME Core, Trail, NextNull
  PROVE  Trail' /\ Returns
<1>1. iter # -1 /\ Rest = {} /\ iter' = -1 /\ seen' = Unseen /\ steady' = {} /\ table' = table
  BY DEF NextNull
<1>2. Trail'
  <2>1. TableSizes[Largest] \in Nat
    BY LargestIs, SizesRight DEF Size
  <2>2. seen' \in [Keys -> Nat]
    BY <1>1 DEF Unseen
  <2>3. Traced'
    BY <1>1 DEF Traced
  <2> QED
    BY <1>1, <2>1, <2>2, <2>3 DEF Trail
<1>3. ASSUME steady # NULL, NEW k \in steady PROVE seen[k] = 1
  <2>1. PICK s \in Live(table) : table[s].key = k /\ seen[k] = IF s < iter THEN 1 ELSE 0
    BY <1>3 DEF Trail, Traced
  <2>2. s \in Nat /\ iter \in Int
    BY SlotFacts DEF Core, Sound, Trail
  <2>3. s < iter
    BY <1>1, <2>2 DEF Rest
  <2> QED
    BY <2>1, <2>3
<1> QED
  BY <1>2, <1>3 DEF Returns

LEMMA TrailStep ==
  ASSUME Core, Trail, [Next]_vars
  PROVE  Trail' /\ (Returns \/ UNCHANGED vars)
<1>1. ASSUME iter' = iter PROVE Returns
  <2>1. \A k \in steady : steady # NULL => seen[k] \in {0, 1}
    BY DEF Trail, Traced
  <2>2. \A k \in steady : steady # NULL => seen[k] <= 1
    BY <2>1
  <2> QED
    BY <1>1, <2>2 DEF Returns
<1>2. ASSUME NEW i, NEW t, NEW sz, NEW answer, Leaves(i, t, sz, answer), i = index => Kept
      PROVE  Trail' /\ Returns
  BY <1>1, <1>2, LeavesTrail
<1>3. ASSUME NEW k \in Keys, NEW d \in Data, Put(k, d) PROVE Trail' /\ Returns
  BY <1>2, <1>3, PutKeeps
<1>4. ASSUME NEW k \in Keys, Remove(k) PROVE Trail' /\ Returns
  BY <1>2, <1>4, RemoveKeeps
<1>5. ASSUME Clear PROVE Trail' /\ Returns
  <2>1. 0 = index => Kept
    <3>1. ASSUME 0 = index PROVE Live(table) = {}
      <4>1. Live(table) \subseteq 0 .. 0 - 1
        BY <3>1, SlotFacts DEF Core, Sound, Width
      <4> QED
        BY <4>1
    <3> QED
      BY <3>1 DEF Kept
  <2>2. Leaves(0, Blank(0), 0, <<"clear">>)
    BY <1>5 DEF Clear
  <2> QED
    BY <1>2, <2>1, <2>2
<1>6. ASSUME UNCHANGED <<table, iter, seen, steady>> PROVE Trail' /\ Returns
  <2>1. steady # NULL => Traced'
    BY <1>6 DEF Trail, Traced
  <2>2. Trail'
    BY <1>6, <2>1 DEF Trail
  <2> QED
    BY <1>1, <1>6, <2>2
<1>7. ASSUME NEW k \in Keys, Get(k) \/ OutOfMemory(k) PROVE Trail' /\ Returns
  BY <1>6, <1>7 DEF Get, OutOfMemory
<1>8. ASSUME Iterate PROVE Trail' /\ Returns
  <2>1. Trail' /\ iter' # -1
    BY <1>8, IterateTrail
  <2>2. \A k \in steady : steady # NULL => seen[k] \in {0, 1}
    BY DEF Trail, Traced
  <2>3. \A k \in steady : steady # NULL => seen[k] <= 1
    BY <2>2
  <2> QED
    BY <2>1, <2>3 DEF Returns
<1>9. NextKey \/ NextNull => Trail' /\ Returns
  BY NextKeyTrail, NextNullTrail
<1>10. UNCHANGED vars => Trail'
  BY <1>6 DEF vars
<1> QED
  BY <1>3, <1>4, <1>5, <1>7, <1>8, <1>9, <1>10 DEF Next

LEMMA Started == Init => Core /\ Trail /\ M!Init
<1> SUFFICES ASSUME Init PROVE Core /\ Trail /\ M!Init
  OBVIOUS
<1>1. index = 0 /\ table = Blank(0) /\ size = 0 /\ ret = NULL /\ iter = -1
      /\ seen = Unseen /\ steady = {}
  BY DEF Init
<1>2. Sound(Blank(0), 0) /\ Rows(Blank(0)) = {} /\ Cardinality(Live(Blank(0))) = 0
  BY BlankIs
<1>3. Core
  BY <1>1, <1>2, LargestIs DEF Core, Width
<1>4. Trail
  <2>1. TableSizes[Largest] \in Nat
    BY LargestIs, SizesRight DEF Size
  <2>2. seen \in [Keys -> Nat] /\ Traced
    BY <1>1 DEF Unseen, Traced
  <2> QED
    BY <1>1, <2>1, <2>2 DEF Trail
<1>5. MapOf(table) = [k \in {} |-> NULL]
  <2>1. KeysIn(table) = {}
    BY <1>1, <1>2, KeysOfRows
  <2> QED
    BY <2>1 DEF MapOf
<1>6. M!Init
  BY <1>1, <1>5 DEF M!Init, MapOf, Rows
<1> QED
  BY <1>3, <1>4, <1>6

LEMMA CoreIsRight == Core /\ Trail => TableRight
<1> SUFFICES ASSUME Core, Trail PROVE TableRight
  OBVIOUS
<1>1. index \in 0 .. Largest /\ Sound(table, Width) /\ Width \in Nat /\ TableOf(table, Width)
      /\ size = Cardinality(Live(table))
  BY DEF Core, Sound
<1>2. DOMAIN table = 0 .. Width - 1 /\ IsFiniteSet(Live(table)) /\ size \in Nat
      /\ Live(table) \subseteq 0 .. Width - 1
  BY <1>1, SlotFacts DEF TableOf
<1>3. TypeOK
  <2>1. \A s \in Slots(table) :
           table[s] \in {Empty, Mark} \cup {Entry(k, d) : k \in Keys, d \in Data}
    BY <1>1 DEF TableOf, Slots, Entries
  <2> QED
    BY <1>1, <1>2, <2>1 DEF TypeOK, Width, Trail
<1>4. Findable
  <2> SUFFICES ASSUME NEW s \in Live(table)
               PROVE  \E j \in 0 .. TableSizes[index] - 1 :
                         /\ Probe(table[s].key, TableSizes[index], j) = s
                         /\ \A h \in 0 .. j - 1 :
                              table[Probe(table[s].key, TableSizes[index], h)].key # 0
    BY DEF Findable
  <2>1. Reached(table, Width, s) /\ s \in 0 .. Width - 1
    BY <1>1, <1>2 DEF Sound
  <2>2. Width = TableSizes[index]
    BY <2>1 DEF Width
  <2> QED
    BY <2>1, <2>2 DEF Reached
<1>5. NoDuplicates
  BY <1>1 DEF Sound, NoDuplicates
<1> QED
  BY <1>1, <1>3, <1>4, <1>5 DEF TableRight, SizeRight

-----------------------------------------------------------------------------
(* The sizes of the tables are so far apart that the elements which come   *)
(* and go between two exchanges do not make the difference: those of the   *)
(* code are, with load factors of 60 per cent and more, the default too.   *)
Spread == /\ TableSizes[1] * LoadHigh > 100
          /\ \A i \in 2 .. Largest : LoadLow * (TableSizes[i] - TableSizes[i - 1]) >= 200

(* A table holds at most one entry more, or less, than its load allows.    *)
Balanced == /\ index \in 1 .. Largest - 1 => size * 100 < LoadHigh * TableSizes[index] + 100
            /\ index > 1 => LoadLow * TableSizes[index] <= size * 100 + 100

Quiet == index' \notin {0, index} => /\ index' < Largest => ~NeedsGrowth'
                                     /\ ~NeedsShrinking'

LEMMA Factors == /\ LoadHigh \in Nat /\ LoadHigh > 0 /\ LoadLow \in Nat
                 /\ 4 * LoadLow <= LoadHigh
<1>1. LoadHigh \in 1 .. 100
  BY HashmapAssumption
<1>2. PICK q \in Int, r \in 0 .. 3 : q = LoadHigh \div 4 /\ LoadHigh = 4 * q + r
  <2>1. LoadHigh \in Int /\ 4 \in Nat /\ 4 > 0 /\ 4 - 1 = 3
    BY <1>1
  <2> QED
    BY <2>1, Division
<1> QED
  BY <1>1, <1>2 DEF LoadLow

LEMMA LoadBelow ==
  ASSUME NEW sz \in Nat, NEW n \in Nat, n > 0, NEW b \in Nat
  PROVE  (sz * 100) \div n < b <=> sz * 100 < b * n
<1>1. PICK q \in Int, r \in 0 .. n - 1 : q = (sz * 100) \div n /\ sz * 100 = n * q + r
  <2>1. sz * 100 \in Int
    OBVIOUS
  <2> QED
    BY <2>1, Division
<1>2. ASSUME q < b PROVE sz * 100 < b * n
  <2>1. sz * 100 < n * b
    BY <1>1, <1>2, Loaded
  <2> QED
    BY <2>1
<1>3. ASSUME q >= b PROVE sz * 100 >= b * n
  <2>1. n * q >= n * b
    BY <1>3
  <2>2. n * q \in Int /\ n * b = b * n /\ b * n \in Int
    OBVIOUS
  <2> QED
    BY <1>1, <2>1, <2>2
<1> QED
  BY <1>1, <1>2, <1>3

LEMMA LoadNow ==
  ASSUME index \in 1 .. Largest, size \in Nat
  PROVE  \A b \in Nat : ~(Load >= b) /\ Load < b <=> size * 100 < b * TableSizes[index]
<1> TAKE b \in Nat
<1>1. PICK n \in Nat : n = TableSizes[index] /\ n > 0
  BY SizesRight DEF Size
<1>2. PICK q \in Int : q = (size * 100) \div n
  BY <1>1, Division
<1>3. q < b <=> size * 100 < b * n
  BY <1>1, <1>2, LoadBelow
<1> QED
  BY <1>1, <1>2, <1>3 DEF Load

LEMMA LoadNext ==
  ASSUME index' \in 1 .. Largest, size' \in Nat,
         index' < Largest => size' * 100 < LoadHigh * TableSizes[index'],
         index' > 1 => LoadLow * TableSizes[index'] <= size' * 100
  PROVE  Quiet
<1>1. PICK n \in Nat : n = TableSizes[index'] /\ n > 0
  BY SizesRight DEF Size
<1>2. PICK q \in Int : q = (size' * 100) \div n
  BY <1>1, Division
<1>3. /\ q < LoadHigh <=> size' * 100 < LoadHigh * n
      /\ q < LoadLow <=> size' * 100 < LoadLow * n
  BY <1>1, <1>2, LoadBelow, Factors
<1>4. Load' = q
  BY <1>1, <1>2 DEF Load
<1>5. index' < Largest => ~NeedsGrowth'
  BY <1>1, <1>3, <1>4, Factors DEF NeedsGrowth
<1>6. ~NeedsShrinking'
  <2>1. index' > 1 => q >= LoadLow
    <3>1. size' * 100 \in Int /\ LoadLow * n \in Int /\ LoadLow \in Int
      BY Factors
    <3> QED
      BY <1>1, <1>3, <3>1
  <2>2. LoadLow' = LoadLow
    BY DEF LoadLow
  <2> QED
    BY <1>4, <2>1, <2>2, Factors DEF NeedsShrinking
<1> QED
  BY <1>5, <1>6 DEF Quiet

LEMMA Products ==
  ASSUME NEW i \in 2 .. Largest, Spread
  PROVE  \E n \in Nat, m \in Nat, h \in Nat, hh \in Nat, l \in Nat, ll \in Nat :
           /\ n = TableSizes[i - 1] /\ m = TableSizes[i]
           /\ h = LoadHigh * n /\ hh = LoadHigh * m /\ l = LoadLow * n /\ ll = LoadLow * m
           /\ l + 200 <= ll /\ h + 200 <= hh /\ ll <= h
<1>1. i - 1 \in 1 .. Largest
  BY LargestIs
<1>2. PICK n \in Nat, m \in Nat : n = TableSizes[i - 1] /\ m = TableSizes[i] /\ n < m /\ m <= 4 * n
  BY <1>1, SizesRight, Apart DEF Size
<1>3. PICK H \in Nat, L \in Nat : H = LoadHigh /\ L = LoadLow /\ 4 * L <= H
  BY Factors
<1>4. L * (m - n) >= 200
  BY <1>2, <1>3 DEF Spread
<1>5. H * n \in Nat /\ H * m \in Nat /\ L * n \in Nat /\ L * m \in Nat
  BY <1>2, <1>3
<1>6. L * n + 200 <= L * m
  <2>1. L * (m - n) = L * m - L * n
    BY <1>2, <1>3
  <2> QED
    BY <1>4, <1>5, <2>1
<1>7. H * n + 200 <= H * m
  <2>1. H * (m - n) = H * m - H * n
    BY <1>2, <1>3
  <2>2. PICK d \in Nat : d = m - n
    BY <1>2
  <2>3. L * d <= H * d
    <3>1. L <= H
      BY <1>3
    <3> QED
      BY <1>3, <2>2, <3>1
  <2> QED
    BY <1>4, <1>5, <2>1, <2>2, <2>3
<1>8. L * m <= H * n
  <2>1. L * m <= L * (4 * n)
    BY <1>2, <1>3
  <2>2. L * (4 * n) = (4 * L) * n
    BY <1>2, <1>3
  <2>3. (4 * L) * n <= H * n
    BY <1>2, <1>3
  <2>4. L * (4 * n) \in Int
    BY <1>2, <1>3
  <2> QED
    BY <1>5, <2>1, <2>2, <2>3, <2>4
<1> QED
  BY <1>2, <1>3, <1>5, <1>6, <1>7, <1>8

LEMMA PutBalance ==
  ASSUME Core, Balanced, Spread, NEW k \in Keys, NEW d \in Data, Put(k, d)
  PROVE  Balanced' /\ Quiet
<1>1. /\ index' = IF NeedsGrowth THEN index + 1 ELSE index
      /\ size' = size \/ size' = size + 1
  BY DEF Put, Entered, Leaves
<1>2. index \in 0 .. Largest /\ Largest \in Nat /\ Largest >= 1
      /\ size \in Nat /\ size <= Width
  BY LargestIs, Fits DEF Core
<1>3. CASE index = 0
  <2>1. index' = 1 /\ size' \in {0, 1}
    BY <1>1, <1>2, <1>3 DEF NeedsGrowth, Width
  <2>2. PICK n \in Nat : n = TableSizes[1]
    BY <1>2, SizesRight DEF Size
  <2>3. n * LoadHigh > 100 /\ n * LoadHigh = LoadHigh * n /\ LoadHigh * n \in Nat
    BY <2>2, Factors DEF Spread
  <2>4. size' * 100 < LoadHigh * TableSizes[index']
    BY <2>1, <2>2, <2>3
  <2>5. Quiet
    BY <1>2, <2>1, <2>4, LoadNext
  <2>6. Balanced'
    BY <2>1, <2>2, <2>3, <2>4 DEF Balanced
  <2> QED
    BY <2>5, <2>6
<1>4. CASE index # 0 /\ NeedsGrowth
  <2>1. index' \in 2 .. Largest /\ index' - 1 = index /\ index \in 1 .. Largest - 1
    BY <1>1, <1>2, <1>4 DEF NeedsGrowth
  <2>2. PICK n \in Nat, m \in Nat, h \in Nat, hh \in Nat, l \in Nat, ll \in Nat :
           /\ n = TableSizes[index] /\ m = TableSizes[index']
           /\ h = LoadHigh * n /\ hh = LoadHigh * m /\ l = LoadLow * n /\ ll = LoadLow * m
           /\ l + 200 <= ll /\ h + 200 <= hh /\ ll <= h
    <3>1. PICK i \in 2 .. Largest : i = index' /\ i - 1 = index
      BY <2>1
    <3>2. PICK n \in Nat, m \in Nat, h \in Nat, hh \in Nat, l \in Nat, ll \in Nat :
             /\ n = TableSizes[i - 1] /\ m = TableSizes[i]
             /\ h = LoadHigh * n /\ hh = LoadHigh * m /\ l = LoadLow * n /\ ll = LoadLow * m
             /\ l + 200 <= ll /\ h + 200 <= hh /\ ll <= h
      BY Products
    <3>3. n = TableSizes[index] /\ m = TableSizes[index']
      BY <3>1, <3>2
    <3> QED
      BY <3>2, <3>3
  <2>3. Load >= LoadHigh
    BY <1>4 DEF NeedsGrowth
  <2>4. size * 100 >= h
    BY <1>2, <2>1, <2>2, <2>3, LoadNow, Factors
  <2>5. size * 100 < h + 100
    BY <2>1, <2>2 DEF Balanced
  <2>6. ll <= size' * 100 /\ size' * 100 < hh /\ size' \in Nat
    BY <1>1, <1>2, <2>2, <2>4, <2>5
  <2>7. Quiet
    BY <2>1, <2>2, <2>6, LoadNext
  <2>8. Balanced'
    BY <2>1, <2>2, <2>6 DEF Balanced, LoadLow
  <2> QED
    BY <2>7, <2>8
<1>5. CASE index # 0 /\ ~NeedsGrowth
  <2>1. index' = index /\ index \in 1 .. Largest
    BY <1>1, <1>2, <1>5
  <2>2. PICK h \in Nat, l \in Nat : h = LoadHigh * TableSizes[index] /\ l = LoadLow * TableSizes[index]
    BY <2>1, SizesRight, Factors DEF Size
  <2>3. index \in 1 .. Largest - 1 => size * 100 < h
    <3> SUFFICES ASSUME index \in 1 .. Largest - 1 PROVE size * 100 < h
      OBVIOUS
    <3>1. ~(Load >= LoadHigh)
      BY <1>5 DEF NeedsGrowth
    <3>2. PICK n \in Nat : n = TableSizes[index] /\ n > 0
      BY <2>1, SizesRight DEF Size
    <3>3. PICK q \in Int : q = (size * 100) \div n
      BY <1>2, <3>2, Division
    <3>4. q < LoadHigh
      BY <3>1, <3>2, <3>3, Factors DEF Load
    <3> QED
      BY <1>2, <2>2, <3>2, <3>3, <3>4, LoadBelow, Factors
  <2>4. index > 1 => l <= size * 100 + 100
    BY <2>2 DEF Balanced
  <2>5. /\ index \in 1 .. Largest - 1 => size' * 100 < h + 100
        /\ index > 1 => l <= size' * 100 + 100
    BY <1>1, <1>2, <2>2, <2>3, <2>4
  <2> QED
    BY <2>1, <2>2, <2>5 DEF Balanced, Quiet, LoadLow
<1> QED
  BY <1>3, <1>4, <1>5

LEMMA RemoveBalance ==
  ASSUME Core, Core', Balanced, Spread, NEW k \in Keys, Remove(k)
  PROVE  Balanced' /\ Quiet
<1>1. /\ index' = IF NeedsShrinking THEN index - 1 ELSE index
      /\ size' = size \/ size' = size - 1
  BY DEF Remove, Removed, Leaves
<1>2. index \in 0 .. Largest /\ Largest \in Nat /\ Largest >= 1 /\ size \in Nat
  BY LargestIs, Fits DEF Core
<1>3. size' \in Nat
  BY Fits DEF Core
<1>4. CASE NeedsShrinking
  <2>1. index \in 2 .. Largest /\ index' = index - 1 /\ index' \in 1 .. Largest
        /\ index \in 1 .. Largest /\ Load < LoadLow
    BY <1>1, <1>2, <1>4 DEF NeedsShrinking
  <2>2. PICK n \in Nat, m \in Nat, h \in Nat, hh \in Nat, l \in Nat, ll \in Nat :
           /\ n = TableSizes[index'] /\ m = TableSizes[index]
           /\ h = LoadHigh * n /\ hh = LoadHigh * m /\ l = LoadLow * n /\ ll = LoadLow * m
           /\ l + 200 <= ll /\ h + 200 <= hh /\ ll <= h
    BY <2>1, Products
  <2>3. size * 100 < ll
    <3>1. PICK q \in Int : q = (size * 100) \div m
      <4>1. m > 0 /\ size * 100 \in Int
        BY <1>2, <2>1, <2>2, SizesRight DEF Size
      <4> QED
        BY <4>1, Division
    <3>2. q < LoadLow
      BY <2>1, <2>2, <3>1 DEF Load
    <3>3. m > 0
      BY <2>1, <2>2, SizesRight DEF Size
    <3> QED
      BY <1>2, <2>2, <3>1, <3>2, <3>3, LoadBelow, Factors
  <2>4. ll <= size * 100 + 100
    BY <2>1, <2>2 DEF Balanced
  <2>5. size' * 100 < h /\ l <= size' * 100
    BY <1>1, <1>2, <1>3, <2>2, <2>3, <2>4
  <2>6. Quiet
    BY <1>3, <2>1, <2>2, <2>5, LoadNext
  <2>7. Balanced'
    BY <1>3, <2>1, <2>2, <2>5 DEF Balanced, LoadLow
  <2> QED
    BY <2>6, <2>7
<1>5. CASE ~NeedsShrinking
  <2>1. index' = index
    BY <1>1, <1>5
  <2>2. CASE index = 0
    BY <1>2, <2>1, <2>2 DEF Balanced, Quiet
  <2>3. CASE index # 0
    <3>1. index \in 1 .. Largest
      BY <1>2, <2>3
    <3>2. PICK n \in Nat, h \in Nat, l \in Nat :
             n = TableSizes[index] /\ n > 0 /\ h = LoadHigh * n /\ l = LoadLow * n
      BY <3>1, SizesRight, Factors DEF Size
    <3>3. index > 1 => l <= size * 100
      <4>1. PICK q \in Int : q = (size * 100) \div n
        BY <1>2, <3>2, Division
      <4>2. index > 1 => ~(q < LoadLow)
        BY <1>5, <3>2, <4>1 DEF NeedsShrinking, Load
      <4>3. index > 1 => ~(size * 100 < l)
        BY <1>2, <3>2, <4>1, <4>2, LoadBelow, Factors
      <4> QED
        BY <1>2, <3>2, <4>3
    <3>4. index \in 1 .. Largest - 1 => size * 100 < h + 100
      BY <3>2 DEF Balanced
    <3>5. /\ index \in 1 .. Largest - 1 => size' * 100 < h + 100
          /\ index > 1 => l <= size' * 100 + 100
      BY <1>1, <1>2, <1>3, <3>2, <3>3, <3>4
    <3> QED
      BY <2>1, <3>2, <3>5 DEF Balanced, Quiet, LoadLow
  <2> QED
    BY <2>2, <2>3
<1> QED
  BY <1>4, <1>5

LEMMA BalanceStep ==
  ASSUME Core, Core', Balanced, Spread, [Next]_vars
  PROVE  Balanced' /\ Quiet
<1>1. ASSUME UNCHANGED <<index, size>> PROVE Balanced' /\ Quiet
  BY <1>1 DEF Balanced, Quiet, LoadLow
<1>2. ASSUME Clear PROVE Balanced' /\ Quiet
  <2>1. index' = 0
    BY <1>2 DEF Clear, Leaves
  <2> QED
    BY <2>1 DEF Balanced, Quiet
<1>3. ASSUME NEW k \in Keys, Get(k) \/ OutOfMemory(k) PROVE Balanced' /\ Quiet
  BY <1>1, <1>3 DEF Get, OutOfMemory
<1>4. Iterate \/ NextKey \/ NextNull \/ UNCHANGED vars => Balanced' /\ Quiet
  BY <1>1 DEF Iterate, NextKey, NextNull, vars
<1> QED
  BY <1>2, <1>3, <1>4, PutBalance, RemoveBalance DEF Next

-----------------------------------------------------------------------------
(* For any keys, hash function and prime sizes: an entry can be found where *)
(* a search looks for it, once, and h->size counts the entries, through     *)
(* growing, shrinking, marks, and calls that fail (hashmap_put,             *)
(* hashmap_remove, hashmap_resize), unless the client puts a key again      *)
(* while the table has marks.                                               *)
THEOREM TableIsRight ==
  ASSUME ~PutsAgain
  PROVE  Spec => []TableRight
<1>1. Init => Core /\ Trail
  BY Started
<1>2. Core /\ Trail /\ [Next]_vars => Core' /\ Trail'
  BY CoreStep, TrailStep
<1>3. Core /\ Trail => TableRight
  BY CoreIsRight
<1> QED
  BY <1>1, <1>2, <1>3, PTL DEF Spec

(* hashmap's calls give the answers of the abstract map, which is full when *)
(* the largest table is: a search of hashmap_put, hashmap_get or            *)
(* hashmap_remove never misses a key and ENOSPC is never early.             *)
THEOREM HashmapImplementsMap ==
  ASSUME ~PutsAgain
  PROVE  Spec => MapSpec
<1>1. Init => Core /\ M!Init
  BY Started
<1>2. Core /\ [Next]_vars => Core' /\ [M!Next]_(M!vars)
  BY CoreStep
<1> QED
  BY <1>1, <1>2, PTL DEF Spec, MapSpec, M!Spec

(* An enumeration (hashmap_next) during which the table is not exchanged    *)
(* returns every key that was in the map all the time, once, however large  *)
(* the map and whatever is put and removed meanwhile; and a table that was  *)
(* just exchanged (hashmap_put, hashmap_remove) is not exchanged at the     *)
(* next call.                                                               *)
THEOREM StepsAreRight ==
  ASSUME ~PutsAgain, Spread
  PROVE  Spec => StepsRight
<1>1. Init => Core /\ Trail /\ Balanced
  <2>1. Init => Balanced
    BY DEF Init, Balanced
  <2> QED
    BY <2>1, Started
<1>2. Core /\ Trail /\ Balanced /\ [Next]_vars =>
        Core' /\ Trail' /\ Balanced' /\ [Returns]_vars /\ [Quiet]_vars
  BY CoreStep, TrailStep, BalanceStep
<1>3. [Returns]_vars => [steady # NULL => \A k \in steady :
        /\ seen[k] <= 1
        /\ iter # -1 /\ iter' = -1 => seen[k] = 1]_vars
  BY DEF Returns
<1>4. [Quiet]_vars => [index' \notin {0, index} =>
        /\ index' < Largest => ~NeedsGrowth'
        /\ ~NeedsShrinking']_vars
  BY DEF Quiet
<1> QED
  BY <1>1, <1>2, <1>3, <1>4, PTL DEF Spec, StepsRight, EnumerationComplete, NoThrashing

(* An enumeration (hashmap_next) during which the table is not exchanged    *)
(* returns every key that was in the map all the time, once, however large  *)
(* the map and whatever is put and removed meanwhile.                       *)
THEOREM EnumerationIsComplete ==
  ASSUME ~PutsAgain
  PROVE  Spec => EnumerationComplete
<1>1. Init => Core /\ Trail
  BY Started
<1>2. Core /\ Trail /\ [Next]_vars => Core' /\ Trail' /\ [Returns]_vars
  BY CoreStep, TrailStep
<1>3. [Returns]_vars => [steady # NULL => \A k \in steady :
        /\ seen[k] <= 1
        /\ iter # -1 /\ iter' = -1 => seen[k] = 1]_vars
  BY DEF Returns
<1> QED
  BY <1>1, <1>2, <1>3, PTL DEF Spec, EnumerationComplete

=============================================================================
