---------------------------- MODULE Suba_proofs ----------------------------
(***************************************************************************)
(* For a chunk of any size and every history of calls: the free list of    *)
(* suba is intact and its cells tile the chunk.                            *)
(***************************************************************************)
EXTENDS Suba, DataFacts

(* What the locals of the two functions mean.  A search runs only while no *)
(* suba_free is in progress, so its place in the list cannot go stale.     *)
Places == /\ apc \in {"again", "scan", "copy"} => fpc = "idle"
          /\ apc = "scan" => a1 \in free
          /\ want % 8 = 0
          /\ apc = "idle" => old = 0
          /\ apc = "copy" => old # 0
          /\ old # 0 => old \in used
          /\ used \cap free = {}
          /\ fpc # "idle" => fcell \in Refs /\ fcell \notin used \cup free
          /\ fpc = "scan" => /\ f1 \in free
                             /\ fcell < tail
                             /\ f1 < fcell \/ f1 = tail

Layout == Tiled /\ Circular /\ Coalesced /\ LastCellKept

IInv == TypeOK /\ Places /\ Layout /\ NeverFaults

USE SubaAssumption DEF Poff

-----------------------------------------------------------------------------
(***************************************************************************)
(* Two facts about data, apart from any step: a row of cells stays a row   *)
(* when two neighbours are joined or one is split, and a ring of cells in  *)
(* address order stays one when a cell leaves, joins or moves.             *)
(***************************************************************************)
Row(C, sz) == /\ Hdr \in C
              /\ \A c \in C : c \in Nat /\ sz[c] \in Nat
              /\ \A c \in C : c + 16 + sz[c] \in C \cup {End}
              /\ \A c, d \in C : c < d => c + 16 + sz[c] <= d

Ring(F, nx, tl) == /\ tl \in F
                   /\ \A c \in F : c \in Nat
                   /\ \A c \in F : nx[c] \in F
                   /\ \A d \in F : nx[tl] <= d /\ d <= tl
                   /\ \A c \in F \ {tl} : c < nx[c]
                   /\ \A c \in F \ {tl}, d \in F : d <= c \/ nx[c] <= d

(* sz2 is sz after the neighbours a and b are joined. *)
Joined(C, sz, sz2, a, b) == /\ a \in C /\ b \in C
                            /\ b = a + 16 + sz[a] /\ b # Hdr
                            /\ sz2[a] = sz[a] + 16 + sz[b]
                            /\ \A c \in C \ {a, b} : sz2[c] = sz[c]

LEMMA RowJoin ==
  ASSUME NEW C, NEW sz, NEW sz2, NEW a, NEW b, Row(C, sz), Joined(C, sz, sz2, a, b)
  PROVE  Row(C \ {b}, sz2)
<1> USE DEF Joined
<1>1. a < b /\ a \in C \ {b} /\ a + 16 + sz2[a] = b + 16 + sz[b]
  BY DEF Row
<1>2. \A c \in C \ {b} : c \in Nat /\ sz2[c] \in Nat
  BY <1>1 DEF Row
<1>3. ASSUME NEW c \in C \ {b} PROVE c + 16 + sz2[c] \in (C \ {b}) \cup {End}
  <2>1. CASE c = a
    <3>1. b + 16 + sz[b] \in C \cup {End} /\ b + 16 + sz[b] # b
      BY DEF Row
    <3> QED
      BY <1>1, <2>1, <3>1
  <2>2. CASE c # a
    <3>1. c + 16 + sz[c] \in C \cup {End} /\ sz2[c] = sz[c]
      BY <2>2 DEF Row
    <3>2. c + 16 + sz[c] # b
      BY <2>2 DEF Row
    <3> QED
      BY <3>1, <3>2
  <2> QED
    BY <2>1, <2>2
<1>4. ASSUME NEW c \in C \ {b}, NEW d \in C \ {b}, c < d
      PROVE  c + 16 + sz2[c] <= d
  <2>1. CASE c = a
    BY <1>1, <1>4, <2>1 DEF Row
  <2>2. CASE c # a
    BY <1>4, <2>2 DEF Row
  <2> QED
    BY <2>1, <2>2
<1> QED
  BY <1>1, <1>2, <1>3, <1>4 DEF Row

(* sz2 is sz after the cell b is split off the end of a. *)
SplitOff(C, sz, sz2, a, b) == /\ a \in C /\ b \in Nat
                              /\ sz2[a] \in Nat /\ sz2[b] \in Nat
                              /\ b = a + 16 + sz2[a]
                              /\ b + 16 + sz2[b] = a + 16 + sz[a]
                              /\ \A c \in C \ {a} : sz2[c] = sz[c]

LEMMA RowSplit ==
  ASSUME NEW C, NEW sz, NEW sz2, NEW a, NEW b, Row(C, sz), SplitOff(C, sz, sz2, a, b)
  PROVE  Row(C \cup {b}, sz2) /\ b \notin C
<1> USE DEF SplitOff
<1>1. a < b /\ b < a + 16 + sz[a]
  BY DEF Row
<1>2. b \notin C
  BY <1>1 DEF Row
<1>3. \A c \in C \cup {b} : c \in Nat /\ sz2[c] \in Nat
  BY DEF Row
<1>4. ASSUME NEW c \in C \cup {b} PROVE c + 16 + sz2[c] \in C \cup {b} \cup {End}
  BY DEF Row
<1>5. ASSUME NEW c \in C \cup {b}, NEW d \in C \cup {b}, c < d
      PROVE  c + 16 + sz2[c] <= d
  <2>1. CASE c = b
    BY <1>1, <1>5, <2>1 DEF Row
  <2>2. CASE c = a
    BY <1>1, <1>5, <2>2 DEF Row
  <2>3. CASE c # a /\ c # b /\ d = b
    <3>1. c < a
      BY <1>1, <1>5, <2>3 DEF Row
    <3> QED
      BY <1>1, <2>3, <3>1 DEF Row
  <2>4. CASE c # a /\ c # b /\ d # b
    BY <1>5, <2>4 DEF Row
  <2> QED
    BY <2>1, <2>2, <2>3, <2>4
<1> QED
  BY <1>2, <1>3, <1>4, <1>5 DEF Row

(* b, the successor of a, leaves. *)
Removed(F, nx, nx2, tl, tl2, a, b) == /\ a \in F /\ b \in F /\ b = nx[a] /\ a # b
                                      /\ nx2[a] = nx[b]
                                      /\ \A c \in F \ {a, b} : nx2[c] = nx[c]
                                      /\ tl2 = IF b = tl THEN a ELSE tl

LEMMA RingRemove ==
  ASSUME NEW F, NEW nx, NEW nx2, NEW tl, NEW tl2, NEW a, NEW b,
         Ring(F, nx, tl), Removed(F, nx, nx2, tl, tl2, a, b)
  PROVE  Ring(F \ {b}, nx2, tl2)
<1> USE DEF Removed
<1>0. tl \in F /\ nx[b] \in F /\ \A c \in F : c \in Int /\ nx[c] \in F /\ nx[c] \in Int
  BY DEF Ring
<1>1. tl2 \in F \ {b}
  BY <1>0 DEF Ring
<1>2. ASSUME NEW c \in F \ {a}, nx[c] = b PROVE c = b
  BY <1>0, <1>2 DEF Ring
<1>3. nx[b] # b
  BY <1>0 DEF Ring
<1>4. \A c \in F \ {b} : nx2[c] \in F \ {b}
  BY <1>0, <1>2, <1>3
<1>5. \A d \in F \ {b} : nx2[tl2] <= d /\ d <= tl2
  BY <1>0, <1>1, <1>3 DEF Ring
<1>6. ASSUME NEW c \in (F \ {b}) \ {tl2}
      PROVE  c < nx2[c] /\ \A d \in F \ {b} : d <= c \/ nx2[c] <= d
  <2>1. c \in F \ {tl}
    BY <1>0, <1>6 DEF Ring
  <2>2. c < nx[c] /\ \A d \in F : d <= c \/ nx[c] <= d
    BY <2>1 DEF Ring
  <2>3. CASE c # a
    BY <2>2, <2>3
  <2>4. CASE c = a
    <3>1. b # tl
      BY <1>6, <2>4
    <3>2. b < nx[b] /\ \A d \in F : d <= b \/ nx[b] <= d
      BY <3>1 DEF Ring
    <3> QED
      BY <1>0, <2>2, <2>4, <3>2
  <2> QED
    BY <2>3, <2>4
<1> QED
  BY <1>0, <1>1, <1>4, <1>5, <1>6 DEF Ring

(* x comes in after a. *)
Inserted(F, nx, nx2, tl, a, x) == /\ a \in F /\ x \in Nat /\ x \notin F
                                  /\ x < tl /\ x < nx[a] /\ (a < x \/ a = tl)
                                  /\ nx2[x] = nx[a] /\ nx2[a] = x
                                  /\ \A c \in F \ {a} : nx2[c] = nx[c]

LEMMA RingInsert ==
  ASSUME NEW F, NEW nx, NEW nx2, NEW tl, NEW a, NEW x,
         Ring(F, nx, tl), Inserted(F, nx, nx2, tl, a, x)
  PROVE  Ring(F \cup {x}, nx2, tl)
<1> USE DEF Inserted
<1>0. tl \in F /\ \A c \in F : c \in Int /\ nx[c] \in F /\ nx[c] \in Int
  BY DEF Ring
<1>1. \A c \in F \cup {x} : nx2[c] \in F \cup {x}
  BY <1>0
<1>2. \A d \in F \cup {x} : nx2[tl] <= d /\ d <= tl
  <2>1. \A d \in F : nx[tl] <= d /\ d <= tl
    BY DEF Ring
  <2>2. CASE a = tl
    BY <1>0, <2>1, <2>2
  <2>3. CASE a # tl
    BY <1>0, <2>1, <2>3
  <2> QED
    BY <2>2, <2>3
<1>3. ASSUME NEW c \in (F \cup {x}) \ {tl}
      PROVE  c < nx2[c] /\ \A d \in F \cup {x} : d <= c \/ nx2[c] <= d
  <2>1. /\ \A d \in F : nx[tl] <= d /\ d <= tl
        /\ \A e \in F \ {tl} : e < nx[e] /\ \A d \in F : d <= e \/ nx[e] <= d
    BY DEF Ring
  <2>2. CASE c = x
    <3>1. CASE a = tl
      BY <1>0, <2>1, <2>2, <3>1
    <3>2. CASE a # tl
      BY <1>0, <2>1, <2>2, <3>2
    <3> QED
      BY <3>1, <3>2
  <2>3. CASE c = a
    BY <1>0, <1>3, <2>1, <2>3
  <2>4. CASE c # a /\ c # x
    <3>1. CASE a = tl
      <4>1. x < c
        BY <1>0, <2>1, <2>4, <3>1
      <4> QED
        BY <1>0, <1>3, <2>1, <2>4, <4>1
    <3>2. CASE a # tl
      <4>1. c < a => nx[c] <= a
        BY <1>0, <1>3, <2>1, <2>4, <3>2
      <4>2. a < c => nx[a] <= c
        BY <1>0, <1>3, <2>1, <2>4, <3>2
      <4> QED
        BY <1>0, <1>3, <2>1, <2>4, <3>2, <4>1, <4>2
    <3> QED
      BY <3>1, <3>2
  <2> QED
    BY <1>3, <2>2, <2>3, <2>4
<1> QED
  BY <1>0, <1>1, <1>2, <1>3 DEF Ring

(* x takes the place of b, the successor of a. *)
Replaced(F, nx, nx2, tl, tl2, a, b, x) ==
  /\ a \in F /\ b \in F /\ b = nx[a] /\ x \in Nat /\ x \notin F
  /\ \A d \in F \ {b} : d < b <=> d < x
  /\ nx2[x] = IF nx[b] = b THEN x ELSE nx[b]
  /\ a # b => nx2[a] = x
  /\ \A c \in F \ {a, b} : nx2[c] = nx[c]
  /\ tl2 = IF b = tl THEN x ELSE tl

LEMMA RingReplace ==
  ASSUME NEW F, NEW nx, NEW nx2, NEW tl, NEW tl2, NEW a, NEW b, NEW x,
         Ring(F, nx, tl), Replaced(F, nx, nx2, tl, tl2, a, b, x)
  PROVE  Ring((F \ {b}) \cup {x}, nx2, tl2)
<1> USE DEF Replaced
<1>0. tl \in F /\ \A c \in F : c \in Int /\ nx[c] \in F /\ nx[c] \in Int
  BY DEF Ring
<1>1. tl2 \in (F \ {b}) \cup {x}
  BY <1>0
<1>2. ASSUME NEW c \in F \ {a}, nx[c] = b PROVE c = b
  BY <1>0, <1>2 DEF Ring
<1>3. \A c \in (F \ {b}) \cup {x} : nx2[c] \in (F \ {b}) \cup {x}
  BY <1>0, <1>2
<1>R. /\ \A d \in F : nx[tl] <= d /\ d <= tl
      /\ \A e \in F \ {tl} : e < nx[e] /\ \A d \in F : d <= e \/ nx[e] <= d
  BY DEF Ring
<1>4. ASSUME NEW d \in (F \ {b}) \cup {x} PROVE nx2[tl2] <= d /\ d <= tl2
  <2>1. CASE b = tl
    <3>1. CASE nx[b] = b
      <4>1. F = {b}
        BY <1>0, <1>R, <2>1, <3>1
      <4> QED
        BY <2>1, <3>1, <4>1
    <3>2. CASE nx[b] # b
      BY <1>0, <1>R, <2>1, <3>2
    <3> QED
      BY <3>1, <3>2
  <2>2. CASE b # tl
    <3>1. tl2 = tl /\ x < tl
      BY <1>0, <1>R, <2>2
    <3>2. CASE a = tl
      BY <1>0, <1>R, <2>2, <3>1, <3>2
    <3>3. CASE a # tl
      BY <1>0, <1>R, <2>2, <3>1, <3>3
    <3> QED
      BY <3>2, <3>3
  <2> QED
    BY <2>1, <2>2
<1>5. ASSUME NEW c \in ((F \ {b}) \cup {x}) \ {tl2}
      PROVE  c < nx2[c] /\ \A d \in (F \ {b}) \cup {x} : d <= c \/ nx2[c] <= d
  <2>1. CASE c = x
    <3>1. b # tl /\ nx[b] # b /\ b < nx[b]
      BY <1>0, <1>R, <1>5, <2>1
    <3> QED
      BY <1>0, <1>R, <2>1, <3>1
  <2>2. CASE c = a /\ c # x
    <3>1. c # tl /\ a # b /\ a < b
      BY <1>0, <1>R, <1>5, <2>2
    <3> QED
      BY <1>0, <1>R, <2>2, <3>1
  <2>3. CASE c # a /\ c # x
    <3>1. c \in F /\ c # b /\ c # tl
      BY <1>0, <1>5, <2>3
    <3>2. nx2[c] = nx[c] /\ nx[c] # b
      BY <1>2, <2>3, <3>1
    <3>3. c < nx[c] /\ \A d \in F : d <= c \/ nx[c] <= d
      BY <1>R, <3>1
    <3>4. x <= c \/ nx[c] <= x
      BY <1>0, <3>1, <3>2, <3>3
    <3> QED
      BY <3>2, <3>3, <3>4
  <2> QED
    BY <1>5, <2>1, <2>2, <2>3
<1> QED
  BY <1>0, <1>1, <1>3, <1>4, <1>5 DEF Ring

-----------------------------------------------------------------------------
LEMMA RoundType ==
  ASSUME NEW n \in Requests
  PROVE  Round(n) \in Nat /\ Round(n) % 8 = 0
<1>1. (n + 7) % WordMod \in Nat
  OBVIOUS
<1>2. Align(n) \in Nat /\ Align(n) % 8 = 0
  BY <1>1 DEF Align, Word
<1> QED
  BY <1>2 DEF Round

LEMMA InitInv == Init => IInv
<1> SUFFICES ASSUME Init PROVE IInv
  OBVIOUS
<1>1. Hdr \in Refs
  BY DEF Refs
<1>2. TypeOK
  <2>1. End - (Hdr + Poff) \in Nat /\ Hdr \in Nat
    OBVIOUS
  <2>2. size \in [Refs -> Nat] /\ next \in [Refs -> Nat]
    BY <2>1 DEF Init
  <2>3. /\ tail \in Refs /\ inUse \in Int /\ used \in SUBSET Refs
        /\ free \in SUBSET Refs
    BY <1>1 DEF Init
  <2> QED
    BY <2>2, <2>3 DEF Init, TypeOK
<1>3. Places
  BY <1>1 DEF Init, Places
<1>4. Cells = {Hdr} /\ Stop(Hdr) = End
  BY <1>1 DEF Init, Cells, Stop
<1>5. Layout
  BY <1>1, <1>4 DEF Init, Layout, Tiled, Circular, Coalesced, LastCellKept, Refs
<1> QED
  BY <1>2, <1>3, <1>5 DEF IInv, NeverFaults, Init

(* Cells are aligned, end within the chunk and do not overlap. *)
LEMMA Geometry ==
  ASSUME TypeOK, Places, Layout
  PROVE  /\ Cells \subseteq Refs
         /\ \A c \in Cells : Stop(c) \in Int /\ Stop(c) <= End
         /\ \A c \in Cells : Stop(c) # End => size[c] % 8 = 0
<1>1. Cells \subseteq Refs
  BY DEF Cells, TypeOK, Places
<1>2. ASSUME NEW c \in Cells PROVE /\ Stop(c) \in Int /\ Stop(c) <= End
                                   /\ Stop(c) # End => size[c] % 8 = 0
  <2>1. c \in Refs /\ size[c] \in Nat
    BY <1>1 DEF TypeOK
  <2>2. Stop(c) \in Refs \cup {End}
    BY <1>1 DEF Layout, Tiled
  <2> QED
    BY <2>1, <2>2 DEF Stop, Refs
<1> QED
  BY <1>1, <1>2

-----------------------------------------------------------------------------
(* Steps of suba_alloc and suba_realloc that touch no cell. *)
Untouched == UNCHANGED <<heap, inUse, used, free, frees>>

LEMMA LayoutUntouched ==
  ASSUME IInv, Untouched PROVE Layout'
BY DEF Untouched, heap, frees, IInv, Layout, Tiled, Circular, Coalesced,
       LastCellKept, Cells, Stop

LEMMA CallAllocInv ==
  ASSUME IInv, NEW n \in Requests, CallAlloc(n) PROVE IInv'
<1>1. Round(n) \in Nat /\ Round(n) % 8 = 0
  BY RoundType
<1>2. TypeOK'
  BY <1>1 DEF IInv, TypeOK, CallAlloc, StartAlloc, heap, frees
<1>3. Places'
  BY <1>1 DEF IInv, Places, CallAlloc, StartAlloc, heap, frees
<1>4. Layout'
  BY LayoutUntouched DEF CallAlloc, Untouched, heap, frees
<1> QED
  BY <1>2, <1>3, <1>4 DEF IInv, CallAlloc, NeverFaults

LEMMA AgainInv == ASSUME IInv, Again PROVE IInv'
<1>1. TypeOK'
  BY DEF IInv, TypeOK, Again, heap, frees
<1>2. Places'
  BY DEF IInv, Places, Layout, Circular, Again, heap, frees
<1>3. Layout'
  BY LayoutUntouched DEF Again, Untouched, heap, frees
<1> QED
  BY <1>1, <1>2, <1>3 DEF IInv, Again, NeverFaults

(* c2 is a free cell during the search, so suba_addr finds it. *)
LEMMA A2Free ==
  ASSUME IInv, apc = "scan"
  PROVE  A2 \in free /\ A2 \in Refs /\ Valid(A2)
BY DEF IInv, TypeOK, Places, Layout, Circular, A2, Valid, Refs

LEMMA ScanOnInv == ASSUME IInv, ScanOn PROVE IInv'
<1>1. A2 \in free /\ A2 \in Refs
  BY A2Free DEF ScanOn
<1>2. TypeOK'
  BY <1>1 DEF IInv, TypeOK, ScanOn, heap, frees
<1>3. Places'
  BY <1>1 DEF IInv, Places, ScanOn, heap, frees
<1>4. Layout'
  BY LayoutUntouched DEF ScanOn, Untouched, heap, frees
<1> QED
  BY <1>2, <1>3, <1>4 DEF IInv, ScanOn, NeverFaults

LEMMA ScanFailsInv == ASSUME IInv, ScanFails PROVE IInv'
<1>1. Valid(A2)
  BY A2Free DEF ScanFails
<1>2. TypeOK'
  BY <1>1 DEF IInv, TypeOK, ScanFails, heap, frees
<1>3. Places'
  BY <1>1 DEF IInv, Places, ScanFails, heap, frees
<1>4. Layout'
  BY LayoutUntouched DEF ScanFails, Untouched, heap, frees
<1> QED
  BY <1>1, <1>2, <1>3, <1>4 DEF IInv, ScanFails, NeverFaults

LEMMA SpareLastInv == ASSUME IInv, SpareLast PROVE IInv'
<1>1. TypeOK'
  BY DEF IInv, TypeOK, SpareLast, heap, frees
<1>2. Places'
  BY DEF IInv, Places, SpareLast, heap, frees
<1>3. Layout'
  BY LayoutUntouched DEF SpareLast, Untouched, heap, frees
<1> QED
  BY <1>1, <1>2, <1>3 DEF IInv, SpareLast, NeverFaults

LEMMA ReclaimReturnsInv == ASSUME IInv, ReclaimReturns PROVE IInv'
<1>1. TypeOK'
  <2>1. CASE freed
    BY <2>1 DEF IInv, TypeOK, ReclaimReturns, heap, frees
  <2>2. CASE ~freed
    <3>1. apc' = "idle" /\ old' = 0 /\ ask' = 0 /\ want' = 0 /\ a1' = 0 /\ freed' = FALSE
      BY <2>2 DEF ReclaimReturns, EndAlloc
    <3>2. UNCHANGED <<heap, inUse, used, free, frees, fault>>
      BY DEF ReclaimReturns
    <3> QED
      BY <3>1, <3>2 DEF IInv, TypeOK, heap, frees
  <2> QED
    BY <2>1, <2>2
<1>2. Places'
  BY DEF IInv, Places, ReclaimReturns, EndAlloc, heap, frees
<1>3. Layout'
  BY LayoutUntouched DEF ReclaimReturns, Untouched, heap, frees
<1> QED
  BY <1>1, <1>2, <1>3 DEF IInv, ReclaimReturns, NeverFaults

LEMMA ReallocMoveInv ==
  ASSUME IInv, NEW c \in Refs, NEW n \in Requests, ReallocMove(c, n) PROVE IInv'
<1>1. Round(n) \in Nat /\ Round(n) % 8 = 0
  BY RoundType
<1>2. TypeOK'
  BY <1>1 DEF IInv, TypeOK, ReallocMove, StartAlloc, heap, frees
<1>3. Places'
  BY <1>1 DEF IInv, Places, ReallocMove, StartAlloc, heap, frees
<1>4. Layout'
  BY LayoutUntouched DEF ReallocMove, Untouched, heap, frees
<1> QED
  BY <1>2, <1>3, <1>4 DEF IInv, ReallocMove, NeverFaults

-----------------------------------------------------------------------------
(* Steps that begin a suba_free: a block becomes the cell being freed. *)
LEMMA LayoutStartFree ==
  ASSUME IInv, NEW c \in used, fpc = "idle", StartFree(c) PROVE Layout'
<1>1. Cells' = Cells
  BY DEF Cells, StartFree
<1>2. \A d \in Refs : Stop(d)' = Stop(d)
  BY DEF Stop, StartFree, heap
<1>3. Cells \subseteq Refs /\ tail \in Refs /\ free \subseteq Refs
  BY Geometry DEF IInv, TypeOK
<1>4. Tiled'
  BY <1>1, <1>2, <1>3 DEF IInv, Layout, Tiled
<1>5. Circular' /\ Coalesced'
  BY <1>2, <1>3 DEF IInv, Layout, Circular, Coalesced, StartFree, heap
<1>6. LastCellKept'
  BY <1>2, <1>3 DEF IInv, Layout, LastCellKept, StartFree, heap
<1> QED
  BY <1>4, <1>5, <1>6 DEF Layout

LEMMA CallFreeInv == ASSUME IInv, NEW c \in Refs, CallFree(c) PROVE IInv'
<1>1. TypeOK'
  BY DEF IInv, TypeOK, CallFree, StartFree, heap
<1>2. Places'
  BY DEF IInv, Places, CallFree, StartFree, heap
<1>3. Layout'
  BY LayoutStartFree DEF CallFree
<1> QED
  BY <1>1, <1>2, <1>3 DEF IInv, CallFree, StartFree, NeverFaults

LEMMA ReallocFreeInv == ASSUME IInv, NEW c \in Refs, ReallocFree(c) PROVE IInv'
<1>1. TypeOK'
  BY DEF IInv, TypeOK, ReallocFree, StartFree, heap, alloc
<1>2. Places'
  BY DEF IInv, Places, ReallocFree, StartFree, heap, alloc
<1>3. Layout'
  BY LayoutStartFree DEF ReallocFree
<1> QED
  BY <1>1, <1>2, <1>3 DEF IInv, ReallocFree, StartFree, NeverFaults

LEMMA ReallocDoneInv == ASSUME IInv, ReallocDone PROVE IInv'
<1>0. old \in used /\ fpc = "idle" /\ old \in Refs
  BY DEF IInv, Places, TypeOK, ReallocDone
<1>1. TypeOK'
  BY <1>0 DEF IInv, TypeOK, ReallocDone, StartFree, heap
<1>2. Places'
  BY <1>0 DEF IInv, Places, ReallocDone, StartFree, heap
<1>3. Layout'
  BY <1>0, LayoutStartFree DEF ReallocDone
<1> QED
  BY <1>1, <1>2, <1>3 DEF IInv, ReallocDone, StartFree, NeverFaults

LEMMA FreeStartInv == ASSUME IInv, FreeStart PROVE IInv'
<1>1. /\ fcell \in Cells /\ tail \in Cells /\ fcell # tail
      /\ fcell \in Refs /\ tail \in Refs /\ size[fcell] \in Nat
  BY Geometry DEF IInv, FreeStart, Cells, Places, Layout, Circular, TypeOK
<1>2. size[fcell] <= End
  BY <1>1, Geometry DEF IInv, Stop, Refs
<1>3. fcell < tail                     \* Behind never runs
  <2>1. Stop(tail) = End /\ Stop(fcell) <= End
    BY <1>1, Geometry DEF IInv, Layout, LastCellKept
  <2>2. tail < fcell => Stop(tail) <= fcell
    BY <1>1 DEF IInv, Layout, Tiled
  <2> QED
    BY <1>1, <2>1, <2>2 DEF Stop, Refs
<1>4. fault' = FALSE
  <2>1. (size[fcell] > End) = FALSE
    BY <1>1, <1>2
  <2>2. fault' = (size[fcell] > End)
    BY DEF FreeStart
  <2> QED
    BY <2>1, <2>2
<1>5. /\ fpc = "start" /\ fpc' = "scan" /\ f1' = tail
      /\ inUse' = inUse - (Poff + size[fcell])
      /\ UNCHANGED <<heap, used, free, alloc, fcell>>
  BY <1>3, <1>4 DEF FreeStart
<1>6. TypeOK'
  <2>1. inUse' \in Int
    BY <1>1, <1>5 DEF IInv, TypeOK
  <2>2. f1' \in Refs /\ fault' \in BOOLEAN
    BY <1>1, <1>4, <1>5
  <2> QED
    BY <1>1, <1>5, <2>1, <2>2 DEF IInv, TypeOK, heap, alloc
<1>7. Places'
  BY <1>1, <1>3, <1>5 DEF IInv, Places, Layout, Circular, heap, alloc
<1>8. Layout'
  BY <1>5 DEF IInv, Layout, Tiled, Circular, Coalesced, LastCellKept, Cells, Stop, heap
<1> QED
  BY <1>4, <1>6, <1>7, <1>8 DEF IInv, NeverFaults

LEMMA FreeScanInv == ASSUME IInv, FreeScan PROVE IInv'
<1>1. f1 \in free /\ next[f1] \in free /\ next[f1] \in Refs
  BY DEF IInv, Places, Layout, Circular, TypeOK, FreeScan
<1>2. ~(next[f1] < Poff)
  BY <1>1 DEF Refs
<1>3. /\ f1' = next[f1] /\ next[f1] < fcell
      /\ UNCHANGED <<heap, inUse, used, free, alloc, fpc, fcell, fault>>
  BY <1>2 DEF FreeScan
<1>4. TypeOK'
  BY <1>1, <1>3 DEF IInv, TypeOK, heap, alloc
<1>5. Places'
  BY <1>1, <1>3 DEF IInv, Places, heap, alloc
<1>6. Layout'
  BY <1>3 DEF IInv, Layout, Tiled, Circular, Coalesced, LastCellKept, Cells, Stop, heap
<1> QED
  BY <1>3, <1>4, <1>5, <1>6 DEF IInv, NeverFaults

-----------------------------------------------------------------------------
(* Where suba_free stops: the cell lies between f1 and its successor F3,   *)
(* or in front of the whole list, and nothing free lies in between.        *)
LEMMA InsertionPoint ==
  ASSUME IInv, Splicing
  PROVE  /\ f1 \in free /\ F3 \in free /\ fcell \in Refs
         /\ fcell \notin free /\ fcell \notin used /\ fcell < tail
         /\ fcell < F3
         /\ \A d \in free : d < fcell => f1 < fcell /\ d <= f1
         /\ \A d \in free : fcell < d => F3 <= d
         /\ f1 < fcell \/ f1 = tail
         /\ f1 < fcell => f1 # tail
         /\ Cells = used \cup free \cup {fcell}
         /\ Cells' = used' \cup free'
<1>1. /\ f1 \in free /\ F3 \in free /\ fcell \in Refs /\ fcell \notin free
      /\ fcell \notin used /\ fcell < tail /\ free \subseteq Refs /\ fpc = "scan"
      /\ f1 < fcell \/ f1 = tail
  BY DEF IInv, Splicing, Places, Layout, Circular, TypeOK, F3
<1>2. fcell < F3 /\ free \subseteq Nat /\ fcell \in Nat
  <2>1. free \subseteq Nat /\ fcell \in Nat
    BY <1>1 DEF Refs
  <2>2. ~(F3 < fcell)
    BY DEF Splicing, F3
  <2> QED
    BY <1>1, <2>1, <2>2
<1>3. ASSUME NEW d \in free, d < fcell PROVE f1 < fcell /\ d <= f1
  <2>1. d < F3
    BY <1>1, <1>2, <1>3
  <2>2. f1 = tail => F3 <= d
    BY <1>1 DEF IInv, Layout, Circular, F3
  <2>3. f1 # tail => d <= f1 \/ F3 <= d
    BY <1>1 DEF IInv, Layout, Circular, F3
  <2> QED
    BY <1>1, <1>2, <2>1, <2>2, <2>3
<1>4. \A d \in free : fcell < d => F3 <= d
  BY <1>1, <1>2, <1>3 DEF IInv, Layout, Circular, F3, Refs
<1>5. f1 < fcell => f1 # tail
  BY <1>1 DEF Refs
<1>6. Cells = used \cup free \cup {fcell} /\ Cells' = used' \cup free'
  BY <1>1 DEF Cells, Splicing, EndFree
<1> QED
  BY <1>1, <1>2, <1>3, <1>4, <1>5, <1>6

(* The same, as facts about where the neighbouring cells end. *)
LEMMA Neighbours ==
  ASSUME IInv, Splicing
  PROVE  /\ \A c \in Cells : c \in Nat /\ size[c] \in Nat /\ Stop(c) = c + 16 + size[c]
         /\ \A c, d \in Cells : c < d => Stop(c) <= d
         /\ \A c \in Cells : Stop(c) \in Cells \cup {End} /\ Stop(c) <= End
         /\ \A d \in free : Stop(d) = fcell => d = f1 /\ f1 < fcell
         /\ Stop(fcell) \in free => Stop(fcell) = F3
         /\ tail \in free /\ Stop(tail) = End
         /\ \A c, d \in Cells : Stop(c) = Stop(d) => c = d
<1>1. /\ \A c \in Cells : c \in Nat /\ size[c] \in Nat /\ Stop(c) = c + 16 + size[c]
      /\ \A c, d \in Cells : c < d => Stop(c) <= d
      /\ \A c \in Cells : Stop(c) \in Cells \cup {End} /\ Stop(c) <= End
      /\ tail \in free /\ Stop(tail) = End
  BY Geometry DEF IInv, TypeOK, Layout, Tiled, Circular, LastCellKept, Stop, Refs
<1>2. /\ f1 \in Cells /\ F3 \in Cells /\ fcell \in Cells /\ free \subseteq Cells
      /\ f1 \in free /\ F3 \in free /\ fcell \notin free
  BY InsertionPoint
<1>3. ASSUME NEW d \in free, Stop(d) = fcell PROVE d = f1 /\ f1 < fcell
  <2>1. d < fcell
    BY <1>1, <1>2, <1>3
  <2>2. f1 < fcell /\ d <= f1
    BY <2>1, InsertionPoint
  <2>3. d < f1 => Stop(d) <= f1
    BY <1>1, <1>2
  <2> QED
    BY <1>1, <1>2, <1>3, <2>2, <2>3
<1>4. ASSUME Stop(fcell) \in free PROVE Stop(fcell) = F3
  <2>1. fcell < Stop(fcell)
    BY <1>1, <1>2
  <2>2. F3 <= Stop(fcell)
    BY <2>1, <1>4, InsertionPoint
  <2>3. Stop(fcell) <= F3
    BY <1>1, <1>2, InsertionPoint
  <2> QED
    BY <1>1, <1>2, <2>2, <2>3
<1>5. ASSUME NEW c \in Cells, NEW d \in Cells, Stop(c) = Stop(d) PROVE c = d
  BY <1>1, <1>5
<1> QED
  BY <1>1, <1>3, <1>4, <1>5

(* The parts of Places and TypeOK that a splice disturbs. *)
LEMMA SplicePlaces ==
  ASSUME IInv, Splicing, used \cap free' = {} PROVE Places'
BY DEF IInv, Places, Splicing, EndFree, alloc

LEMMA SpliceType ==
  ASSUME IInv, Splicing, tail' \in Refs, size' \in [Refs -> Nat],
         next' \in [Refs -> Nat], free' \in SUBSET Refs
  PROVE  TypeOK'
BY DEF IInv, TypeOK, Splicing, EndFree, alloc

-----------------------------------------------------------------------------
(* Row and Ring are Tiled and Circular. *)
LEMMA RowBefore ==
  ASSUME IInv PROVE Row(Cells, size) /\ Ring(free, next, tail)
<1>1. Cells \subseteq Refs /\ Refs \subseteq Nat /\ free \subseteq Cells
  BY Geometry DEF IInv, Refs, Cells
<1>2. Row(Cells, size)
  BY <1>1 DEF IInv, TypeOK, Layout, Tiled, Stop, Row
<1>3. Ring(free, next, tail)
  BY <1>1 DEF IInv, Layout, Circular, Ring
<1> QED
  BY <1>2, <1>3

LEMMA RowAfter ==
  ASSUME Row(Cells', size') PROVE Tiled'
BY DEF Row, Tiled, Stop

LEMMA RingAfter ==
  ASSUME Ring(free', next', tail') PROVE Circular'
<1>1. ASSUME NEW c \in free'
      PROVE  /\ next'[c] \in free'
             /\ IF c = tail' THEN \A d \in free' : next'[c] <= d /\ d <= c
                ELSE c < next'[c] /\ \A d \in free' : d <= c \/ next'[c] <= d
  BY DEF Ring
<1> QED
  BY <1>1 DEF Ring, Circular

(* The cells after a splice. *)
LEMMA CellsAfter == ASSUME IInv, Splicing PROVE Cells' = used \cup free'
BY InsertionPoint DEF Splicing

LEMMA JoinBothInv == ASSUME IInv, JoinBoth PROVE IInv'
<1> DEFINE s1 == [size EXCEPT ![fcell] = size[fcell] + 16 + size[F3]]
<1>0. Splicing
  BY DEF JoinBoth
<1>1. /\ Stop(f1) = fcell /\ Stop(fcell) = F3 /\ f1 < fcell /\ fcell < F3
      /\ f1 # tail
  BY <1>0, InsertionPoint, Neighbours DEF JoinBoth, Adjacent
<1>2. /\ f1 \in free /\ F3 \in free /\ fcell \notin free /\ fcell \notin used
      /\ Cells = used \cup free \cup {fcell} /\ used \cap free = {}
      /\ Cells' = used \cup (free \ {F3}) /\ free' = free \ {F3} /\ used' = used
      /\ f1 \in Refs /\ F3 \in Refs /\ fcell \in Refs /\ tail \in Refs
      /\ Cells \subseteq Refs
      /\ size \in [Refs -> Nat] /\ next \in [Refs -> Nat]
  BY <1>0, InsertionPoint, Geometry DEF JoinBoth, Splicing, IInv, TypeOK, Places
<1>n. /\ f1 \in Nat /\ fcell \in Nat /\ F3 \in Nat /\ f1 # fcell /\ f1 # F3 /\ fcell # F3
      /\ size[f1] \in Nat /\ size[fcell] \in Nat /\ size[F3] \in Nat
      /\ fcell = f1 + 16 + size[f1] /\ F3 = fcell + 16 + size[fcell]
      /\ fcell # Hdr /\ F3 # Hdr
  BY <1>1, <1>2 DEF Stop, Refs
<1>3. /\ size' = [size EXCEPT ![f1] = size[f1] + 16 + size[F3] + 16 + size[fcell]]
      /\ next' = [next EXCEPT ![f1] = next[F3]]
      /\ tail' = IF F3 = tail THEN f1 ELSE tail
  BY DEF JoinBoth
<1>v. /\ size'[f1] = size[f1] + 16 + size[F3] + 16 + size[fcell]
      /\ \A c \in Refs \ {f1} : size'[c] = size[c]
      /\ s1[fcell] = size[fcell] + 16 + size[F3]
      /\ \A c \in Refs \ {fcell} : s1[c] = size[c]
  BY <1>2, <1>3
<1> HIDE DEF s1
<1>4. Row(Cells \ {F3}, s1)
  <2>1. Joined(Cells, size, s1, fcell, F3)
    BY <1>2, <1>n, <1>v DEF Joined
  <2> QED
    BY <2>1, RowBefore, RowJoin
<1>5. Row(Cells', size')
  <2>1. Joined(Cells \ {F3}, s1, size', f1, fcell)
    BY <1>2, <1>n, <1>v DEF Joined
  <2>2. Cells' = (Cells \ {F3}) \ {fcell}
    BY <1>2
  <2> QED
    BY <1>4, <2>1, <2>2, RowJoin
<1>6. Ring(free', next', tail')
  <2>1. Removed(free, next, next', tail, tail', f1, F3)
    BY <1>2, <1>3, <1>n DEF Removed, F3
  <2> QED
    BY <1>2, <2>1, RowBefore, RingRemove
<1>7. Coalesced'
  <2>1. ASSUME NEW c \in free' PROVE Stop(c)' \notin free'
    <3>1. CASE c = f1
      <4>1. Stop(c)' = Stop(F3)
        BY <1>n, <1>v, <3>1 DEF Stop
      <4> QED
        BY <1>2, <4>1 DEF IInv, Layout, Coalesced
    <3>2. CASE c # f1
      <4>1. Stop(c)' = Stop(c)
        BY <1>2, <1>v, <3>2 DEF Stop
      <4> QED
        BY <1>2, <4>1 DEF IInv, Layout, Coalesced
    <3> QED
      BY <3>1, <3>2
  <2> QED
    BY <2>1 DEF Coalesced
<1>8. LastCellKept'
  <2>1. CASE F3 = tail
    <3>1. tail' = f1 /\ \A c \in used : c \in Cells /\ c # f1 /\ c # fcell
      BY <1>2, <1>3, <2>1
    <3>2. f1 + 16 + size'[f1] = End
      <4>1. Stop(tail) = End
        BY DEF IInv, Layout, LastCellKept
      <4>2. F3 + 16 + size[F3] = End
        BY <2>1, <4>1 DEF Stop
      <4> QED
        BY <1>n, <1>v, <4>2
    <3>3. ASSUME NEW c \in used PROVE c < f1
      <4>1. c < tail /\ c \in Nat
        BY <1>2 DEF IInv, Layout, LastCellKept, Refs
      <4>2. f1 < c => fcell <= c
        BY <1>0, <1>1, <1>2, <3>1, Neighbours
      <4>3. fcell < c => F3 <= c
        BY <1>0, <1>1, <1>2, <3>1, Neighbours
      <4> QED
        BY <1>n, <2>1, <3>1, <4>1, <4>2, <4>3
    <3> QED
      BY <1>2, <3>1, <3>2, <3>3 DEF LastCellKept, Stop
  <2>2. CASE F3 # tail
    <3>1. tail' = tail /\ Stop(tail)' = Stop(tail)
      BY <1>1, <1>2, <1>3, <1>v, <2>2 DEF Stop
    <3> QED
      BY <1>2, <3>1 DEF IInv, Layout, LastCellKept
  <2> QED
    BY <2>1, <2>2
<1>9. TypeOK'
  <2>1. size' \in [Refs -> Nat] /\ next' \in [Refs -> Nat] /\ tail' \in Refs
    BY <1>2, <1>3, <1>n
  <2> QED
    BY <1>0, <1>2, <2>1, SpliceType
<1>10. Places'
  BY <1>0, <1>2, SplicePlaces
<1> QED
  BY <1>0, <1>5, <1>6, <1>7, <1>8, <1>9, <1>10, RowAfter, RingAfter
  DEF IInv, Layout, NeverFaults, Splicing

LEMMA JoinLeftInv == ASSUME IInv, JoinLeft PROVE IInv'
<1>0. Splicing
  BY DEF JoinLeft
<1>1. /\ Stop(f1) = fcell /\ Stop(fcell) # F3 /\ f1 < fcell /\ f1 # tail
  BY <1>0, InsertionPoint, Neighbours DEF JoinLeft, Adjacent
<1>2. /\ f1 \in free /\ fcell \notin free /\ fcell \notin used
      /\ Cells = used \cup free \cup {fcell} /\ used \cap free = {}
      /\ Cells' = used \cup free /\ free' = free /\ used' = used
      /\ f1 \in Refs /\ fcell \in Refs /\ tail \in Refs /\ Cells \subseteq Refs
      /\ size \in [Refs -> Nat] /\ next \in [Refs -> Nat]
  BY <1>0, InsertionPoint, Geometry DEF JoinLeft, Splicing, IInv, TypeOK, Places
<1>n. /\ f1 \in Nat /\ fcell \in Nat /\ f1 # fcell
      /\ size[f1] \in Nat /\ size[fcell] \in Nat
      /\ fcell = f1 + 16 + size[f1] /\ fcell # Hdr
  BY <1>1, <1>2 DEF Stop, Refs
<1>3. /\ size' = [size EXCEPT ![f1] = size[f1] + 16 + size[fcell]]
      /\ next' = next /\ tail' = tail
  BY DEF JoinLeft
<1>v. /\ size'[f1] = size[f1] + 16 + size[fcell]
      /\ \A c \in Refs \ {f1} : size'[c] = size[c]
  BY <1>2, <1>3
<1>4. Row(Cells', size')
  <2>1. Joined(Cells, size, size', f1, fcell)
    BY <1>2, <1>n, <1>v DEF Joined
  <2>2. Cells' = Cells \ {fcell}
    BY <1>2
  <2> QED
    BY <2>1, <2>2, RowBefore, RowJoin
<1>5. Ring(free', next', tail')
  BY <1>2, <1>3, RowBefore
<1>6. Coalesced'
  <2>1. ASSUME NEW c \in free' PROVE Stop(c)' \notin free'
    <3>1. CASE c = f1
      <4>1. Stop(c)' = Stop(fcell)
        BY <1>n, <1>v, <3>1 DEF Stop
      <4> QED
        BY <1>0, <1>1, <1>2, <4>1, Neighbours
    <3>2. CASE c # f1
      <4>1. Stop(c)' = Stop(c)
        BY <1>2, <1>v, <3>2 DEF Stop
      <4> QED
        BY <1>2, <4>1 DEF IInv, Layout, Coalesced
    <3> QED
      BY <3>1, <3>2
  <2> QED
    BY <2>1 DEF Coalesced
<1>7. LastCellKept'
  <2>1. Stop(tail)' = Stop(tail)
    BY <1>1, <1>2, <1>3, <1>v DEF Stop
  <2> QED
    BY <1>2, <1>3, <2>1 DEF IInv, Layout, LastCellKept
<1>8. TypeOK'
  <2>1. size' \in [Refs -> Nat] /\ next' \in [Refs -> Nat] /\ tail' \in Refs
    BY <1>2, <1>3, <1>n
  <2> QED
    BY <1>0, <1>2, <2>1, SpliceType
<1>9. Places'
  BY <1>0, <1>2, SplicePlaces
<1> QED
  BY <1>0, <1>4, <1>5, <1>6, <1>7, <1>8, <1>9, RowAfter, RingAfter
  DEF IInv, Layout, NeverFaults, Splicing

LEMMA JoinNoneInv == ASSUME IInv, JoinNone PROVE IInv'
<1>0. Splicing
  BY DEF JoinNone
<1>1. /\ Stop(f1) # fcell /\ Stop(fcell) # F3 /\ fcell < F3 /\ fcell < tail
      /\ (f1 < fcell \/ f1 = tail)
  BY <1>0, InsertionPoint DEF JoinNone, Adjacent
<1>2. /\ f1 \in free /\ F3 \in free /\ fcell \notin free /\ fcell \notin used
      /\ Cells = used \cup free \cup {fcell} /\ used \cap free = {}
      /\ Cells' = Cells /\ free' = free \cup {fcell} /\ used' = used
      /\ f1 \in Refs /\ fcell \in Refs /\ tail \in Refs /\ Cells \subseteq Refs
      /\ size \in [Refs -> Nat] /\ next \in [Refs -> Nat]
  BY <1>0, InsertionPoint, Geometry DEF JoinNone, Splicing, IInv, TypeOK, Places
<1>3. /\ size' = size /\ tail' = tail
      /\ next' = [next EXCEPT ![fcell] = next[f1], ![f1] = fcell]
  BY DEF JoinNone
<1>4. Row(Cells', size')
  BY <1>2, <1>3, RowBefore
<1>5. Ring(free', next', tail')
  <2>1. /\ next'[fcell] = F3 /\ next'[f1] = fcell
        /\ \A c \in free \ {f1} : next'[c] = next[c]
    BY <1>2, <1>3 DEF F3
  <2>2. Inserted(free, next, next', tail, f1, fcell)
    BY <1>1, <1>2, <2>1 DEF Inserted, F3, Refs
  <2> QED
    BY <1>2, <1>3, <2>2, RowBefore, RingInsert
<1>6. Coalesced'
  <2>1. ASSUME NEW c \in free' PROVE Stop(c)' \notin free'
    <3>1. Stop(c)' = Stop(c)
      BY <1>3 DEF Stop
    <3>2. Stop(c) # fcell
      BY <1>0, <1>1, <1>2, Neighbours
    <3>3. Stop(c) \notin free
      BY <1>0, <1>1, <1>2, Neighbours DEF IInv, Layout, Coalesced
    <3> QED
      BY <1>2, <3>1, <3>2, <3>3
  <2> QED
    BY <2>1 DEF Coalesced
<1>7. LastCellKept'
  BY <1>2, <1>3 DEF IInv, Layout, LastCellKept, Stop
<1>8. TypeOK'
  <2>1. size' \in [Refs -> Nat] /\ next' \in [Refs -> Nat] /\ tail' \in Refs
    BY <1>2, <1>3 DEF Refs
  <2> QED
    BY <1>0, <1>2, <2>1, SpliceType
<1>9. Places'
  BY <1>0, <1>2, SplicePlaces
<1> QED
  BY <1>0, <1>4, <1>5, <1>6, <1>7, <1>8, <1>9, RowAfter, RingAfter
  DEF IInv, Layout, NeverFaults, Splicing

LEMMA JoinRightInv == ASSUME IInv, JoinRight PROVE IInv'
<1>0. Splicing
  BY DEF JoinRight
<1>1. /\ Stop(f1) # fcell /\ Stop(fcell) = F3 /\ fcell < F3 /\ fcell < tail
      /\ (f1 < fcell \/ f1 = tail)
      /\ \A d \in free : d < fcell => f1 < fcell /\ d <= f1
      /\ \A d \in free : fcell < d => F3 <= d
  BY <1>0, InsertionPoint DEF JoinRight, Adjacent
<1>2. /\ f1 \in free /\ F3 \in free /\ fcell \notin free /\ fcell \notin used
      /\ Cells = used \cup free \cup {fcell} /\ used \cap free = {}
      /\ free' = (free \ {F3}) \cup {fcell} /\ used' = used
      /\ f1 \in Refs /\ F3 \in Refs /\ fcell \in Refs /\ tail \in Refs
      /\ Cells \subseteq Refs /\ free \subseteq Nat
      /\ size \in [Refs -> Nat] /\ next \in [Refs -> Nat]
  BY <1>0, InsertionPoint, Geometry DEF JoinRight, Splicing, IInv, TypeOK, Places, Refs
<1>c. Cells' = Cells \ {F3}
  BY <1>0, <1>2, CellsAfter
<1>n. /\ f1 \in Nat /\ fcell \in Nat /\ F3 \in Nat /\ fcell # F3 /\ f1 # fcell
      /\ size[fcell] \in Nat /\ size[F3] \in Nat /\ next[F3] \in Nat
      /\ F3 = fcell + 16 + size[fcell] /\ F3 # Hdr
  BY <1>1, <1>2 DEF Stop, Refs
<1>3. /\ size' = [size EXCEPT ![fcell] = size[fcell] + 16 + size[F3]]
      /\ next' = [next EXCEPT ![fcell] = IF next[F3] = F3 THEN fcell ELSE next[F3],
                              ![f1] = fcell]
      /\ tail' = IF F3 = tail THEN fcell ELSE tail
  BY DEF JoinRight
<1>v. /\ size'[fcell] = size[fcell] + 16 + size[F3]
      /\ \A c \in Refs \ {fcell} : size'[c] = size[c]
  BY <1>2, <1>3
<1>4. Row(Cells', size')
  <2>1. Joined(Cells, size, size', fcell, F3)
    BY <1>2, <1>n, <1>v DEF Joined
  <2> QED
    BY <1>c, <2>1, RowBefore, RowJoin
<1>5. Ring(free', next', tail')
  <2>1. /\ next'[fcell] = IF next[F3] = F3 THEN fcell ELSE next[F3]
        /\ next'[f1] = fcell
        /\ \A c \in free \ {f1, F3} : next'[c] = next[c]
    BY <1>2, <1>3, <1>n
  <2>2. \A d \in free \ {F3} : F3 > d <=> fcell > d
    BY <1>1, <1>2, <1>n
  <2>3. Replaced(free, next, next', tail, tail', f1, F3, fcell)
    BY <1>2, <1>3, <1>n, <2>1, <2>2 DEF Replaced, F3
  <2> QED
    BY <1>2, <2>3, RowBefore, RingReplace
<1>6. Coalesced'
  <2>1. ASSUME NEW c \in free' PROVE Stop(c)' \notin free'
    <3>1. CASE c = fcell
      <4>1. Stop(c)' = Stop(F3)
        BY <1>n, <1>v, <3>1 DEF Stop
      <4>2. Stop(F3) \notin free
        BY <1>2 DEF IInv, Layout, Coalesced
      <4>3. Stop(F3) # fcell
        BY <1>n DEF Stop
      <4> QED
        BY <1>2, <4>1, <4>2, <4>3
    <3>2. CASE c # fcell
      <4>1. c \in free /\ Stop(c)' = Stop(c)
        BY <1>2, <1>v, <3>2 DEF Stop
      <4>2. Stop(c) \notin free
        BY <4>1 DEF IInv, Layout, Coalesced
      <4>3. Stop(c) # fcell
        BY <1>0, <1>1, <4>1, Neighbours
      <4> QED
        BY <1>2, <4>1, <4>2, <4>3
    <3> QED
      BY <3>1, <3>2
  <2> QED
    BY <2>1 DEF Coalesced
<1>7. LastCellKept'
  <2>1. CASE F3 = tail
    <3>1. tail' = fcell
      BY <1>3, <2>1
    <3>2. fcell + 16 + size'[fcell] = End
      <4>1. Stop(tail) = End
        BY DEF IInv, Layout, LastCellKept
      <4>2. F3 + 16 + size[F3] = End
        BY <2>1, <4>1 DEF Stop
      <4> QED
        BY <1>n, <1>v, <4>2
    <3>3. ASSUME NEW c \in used PROVE c < fcell
      <4>1. c < tail /\ c \in Nat /\ c \in Cells /\ c # fcell
        BY <1>2 DEF IInv, Layout, LastCellKept, Refs
      <4>2. fcell < c => F3 <= c
        BY <1>0, <1>1, <1>2, <4>1, Neighbours
      <4> QED
        BY <1>n, <2>1, <4>1, <4>2
    <3> QED
      BY <1>2, <3>1, <3>2, <3>3 DEF LastCellKept, Stop
  <2>2. CASE F3 # tail
    <3>1. tail' = tail /\ Stop(tail)' = Stop(tail)
      BY <1>1, <1>2, <1>3, <1>v, <2>2 DEF Stop, Refs
    <3> QED
      BY <1>2, <3>1 DEF IInv, Layout, LastCellKept
  <2> QED
    BY <2>1, <2>2
<1>8. TypeOK'
  <2>1. size' \in [Refs -> Nat] /\ next' \in [Refs -> Nat] /\ tail' \in Refs
    BY <1>2, <1>3, <1>n
  <2>2. free' \in SUBSET Refs
    BY <1>2
  <2> QED
    BY <1>0, <2>1, <2>2, SpliceType
<1>9. Places'
  BY <1>0, <1>2, SplicePlaces
<1> QED
  BY <1>0, <1>4, <1>5, <1>6, <1>7, <1>8, <1>9, RowAfter, RingAfter
  DEF IInv, Layout, NeverFaults, Splicing

-----------------------------------------------------------------------------
(* A cell is granted.  No suba_free is in progress. *)
LEMMA GrantedPlaces ==
  ASSUME IInv, apc = "scan", NEW nxt, Granted(A2, nxt), used \cap free' = {},
         A2 \notin free'
  PROVE  Places'
BY A2Free DEF IInv, Places, Granted, EndAlloc, frees

LEMMA GrantedType ==
  ASSUME IInv, apc = "scan", NEW nxt \in [Refs -> Nat], Granted(A2, nxt),
         tail' \in Refs, size' \in [Refs -> Nat], free' \in SUBSET Refs
  PROVE  TypeOK'
<1>1. next' = [nxt EXCEPT ![A2] = 0] /\ inUse' = inUse + 16 + size'[A2]
  BY DEF Granted
<1>2. next' \in [Refs -> Nat] /\ inUse' \in Int
  BY <1>1, A2Free DEF IInv, TypeOK
<1>3. /\ used' = used \cup {A2} /\ apc' \in {"idle", "copy"}
      /\ ask' = 0 /\ want' = 0 /\ a1' = 0
      /\ UNCHANGED <<old, freed, fpc, fcell, f1, fault>>
  BY DEF Granted, EndAlloc, frees
<1> QED
  BY <1>2, <1>3, A2Free DEF IInv, TypeOK

LEMMA SplitInv == ASSUME IInv, Split PROVE IInv'
<1> DEFINE c2 == A2
           c3 == After(A2)
           nxt == IF a1 = c2 THEN [next EXCEPT ![c3] = c3]
                  ELSE [next EXCEPT ![c3] = next[c2], ![a1] = c3]
<1>1. /\ apc = "scan" /\ fpc = "idle"
      /\ size' = [size EXCEPT ![c3] = size[c2] - (want + 16), ![c2] = want]
      /\ tail' = IF c2 = tail THEN c3 ELSE tail
      /\ free' = (free \ {c2}) \cup {c3}
      /\ Granted(c2, nxt) /\ used' = used \cup {c2}
      /\ next' = [nxt EXCEPT ![c2] = 0]
      /\ fpc' = "idle" /\ fault' = fault
  BY DEF Split, SplitTail, Granted, frees, IInv, Places
<1>2. /\ c2 = next[a1] /\ c2 \in free /\ c2 \in Refs /\ a1 \in free
      /\ c2 \in Cells /\ free \subseteq Refs /\ tail \in Refs /\ tail \in free
      /\ Cells = used \cup free /\ used \cap free = {} /\ Cells \subseteq Refs
      /\ size \in [Refs -> Nat] /\ next \in [Refs -> Nat] /\ want \in Nat
  BY <1>1, A2Free, Geometry DEF IInv, TypeOK, Places, Cells, Layout, Circular, A2
<1>3. /\ size[c2] > 16 + want + MinCell /\ c3 = c2 + 16 + want
      /\ c2 + 16 + size[c2] <= End /\ c2 % 8 = 0 /\ want % 8 = 0
  BY <1>2, Geometry DEF Split, Roomy, After, Stop, Refs, IInv, Places
<1> HIDE DEF nxt, c2, c3
<1>4. c3 \in Refs /\ c3 \in Nat /\ c2 \in Nat /\ c2 < c3 /\ c3 < End
      /\ size[c2] - (want + 16) \in Nat /\ c3 < c2 + 16 + size[c2]
  BY <1>2, <1>3 DEF Refs
<1>v. /\ size'[c2] = want /\ size'[c3] = size[c2] - (want + 16)
      /\ \A c \in Refs \ {c2, c3} : size'[c] = size[c]
  BY <1>1, <1>2, <1>4
<1>5. Row(Cells \cup {c3}, size') /\ c3 \notin Cells
  <2>1. \A c \in Cells : size[c] \in Nat /\ c \in Nat
    BY <1>2 DEF Refs
  <2>2. c3 \notin Cells
    <3>1. \A d \in Cells : c2 < d => c2 + 16 + size[c2] <= d
      BY <1>2, RowBefore DEF Row
    <3> QED
      BY <1>2, <1>4, <2>1, <3>1
  <2>3. SplitOff(Cells, size, size', c2, c3)
    BY <1>2, <1>3, <1>4, <1>v, <2>1, <2>2 DEF SplitOff
  <2> QED
    BY <2>3, RowBefore, RowSplit
<1>6. Cells' = Cells \cup {c3}
  BY <1>1, <1>2 DEF Cells
<1>7. Ring(free', next', tail')
  <2>1. next[c2] = c2 <=> a1 = c2
    BY <1>2, RowBefore DEF Ring
  <2>2. next'[c3] = IF next[c2] = c2 THEN c3 ELSE next[c2]
    BY <1>1, <1>2, <1>4, <1>5, <2>1 DEF nxt
  <2>3. a1 # c2 => next'[a1] = c3
    BY <1>1, <1>2, <1>4, <1>5 DEF nxt
  <2>4. \A c \in free \ {a1, c2} : next'[c] = next[c]
    BY <1>1, <1>2, <1>4, <1>5 DEF nxt
  <2>5. \A d \in free \ {c2} : d < c2 <=> d < c3
    <3>1. \A d \in Cells : d \in Nat /\ (c2 < d => c2 + 16 + size[c2] <= d)
      BY <1>2, RowBefore DEF Row
    <3> QED
      BY <1>2, <1>4, <3>1
  <2>6. Replaced(free, next, next', tail, tail', a1, c2, c3)
    BY <1>1, <1>2, <1>4, <1>5, <2>2, <2>3, <2>4, <2>5 DEF Replaced
  <2> QED
    BY <1>1, <2>6, RowBefore, RingReplace
<1>8. Coalesced'
  <2>1. ASSUME NEW c \in free' PROVE Stop(c)' \notin free'
    <3>1. CASE c = c3
      <4>1. Stop(c)' = Stop(c2)
        BY <1>2, <1>3, <1>4, <1>v, <3>1 DEF Stop
      <4>2. Stop(c2) \notin free
        BY <1>2 DEF IInv, Layout, Coalesced
      <4>3. Stop(c2) # c3
        BY <1>4 DEF Stop
      <4> QED
        BY <1>1, <4>1, <4>2, <4>3
    <3>2. CASE c # c3
      <4>1. c \in free /\ c # c2 /\ Stop(c)' = Stop(c)
        BY <1>1, <1>2, <1>5, <1>v, <3>2 DEF Stop
      <4>2. Stop(c) \notin free
        BY <4>1 DEF IInv, Layout, Coalesced
      <4>3. Stop(c) \in Cells \cup {End}
        BY <1>2, <4>1 DEF IInv, Layout, Tiled
      <4> QED
        BY <1>1, <1>4, <1>5, <4>1, <4>2, <4>3
    <3> QED
      BY <3>1, <3>2
  <2> QED
    BY <2>1 DEF Coalesced
<1>9. LastCellKept'
  <2>0. Stop(tail) = End /\ \A c \in used : c < tail /\ c \in Nat
    BY <1>2 DEF IInv, Layout, LastCellKept, Refs
  <2>1. CASE c2 = tail
    <3>1. tail' = c3 /\ Stop(tail)' = Stop(c2)
      BY <1>1, <1>2, <1>3, <1>4, <1>v, <2>1 DEF Stop
    <3> QED
      BY <1>1, <1>4, <2>0, <2>1, <3>1 DEF LastCellKept
  <2>2. CASE c2 # tail
    <3>1. tail' = tail /\ Stop(tail)' = Stop(tail)
      BY <1>1, <1>2, <1>5, <1>v, <2>2 DEF Stop
    <3>2. c2 < tail
      BY <1>2, <1>4, <2>2, RowBefore DEF Ring
    <3> QED
      BY <1>1, <2>0, <3>1, <3>2 DEF LastCellKept
  <2> QED
    BY <2>1, <2>2
<1>10. c2 \notin free' /\ used \cap free' = {}
  BY <1>1, <1>2, <1>4, <1>5
<1>11. TypeOK'
  <2>1. size' \in [Refs -> Nat] /\ tail' \in Refs /\ free' \in SUBSET Refs
    BY <1>1, <1>2, <1>4
  <2>2. nxt \in [Refs -> Nat]
    BY <1>2, <1>4 DEF nxt
  <2> QED
    BY <1>1, <2>1, <2>2, GrantedType DEF c2
<1>12. Places'
  BY <1>1, <1>10, GrantedPlaces DEF c2
<1> QED
  BY <1>1, <1>5, <1>6, <1>7, <1>8, <1>9, <1>11, <1>12, RowAfter, RingAfter
  DEF IInv, Layout, NeverFaults

LEMMA UseWholeInv == ASSUME IInv, UseWhole PROVE IInv'
<1> DEFINE c2 == A2
           nxt == [next EXCEPT ![a1] = next[c2]]
<1>1. /\ apc = "scan" /\ fpc = "idle" /\ c2 # tail
      /\ size' = size /\ tail' = tail /\ free' = free \ {c2}
      /\ Granted(c2, nxt) /\ used' = used \cup {c2}
      /\ next' = [nxt EXCEPT ![c2] = 0]
      /\ fpc' = "idle" /\ fault' = fault
  BY DEF UseWhole, Granted, frees, IInv, Places
<1>2. /\ c2 = next[a1] /\ c2 \in free /\ c2 \in Refs /\ a1 \in free
      /\ free \subseteq Refs /\ tail \in Refs /\ tail \in free
      /\ Cells = used \cup free /\ used \cap free = {}
      /\ next \in [Refs -> Nat] /\ size \in [Refs -> Nat]
  BY <1>1, A2Free DEF IInv, TypeOK, Places, Cells, Layout, Circular, A2
<1> HIDE DEF nxt, c2
<1>3. a1 # c2
  BY <1>1, <1>2, RowBefore DEF Ring
<1>4. Row(Cells', size')
  <2>1. Cells' = Cells
    BY <1>1, <1>2 DEF Cells
  <2> QED
    BY <1>1, <2>1, RowBefore
<1>5. Ring(free', next', tail')
  <2>1. /\ next'[a1] = next[c2]
        /\ \A c \in free \ {a1, c2} : next'[c] = next[c]
    BY <1>1, <1>2, <1>3 DEF nxt
  <2>2. Removed(free, next, next', tail, tail', a1, c2)
    BY <1>1, <1>2, <1>3, <2>1 DEF Removed
  <2> QED
    BY <1>1, <2>2, RowBefore, RingRemove
<1>6. Coalesced'
  BY <1>1 DEF IInv, Layout, Coalesced, Stop
<1>7. LastCellKept'
  <2>1. c2 < tail
    BY <1>1, <1>2, RowBefore DEF Ring, Refs
  <2> QED
    BY <1>1, <2>1 DEF IInv, Layout, LastCellKept, Stop
<1>8. TypeOK'
  <2>1. size' \in [Refs -> Nat] /\ tail' \in Refs /\ free' \in SUBSET Refs
    BY <1>1, <1>2
  <2>2. nxt \in [Refs -> Nat]
    BY <1>2 DEF nxt
  <2> QED
    BY <1>1, <2>1, <2>2, GrantedType DEF c2
<1>9. Places'
  <2>1. c2 \notin free' /\ used \cap free' = {}
    BY <1>1, <1>2
  <2> QED
    BY <1>1, <2>1, GrantedPlaces DEF c2
<1> QED
  BY <1>1, <1>4, <1>5, <1>6, <1>7, <1>8, <1>9, RowAfter, RingAfter
  DEF IInv, Layout, NeverFaults

LEMMA StutterInv == ASSUME IInv, UNCHANGED vars PROVE IInv'
BY DEF IInv, vars, TypeOK, Places, Layout, Tiled, Circular, Coalesced,
       LastCellKept, Cells, Stop, NeverFaults

LEMMA NextInv == IInv /\ [Next]_vars => IInv'
<1> SUFFICES ASSUME IInv, [Next]_vars PROVE IInv'
  OBVIOUS
<1>1. CASE Search
  BY <1>1, AgainInv, ScanOnInv, ScanFailsInv, SpareLastInv, SplitInv, UseWholeInv,
     ReclaimReturnsInv, ReallocDoneInv DEF Search
<1>2. CASE Splice
  BY <1>2, FreeStartInv, FreeScanInv, JoinBothInv, JoinLeftInv, JoinRightInv,
     JoinNoneInv DEF Splice
<1>3. CASE \E n \in Requests : CallAlloc(n)
  BY <1>3, CallAllocInv
<1>4. CASE \E c \in Refs : CallFree(c) \/ ReallocFree(c)
  BY <1>4, CallFreeInv, ReallocFreeInv
<1>5. CASE \E c \in Refs, n \in Requests : ReallocMove(c, n)
  BY <1>5, ReallocMoveInv
<1>6. CASE UNCHANGED vars
  BY <1>6, StutterInv
<1> QED
  BY <1>1, <1>2, <1>3, <1>4, <1>5, <1>6 DEF Next

LEMMA AlwaysIInv == Spec => []IInv
BY InitInv, NextInv, PTL DEF Spec

-----------------------------------------------------------------------------
(* Every variable keeps its type: in particular every cell starts at an    *)
(* aligned offset inside the chunk.                                        *)
THEOREM TypeCorrect == Spec => []TypeOK
<1>1. IInv => TypeOK
  BY DEF IInv
<1> QED
  BY <1>1, AlwaysIInv, PTL

(* After any history of allocations, frees, reallocations and reclaims the *)
(* cells fill the chunk without gap or overlap (suba.c:109-257).           *)
THEOREM CellsTile == Spec => []Tiled
<1>1. IInv => Tiled
  BY DEF IInv, Layout
<1> QED
  BY <1>1, AlwaysIInv, PTL

(* Whatever the splices of suba_alloc and suba_free did to it, the free    *)
(* list is one ring in address order that tail closes; two free cells      *)
(* never touch (suba.c:149-162, 234-253); the last cell is never given     *)
(* away whole (163-166), so the cell before which suba_free inserts always *)
(* exists; and neither walk meets a bad offset or an impossible size: a    *)
(* client that frees only what it holds never sees EFAULT or EINVAL.       *)
THEOREM FreeListIsRight == Spec => []FreeListRight
<1>1. IInv => FreeListRight
  BY DEF IInv, Layout, FreeListRight
<1> QED
  BY <1>1, AlwaysIInv, PTL

-----------------------------------------------------------------------------
(* What a search has seen.  The cells up to a1 are too short, and while    *)
(* the callback has freed nothing they all are.                            *)
Full == \A c \in free : IF c = tail THEN size[c] <= Poff + want + MinCell
                        ELSE size[c] < want

Searched == /\ apc = "scan" /\ a1 # tail => \A c \in free : c <= a1 => size[c] < want
            /\ apc = "reclaim" /\ ~freed => fpc = "idle" /\ Full

LEMMA SearchedInit == Init => Searched
BY DEF Init, Searched

(* When the cell after a1 is tail, the search has seen all the others. *)
LEMMA SeenAll ==
  ASSUME IInv, Searched, apc = "scan", A2 = tail
  PROVE  \A c \in free : c # tail => size[c] < want
<1>1. a1 \in free /\ free \subseteq Refs
  BY DEF IInv, TypeOK, Places
<1>2. CASE a1 = tail
  <2>1. \A c \in free : next[tail] <= c /\ c <= tail /\ c \in Nat
    BY RowBefore DEF Ring
  <2> QED
    BY <1>1, <1>2, <2>1 DEF A2
<1>3. CASE a1 # tail
  <2>1. \A c \in free : c <= a1 \/ tail <= c
    BY <1>1, <1>3, RowBefore DEF Ring, A2
  <2>2. \A c \in free : c <= tail /\ c \in Nat
    BY RowBefore DEF Ring
  <2>3. tail \in free
    BY RowBefore DEF Ring
  <2> QED
    BY <1>3, <2>1, <2>2, <2>3 DEF Searched
<1> QED
  BY <1>2, <1>3

LEMMA SearchedNext == IInv /\ Searched /\ [Next]_vars => Searched'
<1> SUFFICES ASSUME IInv, Searched, [Next]_vars PROVE Searched'
  OBVIOUS
<1>1. CASE ScanOn
  <2>1. /\ apc = "scan" /\ a1' = A2 /\ A2 # tail /\ ~(size[A2] >= want)
        /\ UNCHANGED <<heap, free, want, apc>>
    BY <1>1 DEF ScanOn, Fits
  <2>2. A2 \in free /\ A2 \in Refs /\ a1 \in free /\ want \in Nat /\ size[A2] \in Nat
    BY <2>1, A2Free DEF IInv, TypeOK, Places
  <2>3. ASSUME NEW c \in free, c <= A2 PROVE size[c] < want
    <3>1. CASE c = A2
      BY <2>1, <2>2, <3>1
    <3>2. CASE c # A2
      <4>1. c < A2 /\ c \in Nat /\ A2 \in Nat
        BY <2>2, <2>3, <3>2, RowBefore DEF Ring
      <4>2. CASE a1 = tail
        BY <4>1, <4>2, RowBefore DEF Ring, A2
      <4>3. CASE a1 # tail
        <5>1. c <= a1
          BY <2>2, <4>1, <4>3, RowBefore DEF Ring, A2
        <5> QED
          BY <2>1, <4>3, <5>1 DEF Searched
      <4> QED
        BY <4>2, <4>3
    <3> QED
      BY <3>1, <3>2
  <2> QED
    BY <2>1, <2>3 DEF Searched, heap
<1>2. CASE ScanFails
  <2>1. Valid(A2)
    BY <1>2, A2Free DEF ScanFails
  <2>2. /\ apc = "scan" /\ apc' = "reclaim" /\ A2 = tail /\ ~(size[A2] >= want)
        /\ UNCHANGED <<heap, free, want, frees>>
    BY <1>2, <2>1 DEF ScanFails, Fits
  <2>3. size[tail] \in Nat /\ want \in Nat /\ MinCell \in Nat
    BY DEF IInv, TypeOK
  <2>4. Full
    BY <2>2, <2>3, SeenAll DEF Full
  <2> QED
    BY <2>2, <2>4 DEF Searched, Full, heap, frees, IInv, Places
<1>3. CASE SpareLast
  <2>1. /\ apc = "scan" /\ apc' = "reclaim" /\ A2 = tail
        /\ ~(size[A2] > Poff + want + MinCell)
        /\ UNCHANGED <<heap, free, want, frees>>
    BY <1>3 DEF SpareLast, Roomy
  <2>2. size[tail] \in Nat /\ want \in Nat /\ MinCell \in Nat
    BY DEF IInv, TypeOK
  <2>3. Full
    BY <2>1, <2>2, SeenAll DEF Full
  <2> QED
    BY <2>1, <2>3 DEF Searched, Full, heap, frees, IInv, Places
<1>4. CASE Again
  BY <1>4 DEF Again, Searched, heap
<1>5. CASE ReclaimReturns
  BY <1>5 DEF ReclaimReturns, Searched, EndAlloc
<1>6. CASE Split \/ UseWhole \/ ReallocDone
  BY <1>6 DEF Split, UseWhole, Granted, ReallocDone, Searched
<1>7. CASE Splice
  <2>1. fpc # "idle" /\ UNCHANGED alloc
    BY <1>7 DEF Splice, FreeStart, FreeScan, JoinBoth, JoinLeft, JoinRight, JoinNone,
       Splicing
  <2> QED
    BY <2>1 DEF Searched, alloc, IInv, Places
<1>8. CASE (\E n \in Requests : CallAlloc(n)) \/ \E c \in Refs, n \in Requests : ReallocMove(c, n)
  BY <1>8 DEF CallAlloc, ReallocMove, StartAlloc, Searched
<1>9. CASE \E c \in Refs : CallFree(c) \/ ReallocFree(c)
  BY <1>9 DEF CallFree, ReallocFree, alloc, Searched
<1>10. CASE UNCHANGED vars
  BY <1>10 DEF vars, Searched, Full
<1> QED
  BY <1>1, <1>2, <1>3, <1>4, <1>5, <1>6, <1>7, <1>8, <1>9, <1>10 DEF Next, Search

LEMMA FailsStep ==
  ASSUME IInv, Searched, Next, apc = "reclaim", apc' = "idle" PROVE Full
<1>1. ReclaimReturns
  BY DEF Next, Search, Splice, Again, ScanOn, ScanFails, SpareLast, Split, UseWhole,
     Granted, ReallocDone, FreeStart, FreeScan, JoinBoth, JoinLeft, JoinRight, JoinNone,
     Splicing, CallAlloc, ReallocMove, StartAlloc, CallFree, ReallocFree, alloc
<1> QED
  BY <1>1 DEF ReclaimReturns, Searched

(* suba_alloc reports ENOMEM only if the cells it left, at that moment,    *)
(* are all too short: neither the walk from tail nor the callback makes it *)
(* miss one (suba.c:116-131).                                              *)
THEOREM NoMissedHole == Spec => FailsOnlyWhenFull
<1>1. IInv /\ Searched /\ [Next]_vars
        => [apc = "reclaim" /\ apc' = "idle" =>
              \A c \in free : IF c = tail THEN size[c] <= Poff + want + MinCell
                              ELSE size[c] < want]_vars
  BY FailsStep DEF Full
<1> QED
  BY <1>1, AlwaysIInv, SearchedInit, SearchedNext, PTL DEF Spec, FailsOnlyWhenFull

-----------------------------------------------------------------------------
(* The rest holds only where ALIGN does not wrap around.                   *)
NoWrap == \A n \in Requests : n + 7 < WordMod

LEMMA RoundIsEnough ==
  ASSUME NoWrap, NEW n \in Requests PROVE Round(n) >= n
<1>1. n \in Nat /\ n + 7 < WordMod /\ (n + 7) % WordMod = n + 7
  BY DEF NoWrap
<1>2. Align(n) >= n
  BY <1>1 DEF Align, Word
<1> QED
  BY <1>1, <1>2 DEF Round

Asked == apc \in {"again", "scan", "reclaim"} => ask \in Requests /\ want = Round(ask)

LEMMA AskedInit == Init => Asked
BY DEF Init, Asked

LEMMA AskedNext == Asked /\ [Next]_vars => Asked'
<1> SUFFICES ASSUME Asked, [Next]_vars PROVE Asked'
  OBVIOUS
<1>1. CASE Search
  BY <1>1 DEF Search, Again, ScanOn, ScanFails, SpareLast, Split, UseWhole, Granted,
     ReclaimReturns, ReallocDone, EndAlloc, Asked, Round, Align, Word
<1>2. CASE Splice
  BY <1>2 DEF Splice, FreeStart, FreeScan, JoinBoth, JoinLeft, JoinRight, JoinNone,
     Splicing, alloc, Asked, Round, Align, Word
<1>3. CASE \/ \E n \in Requests : CallAlloc(n)
           \/ \E c \in Refs, n \in Requests : ReallocMove(c, n)
  BY <1>3 DEF CallAlloc, ReallocMove, StartAlloc, Asked, Round, Align, Word
<1>4. CASE \E c \in Refs : CallFree(c) \/ ReallocFree(c)
  BY <1>4 DEF CallFree, ReallocFree, alloc, Asked, Round, Align, Word
<1>5. CASE UNCHANGED vars
  BY <1>5 DEF vars, Asked, Round, Align, Word
<1> QED
  BY <1>1, <1>2, <1>3, <1>4, <1>5 DEF Next

(* What a grant gives, and that it leaves the other blocks alone. *)
LEMMA GrantStep ==
  ASSUME NoWrap, IInv, Asked, Split \/ UseWhole
  PROVE  /\ used' = used \cup {A2} /\ A2 \notin used /\ size'[A2] >= ask
         /\ \A c \in used : size'[c] = size[c]
<1>1. /\ apc = "scan" /\ A2 \in free /\ used' = used \cup {A2}
      /\ size[A2] >= want /\ want >= ask /\ A2 \in Refs
      /\ used \cap free = {} /\ used \subseteq Refs
      /\ size \in [Refs -> Nat] /\ want \in Nat
  BY A2Free, RoundIsEnough DEF Split, UseWhole, Fits, Granted, Asked, IInv, Places, TypeOK
<1>2. CASE UseWhole
  <2>1. size' = size /\ ask \in Requests
    BY <1>1, <1>2 DEF UseWhole, Asked
  <2> QED
    BY <1>1, <2>1
<1>3. CASE Split
  <2>1. /\ size' = [size EXCEPT ![After(A2)] = size[A2] - (want + Poff), ![A2] = want]
        /\ size[A2] > Poff + want + MinCell /\ fpc = "idle"
    BY <1>1, <1>3 DEF Split, Roomy, IInv, Places
  <2>2. After(A2) = A2 + 16 + want /\ A2 \in Nat
    BY <1>1 DEF After, Refs
  <2>3. A2 + 16 + size[A2] <= End /\ A2 \in Cells /\ used \subseteq Cells
    BY <1>1, Geometry DEF IInv, Cells, Stop
  <2>4. After(A2) \notin Cells
    <3>1. \A d \in Cells : A2 < d => A2 + 16 + size[A2] <= d
      BY <2>3, RowBefore DEF Row
    <3> QED
      BY <1>1, <2>1, <2>2, <3>1
  <2>5. \A c \in Refs \ {A2, After(A2)} : size'[c] = size[c]
    BY <1>1, <2>1
  <2>6. size'[A2] = want
    BY <1>1, <2>1
  <2> QED
    BY <1>1, <2>3, <2>4, <2>5, <2>6
<1> QED
  BY <1>2, <1>3

LEMMA NewBlocks ==
  ASSUME Next, NEW c \in used' \ used PROVE Split \/ UseWhole
BY DEF Next, Search, Splice, Again, ScanOn, ScanFails, SpareLast, ReclaimReturns,
       ReallocDone, FreeStart, FreeScan, JoinBoth, JoinLeft, JoinRight, JoinNone,
       Splicing, CallAlloc, ReallocMove, CallFree, ReallocFree, StartFree

(* Where rounding does not wrap, a block is never shorter than was asked   *)
(* for: what is compared, split and recorded is the rounded size           *)
(* (suba.c:115-166).                                                       *)
THEOREM BlocksAreLongEnough == ASSUME NoWrap PROVE Spec => LongEnough
<1>1. ASSUME IInv, Asked, Next PROVE \A c \in used' \ used : size'[c] >= ask
  BY <1>1, NoWrap, NewBlocks, GrantStep
<1>2. IInv /\ Asked /\ [Next]_vars => [\A c \in used' \ used : size'[c] >= ask]_vars
  BY <1>1
<1> QED
  BY <1>2, AlwaysIInv, AskedInit, AskedNext, PTL DEF Spec, LongEnough

-----------------------------------------------------------------------------
(* Refinement: what the abstract allocator sees of each step.              *)
Blocks  == {<<c + Poff, size[c]>> : c \in used}
Pending == IF apc \in {"again", "scan", "reclaim"} THEN {ask} ELSE {}

LEMMA HeapInit == Init => H!Init
BY DEF Init, H!Init

(* Steps that neither grant nor release. *)
LEMMA BlocksSame ==
  ASSUME used' = used, \A c \in used : size'[c] = size[c] PROVE Blocks' = Blocks
BY DEF Blocks

LEMMA GrantIsAllowed ==
  ASSUME NoWrap, IInv, Asked, Split \/ UseWhole PROVE H!Grant
<1> DEFINE b == <<A2 + 16, size'[A2]>>
<1>1. /\ apc = "scan" /\ apc' \in {"idle", "copy"} /\ ask \in Requests
      /\ IInv' /\ used' = used \cup {A2} /\ A2 \notin used /\ size'[A2] >= ask
      /\ \A c \in used : size'[c] = size[c]
  BY GrantStep, SplitInv, UseWholeInv DEF Split, UseWhole, Granted, Asked
<1>2. Pending = {ask} /\ Pending' = {}
  BY <1>1 DEF Pending
<1>3. Blocks' = Blocks \cup {b} /\ b \in Blocks'
  BY <1>1 DEF Blocks
<1>4. Row(Cells', size') /\ used' \subseteq Cells' /\ Cells' \subseteq Refs
  <2>1. used' \subseteq Cells' /\ Cells' \subseteq Refs
    BY <1>1 DEF Cells, IInv, TypeOK, Places
  <2> QED
    BY <1>1, <2>1 DEF IInv, TypeOK, Layout, Tiled, Stop, Row, Refs
<1>5. H!Fits(b, ask)
  <2>1. A2 \in Cells' /\ A2 \in Refs /\ size'[A2] \in Nat /\ A2 \in Nat
    BY <1>1, <1>4 DEF Row, Refs
  <2>2. A2 + 16 + size'[A2] <= End
    <3>1. \A c \in Cells' : c + 16 + size'[c] \in Cells' \cup {End}
      BY <1>4 DEF Row
    <3> QED
      BY <1>4, <2>1, <3>1 DEF Refs
  <2>3. ASSUME NEW c \in used
        PROVE  A2 + 16 + size'[A2] <= c + 16 \/ c + 16 + size[c] <= A2 + 16
    <3>1. c \in Cells' /\ c # A2 /\ size'[c] = size[c]
      BY <1>1, <1>4, <2>3
    <3>2. c \in Nat /\ size'[c] \in Nat
      BY <1>4, <3>1 DEF Row
    <3>3. (A2 < c => A2 + 16 + size'[A2] <= c) /\ (c < A2 => c + 16 + size'[c] <= A2)
      BY <1>4, <2>1, <3>1 DEF Row
    <3> QED
      BY <2>1, <3>1, <3>2, <3>3
  <2>4. \A o \in Blocks : H!Disjoint(b, o)
    BY <2>3 DEF Blocks, H!Disjoint
  <2>5. ask <= b[2] /\ Hdr + 16 <= b[1] /\ b[1] + b[2] <= End
    BY <1>1, <2>1, <2>2 DEF Refs
  <2> QED
    BY <2>4, <2>5 DEF H!Fits, Blocks
<1> QED
  BY <1>2, <1>3, <1>5 DEF H!Grant, Blocks, Pending

LEMMA ReleaseStep ==
  ASSUME IInv, NEW c \in used, StartFree(c), Pending' = Pending PROVE H!Release
<1>1. used' = used \ {c} /\ size' = size /\ used \subseteq Refs
  BY DEF StartFree, heap, IInv, TypeOK
<1>2. \A d \in used : d + 16 = c + 16 => d = c
  BY <1>1 DEF Refs
<1>3. Blocks' = Blocks \ {<<c + 16, size[c]>>} /\ <<c + 16, size[c]>> \in Blocks
  BY <1>1, <1>2 DEF Blocks
<1> QED
  BY <1>3 DEF H!Release, Blocks, Pending

(* suba_free changes the headers of free cells only. *)
LEMMA SpliceStutters ==
  ASSUME IInv, Splice PROVE Blocks' = Blocks /\ Pending' = Pending
<1>1. Pending' = Pending
  BY DEF Splice, FreeStart, FreeScan, JoinBoth, JoinLeft, JoinRight, JoinNone,
     Splicing, alloc, Pending
<1>2. used' = used /\ used \subseteq Refs /\ size \in [Refs -> Nat] /\ used \cap free = {}
      /\ tail \in free
  BY DEF Splice, FreeStart, FreeScan, JoinBoth, JoinLeft, JoinRight, JoinNone,
     Splicing, IInv, TypeOK, Places, Layout, Circular
<1>3. \A c \in used : size'[c] = size[c]
  <2>1. CASE FreeStart
    BY <1>2, <2>1 DEF FreeStart, Behind, heap
  <2>2. CASE FreeScan
    BY <2>2 DEF FreeScan, heap
  <2>3. CASE JoinNone
    BY <2>3 DEF JoinNone
  <2>4. CASE JoinBoth \/ JoinLeft \/ JoinRight
    <3>1. f1 \notin used /\ fcell \notin used
      BY <1>2, <2>4, InsertionPoint DEF JoinBoth, JoinLeft, JoinRight
    <3> QED
      BY <1>2, <2>4, <3>1 DEF JoinBoth, JoinLeft, JoinRight
  <2> QED
    BY <2>1, <2>2, <2>3, <2>4 DEF Splice
<1> QED
  BY <1>1, <1>2, <1>3, BlocksSame

LEMMA HeapNext ==
  ASSUME NoWrap, IInv, Asked, [Next]_vars PROVE [H!Next]_(H!vars)
<1> SUFFICES H!Next \/ (Blocks' = Blocks /\ Pending' = Pending)
  BY DEF H!vars, Blocks, Pending
<1>1. CASE Split \/ UseWhole
  BY <1>1, NoWrap, GrantIsAllowed DEF H!Next
<1>2. CASE Again \/ ScanOn \/ SpareLast
  BY <1>2 DEF Again, ScanOn, SpareLast, heap, Blocks, Pending
<1>3. CASE ScanFails
  <2>1. Valid(A2)
    BY <1>3, A2Free DEF ScanFails
  <2> QED
    BY <1>3, <2>1 DEF ScanFails, heap, Blocks, Pending
<1>4. CASE ReclaimReturns
  <2>1. Blocks' = Blocks /\ Pending = {ask}
    BY <1>4 DEF ReclaimReturns, heap, Blocks, Pending
  <2>2. CASE freed
    BY <1>4, <2>1, <2>2 DEF ReclaimReturns, Pending
  <2>3. CASE ~freed
    <3>1. Pending' = {}
      BY <1>4, <2>3 DEF ReclaimReturns, Pending
    <3> QED
      BY <2>1, <3>1 DEF H!Next, H!Refuse, Blocks, Pending
  <2> QED
    BY <2>2, <2>3
<1>5. CASE ReallocDone
  <2>1. old \in used /\ StartFree(old) /\ Pending' = Pending
    BY <1>5 DEF ReallocDone, IInv, Places, Pending
  <2> QED
    BY <2>1, ReleaseStep DEF H!Next
<1>6. CASE Splice
  BY <1>6, SpliceStutters
<1>7. ASSUME NEW n \in Requests, CallAlloc(n) \/ \E c \in Refs : ReallocMove(c, n)
      PROVE  H!Next
  <2>1. Blocks' = Blocks /\ Pending = {} /\ Pending' = {n}
    BY <1>7 DEF CallAlloc, ReallocMove, StartAlloc, heap, Blocks, Pending
  <2> QED
    BY <2>1 DEF H!Next, H!Request, Blocks, Pending
<1>8. ASSUME NEW c \in Refs, CallFree(c) \/ ReallocFree(c) PROVE H!Next
  <2>1. c \in used /\ StartFree(c) /\ Pending' = Pending
    BY <1>8 DEF CallFree, ReallocFree, alloc, Pending
  <2> QED
    BY <2>1, ReleaseStep DEF H!Next
<1>9. CASE UNCHANGED vars
  BY <1>9 DEF vars, Blocks, Pending
<1> QED
  BY <1>1, <1>2, <1>3, <1>4, <1>5, <1>6, <1>7, <1>8, <1>9 DEF Next, Search

(* suba is an allocator: every block it grants lies inside the chunk, is   *)
(* long enough, overlaps no other, and is neither moved nor resized until  *)
(* it is freed (suba.c:109-257), also when the reclaim callback frees      *)
(* blocks in the middle of an allocation.                                  *)
THEOREM SubaImplementsHeap == ASSUME NoWrap PROVE Spec => HeapSpec
<1>1. IInv /\ Asked /\ [Next]_vars => [H!Next]_(H!vars)
  BY NoWrap, HeapNext
<1> QED
  BY <1>1, AlwaysIInv, HeapInit, AskedInit, AskedNext, PTL DEF Spec, HeapSpec, H!Spec

-----------------------------------------------------------------------------
(* The totals.  A step that changes neither the total nor the blocks that   *)
(* are occupied, nor the size of one of them, keeps them right.             *)
LEMMA SpansType ==
  ASSUME IInv
  PROVE  /\ IsFiniteSet(Occupied) /\ Occupied \subseteq Refs
         /\ \A c \in Refs : Spans[c] = 16 + size[c] /\ Spans[c] \in Int
<1>1. Refs \subseteq Hdr .. End /\ IsFiniteSet(Hdr .. End)
  BY FS_Interval DEF Refs
<1>2. Occupied \subseteq Refs
  BY DEF Occupied, IInv, TypeOK, Places
<1>3. IsFiniteSet(Occupied)
  BY <1>1, <1>2, FS_Subset
<1>4. \A c \in Refs : Spans[c] = 16 + size[c]
  BY DEF Spans
<1> QED
  BY <1>2, <1>3, <1>4 DEF IInv, TypeOK

LEMMA TotalsSame ==
  ASSUME IInv, TotalsRight, inUse' = inUse, Occupied' = Occupied,
         \A c \in Occupied : size'[c] = size[c]
  PROVE  TotalsRight'
<1>1. IsFiniteSet(Occupied) /\ Occupied \subseteq Refs
  BY SpansType
<1>2. \A c \in Occupied : Spans[c] = Spans'[c]
  BY <1>1 DEF Spans
<1>3. SumFunctionOnSet(Spans, Occupied) = SumFunctionOnSet(Spans', Occupied)
  <2> HIDE DEF Spans
  <2> QED
    BY <1>1, <1>2, SumSame
<1> QED
  BY <1>3 DEF TotalsRight

(* A block is granted.                                                      *)
LEMMA TotalsGrant ==
  ASSUME IInv, IInv', TotalsRight, fpc = "idle", fpc' = "idle",
         NEW c \in Refs \ used, used' = used \cup {c},
         inUse' = inUse + Poff + size'[c],
         \A d \in used : size'[d] = size[d]
  PROVE  TotalsRight'
<1>1. Occupied = used /\ Occupied' = used \cup {c}
  BY DEF Occupied
<1>2. IsFiniteSet(used) /\ used \subseteq Refs
  BY <1>1, SpansType
<1>3. \A d \in Refs : Spans'[d] = 16 + size'[d] /\ Spans'[d] \in Int
  BY DEF Spans, IInv, TypeOK
<1>4. \A d \in used : Spans[d] = Spans'[d]
  BY <1>2, <1>3, SpansType
<1>5. SumFunctionOnSet(Spans, used) = SumFunctionOnSet(Spans', used)
  <2> HIDE DEF Spans
  <2> QED
    BY <1>2, <1>4, SumSame
<1>6. SumFunctionOnSet(Spans', used \cup {c}) = Spans'[c] + SumFunctionOnSet(Spans', used)
  <2> HIDE DEF Spans
  <2> QED
    BY <1>2, <1>3, SumAdd
<1>7. inUse = SumFunctionOnSet(Spans', used) /\ inUse \in Int
  BY <1>1, <1>5 DEF TotalsRight, IInv, TypeOK
<1>8. inUse' = SumFunctionOnSet(Spans', used \cup {c})
  BY <1>3, <1>6, <1>7 DEF IInv, TypeOK
<1> QED
  BY <1>1, <1>8 DEF TotalsRight

(* The cell that suba_free has looked at counts no longer.                  *)
LEMMA TotalsReturned == ASSUME IInv, IInv', TotalsRight, FreeStart PROVE TotalsRight'
<1>1. fpc = "start" /\ fault' = FALSE /\ fcell \in Refs /\ fcell \notin used /\ used' = used
  BY DEF FreeStart, IInv, NeverFaults, Places
<1>2. inUse' = inUse - (16 + size[fcell])
  BY <1>1 DEF FreeStart
<1>3. fpc' # "start"
  BY DEF FreeStart, EndFree
<1>4. Occupied = used \cup {fcell} /\ Occupied' = used
  BY <1>1, <1>3 DEF Occupied
<1>5. IsFiniteSet(used) /\ used \subseteq Refs
  BY <1>4, SpansType, FS_Subset
<1>6. \A c \in used : size'[c] = size[c]
  BY DEF FreeStart, Behind, heap, IInv, TypeOK, Places, Layout, Circular
<1>7. Spans[fcell] = 16 + size[fcell] /\ \A c \in Refs : Spans[c] \in Int
  BY <1>1, SpansType
<1>8. \A c \in used : Spans[c] = Spans'[c]
  BY <1>5, <1>6 DEF Spans
<1>9. SumFunctionOnSet(Spans, used \cup {fcell}) = Spans[fcell] + SumFunctionOnSet(Spans, used)
  BY <1>1, <1>5, <1>7, SumAdd
<1>10. SumFunctionOnSet(Spans, used) = SumFunctionOnSet(Spans', used)
  <2> HIDE DEF Spans
  <2> QED
    BY <1>5, <1>8, SumSame
<1>11. SumFunctionOnSet(Spans, used) \in Int
  BY <1>5, <1>7, SumInt
<1>12. inUse' = SumFunctionOnSet(Spans', used)
  <2>1. inUse = Spans[fcell] + SumFunctionOnSet(Spans, used)
    BY <1>4, <1>9 DEF TotalsRight
  <2>2. inUse' = inUse - Spans[fcell] /\ Spans[fcell] \in Int
    BY <1>1, <1>2, <1>7
  <2> QED
    BY <1>10, <1>11, <2>1, <2>2
<1> QED
  BY <1>4, <1>12 DEF TotalsRight

LEMMA TotalsNext == ASSUME IInv, IInv', TotalsRight, [Next]_vars PROVE TotalsRight'
<1>1. CASE Split
  <2>1. A2 \in free /\ A2 \in Refs /\ fpc = "idle" /\ fpc' = "idle"
    BY <1>1, A2Free DEF Split, Granted, frees, IInv, Places
  <2>2. used' = used \cup {A2} /\ inUse' = inUse + Poff + size'[A2] /\ A2 \notin used
    BY <1>1, <2>1 DEF Split, Granted, IInv, Places
  <2>3. After(A2) \in free'
    BY <1>1 DEF Split
  <2>4. \A c \in used : c # A2 /\ c # After(A2)
    BY <2>1, <2>2, <2>3 DEF IInv, Places
  <2>5. \A c \in used : size'[c] = size[c]
    BY <1>1, <2>4 DEF Split, IInv, TypeOK
  <2> QED
    BY <2>1, <2>2, <2>5, TotalsGrant
<1>2. CASE UseWhole
  <2>1. A2 \in free /\ A2 \in Refs /\ fpc = "idle" /\ fpc' = "idle" /\ size' = size
    BY <1>2, A2Free DEF UseWhole, Granted, frees, IInv, Places
  <2>2. used' = used \cup {A2} /\ inUse' = inUse + Poff + size'[A2] /\ A2 \notin used
    BY <1>2, <2>1 DEF UseWhole, Granted, IInv, Places
  <2> QED
    BY <2>1, <2>2, TotalsGrant
<1>3. CASE FreeStart
  BY <1>3, TotalsReturned
<1>4. CASE Splicing /\ (JoinBoth \/ JoinLeft \/ JoinRight \/ JoinNone)
  <2>1. Occupied' = Occupied /\ Occupied = used /\ inUse' = inUse
    BY <1>4 DEF Splicing, EndFree, Occupied
  <2>2. \A c \in used : size'[c] = size[c]
    <3>1. fcell \notin used /\ f1 \in free /\ free \cap used = {}
      BY <1>4 DEF Splicing, IInv, Places
    <3> QED
      BY <1>4, <3>1 DEF JoinBoth, JoinLeft, JoinRight, JoinNone, IInv, TypeOK
  <2> QED
    BY <2>1, <2>2, TotalsSame
<1>5. CASE FreeScan
  <2>1. inUse' = inUse /\ size' = size /\ Occupied' = Occupied
    BY <1>5 DEF FreeScan, EndFree, heap, Occupied
  <2> QED
    BY <2>1, TotalsSame
<1>6. ASSUME NEW c \in Refs, CallFree(c) \/ ReallocFree(c) PROVE TotalsRight'
  <2>1. inUse' = inUse /\ size' = size /\ Occupied' = Occupied
    BY <1>6 DEF CallFree, ReallocFree, StartFree, heap, Occupied
  <2> QED
    BY <2>1, TotalsSame
<1>7. CASE ReallocDone
  <2>1. old \in used /\ fpc = "idle"
    BY <1>7 DEF ReallocDone, IInv, Places
  <2>2. inUse' = inUse /\ size' = size /\ Occupied' = Occupied
    BY <1>7, <2>1 DEF ReallocDone, StartFree, heap, Occupied
  <2> QED
    BY <2>2, TotalsSame
<1>8. CASE Again \/ ScanOn \/ ScanFails \/ SpareLast \/ ReclaimReturns
  <2>1. inUse' = inUse /\ size' = size /\ Occupied' = Occupied
    BY <1>8 DEF Again, ScanOn, ScanFails, SpareLast, ReclaimReturns, heap, frees, Occupied
  <2> QED
    BY <2>1, TotalsSame
<1>9. ASSUME NEW n \in Requests, CallAlloc(n) \/ \E c \in Refs : ReallocMove(c, n)
      PROVE  TotalsRight'
  <2>1. inUse' = inUse /\ size' = size /\ Occupied' = Occupied
    BY <1>9 DEF CallAlloc, ReallocMove, StartAlloc, heap, frees, Occupied
  <2> QED
    BY <2>1, TotalsSame
<1>10. CASE UNCHANGED vars
  <2>1. inUse' = inUse /\ size' = size /\ Occupied' = Occupied
    BY <1>10 DEF vars, Occupied
  <2> QED
    BY <2>1, TotalsSame
<1> QED
  BY <1>1, <1>2, <1>3, <1>4, <1>5, <1>6, <1>7, <1>8, <1>9, <1>10
  DEF Next, Search, Splice, JoinBoth, JoinLeft, JoinRight, JoinNone

(* alloc_total less free_total is what the blocks that the client holds     *)
(* occupy, headers included, whatever was split and joined meanwhile: it is *)
(* counted from the sizes of the cells, and these stay (suba.c:171, 204).   *)
THEOREM TotalsAreRight == Spec => []TotalsRight
<1>1. Init => TotalsRight
  BY SumEmpty DEF Init, TotalsRight, Occupied
<1>2. IInv /\ IInv' /\ TotalsRight /\ [Next]_vars => TotalsRight'
  BY TotalsNext
<1> QED
  BY <1>1, <1>2, AlwaysIInv, PTL DEF Spec

(* Both walks over the ring go on to higher and higher cells until they     *)
(* stop, so none goes round for ever (suba.c:132-148, 222-228).             *)
THEOREM NoWalkGoesRound == Spec => WalksEnd
<1>1. ASSUME IInv, [Next]_vars, apc = "scan", apc' = "scan", a1' # a1
      PROVE  a1' # tail /\ (a1 = tail \/ a1 < a1')
  <2>1. ScanOn
    <3>1. fpc = "idle"
      BY <1>1 DEF IInv, Places
    <3>2. ~Splice
      BY <3>1 DEF Splice, FreeStart, FreeScan, JoinBoth, JoinLeft, JoinRight, JoinNone, Splicing
    <3>3. ~Again /\ ~ScanFails /\ ~SpareLast /\ ~ReclaimReturns /\ ~ReallocDone
      BY <1>1 DEF Again, ScanFails, SpareLast, ReclaimReturns, ReallocDone
    <3>4. ~Split /\ ~UseWhole
      BY <1>1 DEF Split, UseWhole, Granted
    <3> QED
      BY <1>1, <3>2, <3>3, <3>4
      DEF Next, Search, CallAlloc, CallFree, ReallocFree, ReallocMove, alloc, vars
  <2>2. a1' = next[a1] /\ a1' # tail /\ a1 \in free
    BY <1>1, <2>1 DEF ScanOn, A2, IInv, Places
  <2> QED
    BY <1>1, <2>2 DEF IInv, Layout, Circular
<1>2. ASSUME IInv, [Next]_vars, fpc = "scan", fpc' = "scan", f1' # f1
      PROVE  f1' # tail /\ (f1 = tail \/ f1 < f1')
  <2>1. FreeScan
    <3>1. apc \notin {"again", "scan", "copy"}
      BY <1>2 DEF IInv, Places
    <3>2. ~FreeStart /\ ~JoinBoth /\ ~JoinLeft /\ ~JoinRight /\ ~JoinNone
      BY <1>2 DEF FreeStart, JoinBoth, JoinLeft, JoinRight, JoinNone, Splicing, EndFree
    <3> QED
      BY <1>2, <3>1, <3>2
      DEF Next, Search, Splice, Again, ScanOn, ScanFails, SpareLast, Split, UseWhole,
          ReclaimReturns, ReallocDone, CallAlloc, CallFree, ReallocFree, ReallocMove, frees, vars
  <2>2. f1' = next[f1] /\ next[f1] < fcell /\ f1 \in free /\ fcell < tail
    BY <1>2, <2>1 DEF FreeScan, EndFree, IInv, Places
  <2>3. next[f1] \in Nat /\ fcell \in Nat /\ tail \in Nat
    BY <1>2 DEF IInv, TypeOK, Places, Layout, Circular, Refs
  <2> QED
    BY <1>2, <2>2, <2>3 DEF IInv, Layout, Circular
<1>3. IInv /\ [Next]_vars =>
        [/\ apc = "scan" /\ apc' = "scan" /\ a1' # a1 => a1' # tail /\ (a1 = tail \/ a1 < a1')
         /\ fpc = "scan" /\ fpc' = "scan" /\ f1' # f1 => f1' # tail /\ (f1 = tail \/ f1 < f1')]_vars
  BY <1>1, <1>2
<1> QED
  BY <1>3, AlwaysIInv, PTL DEF WalksEnd, Spec
=============================================================================
