-------------------------------- MODULE Suba --------------------------------
(***************************************************************************)
(* libmba's suba (src/suba.c): an allocator inside one chunk of memory.    *)
(* The memory is a row of cells, each a header and its data.  The free     *)
(* cells are a circular list in address order; tail is the one with the    *)
(* highest address, and its successor the one with the lowest.             *)
(*                                                                         *)
(* suba has no locks: its callers serialise their calls.  One step is one  *)
(* turn of a loop or one splice.  An allocation that finds no cell calls   *)
(* the reclaim callback, which may free blocks before the search starts    *)
(* again; so a suba_free can run in the middle of a suba_alloc.            *)
(*                                                                         *)
(* A definition X_slip is a mistake that X could contain; no behaviour of  *)
(* the model uses it.                                                      *)
(***************************************************************************)
EXTENDS Integers, FiniteSetsExt

CONSTANTS Hdr,       \* ALIGN(sizeof(struct allocator))
          End,       \* size of the chunk, suba->size
          MinCell,   \* suba->mincell
          Requests,  \* sizes the client asks for
          WordMod    \* size_t arithmetic is modulo WordMod

Poff == 16           \* POFF: header bytes in front of the data of a cell

ASSUME SubaAssumption == /\ Hdr \in Nat /\ Hdr % 8 = 0 /\ Hdr >= Poff
                         /\ MinCell \in Nat /\ MinCell % 8 = 0 /\ MinCell > 0
                         /\ End \in Nat /\ End > Hdr + Poff
                         /\ WordMod \in Nat /\ WordMod % 8 = 0 /\ WordMod > 2 * End
                         /\ Requests \subseteq 0 .. WordMod - 1

(* Where a cell can start; a ref_t is an offset from the start of the chunk. *)
Refs == {r \in Hdr .. End : r % 8 = 0}

VARIABLES
  tail,    \* suba->tail
  size,    \* cell.size, by the cell's address
  next,    \* cell.next, by the cell's address
  inUse,   \* suba->alloc_total - suba->free_total
  used,    \* the blocks the client holds, by their cell
  free,    \* auxiliary, read by no action: the cells on the free list
  apc,     \* where suba_alloc is, for itself or for suba_realloc
  ask,     \* size as the caller gave it
  want,    \* size after rounding
  a1,      \* c1 in suba_alloc
  old,     \* the block suba_realloc is moving, or 0
  freed,   \* the reclaim callback has freed something
  fpc,     \* where suba_free is
  fcell,   \* c2 in suba_free
  f1,      \* c1 in suba_free
  fault    \* an EFAULT or EINVAL return was taken

heap  == <<tail, size, next>>
alloc == <<apc, ask, want, a1, old, freed>>
frees == <<fpc, fcell, f1>>
vars  == <<tail, size, next, inUse, used, free, apc, ask, want, a1, old, freed,
           fpc, fcell, f1, fault>>

-----------------------------------------------------------------------------
Word(n)  == n % WordMod
Align(n) == (Word(n + 7) \div 8) * 8

(* The first line of suba_alloc. *)
Round(n) == IF n < MinCell THEN MinCell ELSE Align(n)

(* The byte after a cell, and ISADJ. *)
Stop(c)        == c + Poff + size[c]
Adjacent(c, d) == Stop(c) = d

(* suba_addr does not return NULL. *)
Valid(r) == 0 < r /\ r <= End

Init == /\ tail = Hdr
        /\ size = [r \in Refs |-> IF r = Hdr THEN End - (Hdr + Poff) ELSE 0]
        /\ next = [r \in Refs |-> IF r = Hdr THEN Hdr ELSE 0]
        /\ inUse = 0
        /\ used = {} /\ free = {Hdr}
        /\ apc = "idle" /\ ask = 0 /\ want = 0 /\ a1 = 0 /\ old = 0
        /\ freed = FALSE
        /\ fpc = "idle" /\ fcell = 0 /\ f1 = 0
        /\ fault = FALSE

-----------------------------------------------------------------------------
(* suba_alloc *)
StartAlloc(n) == /\ apc' = "again"
                 /\ ask' = n
                 /\ want' = Round(n)
                 /\ UNCHANGED <<a1, freed>>

CallAlloc(n) == /\ apc = "idle" /\ fpc = "idle"
                /\ StartAlloc(n)
                /\ UNCHANGED <<heap, inUse, used, free, old, frees, fault>>

Again_slip == /\ apc = "again"   \* the first cell is skipped
              /\ apc' = "scan"
              /\ a1' = next[tail]
              /\ UNCHANGED <<heap, inUse, used, free, ask, want, old, freed, frees, fault>>

(* again: c2 = SADR(suba, suba->tail); the loop begins with c1 = c2. *)
Again == /\ apc = "again"
         /\ apc' = "scan"
         /\ a1' = tail
         /\ UNCHANGED <<heap, inUse, used, free, ask, want, old, freed, frees, fault>>

EndAlloc == ask' = 0 /\ want' = 0 /\ a1' = 0   \* the locals go

A2 == next[a1]       \* c2 in suba_alloc

Fits == size[A2] >= want
Roomy == size[A2] > Poff + want + MinCell

ScanOn_slip == /\ apc = "scan" /\ Valid(A2)   \* goes past tail
               /\ ~Fits
               /\ a1' = A2
               /\ UNCHANGED <<heap, inUse, used, free, apc, ask, want, old, freed, frees, fault>>

ScanOn == /\ apc = "scan" /\ Valid(A2)
          /\ ~Fits /\ A2 # tail
          /\ a1' = A2
          /\ UNCHANGED <<heap, inUse, used, free, apc, ask, want, old, freed, frees, fault>>

(* Once round the list: reclaim++; goto again.  A bad ref ends the call. *)
ScanFails == /\ apc = "scan"
             /\ Valid(A2) => ~Fits /\ A2 = tail
             /\ apc' = IF Valid(A2) THEN "reclaim" ELSE "idle"
             /\ fault' = ~Valid(A2)
             /\ freed' = FALSE
             /\ IF Valid(A2) THEN a1' = 0 /\ UNCHANGED <<ask, want, old>>
                ELSE EndAlloc /\ old' = 0
             /\ UNCHANGED <<heap, inUse, used, free, frees>>

(* "never use the last cell!" *)
SpareLast == /\ apc = "scan" /\ Valid(A2)
             /\ Fits /\ ~Roomy /\ A2 = tail
             /\ apc' = "reclaim"
             /\ freed' = FALSE
             /\ a1' = 0
             /\ UNCHANGED <<heap, inUse, used, free, ask, want, old, frees, fault>>

Granted_slip(c, nxt) == /\ next' = [nxt EXCEPT ![c] = 0]   \* counts want
                        /\ used' = used \cup {c}
                        /\ inUse' = inUse + Poff + want
                        /\ apc' = IF old = 0 THEN "idle" ELSE "copy"
                        /\ EndAlloc
                        /\ UNCHANGED <<old, freed, frees, fault>>

(* The cell is the caller's; its data overlies cell.next. *)
Granted(c, nxt) == /\ next' = [nxt EXCEPT ![c] = 0]
                   /\ used' = used \cup {c}
                   /\ inUse' = inUse + Poff + size'[c]
                   /\ apc' = IF old = 0 THEN "idle" ELSE "copy"
                   /\ EndAlloc
                   /\ UNCHANGED <<old, freed, frees, fault>>

After_slip(c2) == c2 + want   \* over the block's last bytes

(* The cell split off begins where the block's data end. *)
After(c2) == c2 + Poff + want

SplitTail_slip(c2, c3) == tail   \* tail not moved

SplitTail(c2, c3) == IF c2 = tail THEN c3 ELSE tail

Split == /\ apc = "scan" /\ Valid(A2)
         /\ Fits /\ Roomy
         /\ LET c2 == A2
                c3 == After(A2)
            IN  /\ size' = [size EXCEPT ![c3] = size[c2] - (want + Poff), ![c2] = want]
                /\ tail' = SplitTail(c2, c3)
                /\ free' = (free \ {c2}) \cup {c3}
                /\ Granted(c2, IF a1 = c2 THEN [next EXCEPT ![c3] = c3]
                               ELSE [next EXCEPT ![c3] = next[c2], ![a1] = c3])

UseWhole == /\ apc = "scan" /\ Valid(A2)
            /\ Fits /\ ~Roomy /\ A2 # tail
            /\ free' = free \ {A2}
            /\ UNCHANGED <<tail, size>>
            /\ Granted(A2, [next EXCEPT ![a1] = next[A2]])

(* The callback returns: a positive value, and the search starts again, if *)
(* it made progress; otherwise suba_alloc fails with ENOMEM.  A suba       *)
(* without a callback fails at once.                                       *)
ReclaimReturns == /\ apc = "reclaim" /\ fpc = "idle"
                  /\ freed' = FALSE
                  /\ IF freed THEN apc' = "again" /\ UNCHANGED <<ask, want, a1, old>>
                     ELSE apc' = "idle" /\ old' = 0 /\ EndAlloc
                  /\ UNCHANGED <<heap, inUse, used, free, frees, fault>>

-----------------------------------------------------------------------------
(* suba_free, called by the client or by its reclaim callback. *)
StartFree(c) == /\ fpc' = "start"
                /\ fcell' = c
                /\ used' = used \ {c}
                /\ UNCHANGED <<heap, inUse, free, f1, fault>>

CallFree(c) == /\ apc \in {"idle", "reclaim"} /\ fpc = "idle"
               /\ c \in used /\ c # old
               /\ StartFree(c)
               /\ freed' = (apc = "reclaim")
               /\ UNCHANGED <<apc, ask, want, a1, old>>

EndFree == fpc' = "idle" /\ fcell' = 0 /\ f1' = 0

(* A cell behind tail becomes the new tail, or part of it. *)
Behind == LET c1 == tail
              c2 == fcell
          IN  IF Adjacent(c1, c2)
              THEN /\ size' = [size EXCEPT ![c1] = @ + Poff + size[c2]]
                   /\ UNCHANGED <<tail, next, free>>
              ELSE /\ next' = [next EXCEPT ![c2] = next[c1], ![c1] = c2]
                   /\ tail' = c2
                   /\ free' = free \cup {c2}
                   /\ UNCHANGED size

FreeStart == /\ fpc = "start"
             /\ fault' = (size[fcell] > End)
             /\ inUse' = IF fault' THEN inUse ELSE inUse - (Poff + size[fcell])
             /\ IF ~fault' /\ fcell < tail
                THEN fpc' = "scan" /\ f1' = tail /\ UNCHANGED <<heap, free>>
                     /\ UNCHANGED fcell
                ELSE /\ EndFree
                     /\ IF fault' THEN UNCHANGED <<heap, free>> ELSE Behind
             /\ UNCHANGED <<used, alloc>>

(* The insertion point lies between f1 and its successor. *)
FreeScan == /\ fpc = "scan"
            /\ next[f1] < fcell
            /\ IF next[f1] < Poff
               THEN EndFree /\ fault' = TRUE
               ELSE f1' = next[f1] /\ UNCHANGED <<fpc, fcell, fault>>
            /\ UNCHANGED <<heap, inUse, used, free, alloc>>

F3 == next[f1]       \* c3 in suba_free

Splicing == /\ fpc = "scan"
            /\ ~(next[f1] < fcell)
            /\ EndFree
            /\ UNCHANGED <<inUse, used, alloc, fault>>

(* Splice all three cells together. *)
JoinBoth == /\ Splicing
            /\ Adjacent(f1, fcell) /\ Adjacent(fcell, F3)
            /\ tail' = IF F3 = tail THEN f1 ELSE tail
            /\ next' = [next EXCEPT ![f1] = next[F3]]
            /\ size' = [size EXCEPT ![f1] = @ + Poff + size[F3] + Poff + size[fcell]]
            /\ free' = free \ {F3}

JoinLeft_slip == /\ Splicing   \* the header is lost
                 /\ Adjacent(f1, fcell) /\ ~Adjacent(fcell, F3)
                 /\ size' = [size EXCEPT ![f1] = @ + size[fcell]]
                 /\ UNCHANGED <<tail, next, free>>

JoinLeft == /\ Splicing
            /\ Adjacent(f1, fcell) /\ ~Adjacent(fcell, F3)
            /\ size' = [size EXCEPT ![f1] = @ + Poff + size[fcell]]
            /\ UNCHANGED <<tail, next, free>>

JoinRight == /\ Splicing
             /\ ~Adjacent(f1, fcell) /\ Adjacent(fcell, F3)
             /\ tail' = IF F3 = tail THEN fcell ELSE tail
             /\ next' = [next EXCEPT ![fcell] = IF next[F3] = F3 THEN fcell ELSE next[F3],
                                     ![f1] = fcell]
             /\ size' = [size EXCEPT ![fcell] = @ + Poff + size[F3]]
             /\ free' = (free \ {F3}) \cup {fcell}

JoinNone == /\ Splicing
            /\ ~Adjacent(f1, fcell) /\ ~Adjacent(fcell, F3)
            /\ next' = [next EXCEPT ![fcell] = next[f1], ![f1] = fcell]
            /\ free' = free \cup {fcell}
            /\ UNCHANGED <<tail, size>>

-----------------------------------------------------------------------------
(* suba_realloc of a block the client holds: size 0 frees it, a block that *)
(* is long enough and not much too long stays, any other is moved.         *)
ReallocFree(c) == /\ apc = "idle" /\ fpc = "idle"
                  /\ c \in used
                  /\ StartFree(c)
                  /\ UNCHANGED alloc

ReallocMove(c, n) == /\ apc = "idle" /\ fpc = "idle"
                     /\ c \in used /\ n # 0
                     /\ size[c] < n \/ Word(size[c] - Align(n)) > MinCell
                     /\ StartAlloc(n)
                     /\ old' = c
                     /\ UNCHANGED <<heap, inUse, used, free, frees, fault>>

(* memcpy, then suba_free of the old block. *)
ReallocDone == /\ apc = "copy"
               /\ apc' = "idle"
               /\ old' = 0
               /\ StartFree(old)
               /\ UNCHANGED <<ask, want, a1, freed>>

Search == Again \/ ScanOn \/ ScanFails \/ SpareLast \/ Split \/ UseWhole
          \/ ReclaimReturns \/ ReallocDone

Splice == FreeStart \/ FreeScan \/ JoinBoth \/ JoinLeft \/ JoinRight \/ JoinNone

Next == \/ Search \/ Splice
        \/ \E n \in Requests : CallAlloc(n)
        \/ \E c \in Refs : CallFree(c) \/ ReallocFree(c)
        \/ \E c \in Refs, n \in Requests : ReallocMove(c, n)

Spec == Init /\ [][Next]_vars
-----------------------------------------------------------------------------
TypeOK == /\ tail \in Refs
          /\ size \in [Refs -> Nat]
          /\ next \in [Refs -> Nat]
          /\ inUse \in Int
          /\ used \in SUBSET Refs
          /\ free \in SUBSET Refs
          /\ apc \in {"idle", "again", "scan", "reclaim", "copy"}
          /\ ask \in Nat
          /\ want \in Nat
          /\ a1 \in Refs \cup {0}
          /\ old \in Refs \cup {0}
          /\ freed \in BOOLEAN
          /\ fpc \in {"idle", "start", "scan"}
          /\ fcell \in Refs \cup {0}
          /\ f1 \in Refs \cup {0}
          /\ fault \in BOOLEAN

Cells == used \cup free \cup (IF fpc = "idle" THEN {} ELSE {fcell})

(* Blocks, free cells and the cell being freed fill the chunk from the     *)
(* header to the end without a gap or an overlap, after any history.       *)
Tiled == /\ Hdr \in Cells
         /\ \A c \in Cells : Stop(c) \in Cells \cup {End}
         /\ \A c, d \in Cells : c < d => Stop(c) <= d

(* Following next from any free cell goes to the free cell that comes next *)
(* by address, and from tail, the highest, to the lowest.                  *)
Circular == /\ tail \in free
            /\ \A c \in free :
                  /\ next[c] \in free
                  /\ IF c = tail THEN \A d \in free : next[c] <= d /\ d <= c
                     ELSE c < next[c] /\ \A d \in free : d <= c \/ next[c] <= d

(* Free cells are joined as soon as they touch, so a search that fails has *)
(* not missed a hole made of two.                                          *)
Coalesced == \A c \in free : Stop(c) \notin free

(* suba never gives its last cell away: the end of the chunk stays free,   *)
(* and no block lies behind tail.                                          *)
LastCellKept == Stop(tail) = End /\ \A c \in used : c < tail

(* No call ends with EFAULT or EINVAL because of what the list contains.   *)
NeverFaults == ~fault

(* The free list is all that and stays so in every splice and every search *)
(* that a callback interrupts.                                             *)
FreeListRight == Circular /\ Coalesced /\ LastCellKept /\ NeverFaults

(* alloc_total - free_total is what the blocks occupy.                     *)
Occupied == used \cup (IF fpc = "start" THEN {fcell} ELSE {})

Spans == [c \in Refs |-> Poff + size[c]]

TotalsRight == inUse = SumFunctionOnSet(Spans, Occupied)

(* suba_alloc gives up only when no cell would do: no hole is long enough, *)
(* and the last cell is too short to be split.                             *)
FailsOnlyWhenFull ==
  [][apc = "reclaim" /\ apc' = "idle" =>
       \A c \in free : IF c = tail THEN size[c] <= Poff + want + MinCell
                       ELSE size[c] < want]_vars

(* A block is as long as the caller asked.                                 *)
LongEnough == [][\A c \in used' \ used : size'[c] >= ask]_vars

(* The walks over the circular list end: from tail each goes on to cells   *)
(* of ever higher address and does not come to tail again, also when a     *)
(* callback changed the list before the search began anew.                 *)
WalksEnd ==
  [][/\ apc = "scan" /\ apc' = "scan" /\ a1' # a1 => a1' # tail /\ (a1 = tail \/ a1 < a1')
     /\ fpc = "scan" /\ fpc' = "scan" /\ f1' # f1 => f1' # tail /\ (f1 = tail \/ f1 < f1')]_vars

(* suba implements the abstract allocator: realloc asks for a new block    *)
(* and then releases the old one.                                          *)
H == INSTANCE Heap WITH Lo <- Hdr + Poff, Hi <- End, Sizes <- Requests,
                        blocks  <- {<<c + Poff, size[c]>> : c \in used},
                        pending <- IF apc \in {"again", "scan", "reclaim"} THEN {ask} ELSE {}

HeapSpec == H!Spec
=============================================================================
