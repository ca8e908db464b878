-------------------------------- MODULE Diff --------------------------------
(***************************************************************************)
(* The shortest edit script (libmba's src/diff.c, after Myers): the search *)
(* for the middle of a shortest path from both ends, the recursion on the  *)
(* two halves, and the script that is put together from its edits.         *)
(*                                                                         *)
(* A definition X_slip is a mistake that X could contain; no behaviour of  *)
(* the model uses it.                                                      *)
(***************************************************************************)
EXTENDS Integers, SequencesExt, FiniteSetsExt

RECURSIVE ses(_, _, _, _, _, _)

(* The two vectors are kept in one array that is not cleared: an entry that *)
(* was not set has any value, here one that no comparison can hide.         *)
Unset == -1000
At(v, k) == IF k \in DOMAIN v THEN v[k] ELSE Unset
Set(v, k, x) == [j \in DOMAIN v \cup {k} |-> IF j = k THEN x ELSE v[j]]

(* How far the two sequences are equal from x and y on, and back from them. *)
Ahead(a, b, x, y) ==
  LET most == Min({Len(a) - x, Len(b) - y})
  IN  IF x > Len(a) \/ y > Len(b) \/ y < 0 THEN 0
      ELSE Max({i \in 0 .. most : \A j \in 1 .. i : a[x + j] = b[y + j]})
Behind(a, b, x, y) ==
  LET most == Min({x, y})
  IN  IF x < 0 \/ y < 0 \/ x > Len(a) \/ y > Len(b) THEN 0
      ELSE Max({i \in 0 .. most : \A j \in 0 .. i - 1 : a[x - j] = b[y - j]})

(* One step of the search: the furthest path of d edits on the diagonal k,  *)
(* forward or, with r, backward.                                            *)
Forward_slip(s, d, k) ==
  IF k = -d \/ (k # d /\ At(s.f, k - 1) > At(s.f, k + 1)) THEN At(s.f, k + 1)
  ELSE At(s.f, k - 1) + 1

Forward(s, d, k) ==
  IF k = -d \/ (k # d /\ At(s.f, k - 1) < At(s.f, k + 1)) THEN At(s.f, k + 1)
  ELSE At(s.f, k - 1) + 1

Backward(s, d, k, kr) ==
  IF k = d \/ (k # -d /\ At(s.r, kr - 1) < At(s.r, kr + 1)) THEN At(s.r, kr - 1)
  ELSE At(s.r, kr + 1) - 1

Snake(x, y, u, v, d) == [x |-> x, y |-> y, u |-> u, v |-> v, d |-> d]

ForwardStep(a, b, s, d, k) ==
  LET delta == Len(a) - Len(b)
      x     == Forward(s, d, k)
      u     == x + Ahead(a, b, x, x - k)
  IN  IF s.found # <<>> THEN s
      ELSE IF /\ delta % 2 = 1 /\ k \in delta - (d - 1) .. delta + (d - 1)
              /\ u >= At(s.r, k)
           THEN [s EXCEPT !.found = <<Snake(x, x - k, u, u - k, 2 * d - 1)>>]
           ELSE [s EXCEPT !.f = Set(@, k, u)]

ReverseStep(a, b, s, d, k) ==
  LET delta == Len(a) - Len(b)
      kr    == delta + k
      u     == Backward(s, d, k, kr)
      x     == u - Behind(a, b, u, u - kr)
  IN  IF s.found # <<>> THEN s
      ELSE IF delta % 2 = 0 /\ kr \in -d .. d /\ x <= At(s.f, kr)
           THEN [s EXCEPT !.found = <<Snake(x, x - kr, u, u - kr, 2 * d)>>]
           ELSE [s EXCEPT !.r = Set(@, kr, x)]

(* k = d, d - 2, ... -d                                                     *)
Diagonals(d) == [i \in 1 .. d + 1 |-> d - 2 * (i - 1)]

find_middle_snake(a, b, dmax) ==
  LET delta == Len(a) - Len(b)
      mid   == (Len(a) + Len(b)) \div 2 + (delta % 2)
      round(s, d) ==
        IF s.found # <<>> THEN s
        ELSE IF 2 * d - 1 >= dmax THEN [s EXCEPT !.found = <<Snake(0, 0, 0, 0, dmax)>>]
        ELSE FoldLeft(LAMBDA r, k : ReverseStep(a, b, r, d, k),
                      FoldLeft(LAMBDA r, k : ForwardStep(a, b, r, d, k), s, Diagonals(d)),
                      Diagonals(d))
      s == FoldLeft(round, [f |-> Set(<<>>, 1, 0), r |-> Set(<<>>, delta - 1, Len(a)),
                            found |-> <<>>],
                    [i \in 1 .. mid + 1 |-> i - 1])
  IN  IF s.found = <<>> THEN Snake(0, 0, 0, 0, -1) ELSE s.found[1]

(* _edit: an edit is added to the script, or joined to its last one.        *)
edit(es, op, off, len) ==
  IF len = 0 THEN es
  ELSE IF es # <<>> /\ Last(es).op = op
       THEN [es EXCEPT ![Len(es)].len = @ + len]
       ELSE Append(es, [op |-> op, off |-> off, len |-> len])

(* When the distance is 1 the one edit is at an end.                        *)
OneEdit(es, a, aoff, b, boff, ms) ==
  LET n == Len(a)
      m == Len(b)
  IN  IF m > n
      THEN IF ms.x = ms.u
           THEN edit(edit(es, "MATCH", aoff, n), "INSERT", boff + m - 1, 1)
           ELSE edit(edit(es, "INSERT", boff, 1), "MATCH", aoff, n)
      ELSE IF ms.x = ms.u
           THEN edit(edit(es, "MATCH", aoff, m), "DELETE", aoff + n - 1, 1)
           ELSE edit(edit(es, "DELETE", aoff, 1), "MATCH", aoff + 1, m)

(* _ses: the script so far, and the distance.                               *)
ses(es, a, aoff, b, boff, dmax) ==
  LET n  == Len(a)
      m  == Len(b)
      ms == find_middle_snake(a, b, dmax)
      first == ses(es, SubSeq(a, 1, ms.x), aoff, SubSeq(b, 1, ms.y), boff, dmax)
      rest  == ses(edit(first.es, "MATCH", aoff + ms.x, ms.u - ms.x),
                   SubSeq(a, ms.u + 1, n), aoff + ms.u,
                   SubSeq(b, ms.v + 1, m), boff + ms.v, dmax)
  IN  IF n = 0 THEN [es |-> edit(es, "INSERT", boff, m), d |-> m]
      ELSE IF m = 0 THEN [es |-> edit(es, "DELETE", aoff, n), d |-> n]
      ELSE IF ms.d = -1 THEN [es |-> es, d |-> -1]
      ELSE IF ms.d >= dmax THEN [es |-> es, d |-> dmax]
      ELSE IF ms.d > 1 THEN [es |-> rest.es, d |-> ms.d]
      ELSE [es |-> OneEdit(es, a, aoff, b, boff, ms), d |-> ms.d]

(* What the sequences have in common at their beginning comes first.        *)
diff(a, b, dmax) ==
  LET x == Ahead(a, b, 0, 0)
  IN  ses(edit(<<>>, "MATCH", 0, x), SubSeq(a, x + 1, Len(a)), x,
          SubSeq(b, x + 1, Len(b)), x, dmax)

-----------------------------------------------------------------------------
(* The result of a script on a, taking from b what it inserts; and what the *)
(* script takes, which must be a, piece by piece.                           *)
Applied(es, a, b) ==
  FlattenSeq([i \in DOMAIN es |->
    CASE es[i].op = "MATCH"  -> SubSeq(a, es[i].off + 1, es[i].off + es[i].len)
      [] es[i].op = "INSERT" -> SubSeq(b, es[i].off + 1, es[i].off + es[i].len)
      [] OTHER               -> <<>>])
Taken(es, a) ==
  FlattenSeq([i \in DOMAIN es |->
    IF es[i].op = "INSERT" THEN <<>>
    ELSE [j \in 1 .. es[i].len |-> es[i].off + j]])

(* The edit distance, from its definition.                                  *)
Distance(a, b) ==
  LET dist[i \in 0 .. Len(a), j \in 0 .. Len(b)] ==
        IF i = 0 THEN j ELSE IF j = 0 THEN i
        ELSE IF a[i] = b[j] THEN dist[i - 1, j - 1]
        ELSE 1 + Min({dist[i - 1, j], dist[i, j - 1]})
  IN  dist[Len(a), Len(b)]

Edits(es) == FoldLeft(LAMBDA r, e : IF e.op = "MATCH" THEN r ELSE r + e.len, 0, es)

(* When the distance reaches dmax, diff answers dmax, without a script,     *)
(* unless one sequence begins with the other: then no search is made.       *)
(* Otherwise it answers the edit distance and a script of that many edits   *)
(* which makes b of a, going through a from its beginning to its end.       *)
DiffRight(a, b, dmax, r) ==
  IF Distance(a, b) >= dmax /\ ~IsPrefix(a, b) /\ ~IsPrefix(b, a)
  THEN r.d = dmax
  ELSE /\ r.d = Distance(a, b) /\ Edits(r.es) = r.d
       /\ Applied(r.es, a, b) = b
       /\ Taken(r.es, a) = [i \in DOMAIN a |-> i]

(* Documented (docs/ref/diff.html): diff answers dmax whenever the distance *)
(* meets or exceeds it.  It answers the longer one's rest when one sequence *)
(* begins with the other.                                                   *)
LimitAnswered(a, b, dmax, r) == r.d = Min({Distance(a, b), dmax})
=============================================================================
