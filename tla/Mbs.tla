-------------------------------- MODULE Mbs ---------------------------------
(***************************************************************************)
(* Strings of multibyte characters (domc's src/mbs.c).  A string is a      *)
(* sequence of characters; what the functions look at is the width of each *)
(* on a screen: 0 when it combines with the one before, 2 when it is wide, *)
(* -1 when it cannot be printed.  The bytes of a character are one unit.   *)
(* A place in a string s is an index of it; Len(s) + 1 is its terminator.  *)
(***************************************************************************)
EXTENDS Integers, Sequences, FiniteSets, FiniteSetsExt

LOCAL INSTANCE SequencesExt

CONSTANT Width   \* of each character

Columns(c) == IF Width[c] = -1 THEN 1 ELSE Width[c]

(* How many columns the first n characters take.                            *)
ColumnsOf(s, n) == FoldLeft(LAMBDA sum, c : sum + Columns(c), 0, SubSeq(s, 1, n))

(* How many characters fit in cn columns; a negative cn is no limit.        *)
Fitting(s, cn) == IF cn < 0 THEN Len(s)
                  ELSE Max({n \in 0 .. Len(s) : ColumnsOf(s, n) <= cn})

mbsnlen(s, cn)  == ColumnsOf(s, Fitting(s, cn))
mbslen(s)       == mbsnlen(s, -1)
mbsnsize(s, cn) == Fitting(s, cn)
mbsndup(s, cn)  == SubSeq(s, 1, Fitting(s, cn))
mbssub(s, wn)   == IF wn = 0 THEN 1 ELSE Fitting(s, wn) + 1

(* The loop of mbsnoff counts every character that does not combine as one, *)
(* the terminator too, and stops before the one that is too many: with too  *)
(* large an offset it runs past the end, which is Beyond here.              *)
Starts(s, n) == Cardinality({i \in 1 .. n : i = Len(s) + 1 \/ Width[s[i]] # 0})
Beyond(s)    == Len(s) + 2
mbsoff(s, off) ==
  IF off = 0 THEN 1
  ELSE LET far == {n \in 1 .. Len(s) + 1 : Starts(s, n) > off}
       IN  IF far = {} THEN Beyond(s) ELSE Min(far)

(* mbswidth stops at what does not fit before it refuses what cannot be     *)
(* printed.                                                                 *)
mbswidth(s, wn) ==
  LET bad == {i \in 1 .. Len(s) : Width[s[i]] = -1}
      n   == IF bad = {} THEN Len(s) ELSE Min(bad) - 1
      fit == Fitting(SubSeq(s, 1, n), wn)
  IN  IF bad # {} /\ fit = n THEN -1 ELSE ColumnsOf(s, fit)
=============================================================================
