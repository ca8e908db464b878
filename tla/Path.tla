-------------------------------- MODULE Path --------------------------------
(***************************************************************************)
(* Canonical paths (libmba's src/path.c): path_canon goes through a path   *)
(* once and writes it without its empty, "." and ".." components; it may   *)
(* take back what it wrote.                                                *)
(*                                                                         *)
(* A definition X_slip is a mistake that X could contain; no behaviour of  *)
(* the model uses it.                                                      *)
(***************************************************************************)
EXTENDS Integers, SequencesExt, FiniteSetsExt

Slash == "/"
NUL == "\\0"

Copied(s, c, state) == [s EXCEPT !.dst = Append(@, c), !.state = state]
Back(s, n) == SubSeq(s.dst, 1, Len(s.dst) - n)

(* ".." is taken back, and the component before it unless there is none.    *)
Parent_slip(dst) == dst

Parent(dst) ==
  IF Len(dst) <= 1 THEN dst
  ELSE SubSeq(dst, 1, Max({0} \cup {i \in 1 .. Len(dst) - 1 : dst[i] = Slash}))

(* One step takes one character; in the states DOT1 and DOT2 a separator,   *)
(* or the end, is looked at a second time.                                  *)
Separator(s, c) ==
  CASE c = NUL   -> [s EXCEPT !.done = TRUE]
    [] c = Slash -> [s EXCEPT !.state = "SEPARATOR"]
    [] c = "."   -> Copied(s, c, "DOT1")
    [] OTHER     -> Copied(s, c, "NORMAL")

Normal(s, c) ==
  CASE c = NUL   -> [s EXCEPT !.done = TRUE]
    [] c = Slash -> Copied(s, c, "SEPARATOR")
    [] OTHER     -> Copied(s, c, "NORMAL")

Step(s, c, room) ==
  IF s.done \/ Len(s.dst) >= room THEN [s EXCEPT !.full = ~s.done]
  ELSE CASE s.state = "START" ->
              IF c = Slash THEN Copied(s, c, "SEPARATOR") ELSE Separator(s, c)
         [] s.state = "SEPARATOR" -> Separator(s, c)
         [] s.state = "NORMAL"    -> Normal(s, c)
         [] s.state = "DOT1" ->
              IF c \in {NUL, Slash} THEN Separator([s EXCEPT !.dst = Back(s, 1)], c)
              ELSE Copied(s, c, IF c = "." THEN "DOT2" ELSE "NORMAL")
         [] s.state = "DOT2" ->
              IF c \in {NUL, Slash} THEN Separator([s EXCEPT !.dst = Parent(Back(s, 2))], c)
              ELSE Copied(s, c, "NORMAL")

(* -1, or what was written before the terminator.                           *)
path_canon(src, room) ==
  LET s == FoldLeft(LAMBDA r, c : Step(r, c, room),
                    [state |-> "START", dst |-> <<>>, done |-> FALSE, full |-> FALSE], src)
  IN  IF s.done THEN [ok |-> TRUE, dst |-> s.dst] ELSE [ok |-> FALSE, dst |-> <<>>]

(* The first character of the last component.                               *)
path_name(path) ==
  LET starts == {i \in DOMAIN path : path[i] # Slash /\ (i = 1 \/ path[i - 1] = Slash)}
  IN  IF starts = {} THEN 1 ELSE Max(starts)

-----------------------------------------------------------------------------
(* The components of a path.                                                *)
Components(src) ==
  FoldLeft(LAMBDA r, c : IF c = Slash THEN Append(r, <<>>)
                         ELSE Append(Front(r), Append(Last(r), c)),
           <<<<>>>>, src)

Dot == <<".">>
DotDot == <<".", ".">>
Resolved(src) ==
  FoldLeft(LAMBDA r, c : IF c \in {<<>>, Dot} THEN r
                         ELSE IF c # DotDot THEN Append(r, c)
                         ELSE IF r = <<>> THEN r ELSE Front(r),
           <<>>, Components(src))

Joined(cs) == FlattenSeq([i \in DOMAIN cs |-> cs[i] \o <<Slash>>])

(* What is the canonical path: resolved component by component, absolute    *)
(* when it was, and with a separator at its end unless it ends in a name.   *)
Canonical(src) ==
  LET cs   == Resolved(src)
      root == IF src # <<>> /\ Head(src) = Slash THEN <<Slash>> ELSE <<>>
      body == Joined(cs)
  IN  root \o (IF cs = <<>> \/ Last(Components(src)) \in {<<>>, Dot, DotDot} THEN body
               ELSE Front(body))

(* path_canon answers the canonical path, which it writes into no more room *)
(* than there is; where there is room for the path itself it does answer.   *)
CanonRight(src, room, r) ==
  /\ r.ok => r.dst = Canonical(src) /\ Len(r.dst) < room
  /\ room > Len(src) => r.ok
=============================================================================
