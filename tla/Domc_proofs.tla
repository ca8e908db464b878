----------------------------- MODULE Domc_proofs -----------------------------
(***************************************************************************)
(* The modules of domc, of any size.                                       *)
(*                                                                         *)
(* Each has an invariant of its own, kept by its Next; since a step of the *)
(* composition is a step of one module or leaves its variables alone, that *)
(* is an invariant of Spec.                                                *)
(***************************************************************************)
EXTENDS Domc, DataFacts, SequenceTheorems

-----------------------------------------------------------------------------
(* Events.                                                                  *)
Fns == {l.fn : l \in Listeners} \cup {NULL}

Frames == [ev : Evts, target : Targets, path : Seq(Targets), visit : Nat, j : Nat,
           copy : Seq(Fns), calling : BOOLEAN, old : SUBSET Listeners,
           kept : SUBSET Listeners, called : Seq(Listeners), stopped : Nat]

EventRecords == [type : Types \cup {NULL}, bubbles : BOOLEAN, cancelable : BOOLEAN,
                 sp : BOOLEAN, pd : BOOLEAN]

EventsTypeOK == /\ listeners \in [Targets -> Seq(Listeners \cup {NULL})]
                /\ parent \in [Targets -> Targets \cup {NULL}]
                /\ evt \in [Evts -> EventRecords]
                /\ stack \in Seq(Frames)

(* Nobody becomes his own ancestor by being taken out of the tree.          *)
WellFounded == \A S \in SUBSET Targets : S # {} => \E t \in S : parent[t] \notin S

(* A list holds nobody twice.                                               *)
Distinct(s) == \A i, k \in DOMAIN s : s[i] = s[k] => i = k \/ s[i] = NULL

(* Where a frame is.  Trigger has copied the functions, and calls somebody, *)
(* only in a visit.                                                         *)
Placed(f) == /\ f.visit \in 1 .. E!AtTarget(f) + Len(f.path) + 1
             /\ f.j <= Len(f.copy) + 1
             /\ f.j = 0 => f.kept = {} /\ f.called = <<>> /\ f.copy = <<>>
             /\ f.j # 0 => f.visit <= E!AtTarget(f) + Len(f.path)
             /\ f.calling => f.j \in 1 .. Len(f.copy) /\ f.called # <<>>

(* The slots of the visited target's list s that trigger is done with.      *)
Passed(f) == IF f.calling THEN f.j ELSE f.j - 1

(* Who was there when trigger began, and is still there, has not moved.     *)
KeptStay(f, s) == /\ Len(f.copy) <= Len(s)
                  /\ \A l \in f.kept : \E i \in 1 .. Len(f.copy) : s[i] = l /\ f.copy[i] = l.fn

(* Nobody of them was called twice, or before the turn of his slot.         *)
CalledInTurn(f, s) ==
  /\ \A a, b \in DOMAIN f.called : f.called[a] = f.called[b] /\ f.called[a] \in f.kept => a = b
  /\ \A i \in 1 .. Len(f.copy), a \in DOMAIN f.called :
       s[i] \in f.kept /\ s[i] = f.called[a] => i <= Passed(f)

(* While every call was for one type of event, which is the event's when    *)
(* there was no call yet, nobody of that type was passed over.              *)
OneType(f, e, type) == /\ \A a \in DOMAIN f.called : f.called[a].type = type
                       /\ f.called = <<>> => e.type = type

NoneMissed(f, s, e) ==
  \A type \in Types : OneType(f, e, type) =>
    \A i \in 1 .. Len(f.copy) :
      /\ i <= Passed(f) /\ s[i] \in f.kept
      /\ s[i].type = type /\ s[i].capture = (f.visit < E!AtTarget(f))
      => \E a \in DOMAIN f.called : f.called[a] = s[i]

(* A visit after the one that was stopped calls nobody.                     *)
StopKnown(f, e) == /\ f.stopped # 0 => e.sp
                   /\ f.j # 0 => f.stopped \in {0, f.visit}

FrameRight(f, s, e) == /\ Placed(f) /\ KeptStay(f, s) /\ CalledInTurn(f, s)
                       /\ NoneMissed(f, s, e) /\ StopKnown(f, e)

ListOf(ls, f) == IF f.j = 0 THEN <<>> ELSE ls[E!Visited(f)]

EventsIInv ==
  /\ EventsTypeOK /\ WellFounded
  /\ \A t \in Targets : Distinct(listeners[t])
  /\ \A n \in DOMAIN stack : /\ FrameRight(stack[n], ListOf(listeners, stack[n]), evt[stack[n].ev])
                             /\ n < Len(stack) => stack[n].calling

-----------------------------------------------------------------------------
(* Ancestors is defined by itself; that there is such a function is shown   *)
(* from pieces of it on sets that are closed under parent.                  *)
Piece(g, S) == /\ g \in [S -> Seq(Targets)] /\ S \subseteq Targets
               /\ \A t \in S : IF parent[t] = NULL THEN g[t] = <<>>
                               ELSE parent[t] \in S /\ g[t] = Append(g[parent[t]], parent[t])

LEMMA PiecesAgree ==
  ASSUME WellFounded, NEW g, NEW S, Piece(g, S), NEW h, NEW R, Piece(h, R), NEW u \in S \cap R
  PROVE  g[u] = h[u]
<1> DEFINE Bad == {t \in S \cap R : g[t] # h[t]}
<1>1. SUFFICES ASSUME Bad # {} PROVE FALSE
  OBVIOUS
<1>2. Bad \subseteq Targets
  BY DEF Piece
<1>3. PICK t \in Bad : parent[t] \notin Bad
  BY <1>1, <1>2 DEF WellFounded
<1> QED
  BY <1>3 DEF Piece

LEMMA PathsExist ==
  ASSUME EventsTypeOK, WellFounded, NULL \notin Targets
  PROVE  \E g : Piece(g, Targets)
<1> DEFINE In(t) == \E S, g : t \in S /\ Piece(g, S)
           Rest == {t \in Targets : ~In(t)}
<1>1. Rest = {}
  <2>1. SUFFICES ASSUME Rest # {} PROVE FALSE
    OBVIOUS
  <2>2. PICK t \in Rest : parent[t] \notin Rest
    BY <2>1 DEF WellFounded
  <2>3. t \in Targets /\ parent[t] \in Targets \cup {NULL}
    BY DEF EventsTypeOK
  <2>4. CASE parent[t] = NULL
    <3>1. Piece([x \in {t} |-> <<>>], {t})
      BY <2>3, <2>4 DEF Piece
    <3> QED
      BY <2>2, <3>1
  <2>5. CASE parent[t] # NULL
    <3>1. In(parent[t])
      BY <2>2, <2>3, <2>5
    <3>2. PICK S, g : parent[t] \in S /\ Piece(g, S)
      BY <3>1
    <3> DEFINE h == [x \in S \cup {t} |-> IF x \in S THEN g[x] ELSE Append(g[parent[t]], parent[t])]
    <3>3. t \notin S
      BY <2>2, <3>2
    <3>4. g[parent[t]] \in Seq(Targets) /\ S \subseteq Targets /\ \A x \in S : g[x] \in Seq(Targets)
      BY <3>2 DEF Piece
    <3>5. h \in [S \cup {t} -> Seq(Targets)]
      BY <2>3, <2>5, <3>4
    <3>6. \A x \in S : IF parent[x] = NULL THEN h[x] = <<>>
                       ELSE parent[x] \in S /\ h[x] = Append(h[parent[x]], parent[x])
      BY <3>2 DEF Piece
    <3>7. h[t] = Append(h[parent[t]], parent[t])
      BY <3>2, <3>3
    <3>8. Piece(h, S \cup {t})
      BY <2>3, <2>5, <3>2, <3>4, <3>5, <3>6, <3>7 DEF Piece
    <3> QED
      BY <2>2, <3>8
  <2> QED
    BY <2>4, <2>5
<1> DEFINE Is(t, p) == \E S, g : t \in S /\ Piece(g, S) /\ p = g[t]
           all == [t \in Targets |-> CHOOSE p : Is(t, p)]
<1>2. \A t \in Targets : \E p : Is(t, p)
  BY <1>1
<1>3. \A t \in Targets : Is(t, all[t])
  BY <1>2
<1> HIDE DEF all
<1>4. ASSUME NEW S, NEW g, Piece(g, S), NEW t \in S PROVE all[t] = g[t]
  <2>1. t \in Targets
    BY <1>4 DEF Piece
  <2>2. PICK R, h : t \in R /\ Piece(h, R) /\ all[t] = h[t]
    BY <1>3, <2>1
  <2> QED
    BY <1>4, <2>2, PiecesAgree
<1>5. ASSUME NEW t \in Targets
      PROVE  /\ all[t] \in Seq(Targets)
             /\ IF parent[t] = NULL THEN all[t] = <<>>
                ELSE parent[t] \in Targets /\ all[t] = Append(all[parent[t]], parent[t])
  <2>1. PICK S, g : t \in S /\ Piece(g, S) /\ all[t] = g[t]
    BY <1>3
  <2>2. parent[t] \in S => all[parent[t]] = g[parent[t]]
    BY <1>4, <2>1
  <2> QED
    BY <2>1, <2>2 DEF Piece
<1>6. all \in [Targets -> Seq(Targets)]
  BY <1>5 DEF all
<1>7. Piece(all, Targets)
  BY <1>5, <1>6 DEF Piece
<1> QED
  BY <1>7

LEMMA AncestorsRight ==
  ASSUME EventsTypeOK, WellFounded, NULL \notin Targets
  PROVE  \A t \in Targets : E!Ancestors[t] \in Seq(Targets)
<1> DEFINE Step(f) == [t \in Targets |-> IF parent[t] = NULL THEN <<>>
                                         ELSE Append(f[parent[t]], parent[t])]
<1>1. PICK g : Piece(g, Targets)
  BY PathsExist
<1>2. g = Step(g)
  BY <1>1 DEF Piece
<1>3. E!Ancestors = CHOOSE f : f = Step(f)
  BY DEF E!Ancestors
<1> HIDE DEF Step
<1>4. E!Ancestors = Step(E!Ancestors)
  BY <1>2, <1>3, Zenon
<1> USE DEF Step
<1> DEFINE Bad == {t \in Targets : E!Ancestors[t] \notin Seq(Targets)}
<1>5. SUFFICES ASSUME Bad # {} PROVE FALSE
  OBVIOUS
<1>6. PICK t \in Bad : parent[t] \notin Bad
  BY <1>5 DEF WellFounded
<1>7. parent[t] \in Targets \cup {NULL}
  BY DEF EventsTypeOK
<1>8. E!Ancestors[t] = IF parent[t] = NULL THEN <<>> ELSE Append(E!Ancestors[parent[t]], parent[t])
  BY <1>4
<1>9. CASE parent[t] = NULL
  <2>1. E!Ancestors[t] = <<>>
    BY <1>8, <1>9
  <2>2. <<>> \in Seq(Targets)
    OBVIOUS
  <2>3. E!Ancestors[t] \in Seq(Targets)
    BY <2>1, <2>2, Zenon
  <2> QED
    BY <1>6, <2>3
<1>10. CASE parent[t] # NULL
  <2>1. E!Ancestors[parent[t]] \in Seq(Targets) /\ parent[t] \in Targets
    BY <1>6, <1>7, <1>10
  <2>2. Append(E!Ancestors[parent[t]], parent[t]) \in Seq(Targets)
    BY <2>1
  <2> QED
    BY <1>6, <1>8, <1>10, <2>2
<1> QED
  BY <1>9, <1>10

-----------------------------------------------------------------------------
(* What a step does to one frame.                                           *)
Lists == Seq(Listeners \cup {NULL})

USE DEF Lists

LEMMA VisitedIn ==
  ASSUME NEW f \in Frames, f.visit \in 1 .. E!AtTarget(f) + Len(f.path)
  PROVE  E!Visited(f) \in Targets
<1>1. f.path \in Seq(Targets) /\ f.target \in Targets /\ f.visit \in Nat
  BY DEF Frames
<1>2. E!AtTarget(f) = Len(f.path) + 1
  BY DEF E!AtTarget
<1>3. f.visit < E!AtTarget(f) => f.path[f.visit] \in Targets
  BY <1>1, <1>2
<1>4. f.visit > E!AtTarget(f) => f.path[2 * E!AtTarget(f) - f.visit] \in Targets
  <2>1. f.visit > E!AtTarget(f) => 2 * E!AtTarget(f) - f.visit \in 1 .. Len(f.path)
    BY <1>1, <1>2
  <2> QED
    BY <1>1, <2>1
<1> QED
  BY <1>1, <1>2, <1>3, <1>4 DEF E!Visited

(* The list has one more, or the same.                                      *)
More(s, s2) == /\ Len(s) <= Len(s2)
               /\ \A i \in DOMAIN s : s[i] # NULL => s2[i] = s[i]
               /\ \A i \in DOMAIN s2 : \/ i \in DOMAIN s /\ s2[i] = s[i]
                                       \/ \A k \in DOMAIN s : s[k] # s2[i]

LEMMA FrameMore ==
  ASSUME NEW f \in Frames, NEW s \in Lists, NEW s2 \in Lists, NEW e,
         FrameRight(f, s, e), More(s, s2), NULL \notin Listeners
  PROVE  FrameRight(f, s2, e)
<1>1. f.copy \in Seq(Fns) /\ f.kept \subseteq Listeners
  BY DEF Frames
<1>2. KeptStay(f, s) /\ CalledInTurn(f, s) /\ NoneMissed(f, s, e) /\ Placed(f) /\ StopKnown(f, e)
  BY DEF FrameRight
<1>3. KeptStay(f, s2)
  BY <1>1, <1>2 DEF KeptStay, More
<1>4. \A i \in 1 .. Len(f.copy) : s2[i] \in f.kept => s2[i] = s[i]
  BY <1>1, <1>2 DEF KeptStay, More
<1>5. CalledInTurn(f, s2)
  BY <1>2, <1>4 DEF CalledInTurn
<1>6. NoneMissed(f, s2, e)
  BY <1>2, <1>4 DEF NoneMissed
<1> QED
  BY <1>2, <1>3, <1>5, <1>6 DEF FrameRight

(* The list has no l any more.                                              *)
Less(s, s2, l) == /\ DOMAIN s2 = DOMAIN s
                  /\ \A i \in DOMAIN s : s2[i] = IF s[i] = l THEN NULL ELSE s[i]

Without(f, l) == [f EXCEPT !.kept = f.kept \ {l}]

LEMMA FrameLess ==
  ASSUME NEW f \in Frames, NEW s \in Lists, NEW s2 \in Lists, NEW e, NEW l, NEW g,
         FrameRight(f, s, e), NULL \notin Listeners,
         Less(s, s2, l), g = Without(f, l)
  PROVE  g \in Frames /\ FrameRight(g, s2, e)
<1>1. f.copy \in Seq(Fns) /\ f.kept \subseteq Listeners
  BY DEF Frames
<1>2. KeptStay(f, s) /\ CalledInTurn(f, s) /\ NoneMissed(f, s, e) /\ Placed(f) /\ StopKnown(f, e)
  BY DEF FrameRight
<1>3. g \in Frames
  BY <1>1 DEF Frames, Without
<1>4. /\ g.kept = f.kept \ {l} /\ g.copy = f.copy /\ g.called = f.called /\ g.calling = f.calling
      /\ g.j = f.j /\ g.visit = f.visit /\ g.path = f.path /\ g.stopped = f.stopped
  BY DEF Frames, Without
<1>5. E!AtTarget(g) = E!AtTarget(f) /\ Passed(g) = Passed(f)
  BY <1>4 DEF E!AtTarget, Passed
<1>6. DOMAIN s2 = DOMAIN s /\ \A i \in DOMAIN s : s2[i] = IF s[i] = l THEN NULL ELSE s[i]
  BY DEF Less
<1>7. Len(s2) = Len(s)
  BY <1>6
<1>8. \A i \in 1 .. Len(f.copy) : i \in DOMAIN s /\ (s2[i] \in g.kept => s2[i] = s[i] /\ s[i] \in f.kept)
  BY <1>1, <1>2, <1>4, <1>6 DEF KeptStay
<1>9. KeptStay(g, s2)
  BY <1>1, <1>2, <1>4, <1>6, <1>7, <1>8 DEF KeptStay
<1>10. CalledInTurn(g, s2)
  BY <1>2, <1>4, <1>5, <1>8 DEF CalledInTurn
<1>11. NoneMissed(g, s2, e)
  <2> SUFFICES ASSUME NEW type \in Types, OneType(g, e, type), NEW i \in 1 .. Len(g.copy),
                      i <= Passed(g), s2[i] \in g.kept,
                      s2[i].type = type, s2[i].capture = (g.visit < E!AtTarget(g))
               PROVE  \E a \in DOMAIN g.called : g.called[a] = s2[i]
    BY DEF NoneMissed
  <2>1. OneType(f, e, type)
    BY <1>4 DEF OneType
  <2>2. s2[i] = s[i] /\ s[i] \in f.kept /\ i \in 1 .. Len(f.copy) /\ i <= Passed(f)
    BY <1>4, <1>5, <1>8
  <2> QED
    BY <1>2, <1>4, <1>5, <2>1, <2>2 DEF NoneMissed
<1>12. Placed(g) /\ StopKnown(g, e)
  BY <1>2, <1>4, <1>5 DEF Placed, StopKnown
<1> QED
  BY <1>3, <1>9, <1>10, <1>11, <1>12 DEF FrameRight

(* Neither the flags of an event nor, when somebody was called, its type    *)
(* is what a frame depends on, once it is stopped.                          *)
LEMMA FrameOther ==
  ASSUME NEW f, NEW s, NEW e, NEW e2, FrameRight(f, s, e),
         e.sp => e2.sp, f.calling \/ e2.type = e.type
  PROVE  FrameRight(f, s, e2)
<1>1. KeptStay(f, s) /\ CalledInTurn(f, s) /\ NoneMissed(f, s, e) /\ Placed(f) /\ StopKnown(f, e)
  BY DEF FrameRight
<1>2. StopKnown(f, e2)
  BY <1>1 DEF StopKnown
<1>3. \A type : OneType(f, e2, type) => OneType(f, e, type)
  BY <1>1 DEF OneType, Placed
<1>4. NoneMissed(f, s, e2)
  BY <1>1, <1>3 DEF NoneMissed
<1> QED
  BY <1>1, <1>2, <1>4 DEF FrameRight

StoppedHere(f) == [f EXCEPT !.stopped = IF f.stopped = 0 THEN f.visit ELSE f.stopped]

LEMMA FrameStopped ==
  ASSUME NEW f \in Frames, NEW s, NEW e, NEW e2, NEW g, FrameRight(f, s, e),
         f.calling, e2.sp, e2.type = e.type,
         g = StoppedHere(f)
  PROVE  g \in Frames /\ FrameRight(g, s, e2)
<1>1. f.visit \in Nat /\ f.stopped \in Nat
  BY DEF Frames
<1>2. FrameRight(f, s, e2)
  BY FrameOther
<1>3. KeptStay(f, s) /\ CalledInTurn(f, s) /\ NoneMissed(f, s, e2) /\ Placed(f) /\ StopKnown(f, e2)
  BY <1>2 DEF FrameRight
<1>4. g \in Frames
  BY <1>1 DEF Frames, StoppedHere
<1>5. /\ g.kept = f.kept /\ g.copy = f.copy /\ g.called = f.called /\ g.calling = f.calling
      /\ g.j = f.j /\ g.visit = f.visit /\ g.path = f.path
      /\ g.stopped = IF f.stopped = 0 THEN f.visit ELSE f.stopped
  BY DEF Frames, StoppedHere
<1>6. E!AtTarget(g) = E!AtTarget(f) /\ Passed(g) = Passed(f)
  BY <1>5 DEF E!AtTarget, Passed
<1>7. KeptStay(g, s) /\ CalledInTurn(g, s) /\ Placed(g)
  BY <1>3, <1>5, <1>6 DEF KeptStay, CalledInTurn, Placed
<1>8. NoneMissed(g, s, e2)
  BY <1>3, <1>5, <1>6 DEF NoneMissed, OneType
<1>9. StopKnown(g, e2)
  BY <1>3, <1>5 DEF StopKnown
<1> QED
  BY <1>4, <1>7, <1>8, <1>9 DEF FrameRight

LEMMA FrameNew ==
  ASSUME NEW ev \in Evts, NEW t \in Targets, NEW p \in Seq(Targets), NEW e
  PROVE  E!Frame(ev, t, p) \in Frames /\ FrameRight(E!Frame(ev, t, p), <<>>, e)
<1> DEFINE g == E!Frame(ev, t, p)
<1>1. g = [ev |-> ev, target |-> t, path |-> p, visit |-> 1, j |-> 0,
           copy |-> <<>>, calling |-> FALSE,
           old |-> {}, kept |-> {}, called |-> <<>>, stopped |-> 0]
  BY DEF E!Frame
<1>2. g \in Frames
  BY <1>1 DEF Frames
<1>3. /\ g.visit = 1 /\ g.j = 0 /\ g.copy = <<>> /\ g.calling = FALSE /\ g.kept = {}
      /\ g.called = <<>> /\ g.stopped = 0 /\ g.path \in Seq(Targets)
  BY <1>1
<1> HIDE DEF g
<1>4. Placed(g) /\ StopKnown(g, e)
  BY <1>3 DEF Placed, StopKnown, E!AtTarget
<1>5. KeptStay(g, <<>>) /\ CalledInTurn(g, <<>>) /\ NoneMissed(g, <<>>, e)
  BY <1>3 DEF KeptStay, CalledInTurn, NoneMissed
<1> QED
  BY <1>2, <1>4, <1>5 DEF FrameRight, g

LEMMA FrameOnward ==
  ASSUME NEW f \in Frames, NEW s, NEW e, FrameRight(f, s, e), ~f.calling,
         f.visit <= E!AtTarget(f) + Len(f.path)
  PROVE  /\ E!Onward(f) \in Frames /\ FrameRight(E!Onward(f), <<>>, e)
         /\ E!Onward(f).j = 0 /\ E!Onward(f).ev = f.ev
<1> DEFINE g == E!Onward(f)
<1>1. f.visit \in Nat /\ f.path \in Seq(Targets)
  BY DEF Frames
<1>2. g = [f EXCEPT !.visit = f.visit + 1, !.j = 0, !.copy = <<>>,
                    !.old = {}, !.kept = {}, !.called = <<>>]
  BY DEF E!Onward
<1>3. g \in Frames
  <2> DEFINE none == <<>>
             n == f.visit + 1
             h == [f EXCEPT !.visit = n, !.j = 0, !.old = {}, !.kept = {}]
  <2>1. none \in Seq(Fns) /\ none \in Seq(Listeners) /\ n \in Nat
    BY <1>1
  <2> HIDE DEF n
  <2>2. h \in Frames
    BY <2>1 DEF Frames
  <2>3. g = [h EXCEPT !.copy = none, !.called = none]
    BY <1>2 DEF Frames, n
  <2> HIDE DEF g, h, none
  <2> QED
    BY <2>1, <2>2, <2>3 DEF Frames
<1>4. /\ g.visit = f.visit + 1 /\ g.j = 0 /\ g.copy = <<>> /\ g.calling = FALSE /\ g.kept = {}
      /\ g.called = <<>> /\ g.stopped = f.stopped /\ g.path = f.path /\ g.ev = f.ev
  BY <1>2 DEF Frames
<1> HIDE DEF g
<1>5. Placed(f) /\ StopKnown(f, e)
  BY DEF FrameRight
<1>6. Placed(g) /\ StopKnown(g, e)
  BY <1>1, <1>4, <1>5 DEF Placed, StopKnown, E!AtTarget
<1>7. KeptStay(g, <<>>) /\ CalledInTurn(g, <<>>) /\ NoneMissed(g, <<>>, e)
  BY <1>4 DEF KeptStay, CalledInTurn, NoneMissed
<1> QED
  BY <1>3, <1>4, <1>6, <1>7 DEF FrameRight, g

Somebody(s) == {s[i] : i \in DOMAIN s} \ {NULL}

Begun(f, s, R) ==
  [f EXCEPT !.j = 1, !.copy = [i \in DOMAIN s |-> IF s[i] = NULL THEN NULL ELSE s[i].fn],
            !.old = R, !.kept = R]

LEMMA FrameBegins ==
  ASSUME NEW f \in Frames, NEW s \in Lists, NEW e, FrameRight(f, <<>>, e), ~f.calling, f.j = 0,
         f.visit <= E!AtTarget(f) + Len(f.path), ~e.sp, s # <<>>, NULL \notin Listeners,
         NEW R, R = Somebody(s), NEW g, g = Begun(f, s, R)
  PROVE  g \in Frames /\ FrameRight(g, s, e)
<1>1. Placed(f) /\ StopKnown(f, e)
  BY DEF FrameRight
<1>2. \A i \in DOMAIN s : s[i] \in Listeners \/ s[i] = NULL
  OBVIOUS
<1>3. R \subseteq Listeners
  BY <1>2 DEF Somebody
<1> DEFINE c == [i \in DOMAIN s |-> IF s[i] = NULL THEN NULL ELSE s[i].fn]
<1>4. c \in Seq(Fns) /\ Len(c) = Len(s) /\ Len(s) \in Nat \ {0}
  BY <1>2 DEF Fns
<1>5. g \in Frames
  BY <1>3, <1>4 DEF Frames, Begun
<1>6. /\ g.j = 1 /\ g.copy = c /\ g.kept = R /\ g.calling = FALSE /\ g.called = <<>>
      /\ g.visit = f.visit /\ g.path = f.path /\ g.stopped = f.stopped
  BY <1>1 DEF Frames, Placed, Begun
<1>7. Placed(g)
  BY <1>1, <1>4, <1>6 DEF Placed, E!AtTarget
<1>8. \A l \in R : \E i \in DOMAIN s : s[i] = l /\ c[i] = l.fn
  BY DEF Somebody
<1>9. KeptStay(g, s)
  <2>1. DOMAIN s = 1 .. Len(s) /\ Len(g.copy) = Len(s)
    BY <1>4, <1>6
  <2>2. \A l \in g.kept : \E i \in 1 .. Len(g.copy) : s[i] = l /\ g.copy[i] = l.fn
    <3> SUFFICES ASSUME NEW l \in g.kept
                 PROVE  \E i \in 1 .. Len(g.copy) : s[i] = l /\ g.copy[i] = l.fn
      OBVIOUS
    <3>1. PICK i \in DOMAIN s : s[i] = l /\ c[i] = l.fn
      BY <1>6, <1>8
    <3> QED
      BY <1>6, <2>1, <3>1
  <2>3. Len(g.copy) <= Len(s)
    BY <1>4, <2>1
  <2> QED
    BY <2>2, <2>3 DEF KeptStay
<1>10. CalledInTurn(g, s)
  <2>1. DOMAIN g.called = {}
    BY <1>6
  <2> QED
    BY <2>1 DEF CalledInTurn
<1>11. Passed(g) = 0
  BY <1>6 DEF Passed
<1>12. NoneMissed(g, s, e)
  BY <1>4, <1>6, <1>11 DEF NoneMissed
<1>13. StopKnown(g, e)
  BY <1>1, <1>6 DEF StopKnown
<1> QED
  BY <1>5, <1>7, <1>9, <1>10, <1>12, <1>13 DEF FrameRight

(* Slot k is for this event and phase.                                      *)
Fits(f, s, e, k) == /\ s[k] # NULL /\ s[k].fn = f.copy[k]
                    /\ s[k].capture = (f.visit < E!AtTarget(f)) /\ s[k].type = e.type

(* Who was there when trigger began and is still there has the function     *)
(* that trigger copied from his slot.                                       *)
LEMMA KeptFits ==
  ASSUME NEW f \in Frames, NEW s \in Lists, KeptStay(f, s), Distinct(s), NULL \notin Listeners,
         NEW k \in 1 .. Len(f.copy), s[k] \in f.kept
  PROVE  s[k] # NULL /\ s[k].fn = f.copy[k]
<1>1. f.kept \subseteq Listeners /\ f.copy \in Seq(Fns)
  BY DEF Frames
<1>2. PICK i \in 1 .. Len(f.copy) : s[i] = s[k] /\ f.copy[i] = s[k].fn
  BY DEF KeptStay
<1>3. i = k
  BY <1>1, <1>2 DEF KeptStay, Distinct
<1> QED
  BY <1>1, <1>2, <1>3

Calling(f, i, l) == [f EXCEPT !.j = i, !.calling = TRUE, !.called = Append(f.called, l)]

LEMMA FrameCalls ==
  ASSUME NEW f \in Frames, NEW s \in Lists, NEW e, FrameRight(f, s, e), Distinct(s),
         NULL \notin Listeners, ~f.calling, f.j > 0,
         NEW i \in f.j .. Len(f.copy), Fits(f, s, e, i),
         \A k \in f.j .. i - 1 : ~Fits(f, s, e, k), NEW g,
         g = Calling(f, i, s[i])
  PROVE  g \in Frames /\ FrameRight(g, s, e)
<1>1. /\ f.called \in Seq(Listeners) /\ f.copy \in Seq(Fns) /\ f.kept \subseteq Listeners
      /\ f.j \in Nat
  BY DEF Frames
<1>2. KeptStay(f, s) /\ CalledInTurn(f, s) /\ NoneMissed(f, s, e) /\ Placed(f) /\ StopKnown(f, e)
  BY DEF FrameRight
<1>3. i \in 1 .. Len(f.copy) /\ i \in DOMAIN s
  BY <1>1, <1>2 DEF KeptStay
<1>4. s[i] \in Listeners
  BY <1>3 DEF Fits
<1> DEFINE n == Len(f.called)
<1>5. /\ Append(f.called, s[i]) \in Seq(Listeners) /\ Len(Append(f.called, s[i])) = n + 1
      /\ Append(f.called, s[i])[n + 1] = s[i]
      /\ \A a \in 1 .. n : Append(f.called, s[i])[a] = f.called[a]
      /\ n \in Nat
  BY <1>1, <1>4
<1>6. g \in Frames
  <2> DEFINE h == [f EXCEPT !.calling = TRUE]
             c == Append(f.called, s[i])
  <2>1. h \in Frames
    BY DEF Frames
  <2>2. c \in Seq(Listeners) /\ i \in Nat
    BY <1>1, <1>5
  <2>3. g = [h EXCEPT !.j = i, !.called = c]
    BY DEF Frames, Calling
  <2> HIDE DEF h, c
  <2> QED
    BY <2>1, <2>2, <2>3 DEF Frames
<1>7. /\ g.j = i /\ g.calling = TRUE /\ g.called = Append(f.called, s[i]) /\ g.copy = f.copy
      /\ g.kept = f.kept /\ g.visit = f.visit /\ g.path = f.path /\ g.stopped = f.stopped
  BY DEF Frames, Calling
<1>8. DOMAIN g.called = 1 .. n + 1 /\ g.called[n + 1] = s[i] /\ \A a \in 1 .. n : g.called[a] = f.called[a]
  BY <1>5, <1>7
<1>9. Passed(f) = f.j - 1 /\ Passed(g) = i
  BY <1>7 DEF Passed
<1>10. Placed(g)
  <2>1. g.called # <<>>
    BY <1>5, <1>7
  <2>2. E!AtTarget(g) = E!AtTarget(f)
    BY <1>7 DEF E!AtTarget
  <2>3. f.visit \in 1 .. E!AtTarget(f) + Len(f.path) + 1 /\ f.visit <= E!AtTarget(f) + Len(f.path)
    BY <1>1, <1>2 DEF Placed
  <2> QED
    BY <1>1, <1>3, <1>7, <2>1, <2>2, <2>3 DEF Placed
<1>11. KeptStay(g, s) /\ StopKnown(g, e)
  BY <1>1, <1>2, <1>7 DEF KeptStay, StopKnown
<1>12. DOMAIN f.called = 1 .. n
  BY <1>1
<1>13. CalledInTurn(g, s)
  <2>1. \A a \in 1 .. n : f.called[a] = s[i] /\ s[i] \in f.kept => FALSE
    BY <1>1, <1>2, <1>3, <1>9, <1>12 DEF CalledInTurn
  <2>2. ASSUME NEW a \in 1 .. n + 1, NEW b \in 1 .. n + 1, g.called[a] = g.called[b],
               g.called[a] \in f.kept
        PROVE  a = b
    <3>1. a \in 1 .. n /\ b \in 1 .. n => a = b
      BY <1>2, <1>8, <1>12, <2>2 DEF CalledInTurn
    <3>2. a = n + 1 /\ b \in 1 .. n => FALSE
      BY <1>8, <2>1, <2>2
    <3>3. b = n + 1 /\ a \in 1 .. n => FALSE
      BY <1>8, <2>1, <2>2
    <3> QED
      BY <1>5, <3>1, <3>2, <3>3
  <2>3. ASSUME NEW k \in 1 .. Len(f.copy), NEW a \in 1 .. n + 1, s[k] \in f.kept, s[k] = g.called[a]
        PROVE  k <= i
    <3>1. CASE a = n + 1
      <4>1. s[k] = s[i] /\ k \in DOMAIN s
        BY <1>1, <1>2, <1>8, <2>3, <3>1 DEF KeptStay
      <4>2. k = i
        BY <1>1, <1>3, <1>4, <4>1 DEF Distinct
      <4> QED
        BY <1>1, <4>2
    <3>2. CASE a # n + 1
      <4>1. a \in 1 .. n /\ s[k] = f.called[a]
        BY <1>5, <1>8, <2>3, <3>2
      <4>2. k <= f.j - 1
        BY <1>2, <1>9, <1>12, <2>3, <4>1 DEF CalledInTurn
      <4> QED
        BY <1>1, <4>2
    <3> QED
      BY <3>1, <3>2
  <2> QED
    BY <1>7, <1>8, <1>9, <2>2, <2>3 DEF CalledInTurn
<1>14. NoneMissed(g, s, e)
  <2> SUFFICES ASSUME NEW type \in Types, OneType(g, e, type), NEW k \in 1 .. Len(g.copy),
                      k <= Passed(g), s[k] \in g.kept,
                      s[k].type = type, s[k].capture = (g.visit < E!AtTarget(g))
               PROVE  \E a \in DOMAIN g.called : g.called[a] = s[k]
    BY DEF NoneMissed
  <2>1. e.type = type
    <3>1. s[i].type = type
      BY <1>5, <1>8 DEF OneType
    <3> QED
      BY <3>1 DEF Fits
  <2>2. OneType(f, e, type)
    BY <1>5, <1>8, <1>12, <2>1 DEF OneType
  <2>3. E!AtTarget(g) = E!AtTarget(f)
    BY <1>7 DEF E!AtTarget
  <2>4. CASE k <= Passed(f)
    <3>1. PICK a \in DOMAIN f.called : f.called[a] = s[k]
      BY <1>2, <1>7, <2>2, <2>3, <2>4 DEF NoneMissed
    <3> QED
      BY <1>5, <1>8, <1>12, <3>1
  <2>5. CASE k \in f.j .. i - 1
    <3>1. s[k] # NULL /\ s[k].fn = f.copy[k]
      BY <1>2, <1>7, KeptFits
    <3>2. Fits(f, s, e, k)
      BY <1>7, <2>1, <2>3, <3>1 DEF Fits
    <3> QED
      BY <2>5, <3>2
  <2>6. CASE k = i
    <3>1. n + 1 \in DOMAIN g.called
      BY <1>5, <1>8
    <3> QED
      BY <1>8, <2>6, <3>1
  <2> QED
    BY <1>1, <1>9, <2>4, <2>5, <2>6
<1> QED
  BY <1>6, <1>10, <1>11, <1>13, <1>14 DEF FrameRight

Returned(f) == [f EXCEPT !.calling = FALSE, !.j = f.j + 1]

LEMMA FrameReturns ==
  ASSUME NEW f \in Frames, NEW s, NEW e, FrameRight(f, s, e), f.calling, NEW g,
         g = Returned(f)
  PROVE  g \in Frames /\ FrameRight(g, s, e)
<1>1. f.j \in Nat /\ f.copy \in Seq(Fns)
  BY DEF Frames
<1>2. KeptStay(f, s) /\ CalledInTurn(f, s) /\ NoneMissed(f, s, e) /\ Placed(f) /\ StopKnown(f, e)
  BY DEF FrameRight
<1>3. g \in Frames
  <2> DEFINE h == [f EXCEPT !.calling = FALSE]
  <2>1. h \in Frames
    BY DEF Frames
  <2>2. g = [h EXCEPT !.j = f.j + 1] /\ f.j + 1 \in Nat
    BY <1>1 DEF Returned
  <2> QED
    BY <2>1, <2>2 DEF Frames
<1>4. /\ g.j = f.j + 1 /\ g.calling = FALSE /\ g.called = f.called /\ g.copy = f.copy
      /\ g.kept = f.kept /\ g.visit = f.visit /\ g.path = f.path /\ g.stopped = f.stopped
  BY DEF Frames, Returned
<1>5. Passed(g) = Passed(f) /\ E!AtTarget(g) = E!AtTarget(f)
  BY <1>1, <1>4 DEF Passed, E!AtTarget
<1>6. Placed(g) /\ StopKnown(g, e)
  BY <1>1, <1>2, <1>4, <1>5 DEF Placed, StopKnown
<1>7. KeptStay(g, s) /\ CalledInTurn(g, s)
  BY <1>2, <1>4, <1>5 DEF KeptStay, CalledInTurn
<1>8. NoneMissed(g, s, e)
  BY <1>2, <1>4, <1>5 DEF NoneMissed, OneType
<1> QED
  BY <1>3, <1>6, <1>7, <1>8 DEF FrameRight

(* When there is nobody left in the list that fits, everybody who was there *)
(* all the time and is for the event and phase was called, once.            *)
LEMMA FrameEnds ==
  ASSUME NEW f \in Frames, NEW s \in Lists, NEW e, FrameRight(f, s, e), Distinct(s),
         NULL \notin Listeners, ~f.calling, f.j > 0, e.type \in Types,
         \A k \in f.j .. Len(f.copy) : ~Fits(f, s, e, k),
         \A a \in DOMAIN f.called : f.called[a].type = e.type,
         NEW l \in f.kept, l.type = e.type, l.capture = (f.visit < E!AtTarget(f))
  PROVE  \E i \in DOMAIN f.called : {k \in DOMAIN f.called : f.called[k] = l} = {i}
<1>1. f.copy \in Seq(Fns) /\ f.j \in Nat
  BY DEF Frames
<1>2. KeptStay(f, s) /\ CalledInTurn(f, s) /\ NoneMissed(f, s, e)
  BY DEF FrameRight
<1>3. PICK m \in 1 .. Len(f.copy) : s[m] = l
  BY <1>2 DEF KeptStay
<1>4. s[m] # NULL /\ s[m].fn = f.copy[m]
  BY <1>2, <1>3, KeptFits
<1>5. m < f.j
  BY <1>1, <1>3, <1>4 DEF Fits
<1>6. m <= Passed(f)
  BY <1>1, <1>5 DEF Passed
<1>7. OneType(f, e, e.type)
  BY DEF OneType
<1>8. PICK i \in DOMAIN f.called : f.called[i] = l
  BY <1>2, <1>3, <1>6, <1>7 DEF NoneMissed
<1>9. \A k \in DOMAIN f.called : f.called[k] = l => k = i
  BY <1>2, <1>8 DEF CalledInTurn
<1> QED
  BY <1>8, <1>9

-----------------------------------------------------------------------------
(* What a call does to a list.                                              *)
LEMMA AddedRight ==
  ASSUME NEW s \in Lists, NEW l \in Listeners, Distinct(s), NULL \notin Listeners
  PROVE  E!Added(s, l) \in Lists /\ More(s, E!Added(s, l)) /\ Distinct(E!Added(s, l))
<1> DEFINE i == E!SelectInSeq(s, LAMBDA x : x = NULL)
           I == {k \in 1 .. Len(s) : s[k] = NULL}
<1>1. E!Range(s) = {s[k] : k \in DOMAIN s}
  BY DEF E!Range
<1>2. CASE l \in E!Range(s)
  <2>1. E!Added(s, l) = s
    BY <1>2 DEF E!Added
  <2>2. More(s, s)
    BY DEF More
  <2> QED
    BY <2>1, <2>2
<1>3. CASE l \notin E!Range(s) /\ NULL \in E!Range(s)
  <2>1. E!Added(s, l) = [s EXCEPT ![i] = l]
    BY <1>3 DEF E!Added
  <2>2. I # {} /\ I \subseteq Nat
    <3>1. DOMAIN s = 1 .. Len(s) /\ Len(s) \in Nat
      OBVIOUS
    <3>2. \E k \in DOMAIN s : s[k] = NULL
      BY <1>1, <1>3
    <3> QED
      BY <3>1, <3>2
  <2>3. i = E!Min(I)
    BY <2>2 DEF E!SelectInSeq
  <2>4. PICK m \in I : \A k \in I : m <= k
    BY <2>2, LeastNatural
  <2>5. E!Min(I) \in I
    BY <2>4 DEF E!Min
  <2> HIDE DEF i
  <2>6. i \in DOMAIN s /\ s[i] = NULL
    BY <2>3, <2>5
  <2> DEFINE s2 == [s EXCEPT ![i] = l]
  <2>7. s2 \in Lists /\ Len(s2) = Len(s) /\ DOMAIN s2 = DOMAIN s
    BY <2>6
  <2>8. \A k \in DOMAIN s : s2[k] = IF k = i THEN l ELSE s[k]
    BY <2>6
  <2> HIDE DEF s2
  <2>9. \A k \in DOMAIN s : s[k] # l
    BY <1>1, <1>3
  <2>10. Distinct(s2) /\ More(s, s2)
    BY <2>6, <2>7, <2>8, <2>9 DEF Distinct, More
  <2> QED
    BY <2>1, <2>7, <2>10 DEF s2
<1>4. CASE l \notin E!Range(s) /\ NULL \notin E!Range(s)
  <2>1. E!Added(s, l) = Append(s, l)
    BY <1>4 DEF E!Added
  <2> DEFINE s2 == Append(s, l)
  <2>2. /\ s2 \in Lists /\ Len(s2) = Len(s) + 1 /\ DOMAIN s2 = 1 .. Len(s) + 1
        /\ s2[Len(s) + 1] = l /\ Len(s) \in Nat
        /\ \A k \in DOMAIN s : s2[k] = s[k]
    OBVIOUS
  <2> HIDE DEF s2
  <2>3. \A k \in DOMAIN s : s[k] # l
    BY <1>1, <1>4
  <2>4. \A k \in DOMAIN s2 : (k \in DOMAIN s /\ s2[k] = s[k]) \/ (k = Len(s) + 1 /\ s2[k] = l)
    BY <2>2
  <2>5. More(s, s2)
    BY <2>2, <2>3, <2>4 DEF More
  <2>6. Distinct(s2)
    BY <2>3, <2>4 DEF Distinct
  <2> QED
    BY <2>1, <2>2, <2>5, <2>6 DEF s2
<1> QED
  BY <1>2, <1>3, <1>4

LEMMA RemovedRight ==
  ASSUME NEW s \in Lists, NEW l \in Listeners, Distinct(s)
  PROVE  /\ E!Removed(s, l) \in Lists /\ Less(s, E!Removed(s, l), l)
         /\ Distinct(E!Removed(s, l))
<1> DEFINE r == [i \in DOMAIN s |-> IF s[i] = l THEN NULL ELSE s[i]]
<1>1. r \in Lists
  OBVIOUS
<1>2. Less(s, r, l)
  BY DEF Less
<1>3. Distinct(r)
  BY DEF Distinct
<1> QED
  BY <1>1, <1>2, <1>3 DEF E!Removed

LEMMA ListsRight ==
  ASSUME EventsIInv, NEW n \in DOMAIN stack
  PROVE  /\ stack[n] \in Frames /\ evt[stack[n].ev] \in EventRecords /\ stack[n].ev \in Evts
         /\ FrameRight(stack[n], ListOf(listeners, stack[n]), evt[stack[n].ev])
         /\ ListOf(listeners, stack[n]) \in Lists
         /\ stack[n].j # 0 => /\ E!Visited(stack[n]) \in Targets
                              /\ ListOf(listeners, stack[n]) = listeners[E!Visited(stack[n])]
                              /\ Distinct(ListOf(listeners, stack[n]))
<1>1. stack[n] \in Frames /\ EventsTypeOK
  BY DEF EventsIInv, EventsTypeOK
<1>2. stack[n].ev \in Evts /\ evt[stack[n].ev] \in EventRecords
  BY <1>1 DEF EventsTypeOK, Frames
<1>3. FrameRight(stack[n], ListOf(listeners, stack[n]), evt[stack[n].ev])
  BY DEF EventsIInv
<1>4. stack[n].j # 0 => E!Visited(stack[n]) \in Targets
  <2>1. Placed(stack[n])
    BY <1>3 DEF FrameRight
  <2>2. stack[n].path \in Seq(Targets) /\ stack[n].visit \in Nat
    BY <1>1 DEF Frames
  <2>3. stack[n].j # 0 => stack[n].visit \in 1 .. E!AtTarget(stack[n]) + Len(stack[n].path)
    BY <2>1, <2>2 DEF Placed, E!AtTarget
  <2> QED
    BY <1>1, <2>3, VisitedIn
<1>5. stack[n].j # 0 => ListOf(listeners, stack[n]) = listeners[E!Visited(stack[n])]
  BY DEF ListOf
<1>6. ListOf(listeners, stack[n]) \in Lists
  <2>1. CASE stack[n].j = 0
    <3>1. ListOf(listeners, stack[n]) = <<>>
      BY <2>1 DEF ListOf
    <3> QED
      BY <3>1
  <2>2. CASE stack[n].j # 0
    BY <1>1, <1>4, <1>5, <2>2 DEF EventsTypeOK
  <2> QED
    BY <2>1, <2>2
<1>7. stack[n].j # 0 => Distinct(ListOf(listeners, stack[n]))
  BY <1>4, <1>5 DEF EventsIInv
<1> QED
  BY <1>1, <1>2, <1>3, <1>4, <1>5, <1>6, <1>7

(* While code of the program runs, so does a listener in every dispatch.    *)
LEMMA AllCall ==
  ASSUME EventsIInv, E!ClientRuns, NEW n \in DOMAIN stack
  PROVE  stack[n].calling
<1>1. stack \in Seq(Frames)
  BY DEF EventsIInv, EventsTypeOK
<1>2. stack # <<>> => stack[Len(stack)].calling
  BY DEF E!ClientRuns, E!Top, E!Last
<1>3. n < Len(stack) => stack[n].calling
  BY DEF EventsIInv
<1> QED
  BY <1>1, <1>2, <1>3

-----------------------------------------------------------------------------
(* The steps.                                                               *)
LEMMA EventsInitInv == ASSUME E!EventsAssumption, E!Init PROVE EventsIInv
<1>1. stack = <<>> /\ parent = Parents /\ listeners = [t \in Targets |-> <<>>]
  BY DEF E!Init
<1>2. /\ parent \in [Targets -> Targets \cup {NULL}] /\ WellFounded
      /\ First \subseteq Types \cup {NULL}
  BY <1>1 DEF E!EventsAssumption, WellFounded
<1>3. listeners \in [Targets -> Lists]
  BY <1>1
<1>4. evt \in [Evts -> EventRecords]
  BY <1>2 DEF E!Init, EventRecords
<1>5. \A t \in Targets : Distinct(listeners[t])
  BY <1>1 DEF Distinct
<1>6. EventsTypeOK
  BY <1>1, <1>2, <1>3, <1>4 DEF EventsTypeOK
<1> QED
  BY <1>1, <1>2, <1>5, <1>6 DEF EventsIInv

LEMMA AddStep ==
  ASSUME E!EventsAssumption, EventsIInv, NEW t \in Targets, NEW l \in Listeners,
         E!addEventListener(t, l)
  PROVE  EventsIInv'
<1>1. NULL \notin Listeners
  BY DEF E!EventsAssumption
<1>2. EventsTypeOK /\ UNCHANGED <<parent, evt, stack>>
  BY DEF EventsIInv, E!addEventListener
<1>3. listeners[t] \in Lists /\ Distinct(listeners[t])
  BY <1>2 DEF EventsIInv, EventsTypeOK
<1>4. PICK s2 \in {listeners[t], E!Added(listeners[t], l)} : listeners' = [listeners EXCEPT ![t] = s2]
  <2>1. CASE UNCHANGED listeners
    <3>1. listeners' = [listeners EXCEPT ![t] = listeners[t]]
      BY <1>2, <2>1 DEF EventsTypeOK
    <3> QED
      BY <3>1
  <2>2. CASE listeners' = [listeners EXCEPT ![t] = E!Added(listeners[t], l)]
    BY <2>2
  <2> QED
    BY <2>1, <2>2 DEF E!addEventListener
<1>5. s2 \in Lists /\ More(listeners[t], s2) /\ Distinct(s2)
  BY <1>1, <1>3, <1>4, AddedRight DEF More
<1>6. /\ listeners' \in [Targets -> Lists] /\ listeners'[t] = s2
      /\ \A u \in Targets : u # t => listeners'[u] = listeners[u]
  BY <1>2, <1>4, <1>5 DEF EventsTypeOK
<1>7. EventsTypeOK' /\ WellFounded'
  BY <1>2, <1>6 DEF EventsTypeOK, EventsIInv, WellFounded
<1>8. \A u \in Targets : Distinct(listeners'[u])
  BY <1>5, <1>6 DEF EventsIInv
<1>9. ASSUME NEW n \in DOMAIN stack
      PROVE  FrameRight(stack[n], ListOf(listeners', stack[n]), evt[stack[n].ev])
  <2> DEFINE f == stack[n]
  <2>1. CASE f.j # 0 /\ E!Visited(f) = t
    <3>1. ListOf(listeners, f) = listeners[t] /\ ListOf(listeners', f) = s2
      BY <1>6, <2>1 DEF ListOf
    <3> QED
      BY <1>1, <1>3, <1>5, <1>9, <3>1, ListsRight, FrameMore
  <2>2. CASE ~(f.j # 0 /\ E!Visited(f) = t)
    <3>1. ListOf(listeners', f) = ListOf(listeners, f)
      BY <1>6, <1>9, <2>2, ListsRight DEF ListOf
    <3> QED
      BY <1>9, <3>1, ListsRight
  <2> QED
    BY <2>1, <2>2
<1> QED
  BY <1>2, <1>7, <1>8, <1>9 DEF EventsIInv

LEMMA RemoveStep ==
  ASSUME E!EventsAssumption, EventsIInv, NEW t \in Targets, NEW l \in Listeners,
         E!removeEventListener(t, l)
  PROVE  EventsIInv'
<1>1. NULL \notin Listeners
  BY DEF E!EventsAssumption
<1>2. EventsTypeOK /\ UNCHANGED <<parent, evt>>
  BY DEF EventsIInv, E!removeEventListener
<1>3. listeners[t] \in Lists /\ Distinct(listeners[t])
  BY <1>2 DEF EventsIInv, EventsTypeOK
<1> DEFINE s2 == E!Removed(listeners[t], l)
<1>4. listeners' = [listeners EXCEPT ![t] = s2]
  BY DEF E!removeEventListener
<1>5. s2 \in Lists /\ Less(listeners[t], s2, l) /\ Distinct(s2)
  BY <1>3, RemovedRight
<1> HIDE DEF s2
<1>6. /\ listeners' \in [Targets -> Lists] /\ listeners'[t] = s2
      /\ \A u \in Targets : u # t => listeners'[u] = listeners[u]
  BY <1>2, <1>4, <1>5 DEF EventsTypeOK
<1> DEFINE g(n) == IF E!Visited(stack[n]) = t
                   THEN [stack[n] EXCEPT !.kept = stack[n].kept \ {l}] ELSE stack[n]
<1>7. stack' = [n \in DOMAIN stack |-> g(n)]
  BY DEF E!removeEventListener
<1>8. \A u \in Targets : Distinct(listeners'[u])
  BY <1>5, <1>6 DEF EventsIInv
<1>9. ASSUME NEW n \in DOMAIN stack
      PROVE  /\ g(n) \in Frames /\ g(n).ev = stack[n].ev /\ g(n).calling = stack[n].calling
             /\ FrameRight(g(n), ListOf(listeners', g(n)), evt[stack[n].ev])
  <2> DEFINE f == stack[n]
  <2>1. f \in Frames /\ FrameRight(f, ListOf(listeners, f), evt[f.ev])
    BY <1>9, ListsRight
  <2>2. CASE E!Visited(f) # t
    <3>1. g(n) = f
      BY <2>2
    <3>2. ListOf(listeners', f) = ListOf(listeners, f)
      BY <1>6, <1>9, <2>2, ListsRight DEF ListOf
    <3> QED
      BY <2>1, <3>1, <3>2
  <2>3. CASE E!Visited(f) = t
    <3>0. PICK h : h = Without(f, l)
      OBVIOUS
    <3>1. g(n) = h
      BY <2>3, <3>0 DEF Without
    <3>2. /\ h.j = f.j /\ h.ev = f.ev /\ h.calling = f.calling
          /\ h.visit = f.visit /\ h.path = f.path /\ h.target = f.target
      BY <2>1, <3>0 DEF Frames, Without
    <3>3. E!Visited(h) = E!Visited(f)
      BY <3>2 DEF E!Visited, E!AtTarget
    <3>4. CASE f.j = 0
      <4>1. ListOf(listeners, f) = <<>> /\ ListOf(listeners', h) = <<>>
        BY <3>2, <3>4 DEF ListOf
      <4>2. <<>> \in Lists /\ Less(<<>>, <<>>, l)
        BY DEF Less
      <4>3. h \in Frames /\ FrameRight(h, <<>>, evt[f.ev])
        BY <1>1, <2>1, <3>0, <4>1, <4>2, FrameLess
      <4> QED
        BY <3>1, <3>2, <4>1, <4>3
    <3>5. CASE f.j # 0
      <4>1. ListOf(listeners, f) = listeners[t] /\ ListOf(listeners', h) = s2
        BY <1>6, <2>3, <3>2, <3>3, <3>5 DEF ListOf
      <4>2. FrameRight(f, listeners[t], evt[f.ev])
        BY <2>1, <4>1
      <4>3. h \in Frames /\ FrameRight(h, s2, evt[f.ev])
        BY <1>1, <1>3, <1>5, <2>1, <3>0, <4>2, FrameLess
      <4> QED
        BY <3>1, <3>2, <4>1, <4>3
    <3> QED
      BY <3>4, <3>5
  <2> QED
    BY <2>2, <2>3
<1> HIDE DEF g
<1>10. stack' \in Seq(Frames) /\ Len(stack') = Len(stack) /\ DOMAIN stack' = DOMAIN stack
  BY <1>2, <1>7, <1>9 DEF EventsTypeOK
<1>11. \A n \in DOMAIN stack : stack'[n] = g(n)
  BY <1>7
<1>12. EventsTypeOK' /\ WellFounded'
  BY <1>2, <1>6, <1>10 DEF EventsTypeOK, EventsIInv, WellFounded
<1>13. \A n \in DOMAIN stack : n < Len(stack) => stack[n].calling
  BY DEF EventsIInv
<1> QED
  BY <1>2, <1>8, <1>9, <1>10, <1>11, <1>12, <1>13 DEF EventsIInv

LEMMA NothingStep ==
  ASSUME EventsIInv, UNCHANGED <<listeners, parent, evt, stack>>
  PROVE  EventsIInv'
BY DEF EventsIInv, EventsTypeOK, WellFounded

(* The event objects change while code of the program runs.                 *)
LEMMA OthersRight ==
  ASSUME EventsIInv, E!ClientRuns, NEW n \in DOMAIN stack,
         evt[stack[n].ev].sp => evt'[stack[n].ev].sp
  PROVE  FrameRight(stack[n], ListOf(listeners, stack[n]), evt'[stack[n].ev])
<1>1. stack[n].calling
  BY AllCall
<1>2. FrameRight(stack[n], ListOf(listeners, stack[n]), evt[stack[n].ev])
  BY ListsRight
<1> QED
  BY <1>1, <1>2, FrameOther

LEMMA EventStep ==
  ASSUME EventsIInv, E!ClientRuns, UNCHANGED <<listeners, parent, stack>>,
         evt' \in [Evts -> EventRecords],
         \A ev \in Evts : evt[ev].sp => evt'[ev].sp
  PROVE  EventsIInv'
<1>1. EventsTypeOK' /\ WellFounded'
  BY DEF EventsIInv, EventsTypeOK, WellFounded
<1>2. \A n \in DOMAIN stack : FrameRight(stack[n], ListOf(listeners, stack[n]), evt'[stack[n].ev])
  BY ListsRight, OthersRight
<1> QED
  BY <1>1, <1>2 DEF EventsIInv

LEMMA InitEventStep ==
  ASSUME EventsIInv, NEW ev \in Evts, NEW type \in Types, NEW b \in BOOLEAN, NEW c \in BOOLEAN,
         E!initEvent(ev, type, b, c)
  PROVE  EventsIInv'
<1>1. E!ClientRuns /\ UNCHANGED <<listeners, parent, stack>>
  BY DEF E!initEvent
<1>2. evt \in [Evts -> EventRecords]
  BY DEF EventsIInv, EventsTypeOK
<1> DEFINE r == [evt[ev] EXCEPT !.type = type, !.bubbles = b, !.cancelable = c]
<1>3. r \in EventRecords /\ r.sp = evt[ev].sp
  BY <1>2 DEF EventRecords
<1>4. evt' = [evt EXCEPT ![ev] = r]
  BY <1>2 DEF E!initEvent, EventRecords
<1> HIDE DEF r
<1>5. evt' \in [Evts -> EventRecords] /\ \A x \in Evts : evt[x].sp => evt'[x].sp
  BY <1>2, <1>3, <1>4
<1> QED
  BY <1>1, <1>5, EventStep

LEMMA TopIs ==
  ASSUME EventsIInv, stack # <<>>
  PROVE  Len(stack) \in DOMAIN stack /\ E!Top = stack[Len(stack)] /\ E!Top \in Frames
<1>1. stack \in Seq(Frames)
  BY DEF EventsIInv, EventsTypeOK
<1> QED
  BY <1>1 DEF E!Top, E!Last

LEMMA PreventStep == ASSUME EventsIInv, E!preventDefault PROVE EventsIInv'
<1>1. E!ClientRuns /\ UNCHANGED <<listeners, parent, stack>>
  BY DEF E!preventDefault, E!ClientRuns
<1>2. evt \in [Evts -> EventRecords]
  BY DEF EventsIInv, EventsTypeOK
<1>3. E!Top.ev \in Evts
  <2>1. E!Top \in Frames
    BY TopIs DEF E!preventDefault
  <2> QED
    BY <2>1 DEF Frames
<1>4. evt' = [evt EXCEPT ![E!Top.ev] = [evt[E!Top.ev] EXCEPT !.pd = TRUE]]
  BY DEF E!preventDefault
<1>5. [evt[E!Top.ev] EXCEPT !.pd = TRUE] \in EventRecords
  BY <1>2, <1>3 DEF EventRecords
<1>6. [evt[E!Top.ev] EXCEPT !.pd = TRUE].sp = evt[E!Top.ev].sp
  BY <1>2, <1>3 DEF EventRecords
<1>7. evt' \in [Evts -> EventRecords] /\ \A x \in Evts : evt[x].sp => evt'[x].sp
  BY <1>2, <1>4, <1>5, <1>6
<1> QED
  BY <1>1, <1>7, EventStep

LEMMA DetachStep == ASSUME EventsIInv, NEW t \in Targets, E!Detach(t),
                           NULL \notin Targets
                    PROVE  EventsIInv'
<1>1. UNCHANGED <<listeners, evt, stack>> /\ parent' = [parent EXCEPT ![t] = NULL]
  BY DEF E!Detach
<1>2. EventsTypeOK
  BY DEF EventsIInv
<1>3. EventsTypeOK'
  BY <1>1, <1>2 DEF EventsTypeOK
<1>4. WellFounded'
  <2> SUFFICES ASSUME NEW S \in SUBSET Targets, S # {} PROVE \E u \in S : parent'[u] \notin S
    BY DEF WellFounded
  <2>1. PICK u \in S : parent[u] \notin S
    BY DEF EventsIInv, WellFounded
  <2> QED
    BY <1>1, <1>2, <2>1 DEF EventsTypeOK
<1> QED
  BY <1>1, <1>3, <1>4 DEF EventsIInv

(* The innermost frame becomes another.                                     *)
LEMMA TopBecomes ==
  ASSUME EventsIInv, stack # <<>>, NEW g \in Frames, E!Becomes(g), UNCHANGED <<listeners, parent>>,
         evt' \in [Evts -> EventRecords],
         FrameRight(g, ListOf(listeners, g), evt'[g.ev]),
         \A n \in DOMAIN stack : n < Len(stack) =>
           FrameRight(stack[n], ListOf(listeners, stack[n]), evt'[stack[n].ev])
  PROVE  EventsIInv'
<1>1. stack \in Seq(Frames) /\ EventsTypeOK
  BY DEF EventsIInv, EventsTypeOK
<1>2. /\ stack' \in Seq(Frames) /\ Len(stack') = Len(stack) /\ DOMAIN stack' = DOMAIN stack
      /\ stack'[Len(stack)] = g
      /\ \A n \in DOMAIN stack : n < Len(stack) => stack'[n] = stack[n]
  BY <1>1 DEF E!Becomes
<1>3. EventsTypeOK' /\ WellFounded'
  BY <1>1, <1>2 DEF EventsIInv, EventsTypeOK, WellFounded
<1>4. \A n \in DOMAIN stack : n = Len(stack) \/ n < Len(stack)
  BY <1>1
<1>5. \A n \in DOMAIN stack : n < Len(stack) => stack[n].calling
  BY DEF EventsIInv
<1>6. \A n \in DOMAIN stack' : FrameRight(stack'[n], ListOf(listeners, stack'[n]), evt'[stack'[n].ev])
  BY <1>2, <1>4
<1>7. \A n \in DOMAIN stack' : n < Len(stack') => stack'[n].calling
  BY <1>2, <1>5
<1> QED
  BY <1>3, <1>6, <1>7 DEF EventsIInv

LEMMA TopGoesOn ==
  ASSUME EventsIInv, stack # <<>>, NEW g \in Frames, E!Becomes(g), UNCHANGED <<listeners, parent, evt>>,
         FrameRight(g, ListOf(listeners, g), evt[g.ev])
  PROVE  EventsIInv'
<1>1. evt' \in [Evts -> EventRecords]
  BY DEF EventsIInv, EventsTypeOK
<1>2. \A n \in DOMAIN stack : FrameRight(stack[n], ListOf(listeners, stack[n]), evt'[stack[n].ev])
  BY ListsRight
<1> QED
  BY <1>1, <1>2, TopBecomes

LEMMA StopStep == ASSUME EventsIInv, E!stopPropagation PROVE EventsIInv'
<1>1. E!ClientRuns /\ UNCHANGED <<listeners, parent>> /\ stack # <<>> /\ E!Top.calling
  BY DEF E!stopPropagation, E!ClientRuns
<1>2. Len(stack) \in DOMAIN stack /\ E!Top = stack[Len(stack)] /\ E!Top \in Frames
  BY <1>1, TopIs
<1>3. PICK f : f = E!Top
  OBVIOUS
<1>4. f \in Frames /\ f.calling /\ f.ev \in Evts /\ f.visit \in Nat /\ f.stopped \in Nat
  BY <1>1, <1>2, <1>3 DEF Frames
<1>5. PICK g : g = StoppedHere(f)
  OBVIOUS
<1>6. E!Becomes(g)
  <2>1. stack' = [stack EXCEPT ![Len(stack)].stopped =
                    IF stack[Len(stack)].stopped = 0 THEN E!Top.visit ELSE stack[Len(stack)].stopped]
    BY <1>2 DEF E!stopPropagation
  <2>2. stack' = [stack EXCEPT ![Len(stack)].stopped = IF f.stopped = 0 THEN f.visit ELSE f.stopped]
    BY <1>2, <1>3, <2>1
  <2>3. stack' = [stack EXCEPT ![Len(stack)] = [f EXCEPT !.stopped = IF f.stopped = 0 THEN f.visit ELSE f.stopped]]
    BY <1>2, <1>3, <2>2
  <2> QED
    BY <1>5, <2>3 DEF E!Becomes, StoppedHere
<1>7. evt \in [Evts -> EventRecords]
  BY DEF EventsIInv, EventsTypeOK
<1> DEFINE r == [evt[f.ev] EXCEPT !.sp = TRUE]
<1>8. r \in EventRecords /\ r.sp /\ r.type = evt[f.ev].type
  BY <1>4, <1>7 DEF EventRecords
<1>9. evt' = [evt EXCEPT ![f.ev] = r]
  BY <1>3 DEF E!stopPropagation
<1> HIDE DEF r
<1>10. /\ evt' \in [Evts -> EventRecords] /\ evt'[f.ev] = r
       /\ \A x \in Evts : evt[x].sp => evt'[x].sp
  BY <1>4, <1>7, <1>8, <1>9
<1>11. PICK s : s = ListOf(listeners, f)
  OBVIOUS
<1>12. PICK e : e = evt[f.ev]
  OBVIOUS
<1>13. FrameRight(f, s, e)
  BY <1>2, <1>3, <1>11, <1>12, ListsRight
<1>14. g \in Frames /\ FrameRight(g, s, r)
  BY <1>4, <1>5, <1>8, <1>12, <1>13, FrameStopped
<1>15. g.ev = f.ev /\ ListOf(listeners, g) = s
  <2>1. g.ev = f.ev /\ g.j = f.j /\ g.visit = f.visit /\ g.path = f.path /\ g.target = f.target
    BY <1>4, <1>5 DEF StoppedHere, Frames
  <2> QED
    BY <1>11, <2>1 DEF ListOf, E!Visited, E!AtTarget
<1>16. FrameRight(g, ListOf(listeners, g), evt'[g.ev])
  BY <1>10, <1>14, <1>15
<1>17. \A n \in DOMAIN stack : FrameRight(stack[n], ListOf(listeners, stack[n]), evt'[stack[n].ev])
  BY <1>1, <1>10, ListsRight, OthersRight
<1> QED
  BY <1>1, <1>6, <1>10, <1>14, <1>16, <1>17, TopBecomes

LEMMA DispatchStep ==
  ASSUME E!EventsAssumption, EventsIInv, NEW t \in Targets, NEW ev \in Evts,
         E!dispatchEvent(t, ev)
  PROVE  EventsIInv'
<1>1. NULL \notin Targets
  BY DEF E!EventsAssumption
<1>2. /\ E!ClientRuns /\ UNCHANGED <<listeners, parent>>
      /\ \A n \in DOMAIN stack : stack[n].ev # ev
  BY DEF E!dispatchEvent
<1>3. EventsTypeOK /\ WellFounded
  BY DEF EventsIInv
<1>4. evt \in [Evts -> EventRecords] /\ stack \in Seq(Frames)
  BY <1>3 DEF EventsTypeOK
<1> DEFINE r == [evt[ev] EXCEPT !.sp = FALSE, !.pd = FALSE]
<1>5. r \in EventRecords
  BY <1>4 DEF EventRecords
<1>6. evt' = [evt EXCEPT ![ev] = r]
  BY <1>4 DEF E!dispatchEvent, EventRecords
<1> HIDE DEF r
<1>7. evt' \in [Evts -> EventRecords] /\ \A x \in Evts : x # ev => evt'[x] = evt[x]
  BY <1>4, <1>5, <1>6
<1>8. \A n \in DOMAIN stack : /\ FrameRight(stack[n], ListOf(listeners, stack[n]), evt'[stack[n].ev])
                              /\ stack[n].calling
  BY <1>2, <1>7, ListsRight, AllCall
<1>9. CASE stack' = stack
  <2>1. EventsTypeOK' /\ WellFounded'
    BY <1>2, <1>3, <1>7, <1>9 DEF EventsTypeOK, WellFounded
  <2> QED
    BY <1>2, <1>8, <1>9, <2>1 DEF EventsIInv
<1>10. CASE stack' = Append(stack, E!Frame(ev, t, E!Ancestors[t]))
  <2>1. PICK p : p = E!Ancestors[t]
    OBVIOUS
  <2>2. p \in Seq(Targets)
    BY <1>1, <1>3, <2>1, AncestorsRight
  <2>3. PICK g : g = E!Frame(ev, t, p)
    OBVIOUS
  <2>4. PICK e : e = evt'[ev]
    OBVIOUS
  <2>5. g \in Frames /\ FrameRight(g, <<>>, e)
    BY <2>2, <2>3, FrameNew
  <2>6. g.ev = ev /\ g.j = 0
    BY <2>3 DEF E!Frame
  <2>7. /\ stack' \in Seq(Frames) /\ Len(stack') = Len(stack) + 1 /\ Len(stack) \in Nat
        /\ stack'[Len(stack) + 1] = g
        /\ DOMAIN stack' = 1 .. Len(stack) + 1 /\ DOMAIN stack = 1 .. Len(stack)
        /\ \A n \in DOMAIN stack : stack'[n] = stack[n]
    BY <1>4, <1>10, <2>1, <2>3, <2>5
  <2>8. EventsTypeOK' /\ WellFounded'
    BY <1>2, <1>3, <1>7, <2>7 DEF EventsTypeOK, WellFounded
  <2>9. FrameRight(g, ListOf(listeners, g), evt'[g.ev])
    BY <2>4, <2>5, <2>6 DEF ListOf
  <2>10. \A n \in DOMAIN stack' :
           /\ FrameRight(stack'[n], ListOf(listeners, stack'[n]), evt'[stack'[n].ev])
           /\ n < Len(stack') => stack'[n].calling
    <3> SUFFICES ASSUME NEW n \in DOMAIN stack'
                 PROVE  /\ FrameRight(stack'[n], ListOf(listeners, stack'[n]), evt'[stack'[n].ev])
                        /\ n < Len(stack') => stack'[n].calling
      OBVIOUS
    <3>1. CASE n = Len(stack) + 1
      BY <2>7, <2>9, <3>1
    <3>2. CASE n # Len(stack) + 1
      <4>1. n \in DOMAIN stack
        BY <2>7, <3>2
      <4> QED
        BY <1>8, <2>7, <4>1
    <3> QED
      BY <3>1, <3>2
  <2> QED
    BY <1>2, <2>8, <2>10 DEF EventsIInv
<1> QED
  BY <1>9, <1>10 DEF E!dispatchEvent

LEMMA NotOver ==
  ASSUME NEW f \in Frames, Placed(f), ~E!Over(f)
  PROVE  f.visit \in 1 .. E!AtTarget(f) + Len(f.path) /\ ~evt[f.ev].sp
<1>1. f.visit \in Nat /\ f.path \in Seq(Targets)
  BY DEF Frames
<1> QED
  BY <1>1 DEF Placed, E!Over, E!AtTarget

LEMMA BeginsStep ==
  ASSUME E!EventsAssumption, EventsIInv, E!TriggerBegins
  PROVE  EventsIInv'
<1>1. /\ stack # <<>> /\ ~E!Top.calling /\ E!Top.j = 0 /\ ~E!Over(E!Top)
      /\ UNCHANGED <<listeners, parent, evt>> /\ NULL \notin Listeners
  BY DEF E!TriggerBegins, E!Going, E!EventsAssumption
<1>2. Len(stack) \in DOMAIN stack /\ E!Top = stack[Len(stack)] /\ E!Top \in Frames
  BY <1>1, TopIs
<1>3. PICK f : f = E!Top
  OBVIOUS
<1>4. PICK e : e = evt[f.ev]
  OBVIOUS
<1>5. FrameRight(f, <<>>, e)
  <2>1. FrameRight(f, ListOf(listeners, f), e)
    BY <1>2, <1>3, <1>4, ListsRight
  <2>2. ListOf(listeners, f) = <<>>
    BY <1>1, <1>3 DEF ListOf
  <2> QED
    BY <2>1, <2>2
<1>6. f.visit \in 1 .. E!AtTarget(f) + Len(f.path) /\ ~e.sp
  <2>1. Placed(f)
    BY <1>5 DEF FrameRight
  <2> QED
    BY <1>1, <1>2, <1>3, <1>4, <2>1, NotOver
<1>7. f.visit <= E!AtTarget(f) + Len(f.path)
  BY <1>6
<1>8. PICK s : s = listeners[E!Visited(f)]
  OBVIOUS
<1>9. s \in Lists
  <2>1. E!Visited(f) \in Targets
    BY <1>2, <1>3, <1>6, VisitedIn
  <2> QED
    BY <1>8, <2>1 DEF EventsIInv, EventsTypeOK
<1>10. CASE E!Becomes(E!Onward(f))
  <2>1. PICK g : g = E!Onward(f)
    OBVIOUS
  <2>2. g \in Frames /\ FrameRight(g, <<>>, e) /\ g.j = 0 /\ g.ev = f.ev
    BY <1>1, <1>2, <1>3, <1>5, <1>7, <2>1, FrameOnward
  <2>3. FrameRight(g, ListOf(listeners, g), evt[g.ev])
    BY <1>4, <2>2 DEF ListOf
  <2> QED
    BY <1>1, <1>10, <2>1, <2>2, <2>3, TopGoesOn
<1>11. CASE s # <<>> /\ ~E!Becomes(E!Onward(f))
  <2>1. PICK R : R = Somebody(s)
    OBVIOUS
  <2>2. PICK g : g = Begun(f, s, R)
    OBVIOUS
  <2>3. g \in Frames /\ FrameRight(g, s, e)
    BY <1>1, <1>2, <1>3, <1>5, <1>7, <1>6, <1>9, <1>11, <2>1, <2>2, FrameBegins
  <2>4. E!Registered(E!Visited(f)) = R
    BY <1>8, <2>1 DEF E!Registered, E!Range, Somebody
  <2>5. E!Becomes(g)
    BY <1>3, <1>8, <1>11, <2>2, <2>4 DEF E!TriggerBegins, Begun
  <2>6. /\ g.ev = f.ev /\ g.j = 1 /\ g.visit = f.visit /\ g.path = f.path
        /\ g.target = f.target
    BY <1>2, <1>3, <2>2 DEF Begun, Frames
  <2>7. ListOf(listeners, g) = s
    BY <1>8, <2>6 DEF ListOf, E!Visited, E!AtTarget
  <2>8. FrameRight(g, ListOf(listeners, g), evt[g.ev])
    BY <1>4, <2>3, <2>6, <2>7
  <2> QED
    BY <1>1, <2>3, <2>5, <2>8, TopGoesOn
<1> QED
  BY <1>3, <1>8, <1>10, <1>11 DEF E!TriggerBegins

(* A dispatch that is in the middle of a visit.                             *)
LEMMA InVisit ==
  ASSUME E!EventsAssumption, EventsIInv, stack # <<>>, E!Top.j # 0,
         NEW f, f = E!Top, NEW s, s = listeners[E!Visited(f)], NEW e, e = evt[f.ev]
  PROVE  /\ f \in Frames /\ s \in Lists /\ Distinct(s) /\ e \in EventRecords
         /\ FrameRight(f, s, e) /\ NULL \notin Listeners /\ f.j > 0
         /\ f.visit <= E!AtTarget(f) + Len(f.path)
         /\ \A i \in f.j .. Len(f.copy) : E!Wanted(f, i) <=> Fits(f, s, e, i)
<1>1. Len(stack) \in DOMAIN stack /\ E!Top = stack[Len(stack)] /\ E!Top \in Frames
  BY TopIs
<1>2. /\ FrameRight(f, ListOf(listeners, f), e) /\ e \in EventRecords
      /\ ListOf(listeners, f) = s /\ s \in Lists /\ Distinct(s)
  BY <1>1, ListsRight
<1>3. NULL \notin Listeners
  BY DEF E!EventsAssumption
<1>4. f.j > 0
  BY <1>1 DEF Frames
<1>5. f.visit <= E!AtTarget(f) + Len(f.path)
  BY <1>2 DEF FrameRight, Placed
<1>6. \A i \in f.j .. Len(f.copy) : E!Wanted(f, i) <=> Fits(f, s, e, i)
  BY DEF E!Wanted, Fits
<1> QED
  BY <1>1, <1>2, <1>3, <1>4, <1>5, <1>6

LEMMA EndsStep ==
  ASSUME E!EventsAssumption, EventsIInv, E!TriggerEnds
  PROVE  EventsIInv'
<1>1. /\ stack # <<>> /\ ~E!Top.calling /\ E!Top.j # 0 /\ UNCHANGED <<listeners, parent, evt>>
  <2>1. stack # <<>> /\ E!Top.j > 0
    BY DEF E!TriggerEnds, E!Going
  <2>2. E!Top.j # 0
    BY <2>1, TopIs DEF Frames
  <2> QED
    BY <2>1, <2>2 DEF E!TriggerEnds, E!Going
<1>2. PICK f : f = E!Top
  OBVIOUS
<1>3. PICK s, e : s = listeners[E!Visited(f)] /\ e = evt[f.ev]
  OBVIOUS
<1>4. f \in Frames /\ FrameRight(f, s, e) /\ f.visit <= E!AtTarget(f) + Len(f.path)
  BY <1>1, <1>2, <1>3, InVisit
<1>5. PICK g : g = E!Onward(f)
  OBVIOUS
<1>6. g \in Frames /\ FrameRight(g, <<>>, e) /\ g.j = 0 /\ g.ev = f.ev
  BY <1>1, <1>2, <1>4, <1>5, FrameOnward
<1>7. FrameRight(g, ListOf(listeners, g), evt[g.ev])
  BY <1>3, <1>6 DEF ListOf
<1>8. E!Becomes(g)
  BY <1>2, <1>5 DEF E!TriggerEnds
<1> QED
  BY <1>1, <1>6, <1>7, <1>8, TopGoesOn

LEMMA ReturnsStep ==
  ASSUME E!EventsAssumption, EventsIInv, E!ListenerReturns
  PROVE  EventsIInv'
<1>1. stack # <<>> /\ E!Top.calling /\ UNCHANGED <<listeners, parent, evt>>
  BY DEF E!ListenerReturns
<1>2. Len(stack) \in DOMAIN stack /\ E!Top = stack[Len(stack)] /\ E!Top \in Frames
  BY <1>1, TopIs
<1>3. PICK f : f = E!Top
  OBVIOUS
<1>4. PICK s, e : s = ListOf(listeners, f) /\ e = evt[f.ev]
  OBVIOUS
<1>5. FrameRight(f, s, e)
  BY <1>2, <1>3, <1>4, ListsRight
<1>6. PICK g : g = Returned(f)
  OBVIOUS
<1>7. g \in Frames /\ FrameRight(g, s, e)
  BY <1>1, <1>2, <1>3, <1>5, <1>6, FrameReturns
<1>8. /\ g.ev = f.ev /\ g.j = f.j + 1 /\ g.visit = f.visit /\ g.path = f.path
      /\ g.target = f.target
  BY <1>2, <1>3, <1>6 DEF Returned, Frames
<1>9. f.j # 0 /\ g.j # 0
  <2>1. Placed(f) /\ f.j \in Nat
    BY <1>2, <1>3, <1>5 DEF FrameRight, Frames
  <2> QED
    BY <1>1, <1>3, <1>8, <2>1 DEF Placed
<1>10. ListOf(listeners, g) = s
  BY <1>4, <1>8, <1>9 DEF ListOf, E!Visited, E!AtTarget
<1>11. E!Becomes(g)
  BY <1>3, <1>6 DEF E!ListenerReturns, Returned
<1> QED
  BY <1>1, <1>4, <1>7, <1>8, <1>10, <1>11, TopGoesOn

LEMMA CallChooses ==
  ASSUME E!EventsAssumption, EventsIInv, E!Call
  PROVE  \E i \in E!Top.j .. Len(E!Top.copy) :
           /\ i = E!Min(E!Ahead(E!Top)) /\ E!Wanted(E!Top, i)
           /\ \A k \in E!Top.j .. i - 1 : ~E!Wanted(E!Top, k)
<1> DEFINE ahead == E!Ahead(E!Top)
<1>1. stack # <<>> /\ ahead # {}
  BY DEF E!Call, E!Going
<1>2. E!Top.j \in Nat /\ E!Top.copy \in Seq(Fns)
  BY <1>1, TopIs DEF Frames
<1>3. ahead \subseteq Nat
  BY <1>2 DEF E!Ahead
<1>4. PICK m \in ahead : \A k \in ahead : m <= k
  BY <1>1, <1>3, LeastNatural
<1> HIDE DEF ahead
<1>5. E!Min(ahead) \in ahead /\ \A k \in ahead : E!Min(ahead) <= k
  BY <1>4 DEF E!Min
<1> DEFINE i == E!Min(ahead)
<1>6. i \in E!Top.j .. Len(E!Top.copy) /\ E!Wanted(E!Top, i)
  BY <1>5 DEF ahead, E!Ahead
<1>7. ASSUME NEW k \in E!Top.j .. i - 1 PROVE ~E!Wanted(E!Top, k)
  <2>1. k \notin ahead
    BY <1>2, <1>5, <1>6, <1>7
  <2>2. k \in E!Top.j .. Len(E!Top.copy)
    BY <1>2, <1>6, <1>7
  <2> QED
    BY <2>1, <2>2 DEF ahead, E!Ahead
<1> QED
  BY <1>6, <1>7 DEF ahead

LEMMA CallStep ==
  ASSUME E!EventsAssumption, EventsIInv, E!Call
  PROVE  EventsIInv'
<1>1. /\ stack # <<>> /\ ~E!Top.calling /\ E!Top.j # 0 /\ UNCHANGED <<listeners, parent, evt>>
  <2>1. stack # <<>> /\ E!Top.j > 0
    BY DEF E!Call, E!Going
  <2>2. E!Top.j # 0
    BY <2>1, TopIs DEF Frames
  <2> QED
    BY <2>1, <2>2 DEF E!Call, E!Going
<1>2. PICK f : f = E!Top
  OBVIOUS
<1>3. PICK s, e : s = listeners[E!Visited(f)] /\ e = evt[f.ev]
  OBVIOUS
<1>4. /\ f \in Frames /\ s \in Lists /\ Distinct(s) /\ FrameRight(f, s, e)
      /\ NULL \notin Listeners /\ f.j > 0
      /\ \A i \in f.j .. Len(f.copy) : E!Wanted(f, i) <=> Fits(f, s, e, i)
  BY <1>1, <1>2, <1>3, InVisit
<1>5. PICK i \in f.j .. Len(f.copy) : /\ i = E!Min(E!Ahead(f)) /\ E!Wanted(f, i)
                                      /\ \A k \in f.j .. i - 1 : ~E!Wanted(f, k)
  BY <1>2, CallChooses
<1>6. Fits(f, s, e, i) /\ \A k \in f.j .. i - 1 : ~Fits(f, s, e, k)
  <2>1. f.j \in Nat /\ Len(f.copy) \in Nat
    BY <1>4 DEF Frames
  <2> QED
    BY <1>4, <1>5, <2>1
<1>7. PICK g : g = Calling(f, i, s[i])
  OBVIOUS
<1>8. g \in Frames /\ FrameRight(g, s, e)
  BY <1>1, <1>2, <1>4, <1>5, <1>6, <1>7, FrameCalls
<1>9. /\ g.ev = f.ev /\ g.j = i /\ g.visit = f.visit /\ g.path = f.path /\ g.target = f.target
  BY <1>4, <1>7 DEF Calling, Frames
<1>10. i # 0
  BY <1>4, <1>5 DEF Frames
<1>11. ListOf(listeners, g) = s
  BY <1>3, <1>9, <1>10 DEF ListOf, E!Visited, E!AtTarget
<1>12. E!Becomes(g)
  BY <1>2, <1>3, <1>5, <1>7 DEF E!Call, Calling
<1> QED
  BY <1>1, <1>3, <1>8, <1>9, <1>11, <1>12, TopGoesOn

LEMMA DispatchReturnsStep ==
  ASSUME EventsIInv, E!DispatchReturns
  PROVE  EventsIInv'
<1>1. stack # <<>> /\ UNCHANGED <<listeners, parent, evt>> /\ stack' = E!Front(stack)
  BY DEF E!DispatchReturns, E!Going
<1>2. EventsTypeOK /\ stack \in Seq(Frames)
  BY DEF EventsIInv, EventsTypeOK
<1>3. stack' = SubSeq(stack, 1, Len(stack) - 1)
  BY <1>1 DEF E!Front
<1>4. Len(stack) \in Nat \ {0} /\ DOMAIN stack = 1 .. Len(stack)
  BY <1>1, <1>2
<1>5. /\ stack' \in Seq(Frames) /\ Len(stack') = Len(stack) - 1
      /\ \A n \in 1 .. Len(stack) - 1 : stack'[n] = stack[n]
  BY <1>2, <1>3, <1>4
<1>6. DOMAIN stack' = 1 .. Len(stack) - 1
  BY <1>4, <1>5
<1>7. EventsTypeOK' /\ WellFounded'
  BY <1>1, <1>2, <1>5 DEF EventsIInv, EventsTypeOK, WellFounded
<1> QED
  BY <1>1, <1>4, <1>5, <1>6, <1>7 DEF EventsIInv

LEMMA EventsNextInv ==
  ASSUME E!EventsAssumption, EventsIInv, [E!Next]_E!vars
  PROVE  EventsIInv'
<1>1. ASSUME NEW t \in Targets, NEW l \in Listeners,
             E!addEventListener(t, l) \/ E!removeEventListener(t, l)
      PROVE  EventsIInv'
  BY <1>1, AddStep, RemoveStep
<1>2. ASSUME NEW ev \in Evts, NEW type \in Types, NEW b \in BOOLEAN, NEW c \in BOOLEAN,
             E!initEvent(ev, type, b, c)
      PROVE  EventsIInv'
  BY <1>2, InitEventStep
<1>3. CASE E!stopPropagation
  BY <1>3, StopStep
<1>4. CASE E!preventDefault
  BY <1>4, PreventStep
<1>5. ASSUME NEW t \in Targets, E!Detach(t) PROVE EventsIInv'
  BY <1>5, DetachStep DEF E!EventsAssumption
<1>6. ASSUME NEW t \in Targets, NEW ev \in Evts, E!dispatchEvent(t, ev) PROVE EventsIInv'
  BY <1>6, DispatchStep
<1>7. CASE E!TriggerBegins
  BY <1>7, BeginsStep
<1>8. CASE E!Call
  BY <1>8, CallStep
<1>9. CASE E!ListenerReturns
  BY <1>9, ReturnsStep
<1>10. CASE E!TriggerEnds
  BY <1>10, EndsStep
<1>11. CASE E!DispatchReturns
  BY <1>11, DispatchReturnsStep
<1>12. CASE UNCHANGED E!vars
  BY <1>12, NothingStep DEF E!vars
<1>13. CASE E!Handled
  BY <1>13, NothingStep DEF E!Handled
<1> QED
  BY <1>1, <1>2, <1>3, <1>4, <1>5, <1>6, <1>7, <1>8, <1>9, <1>10, <1>11, <1>12, <1>13 DEF E!Next

-----------------------------------------------------------------------------
(* What the invariant says of the steps.                                    *)
LEMMA EventsSafe == ASSUME EventsIInv PROVE E!ListenersDistinct
<1>1. stack \in Seq(Frames)
  BY DEF EventsIInv, EventsTypeOK
<1>2. ASSUME NEW n \in DOMAIN stack
      PROVE  /\ stack[n].visit \in 1 .. E!AtTarget(stack[n]) + Len(stack[n].path) + 1
             /\ stack[n].j <= Len(stack[n].copy) + 1
  <2>1. Placed(stack[n])
    BY <1>2, ListsRight DEF FrameRight
  <2> QED
    BY <2>1 DEF Placed
<1>3. ASSUME NEW n \in DOMAIN stack
      PROVE  stack[n].calling <=> n < Len(stack) \/ (n = Len(stack) /\ E!ClientRuns)
  <2>1. n < Len(stack) => stack[n].calling
    BY DEF EventsIInv
  <2>2. n = Len(stack) => (E!ClientRuns <=> stack[n].calling)
    BY <1>1 DEF E!ClientRuns, E!Top, E!Last
  <2>3. n < Len(stack) \/ n = Len(stack)
    BY <1>1
  <2> QED
    BY <1>1, <2>1, <2>2, <2>3
<1>4. \A t \in Targets : Distinct(listeners[t])
  BY DEF EventsIInv
<1> QED
  BY <1>2, <1>3, <1>4 DEF E!ListenersDistinct, Distinct

(* Nobody was missed, and nobody called twice, in the visit that ends.      *)
LEMMA EachOnceStep ==
  ASSUME E!EventsAssumption, EventsIInv, E!TriggerEnds
  PROVE  \/ \E l \in E!Range(E!Top.called) : l.type # evt[E!Top.ev].type
         \/ \A l \in E!Due(E!Top) : \E i \in DOMAIN E!Top.called :
              {k \in DOMAIN E!Top.called : E!Top.called[k] = l} = {i}
<1>1. stack # <<>> /\ ~E!Top.calling /\ E!Top.j > 0 /\ E!Ahead(E!Top) = {}
  BY DEF E!TriggerEnds, E!Going
<1>2. E!Top.j # 0
  BY <1>1, TopIs DEF Frames
<1>3. PICK f : f = E!Top
  OBVIOUS
<1>4. PICK s, e : s = listeners[E!Visited(f)] /\ e = evt[f.ev]
  OBVIOUS
<1>5. /\ f \in Frames /\ s \in Lists /\ Distinct(s) /\ e \in EventRecords
      /\ FrameRight(f, s, e) /\ NULL \notin Listeners
      /\ \A i \in f.j .. Len(f.copy) : E!Wanted(f, i) <=> Fits(f, s, e, i)
  BY <1>1, <1>2, <1>3, <1>4, InVisit
<1>6. \A i \in f.j .. Len(f.copy) : ~Fits(f, s, e, i)
  BY <1>1, <1>3, <1>5 DEF E!Ahead
<1>7. SUFFICES ASSUME \A a \in DOMAIN f.called : f.called[a].type = e.type,
                      NEW l \in E!Due(f)
               PROVE  \E i \in DOMAIN f.called : {k \in DOMAIN f.called : f.called[k] = l} = {i}
  BY <1>3, <1>4 DEF E!Range
<1>8. l \in f.kept /\ l.type = e.type /\ l.capture = (f.visit < E!AtTarget(f))
  BY <1>4, <1>7 DEF E!Due
<1>9. e.type \in Types
  <2>1. l \in Listeners
    BY <1>5, <1>8 DEF Frames
  <2> QED
    BY <1>8, <2>1 DEF E!EventsAssumption
<1> QED
  BY <1>1, <1>3, <1>5, <1>6, <1>7, <1>8, <1>9, FrameEnds

(* Who is passed over without a call had nobody, or DOM_Exception is set.   *)
LEMMA PassesOverStep ==
  ASSUME EventsIInv, E!PassesOver
  PROVE  listeners[E!Visited(E!Top)] = <<>> \/ raised'
<1>1. stack # <<>> /\ E!Becomes(E!Onward(E!Top)) /\ E!TriggerBegins
  BY DEF E!PassesOver, E!TriggerBegins, E!Going
<1>2. /\ Len(stack) \in DOMAIN stack /\ E!Top \in Frames /\ stack \in Seq(Frames)
  BY <1>1, TopIs DEF EventsIInv, EventsTypeOK
<1>3. stack'[Len(stack)] = E!Onward(E!Top)
  BY <1>1, <1>2 DEF E!Becomes
<1>4. stack'[Len(stack)].j = 0
  BY <1>2, <1>3 DEF E!Onward, Frames
<1>5. ASSUME NEW c, NEW o, NEW k, E!Becomes([E!Top EXCEPT !.j = 1, !.copy = c, !.old = o, !.kept = k])
      PROVE  FALSE
  <2>1. stack'[Len(stack)] = [E!Top EXCEPT !.j = 1, !.copy = c, !.old = o, !.kept = k]
    BY <1>2, <1>5 DEF E!Becomes
  <2>2. stack'[Len(stack)].j = 1
    BY <1>2, <2>1 DEF Frames
  <2> QED
    BY <1>4, <2>2
<1> QED
  BY <1>1, <1>5 DEF E!TriggerBegins

LEMMA StopHoldsStep ==
  ASSUME E!EventsAssumption, EventsIInv, E!Call
  PROVE  E!Top.stopped \in {0, E!Top.visit}
<1>1. stack # <<>> /\ E!Top.j > 0
  BY DEF E!Call, E!Going
<1>2. Len(stack) \in DOMAIN stack /\ E!Top = stack[Len(stack)] /\ E!Top \in Frames
  BY <1>1, TopIs
<1>3. StopKnown(E!Top, evt[E!Top.ev])
  BY <1>2, ListsRight DEF FrameRight
<1>4. E!Top.j # 0
  BY <1>1, <1>2 DEF Frames
<1> QED
  BY <1>3, <1>4 DEF StopKnown

LEMMA EventsStep == [Next]_vars => [E!Next]_E!vars
BY DEF Next, Dom, Events, Attributes, vars, eventVars, E!vars

(* A target holds nobody twice, whatever the listeners that run do to it; a *)
(* visit calls everybody it found and nobody removed exactly once, or       *)
(* nobody, and then DOM_Exception is set; and after stopPropagation nobody  *)
(* is called in a later visit.                                              *)
THEOREM ListenersAreCalled == Spec => EventsRight
<1>1. Init => EventsIInv
  BY EventsInitInv, DomcAssumption DEF Init, Start, DomcAssumption
<1>2. EventsIInv /\ [Next]_vars => EventsIInv'
  BY EventsStep, EventsNextInv, DomcAssumption DEF DomcAssumption
<1>3. EventsIInv => E!ListenersDistinct
  BY EventsSafe
<1>4. EventsIInv => (E!TriggerEnds =>
                 \/ \E l \in E!Range(E!Top.called) : l.type # evt[E!Top.ev].type
                 \/ \A l \in E!Due(E!Top) : \E i \in DOMAIN E!Top.called :
                      {k \in DOMAIN E!Top.called : E!Top.called[k] = l} = {i})
  BY EachOnceStep, DomcAssumption DEF DomcAssumption
<1>5. EventsIInv => (E!Call => E!Top.stopped \in {0, E!Top.visit})
  BY StopHoldsStep, DomcAssumption DEF DomcAssumption
<1>10. EventsIInv => (E!PassesOver => listeners[E!Visited(E!Top)] = <<>> \/ raised')
  BY PassesOverStep
<1>6. Spec => []EventsIInv
  BY <1>1, <1>2, PTL DEF Spec
<1>7. Spec => []E!ListenersDistinct
  BY <1>3, <1>6, PTL
<1>8. Spec => E!EachOnce
  BY <1>4, <1>6, <1>10, PTL DEF E!EachOnce
<1>9. Spec => E!StopHolds
  BY <1>5, <1>6, PTL DEF E!StopHolds
<1> QED
  BY <1>7, <1>8, <1>9, PTL DEF EventsRight

HIDE DEF Lists

-----------------------------------------------------------------------------
(* Attributes.                                                              *)
Entries == [id : Nat, node : Attrs]

AttrLists == Seq(Entries)

NodesOf(s) == {s[i].node : i \in DOMAIN s}

(* A map m of a list s.                                                     *)
MapOf(m, s) == /\ m \in [NodesOf(s) -> Nat]
               /\ \A i \in DOMAIN s : m[s[i].node] = s[i].id

(* A list s with a map m or none, when the attributes' names are nm.        *)
ListRight(s, m, nm) ==
  /\ s \in AttrLists
  /\ \A i, j \in DOMAIN s : i # j => s[i].id # s[j].id /\ nm[s[i].node] # nm[s[j].node]
  /\ \A i \in DOMAIN s : nm[s[i].node] # NULL
  /\ m # NULL => MapOf(m, s)

Owned == \A a \in Attrs, e \in Elements :
           name[a] # NULL => (owner[a] = e <=> a \in NodesOf(entries[e]))

AttributesIInv ==
  /\ entries \in [Elements -> AttrLists] /\ DOMAIN map = Elements
  /\ map = [e \in Elements |-> map[e]]
  /\ name \in [Attrs -> Names \cup {NULL}] /\ value \in [Attrs -> Values \cup {NULL}]
  /\ owner \in [Attrs -> Elements \cup {NULL}]
  /\ \A e \in Elements : ListRight(entries[e], map[e], name)
  /\ Owned

-----------------------------------------------------------------------------
(* What the calls look up.                                                  *)
LEMMA PlaceRight ==
  ASSUME NEW e, NEW n, entries[e] \in AttrLists
  PROVE  LET p == A!Place(e, n) IN
         \/ p = 0 /\ \A i \in DOMAIN entries[e] : name[entries[e][i].node] # n
         \/ p \in DOMAIN entries[e] /\ name[entries[e][p].node] = n
<1> DEFINE s == entries[e]
           I == {i \in 1 .. Len(s) : name[s[i].node] = n}
<1>1. A!Place(e, n) = IF I # {} THEN A!Min(I) ELSE 0
  BY DEF A!Place, A!SelectInSeq
<1>2. DOMAIN s = 1 .. Len(s) /\ I \subseteq Nat
  BY DEF AttrLists
<1>3. CASE I # {}
  <2>1. PICK m \in I : \A k \in I : m <= k
    BY <1>2, <1>3, LeastNatural
  <2>2. A!Min(I) \in I
    BY <2>1 DEF A!Min
  <2> QED
    BY <1>1, <1>2, <1>3, <2>2
<1>4. CASE I = {}
  BY <1>1, <1>2, <1>4
<1> QED
  BY <1>3, <1>4

LEMMA NoPlace ==
  ASSUME NEW e, NEW n, entries[e] \in AttrLists, NEW p, p = A!Place(e, n), p = 0
  PROVE  \A i \in DOMAIN entries[e] : name[entries[e][i].node] # n
<1>1. 0 \notin DOMAIN entries[e]
  BY DEF AttrLists
<1>2. \/ A!Place(e, n) = 0 /\ \A i \in DOMAIN entries[e] : name[entries[e][i].node] # n
      \/ A!Place(e, n) \in DOMAIN entries[e] /\ name[entries[e][A!Place(e, n)].node] = n
  BY PlaceRight
<1>3. A!Place(e, n) = 0
  OBVIOUS
<1> QED
  BY <1>1, <1>2, <1>3

LEMMA PlaceOfNode ==
  ASSUME NEW s \in AttrLists, NEW a
  PROVE  LET p == A!SelectInSeq(s, LAMBDA x : x.node = a) IN
         \/ p = 0 /\ a \notin NodesOf(s)
         \/ p \in DOMAIN s /\ s[p].node = a
<1> DEFINE I == {i \in 1 .. Len(s) : s[i].node = a}
<1>1. A!SelectInSeq(s, LAMBDA x : x.node = a) = IF I # {} THEN A!Min(I) ELSE 0
  BY DEF A!SelectInSeq
<1>2. DOMAIN s = 1 .. Len(s) /\ I \subseteq Nat
  BY DEF AttrLists
<1>3. CASE I # {}
  <2>1. PICK m \in I : \A k \in I : m <= k
    BY <1>2, <1>3, LeastNatural
  <2>2. A!Min(I) \in I
    BY <2>1 DEF A!Min
  <2> QED
    BY <1>1, <1>2, <1>3, <2>2
<1>4. CASE I = {}
  BY <1>1, <1>2, <1>4 DEF NodesOf
<1> QED
  BY <1>3, <1>4

LEMMA PlaceOfId ==
  ASSUME NEW s \in AttrLists, NEW id
  PROVE  LET p == A!SelectInSeq(s, LAMBDA x : x.id = id) IN
         \/ p = 0 /\ \A i \in DOMAIN s : s[i].id # id
         \/ p \in DOMAIN s /\ s[p].id = id
<1> DEFINE I == {i \in 1 .. Len(s) : s[i].id = id}
<1>1. A!SelectInSeq(s, LAMBDA x : x.id = id) = IF I # {} THEN A!Min(I) ELSE 0
  BY DEF A!SelectInSeq
<1>2. DOMAIN s = 1 .. Len(s) /\ I \subseteq Nat
  BY DEF AttrLists
<1>3. CASE I # {}
  <2>1. PICK m \in I : \A k \in I : m <= k
    BY <1>2, <1>3, LeastNatural
  <2>2. A!Min(I) \in I
    BY <2>1 DEF A!Min
  <2> QED
    BY <1>1, <1>2, <1>3, <2>2
<1>4. CASE I = {}
  BY <1>1, <1>2, <1>4
<1> QED
  BY <1>3, <1>4

(* With the map, and without, a list finds the nodes it has.                *)
LEMMA LookupRight ==
  ASSUME NEW e, NEW nm, ListRight(entries[e], map[e], nm), NEW a
  PROVE  LET p == A!Lookup(e, a) IN
         \/ p = 0 /\ a \notin NodesOf(entries[e])
         \/ p \in DOMAIN entries[e] /\ entries[e][p].node = a
<1> DEFINE s == entries[e]
           m == map[e]
<1>1. s \in AttrLists /\ (m # NULL => MapOf(m, s))
  BY DEF ListRight
<1>2. CASE m = NULL
  <2> DEFINE p == A!SelectInSeq(s, LAMBDA x : x.node = a)
  <2>1. A!Lookup(e, a) = p
    BY <1>2 DEF A!Lookup
  <2>2. \/ p = 0 /\ a \notin NodesOf(s)
        \/ p \in DOMAIN s /\ s[p].node = a
    BY <1>1, PlaceOfNode
  <2> HIDE DEF p
  <2> QED
    BY <2>1, <2>2
<1>3. CASE m # NULL /\ a \notin NodesOf(s)
  <2>1. a \notin DOMAIN m
    BY <1>1, <1>3 DEF MapOf
  <2>2. A!Lookup(e, a) = 0
    BY <1>3, <2>1 DEF A!Lookup
  <2> QED
    BY <1>3, <2>2
<1>4. CASE m # NULL /\ a \in NodesOf(s)
  <2>1. a \in DOMAIN m
    BY <1>1, <1>4 DEF MapOf
  <2> DEFINE p == A!SelectInSeq(s, LAMBDA x : x.id = m[a])
  <2>2. A!Lookup(e, a) = p
    BY <1>4, <2>1 DEF A!Lookup
  <2>3. PICK i \in DOMAIN s : s[i].node = a
    BY <1>4 DEF NodesOf
  <2>4. s[i].id = m[a]
    BY <1>1, <1>4, <2>3 DEF MapOf
  <2>5. p \in DOMAIN s /\ s[p].id = m[a]
    BY <1>1, <2>3, <2>4, PlaceOfId
  <2> HIDE DEF p
  <2>6. p = i
    BY <2>3, <2>4, <2>5 DEF ListRight
  <2> QED
    BY <2>2, <2>3, <2>6
<1> QED
  BY <1>2, <1>3, <1>4

(* A new entry has a number that no other has.                              *)
LEMMA FreshRight ==
  ASSUME NEW e, entries[e] \in AttrLists
  PROVE  A!Fresh(e) \in Nat /\ \A i \in DOMAIN entries[e] : entries[e][i].id # A!Fresh(e)
<1> DEFINE s == entries[e]
           n == Len(s)
           New(id) == \A i \in DOMAIN s : s[i].id # id
<1>1. n \in Nat /\ DOMAIN s = 1 .. n
  BY DEF AttrLists
<1>2. \E id \in 0 .. n : New(id)
  <2>1. SUFFICES ASSUME \A id \in 0 .. n : ~New(id) PROVE FALSE
    OBVIOUS
  <2> DEFINE f == [id \in 0 .. n |-> CHOOSE i \in 1 .. n : s[i].id = id]
  <2>2. \A id \in 0 .. n : f[id] \in 1 .. n /\ s[f[id]].id = id
    BY <1>1, <2>1
  <2>3. f \in [0 .. n -> 1 .. n]
    BY <2>2
  <2>4. IsFiniteSet(0 .. n) /\ Cardinality(0 .. n) = n + 1
    BY <1>1, FS_Interval
  <2>5. IsFiniteSet(1 .. n) /\ Cardinality(1 .. n) = n
    BY <1>1, FS_Interval
  <2> HIDE DEF f, n
  <2>6. Cardinality(1 .. n) < Cardinality(0 .. n)
    BY <1>1, <2>4, <2>5
  <2>7. \E x, y \in 0 .. n : x # y /\ f[x] = f[y]
    BY <2>3, <2>4, <2>5, <2>6, FS_PigeonHole
  <2> QED
    BY <2>2, <2>7
<1>3. A!Fresh(e) = CHOOSE id \in 0 .. n : New(id)
  BY DEF A!Fresh
<1> HIDE DEF New
<1>4. A!Fresh(e) \in 0 .. n /\ New(A!Fresh(e))
  BY <1>2, <1>3
<1> QED
  BY <1>1, <1>4 DEF New

-----------------------------------------------------------------------------
(* What becomes of one list.                                                *)
LEMMA NamesElsewhere ==
  ASSUME NEW s, NEW m, NEW nm, NEW nm2, ListRight(s, m, nm),
         \A a \in NodesOf(s) : nm2[a] = nm[a]
  PROVE  ListRight(s, m, nm2)
<1>1. \A i \in DOMAIN s : nm2[s[i].node] = nm[s[i].node]
  BY DEF NodesOf
<1> QED
  BY <1>1 DEF ListRight

LEMMA IdsAreNumbers == \A s \in AttrLists : \A i \in DOMAIN s : s[i].id \in Nat
<1>1. \A s \in AttrLists : \A i \in DOMAIN s : s[i] \in Entries
  BY DEF AttrLists
<1>2. \A x \in Entries : x.id \in Nat
  BY DEF Entries
<1> QED
  BY <1>1, <1>2

LEMMA NodesAreAttrs == \A s \in AttrLists : NodesOf(s) \subseteq Attrs
<1>1. \A s \in AttrLists : \A i \in DOMAIN s : s[i] \in Entries
  BY DEF AttrLists
<1>2. \A x \in Entries : x.node \in Attrs
  BY DEF Entries
<1> QED
  BY <1>1, <1>2 DEF NodesOf

LEMMA Joined ==
  ASSUME NEW S, NEW b \in Seq(S), NEW c \in Seq(S)
  PROVE  /\ b \o c \in Seq(S) /\ Len(b \o c) = Len(b) + Len(c)
         /\ \A k \in 1 .. Len(b) : (b \o c)[k] = b[k]
         /\ \A k \in Len(b) + 1 .. Len(b) + Len(c) : (b \o c)[k] = c[k - Len(b)]
OBVIOUS

(* The map of all the nodes of a list, and the one that a node added to it  *)
(* finds, when no put found no memory.                                      *)
LEMMA AllRight ==
  ASSUME NEW s, NEW m, NEW nm, ListRight(s, m, nm)
  PROVE  MapOf(A!All(s), s)
<1>1. A!Range(s) = {s[i] : i \in DOMAIN s}
  BY DEF A!Range
<1>2. {y.node : y \in A!Range(s)} = NodesOf(s)
  BY <1>1 DEF NodesOf
<1> DEFINE c == [b \in NodesOf(s) |-> (CHOOSE y \in A!Range(s) : y.node = b).id]
<1>3. A!All(s) = c
  BY <1>2 DEF A!All
<1>4. ASSUME NEW i \in DOMAIN s PROVE c[s[i].node] = s[i].id
  <2>1. \E y \in A!Range(s) : y.node = s[i].node
    BY <1>1
  <2>2. PICK y \in A!Range(s) : /\ y.node = s[i].node
                                /\ y = CHOOSE z \in A!Range(s) : z.node = s[i].node
    BY <2>1
  <2>3. PICK j \in DOMAIN s : y = s[j]
    BY <1>1
  <2>4. j = i
    BY <2>2, <2>3 DEF ListRight
  <2> QED
    BY <2>2, <2>3, <2>4 DEF NodesOf
<1> HIDE DEF c
<1>5. \A b \in NodesOf(s) : c[b] \in Nat
  BY <1>4, IdsAreNumbers DEF NodesOf, ListRight
<1>6. c \in [NodesOf(s) -> Nat]
  BY <1>5 DEF c
<1> QED
  BY <1>3, <1>4, <1>6 DEF MapOf

LEMMA MapsFollow ==
  ASSUME NEW e, NEW nm, ListRight(entries[e], map[e], nm), NEW m \in A!Maps(e), ~A!Short(e, m)
  PROVE  ListRight(entries[e], m, nm)
<1>1. PICK s : s = entries[e]
  OBVIOUS
<1>2. MapOf(A!All(s), s)
  BY <1>1, AllRight
<1>3. A!Nodes(e) = NodesOf(s)
  BY <1>1 DEF A!Nodes, NodesOf
<1>4. ASSUME NEW gone \in SUBSET NodesOf(s), m = A!Without(A!All(s), gone), m # NULL
      PROVE  m = A!All(s)
  <2>1. DOMAIN m = NodesOf(s)
    BY <1>3, <1>4 DEF A!Short
  <2>2. DOMAIN A!All(s) = NodesOf(s)
    BY <1>2 DEF MapOf
  <2>3. m = [k \in NodesOf(s) \ gone |-> A!All(s)[k]]
    BY <1>4, <2>2 DEF A!Without
  <2>4. NodesOf(s) \ gone = NodesOf(s)
    BY <2>1, <2>3
  <2>5. A!All(s) = [k \in NodesOf(s) |-> A!All(s)[k]]
    BY <1>2, <2>2 DEF MapOf
  <2> QED
    BY <2>3, <2>4, <2>5
<1>5. m = map[e] \/ m = NULL \/ m = A!All(s)
  <2>1. \/ m = map[e] \/ m = NULL
        \/ \E gone \in A!Losses(NodesOf(s)) : m = A!Without(A!All(s), gone)
    BY <1>1, <1>3 DEF A!Maps
  <2> QED
    BY <1>4, <2>1 DEF A!Losses
<1>6. m # NULL => m = map[e] \/ MapOf(m, s)
  BY <1>2, <1>5
<1> QED
  BY <1>1, <1>6 DEF ListRight

LEMMA Appended ==
  ASSUME NEW s, NEW m, NEW nm, ListRight(s, m, nm), NEW a \in Attrs, a \notin NodesOf(s),
         nm[a] # NULL, \A i \in DOMAIN s : nm[s[i].node] # nm[a],
         NEW id \in Nat, \A i \in DOMAIN s : s[i].id # id
  PROVE  /\ ListRight(Append(s, A!Entry(id, a)), A!Put(m, A!Entry(id, a)), nm)
         /\ NodesOf(Append(s, A!Entry(id, a))) = NodesOf(s) \cup {a}
<1> DEFINE x == A!Entry(id, a)
           t == Append(s, x)
           n == Len(s)
<1>1. x \in Entries /\ x.id = id /\ x.node = a
  BY DEF A!Entry, Entries
<1> HIDE DEF x
<1>2. s \in AttrLists /\ n \in Nat /\ DOMAIN s = 1 .. n
  BY DEF ListRight, AttrLists
<1>3. /\ t \in AttrLists /\ DOMAIN t = 1 .. n + 1 /\ t[n + 1] = x
      /\ \A i \in 1 .. n : t[i] = s[i]
  BY <1>1, <1>2 DEF AttrLists
<1> HIDE DEF t, n
<1>4. \A i \in DOMAIN t : (i \in DOMAIN s /\ t[i] = s[i]) \/ (i = n + 1 /\ t[i] = x)
  BY <1>2, <1>3
<1>5. \A i, j \in DOMAIN t : i # j => t[i].id # t[j].id /\ nm[t[i].node] # nm[t[j].node]
  BY <1>1, <1>4 DEF ListRight
<1>6. \A i \in DOMAIN t : nm[t[i].node] # NULL
  BY <1>1, <1>4 DEF ListRight
<1>7. NodesOf(t) = NodesOf(s) \cup {a}
  <2>1. n + 1 \in DOMAIN t /\ \A i \in DOMAIN s : i \in DOMAIN t
    BY <1>2, <1>3
  <2> QED
    BY <1>1, <1>2, <1>3, <1>4, <2>1 DEF NodesOf
<1> DEFINE m2 == [k \in DOMAIN m \cup {a} |-> IF k = a THEN id ELSE m[k]]
<1>8. A!Put(m, x) = IF m = NULL THEN NULL ELSE m2
  BY <1>1 DEF A!Put
<1>9. m # NULL => MapOf(m, s)
  BY DEF ListRight
<1>10. m # NULL => MapOf(m2, t)
  <2> SUFFICES ASSUME m # NULL PROVE MapOf(m2, t)
    OBVIOUS
  <2>1. DOMAIN m = NodesOf(s) /\ \A b \in NodesOf(s) : m[b] \in Nat
    BY <1>9 DEF MapOf
  <2>2. m2 \in [NodesOf(t) -> Nat]
    BY <1>7, <2>1
  <2>3. ASSUME NEW i \in DOMAIN t PROVE m2[t[i].node] = t[i].id
    <3>1. CASE i \in DOMAIN s /\ t[i] = s[i]
      <4>1. s[i].node \in NodesOf(s) /\ s[i].node # a
        BY <3>1 DEF NodesOf
      <4> QED
        BY <1>9, <2>1, <3>1, <4>1 DEF MapOf
    <3>2. CASE t[i] = x
      BY <1>1, <2>1, <3>2
    <3> QED
      BY <1>4, <2>3, <3>1, <3>2
  <2> HIDE DEF m2
  <2> QED
    BY <2>2, <2>3 DEF MapOf
<1> HIDE DEF m2
<1>11. A!Put(m, x) # NULL => MapOf(A!Put(m, x), t)
  BY <1>8, <1>10
<1>12. ListRight(t, A!Put(m, x), nm)
  BY <1>3, <1>5, <1>6, <1>11 DEF ListRight
<1> QED
  BY <1>7, <1>12 DEF t, x

(* An entry without a map gets another node.                                *)
Put(s, p, a) == [s EXCEPT ![p].node = a]

LEMMA Exchanged ==
  ASSUME NEW s, NEW m, NEW nm, ListRight(s, m, nm), m = NULL, NEW a \in Attrs,
         NEW p \in DOMAIN s, nm[a] = nm[s[p].node], a \notin NodesOf(s)
  PROVE  /\ ListRight(Put(s, p, a), m, nm)
         /\ NodesOf(Put(s, p, a)) = (NodesOf(s) \ {s[p].node}) \cup {a}
<1> DEFINE t == Put(s, p, a)
<1>1. s \in AttrLists
  BY DEF ListRight
<1> DEFINE x == [s[p] EXCEPT !.node = a]
<1>2. x \in Entries /\ x.node = a /\ x.id = s[p].id
  <2>1. PICK y : y = s[p]
    OBVIOUS
  <2>2. y \in Entries
    BY <1>1, <2>1 DEF AttrLists
  <2>3. [y EXCEPT !.node = a] \in Entries
    BY <2>2 DEF Entries
  <2>4. [y EXCEPT !.node = a].node = a /\ [y EXCEPT !.node = a].id = y.id
    BY <2>2 DEF Entries
  <2> QED
    BY <2>1, <2>3, <2>4
<1>3. t = [s EXCEPT ![p] = x]
  BY DEF Put
<1> HIDE DEF x, t
<1>4. /\ t \in AttrLists /\ DOMAIN t = DOMAIN s /\ t[p] = x
      /\ \A i \in DOMAIN s : i # p => t[i] = s[i]
  BY <1>1, <1>2, <1>3 DEF AttrLists
<1>5. \A i \in DOMAIN t : t[i].id = s[i].id /\ nm[t[i].node] = nm[s[i].node]
  BY <1>2, <1>4
<1>6. ListRight(t, m, nm)
  BY <1>4, <1>5 DEF ListRight
<1>7. \A i \in DOMAIN s : i # p => s[i].node # s[p].node
  BY DEF ListRight
<1>8. NodesOf(t) = (NodesOf(s) \ {s[p].node}) \cup {a}
  BY <1>2, <1>4, <1>7 DEF NodesOf
<1> QED
  BY <1>6, <1>8 DEF t

LEMMA Removed ==
  ASSUME NEW s, NEW m, NEW nm, ListRight(s, m, nm), NEW i \in DOMAIN s, NEW a, a = s[i].node
  PROVE  /\ ListRight(A!RemoveAt(s, i), IF m = NULL THEN NULL ELSE A!Without(m, {a}), nm)
         /\ NodesOf(A!RemoveAt(s, i)) = NodesOf(s) \ {a}
<1> DEFINE t == A!RemoveAt(s, i)
           n == Len(s)
           w == A!Without(m, {a})
<1>1. s \in AttrLists /\ n \in Nat /\ DOMAIN s = 1 .. n
  BY DEF ListRight, AttrLists
<1>2. t = SubSeq(s, 1, i - 1) \o SubSeq(s, i + 1, n)
  BY DEF A!RemoveAt
<1>3. /\ SubSeq(s, 1, i - 1) \in AttrLists /\ Len(SubSeq(s, 1, i - 1)) = i - 1
      /\ \A k \in 1 .. i - 1 : SubSeq(s, 1, i - 1)[k] = s[k]
  BY <1>1 DEF AttrLists
<1>4. /\ SubSeq(s, i + 1, n) \in AttrLists /\ Len(SubSeq(s, i + 1, n)) = n - i
      /\ \A k \in 1 .. n - i : SubSeq(s, i + 1, n)[k] = s[k + i]
  BY <1>1 DEF AttrLists
<1> DEFINE b == SubSeq(s, 1, i - 1)
           c == SubSeq(s, i + 1, n)
<1> HIDE DEF b, c
<1>5. /\ t \in AttrLists /\ Len(t) = n - 1
      /\ \A k \in 1 .. i - 1 : t[k] = s[k]
      /\ \A k \in i .. n - 1 : t[k] = s[k + 1]
  <2>1. /\ b \in AttrLists /\ c \in AttrLists /\ Len(b) = i - 1 /\ Len(c) = n - i
        /\ t = b \o c /\ i \in 1 .. n
    BY <1>1, <1>2, <1>3, <1>4 DEF b, c
  <2> HIDE DEF t
  <2>2. t \in AttrLists /\ Len(t) = n - 1
    <3>1. b \o c \in Seq(Entries) /\ Len(b \o c) = Len(b) + Len(c)
      BY <2>1, Joined DEF AttrLists
    <3>2. Len(b) + Len(c) = n - 1
      BY <1>1, <2>1
    <3> QED
      BY <2>1, <3>1, <3>2 DEF AttrLists
  <2>3. \A k \in 1 .. i - 1 : t[k] = b[k]
    BY <2>1, Joined DEF AttrLists
  <2>4. \A k \in i .. n - 1 : t[k] = c[k - (i - 1)]
    BY <1>1, <2>1, Joined DEF AttrLists
  <2>5. \A k \in i .. n - 1 : c[k - (i - 1)] = s[k + 1]
    <3>1. SUFFICES ASSUME NEW k \in i .. n - 1 PROVE c[k - (i - 1)] = s[k + 1]
      OBVIOUS
    <3>2. k - (i - 1) \in 1 .. n - i /\ k - (i - 1) + i = k + 1
      BY <1>1, <3>1
    <3> QED
      BY <1>4, <3>2 DEF c
  <2> QED
    BY <1>3, <2>2, <2>3, <2>4, <2>5 DEF b
<1> DEFINE from(k) == IF k < i THEN k ELSE k + 1
<1>6. DOMAIN t = 1 .. n - 1
  BY <1>5 DEF AttrLists
<1>7. \A k \in DOMAIN t : from(k) \in DOMAIN s /\ from(k) # i /\ t[k] = s[from(k)]
  BY <1>1, <1>5, <1>6
<1>8. \A k, l \in DOMAIN t : k # l => from(k) # from(l)
  BY <1>1, <1>6
<1>9. \A k \in DOMAIN s : k # i => \E l \in DOMAIN t : from(l) = k
  <2>1. SUFFICES ASSUME NEW k \in DOMAIN s, k # i PROVE \E l \in DOMAIN t : from(l) = k
    OBVIOUS
  <2>2. CASE k < i
    BY <1>1, <1>6, <2>2
  <2>3. CASE k > i
    <3>1. k - 1 \in DOMAIN t /\ from(k - 1) = k
      BY <1>1, <1>6, <2>3
    <3> QED
      BY <3>1
  <2> QED
    BY <1>1, <2>1, <2>2, <2>3
<1> HIDE DEF t, from, n
<1>10. \A k, l \in DOMAIN t : k # l => t[k].id # t[l].id /\ nm[t[k].node] # nm[t[l].node]
  BY <1>7, <1>8 DEF ListRight
<1>11. \A k \in DOMAIN t : nm[t[k].node] # NULL
  BY <1>7 DEF ListRight
<1>12. NodesOf(t) = NodesOf(s) \ {a}
  <2>1. \A k \in DOMAIN s : k # i => s[k].node # a
    BY DEF ListRight
  <2>2. \A k \in DOMAIN t : t[k].node \in NodesOf(s) \ {a}
    BY <1>7, <2>1 DEF NodesOf
  <2>3. \A k \in DOMAIN s : s[k].node # a => s[k].node \in NodesOf(t)
    BY <1>7, <1>9 DEF NodesOf
  <2> QED
    BY <2>2, <2>3 DEF NodesOf
<1>13. m # NULL => MapOf(w, t)
  <2>1. SUFFICES ASSUME MapOf(m, s) PROVE MapOf(w, t)
    BY DEF ListRight
  <2>2. w = [k \in NodesOf(t) |-> m[k]]
    BY <1>12, <2>1 DEF A!Without, MapOf
  <2>3. w \in [NodesOf(t) -> Nat]
    BY <1>12, <2>1, <2>2 DEF MapOf
  <2>4. \A k \in DOMAIN t : t[k].node \in NodesOf(t)
    BY DEF NodesOf
  <2>5. \A k \in DOMAIN t : w[t[k].node] = t[k].id
    BY <1>7, <2>1, <2>2, <2>4 DEF MapOf
  <2> QED
    BY <2>3, <2>5 DEF MapOf
<1> HIDE DEF w
<1>14. ListRight(t, IF m = NULL THEN NULL ELSE w, nm)
  BY <1>5, <1>10, <1>11, <1>13 DEF ListRight
<1> QED
  BY <1>12, <1>14 DEF t, w

-----------------------------------------------------------------------------
(* What is read under a name of a list s.                                   *)
ReadOf(s, nm, vl, n) == LET p == A!SelectInSeq(s, LAMBDA x : nm[x.node] = n)
                        IN  IF p = 0 THEN NULL ELSE vl[s[p].node]

LEMMA ReadIs ==
  ASSUME NEW s, NEW m, NEW nm, NEW vl, NEW n, ListRight(s, m, nm)
  PROVE  /\ \A a \in NodesOf(s) : nm[a] = n => ReadOf(s, nm, vl, n) = vl[a]
         /\ (\A a \in NodesOf(s) : nm[a] # n) => ReadOf(s, nm, vl, n) = NULL
<1> DEFINE I == {i \in 1 .. Len(s) : nm[s[i].node] = n}
           p == A!SelectInSeq(s, LAMBDA x : nm[x.node] = n)
<1>1. p = IF I # {} THEN A!Min(I) ELSE 0
  BY DEF A!SelectInSeq
<1>2. ReadOf(s, nm, vl, n) = IF p = 0 THEN NULL ELSE vl[s[p].node]
  BY DEF ReadOf
<1> HIDE DEF p
<1>3. DOMAIN s = 1 .. Len(s) /\ I \subseteq Nat
  BY DEF AttrLists, ListRight
<1>4. ASSUME NEW a \in NodesOf(s), nm[a] = n PROVE ReadOf(s, nm, vl, n) = vl[a]
  <2>1. PICK i \in DOMAIN s : s[i].node = a
    BY DEF NodesOf
  <2>2. i \in I
    BY <1>3, <1>4, <2>1
  <2>3. PICK k \in I : \A j \in I : k <= j
    BY <1>3, <2>2, LeastNatural
  <2>4. A!Min(I) \in I
    BY <2>3 DEF A!Min
  <2>5. p \in I
    BY <1>1, <2>2, <2>4
  <2>6. p = i
    BY <1>3, <1>4, <2>1, <2>5 DEF ListRight
  <2>7. p # 0
    BY <2>5
  <2> QED
    BY <1>2, <2>1, <2>6, <2>7
<1>5. ASSUME \A a \in NodesOf(s) : nm[a] # n PROVE ReadOf(s, nm, vl, n) = NULL
  <2>1. I = {}
    BY <1>3, <1>5 DEF NodesOf
  <2> QED
    BY <1>1, <1>2, <2>1
<1> QED
  BY <1>4, <1>5

LEMMA SameRead ==
  ASSUME NEW s, NEW m, NEW nm, NEW vl, NEW s2, NEW m2, NEW nm2, NEW vl2, NEW n,
         ListRight(s, m, nm), ListRight(s2, m2, nm2),
         \A a \in NodesOf(s) : nm[a] = n => a \in NodesOf(s2) /\ nm2[a] = n /\ vl2[a] = vl[a],
         \A a \in NodesOf(s2) : nm2[a] = n => a \in NodesOf(s) /\ nm[a] = n
  PROVE  ReadOf(s2, nm2, vl2, n) = ReadOf(s, nm, vl, n)
<1>1. CASE \E a \in NodesOf(s) : nm[a] = n
  <2>1. PICK a \in NodesOf(s) : nm[a] = n
    BY <1>1
  <2>2. ReadOf(s, nm, vl, n) = vl[a]
    BY <2>1, ReadIs
  <2>3. ReadOf(s2, nm2, vl2, n) = vl2[a]
    BY <2>1, ReadIs
  <2> QED
    BY <2>1, <2>2, <2>3
<1>2. CASE \A a \in NodesOf(s) : nm[a] # n
  <2>1. \A a \in NodesOf(s2) : nm2[a] # n
    BY <1>2
  <2>2. ReadOf(s, nm, vl, n) = NULL
    BY <1>2, ReadIs
  <2>3. ReadOf(s2, nm2, vl2, n) = NULL
    BY <2>1, ReadIs
  <2> QED
    BY <2>2, <2>3
<1> QED
  BY <1>1, <1>2

(* Nothing else but what is read of e under n has changed.                  *)
Only(e, n) == \A x \in Elements, k \in Names :
                x # e \/ k # n => A!Read(x, k)' = A!Read(x, k)

LEMMA OnlyOne ==
  ASSUME AttributesIInv, AttributesIInv', NEW e, NEW n,
         \A x \in Elements, a \in Attrs : (name[a] # n \/ x # e) /\ a \in NodesOf(entries[x]) =>
           a \in NodesOf(entries'[x]) /\ name'[a] = name[a] /\ value'[a] = value[a],
         \A x \in Elements, a \in Attrs : (name'[a] # n \/ x # e) /\ a \in NodesOf(entries'[x]) =>
           a \in NodesOf(entries[x]) /\ name'[a] = name[a]
  PROVE  Only(e, n)
<1> SUFFICES ASSUME NEW x \in Elements, NEW k \in Names, x # e \/ k # n
             PROVE  A!Read(x, k)' = A!Read(x, k)
  BY DEF Only
<1>1. A!Read(x, k) = ReadOf(entries[x], name, value, k)
  BY DEF A!Read, A!Place, ReadOf
<1>2. A!Read(x, k)' = ReadOf(entries'[x], name', value', k)
  BY DEF A!Read, A!Place, ReadOf, A!SelectInSeq
<1>3. ListRight(entries[x], map[x], name) /\ ListRight(entries'[x], map'[x], name')
  BY DEF AttributesIInv
<1>4. NodesOf(entries[x]) \subseteq Attrs /\ NodesOf(entries'[x]) \subseteq Attrs
  BY <1>3, NodesAreAttrs DEF ListRight
<1>5. \A a \in NodesOf(entries[x]) : name[a] = k =>
        a \in NodesOf(entries'[x]) /\ name'[a] = k /\ value'[a] = value[a]
  BY <1>4
<1>6. \A a \in NodesOf(entries'[x]) : name'[a] = k => a \in NodesOf(entries[x]) /\ name[a] = k
  BY <1>4
<1>7. ReadOf(entries'[x], name', value', k) = ReadOf(entries[x], name, value, k)
  <2>1. PICK s, m, s2, m2 : s = entries[x] /\ m = map[x] /\ s2 = entries'[x] /\ m2 = map'[x]
    OBVIOUS
  <2> QED
    BY <1>3, <1>5, <1>6, <2>1, SameRead
<1> QED
  BY <1>1, <1>2, <1>7

-----------------------------------------------------------------------------
(* The steps.                                                               *)
LEMMA AttributesInitInv == ASSUME A!AttributesAssumption, A!Init PROVE AttributesIInv
<1>1. \A e \in Elements : entries[e] = <<>> /\ map[e] = NULL
  BY DEF A!Init
<1>2. <<>> \in AttrLists /\ NodesOf(<<>>) = {}
  BY DEF AttrLists, NodesOf
<1>3. \A e \in Elements : ListRight(entries[e], map[e], name)
  BY <1>1, <1>2 DEF ListRight
<1>4. Owned
  BY DEF Owned, A!Init
<1>5. entries \in [Elements -> AttrLists]
  BY <1>2 DEF A!Init
<1> QED
  BY <1>3, <1>4, <1>5 DEF AttributesIInv, A!Init

LEMMA AppendStep ==
  ASSUME A!AttributesAssumption, AttributesIInv, NEW e \in Elements, NEW a \in Attrs,
         A!NodeList_append(e, a), ~torn', name' \in [Attrs -> Names \cup {NULL}],
         value' \in [Attrs -> Values \cup {NULL}], name'[a] # NULL,
         \A b \in Attrs : b # a => name'[b] = name[b] /\ value'[b] = value[b],
         \A x \in Elements : a \notin NodesOf(entries[x]),
         \A i \in DOMAIN entries[e] : name[entries[e][i].node] # name'[a]
  PROVE  AttributesIInv' /\ Only(e, name'[a])
<1>1. /\ entries \in [Elements -> AttrLists] /\ DOMAIN map = Elements
      /\ owner \in [Attrs -> Elements \cup {NULL}]
      /\ \A x \in Elements : ListRight(entries[x], map[x], name)
  BY DEF AttributesIInv
<1>2. PICK id : id = A!Fresh(e)
  OBVIOUS
<1>3. id \in Nat /\ \A i \in DOMAIN entries[e] : entries[e][i].id # id
  BY <1>1, <1>2, FreshRight
<1>4. PICK s : s = entries[e]
  OBVIOUS
<1>5. PICK m \in A!Maps(e) :
        /\ entries' = [entries EXCEPT ![e] = Append(@, A!Entry(id, a))]
        /\ map' = [map EXCEPT ![e] = A!Put(m, A!Entry(id, a))]
        /\ torn' = A!Short(e, m)
  BY <1>2 DEF A!NodeList_append
<1>6. \A x \in Elements : NodesOf(entries[x]) \subseteq Attrs
  BY <1>1, NodesAreAttrs
<1>7. \A x \in Elements : ListRight(entries[x], map[x], name')
  <2>1. \A x \in Elements : \A b \in NodesOf(entries[x]) : name'[b] = name[b]
    BY <1>6
  <2> QED
    BY <1>1, <2>1, NamesElsewhere
<1>8. \A i \in DOMAIN s : name'[s[i].node] # name'[a]
  BY <1>4, <1>6 DEF NodesOf
<1>9. PICK t, w : t = Append(s, A!Entry(id, a)) /\ w = A!Put(m, A!Entry(id, a))
  OBVIOUS
<1>10. ListRight(t, w, name') /\ NodesOf(t) = NodesOf(s) \cup {a}
  <2>1. ListRight(s, m, name')
    BY <1>4, <1>5, <1>7, MapsFollow
  <2>2. a \notin NodesOf(s)
    BY <1>4
  <2> QED
    BY <1>3, <1>4, <1>8, <1>9, <2>1, <2>2, Appended
<1>11. entries' = [entries EXCEPT ![e] = t] /\ map' = [map EXCEPT ![e] = w]
  BY <1>1, <1>4, <1>5, <1>9
<1>12. owner' = [owner EXCEPT ![a] = e]
  BY DEF A!NodeList_append
<1>13. /\ entries' \in [Elements -> AttrLists] /\ map' = [x \in Elements |-> map'[x]]
       /\ DOMAIN map' = Elements
       /\ owner' \in [Attrs -> Elements \cup {NULL}]
       /\ entries'[e] = t /\ map'[e] = w /\ owner'[a] = e
       /\ \A x \in Elements : x # e => entries'[x] = entries[x] /\ map'[x] = map[x]
       /\ \A b \in Attrs : b # a => owner'[b] = owner[b]
  BY <1>1, <1>10, <1>11, <1>12 DEF ListRight, AttributesIInv
<1>14. \A x \in Elements : ListRight(entries'[x], map'[x], name')
  BY <1>7, <1>10, <1>13
<1>15. \A x \in Elements : NodesOf(entries'[x]) = IF x = e THEN NodesOf(entries[x]) \cup {a}
                                                  ELSE NodesOf(entries[x])
  BY <1>4, <1>10, <1>13
<1>16. Owned'
  BY <1>13, <1>15 DEF Owned, AttributesIInv
<1>17. AttributesIInv'
  BY <1>13, <1>14, <1>16 DEF AttributesIInv
<1>18. Only(e, name'[a])
  <2>1. PICK n : n = name'[a]
    OBVIOUS
  <2>2. \A x \in Elements, b \in Attrs : (name[b] # n \/ x # e) /\ b \in NodesOf(entries[x]) =>
          b \in NodesOf(entries'[x]) /\ name'[b] = name[b] /\ value'[b] = value[b]
    BY <1>15
  <2>3. \A x \in Elements, b \in Attrs : (name'[b] # n \/ x # e) /\ b \in NodesOf(entries'[x]) =>
          b \in NodesOf(entries[x]) /\ name'[b] = name[b]
    BY <1>15, <2>1
  <2> QED
    BY <1>17, <2>1, <2>2, <2>3, OnlyOne
<1> QED
  BY <1>17, <1>18

LEMMA RemoveAttributeStep ==
  ASSUME A!AttributesAssumption, AttributesIInv, NEW e \in Elements, NEW a \in Attrs,
         A!Lookup(e, a) # 0, A!NodeList_remove(e, a), ~torn',
         name' \in [Attrs -> Names \cup {NULL}], value' \in [Attrs -> Values \cup {NULL}],
         name'[a] \in {name[a], NULL},
         \A b \in Attrs : b # a => name'[b] = name[b] /\ value'[b] = value[b]
  PROVE  AttributesIInv' /\ Only(e, name[a])
<1>1. /\ entries \in [Elements -> AttrLists] /\ DOMAIN map = Elements
      /\ owner \in [Attrs -> Elements \cup {NULL}]
      /\ \A x \in Elements : ListRight(entries[x], map[x], name)
      /\ NULL \notin Elements
  BY DEF AttributesIInv, A!AttributesAssumption
<1>2. PICK s, m : s = entries[e] /\ m = map[e]
  OBVIOUS
<1>3. PICK i : i = A!Lookup(e, a)
  OBVIOUS
<1>4. i \in DOMAIN s /\ s[i].node = a
  BY <1>1, <1>2, <1>3, LookupRight
<1>5. PICK t, w : t = A!RemoveAt(s, i) /\ w = IF m = NULL THEN NULL ELSE A!Without(m, {a})
  OBVIOUS
<1>6. ListRight(t, w, name) /\ NodesOf(t) = NodesOf(s) \ {a}
  BY <1>1, <1>2, <1>4, <1>5, Removed
<1>7. a \in NodesOf(s)
  BY <1>4 DEF NodesOf
<1>8. \A x \in Elements : NodesOf(entries[x]) \subseteq Attrs
  BY <1>1, NodesAreAttrs
<1>9. name[a] # NULL
  BY <1>1, <1>2, <1>4 DEF ListRight
<1>10. \A x \in Elements : x # e => a \notin NodesOf(entries[x])
  BY <1>2, <1>7, <1>9 DEF Owned, AttributesIInv
<1>11. entries' = [entries EXCEPT ![e] = t] /\ map' = [map EXCEPT ![e] = w]
  <2>1. PICK kept \in A!Losses({a}) :
          /\ map' = [map EXCEPT ![e] = IF @ = NULL THEN NULL ELSE A!Without(@, {a} \ kept)]
          /\ torn' = (map[e] # NULL /\ kept # {})
    BY DEF A!NodeList_remove
  <2>2. m = NULL \/ {a} \ kept = {a}
    BY <1>2, <2>1
  <2>3. map' = [map EXCEPT ![e] = w]
    BY <1>1, <1>2, <1>5, <2>1, <2>2
  <2> QED
    BY <1>1, <1>2, <1>3, <1>5, <2>3 DEF A!NodeList_remove
<1>12. owner' = [owner EXCEPT ![a] = NULL]
  BY DEF A!NodeList_remove
<1>13. /\ entries' \in [Elements -> AttrLists] /\ map' = [x \in Elements |-> map'[x]]
       /\ DOMAIN map' = Elements
       /\ owner' \in [Attrs -> Elements \cup {NULL}]
       /\ entries'[e] = t /\ map'[e] = w /\ owner'[a] = NULL
       /\ \A x \in Elements : x # e => entries'[x] = entries[x] /\ map'[x] = map[x]
       /\ \A b \in Attrs : b # a => owner'[b] = owner[b]
  BY <1>1, <1>6, <1>11, <1>12 DEF ListRight, AttributesIInv
<1>14. \A x \in Elements : NodesOf(entries'[x]) = NodesOf(entries[x]) \ {a}
  BY <1>2, <1>6, <1>10, <1>13
<1>15. \A x \in Elements : ListRight(entries'[x], map'[x], name')
  <2>1. \A x \in Elements : ListRight(entries'[x], map'[x], name)
    BY <1>1, <1>6, <1>13
  <2>2. \A x \in Elements : \A b \in NodesOf(entries'[x]) : name'[b] = name[b]
    BY <1>8, <1>14
  <2> QED
    BY <2>1, <2>2, NamesElsewhere
<1>16. Owned'
  BY <1>1, <1>13, <1>14 DEF Owned, AttributesIInv
<1>17. AttributesIInv'
  BY <1>13, <1>15, <1>16 DEF AttributesIInv
<1>18. Only(e, name[a])
  <2>1. PICK n : n = name[a]
    OBVIOUS
  <2>2. \A x \in Elements, b \in Attrs : (name[b] # n \/ x # e) /\ b \in NodesOf(entries[x]) =>
          b \in NodesOf(entries'[x]) /\ name'[b] = name[b] /\ value'[b] = value[b]
    BY <1>10, <1>14, <2>1
  <2>3. \A x \in Elements, b \in Attrs : (name'[b] # n \/ x # e) /\ b \in NodesOf(entries'[x]) =>
          b \in NodesOf(entries[x]) /\ name'[b] = name[b]
    BY <1>14
  <2> QED
    BY <1>17, <2>1, <2>2, <2>3, OnlyOne
<1> QED
  BY <1>17, <1>18

LEMMA ExchangeStep ==
  ASSUME A!AttributesAssumption, AttributesIInv, NEW e \in Elements, NEW a \in Attrs,
         NEW p \in DOMAIN entries[e], name[entries[e][p].node] = name[a], name[a] # NULL,
         entries[e][p].node # a, owner[a] \in {NULL, e}, map[e] = NULL,
         A!Exchange(e, p, a), UNCHANGED <<name, value>>
  PROVE  AttributesIInv' /\ Only(e, name[a])
<1>1. /\ entries \in [Elements -> AttrLists] /\ DOMAIN map = Elements
      /\ owner \in [Attrs -> Elements \cup {NULL}]
      /\ \A x \in Elements : ListRight(entries[x], map[x], name)
      /\ NULL \notin Elements
  BY DEF AttributesIInv, A!AttributesAssumption
<1>2. PICK s, m : s = entries[e] /\ m = map[e]
  OBVIOUS
<1>3. PICK old : old = s[p].node
  OBVIOUS
<1>4. old \in NodesOf(s) /\ old # a /\ name[old] = name[a]
  BY <1>2, <1>3 DEF NodesOf
<1>5. \A x \in Elements : NodesOf(entries[x]) \subseteq Attrs
  BY <1>1, NodesAreAttrs
<1>6. a \notin NodesOf(s)
  BY <1>1, <1>2, <1>3, <1>4 DEF NodesOf, ListRight
<1>7. \A x \in Elements : a \notin NodesOf(entries[x])
  BY <1>1, <1>2, <1>6 DEF Owned, AttributesIInv
<1>8. old \in Attrs /\ \A x \in Elements : x # e => old \notin NodesOf(entries[x])
  BY <1>2, <1>4, <1>5 DEF Owned, AttributesIInv
<1>9. PICK t : t = Put(s, p, a)
  OBVIOUS
<1>10. ListRight(t, m, name) /\ NodesOf(t) = (NodesOf(s) \ {old}) \cup {a}
  BY <1>1, <1>2, <1>3, <1>4, <1>6, <1>9, Exchanged
<1>11. entries' = [entries EXCEPT ![e] = t] /\ map' = map
  BY <1>1, <1>2, <1>9 DEF A!Exchange, Put
<1>12. owner' = [owner EXCEPT ![a] = e, ![old] = NULL]
  BY <1>2, <1>3 DEF A!Exchange
<1>13. /\ entries' \in [Elements -> AttrLists] /\ entries'[e] = t
       /\ owner' \in [Attrs -> Elements \cup {NULL}] /\ owner'[a] = e /\ owner'[old] = NULL
       /\ \A x \in Elements : x # e => entries'[x] = entries[x]
       /\ \A b \in Attrs : b # a /\ b # old => owner'[b] = owner[b]
  BY <1>1, <1>4, <1>8, <1>10, <1>11, <1>12 DEF ListRight
<1>14. \A x \in Elements : ListRight(entries'[x], map'[x], name')
  BY <1>1, <1>2, <1>10, <1>11, <1>13
<1>15. \A x \in Elements : NodesOf(entries'[x]) = IF x = e THEN (NodesOf(entries[x]) \ {old}) \cup {a}
                                                  ELSE NodesOf(entries[x])
  BY <1>2, <1>10, <1>13
<1>16. Owned'
  BY <1>1, <1>4, <1>7, <1>8, <1>13, <1>15 DEF Owned, AttributesIInv
<1>17. AttributesIInv'
  BY <1>11, <1>13, <1>14, <1>16 DEF AttributesIInv
<1>18. Only(e, name[a])
  <2>1. PICK n : n = name[a]
    OBVIOUS
  <2>2. \A x \in Elements, b \in Attrs : (name[b] # n \/ x # e) /\ b \in NodesOf(entries[x]) =>
          b \in NodesOf(entries'[x]) /\ name'[b] = name[b] /\ value'[b] = value[b]
    BY <1>4, <1>15, <2>1
  <2>3. \A x \in Elements, b \in Attrs : (name'[b] # n \/ x # e) /\ b \in NodesOf(entries'[x]) =>
          b \in NodesOf(entries[x]) /\ name'[b] = name[b]
    BY <1>15, <2>1
  <2> QED
    BY <1>17, <2>1, <2>2, <2>3, OnlyOne
<1> QED
  BY <1>17, <1>18

(* Only names and values of attributes that are in no element change, or    *)
(* the value of one attribute.                                              *)
LEMMA ValueStep ==
  ASSUME AttributesIInv, UNCHANGED <<entries, map>>, NEW e, NEW n,
         name' \in [Attrs -> Names \cup {NULL}], value' \in [Attrs -> Values \cup {NULL}],
         owner' \in [Attrs -> Elements \cup {NULL}],
         \A x \in Elements : \A a \in NodesOf(entries[x]) :
           /\ name'[a] = name[a] /\ owner'[a] = owner[a]
           /\ (x = e /\ name[a] = n) \/ value'[a] = value[a],
         \A a \in Attrs : \/ owner'[a] = owner[a] /\ name'[a] \in {name[a], NULL}
                          \/ owner'[a] = NULL /\ NULL \notin Elements
  PROVE  AttributesIInv' /\ Only(e, n)
<1>1. /\ entries \in [Elements -> AttrLists]
      /\ \A x \in Elements : ListRight(entries[x], map[x], name)
  BY DEF AttributesIInv
<1>2. \A x \in Elements : NodesOf(entries[x]) \subseteq Attrs
  BY <1>1, NodesAreAttrs
<1>3. \A x \in Elements : ListRight(entries'[x], map'[x], name')
  BY <1>1, NamesElsewhere
<1>4. Owned'
  <2>1. SUFFICES ASSUME NEW a \in Attrs, NEW x \in Elements, name'[a] # NULL
                 PROVE  owner'[a] = x <=> a \in NodesOf(entries[x])
    BY DEF Owned
  <2>2. CASE a \in NodesOf(entries[x])
    <3>1. name[a] # NULL
      BY <1>1, <2>2 DEF ListRight, NodesOf
    <3>2. owner[a] = x
      BY <2>2, <3>1 DEF Owned, AttributesIInv
    <3> QED
      BY <2>2, <3>2
  <2>3. CASE a \notin NodesOf(entries[x])
    <3>1. CASE owner'[a] = owner[a] /\ name'[a] \in {name[a], NULL}
      BY <2>1, <2>3, <3>1 DEF Owned, AttributesIInv
    <3>2. CASE owner'[a] = NULL /\ NULL \notin Elements
      BY <2>3, <3>2
    <3> QED
      BY <3>1, <3>2
  <2> QED
    BY <2>2, <2>3
<1>5. AttributesIInv'
  BY <1>3, <1>4 DEF AttributesIInv
<1>6. \A x \in Elements, a \in Attrs : (name[a] # n \/ x # e) /\ a \in NodesOf(entries[x]) =>
        a \in NodesOf(entries'[x]) /\ name'[a] = name[a] /\ value'[a] = value[a]
  OBVIOUS
<1>7. \A x \in Elements, a \in Attrs : (name'[a] # n \/ x # e) /\ a \in NodesOf(entries'[x]) =>
        a \in NodesOf(entries[x]) /\ name'[a] = name[a]
  OBVIOUS
<1> QED
  BY <1>5, <1>6, <1>7, OnlyOne

(* A call changes what is read under one name of its element at most.       *)
Keeps == \A e \in Elements, n, m \in Names :
           A!Read(e, n)' # A!Read(e, n) => /\ called'.element = e
                                           /\ n # m => A!Read(e, m)' = A!Read(e, m)

LEMMA OnlyKeeps ==
  ASSUME NEW e, NEW n, Only(e, n), e \in Elements => called'.element = e
  PROVE  Keeps
BY DEF Only, Keeps

LEMMA SameKeeps ==
  ASSUME AttributesIInv, UNCHANGED <<entries, map, name, value, owner>>
  PROVE  AttributesIInv' /\ Keeps
<1>1. \A e \in Elements, n \in Names : A!Read(e, n)' = A!Read(e, n)
  BY DEF A!Read, A!Place, A!SelectInSeq
<1>2. AttributesIInv'
  BY DEF AttributesIInv, Owned
<1> QED
  BY <1>1, <1>2 DEF Keeps

LEMMA RefuseStep ==
  ASSUME AttributesIInv, NEW e \in Elements, A!NodeList_refuses(e), ~torn', UNCHANGED <<name, value>>
  PROVE  AttributesIInv' /\ Keeps
<1>1. PICK m \in A!Maps(e) : map' = [map EXCEPT ![e] = m] /\ ~A!Short(e, m)
  BY DEF A!NodeList_refuses
<1>2. UNCHANGED <<entries, owner>>
  BY DEF A!NodeList_refuses
<1>3. ListRight(entries[e], m, name)
  BY <1>1, MapsFollow DEF AttributesIInv
<1>4. map' = [x \in Elements |-> map'[x]] /\ DOMAIN map' = Elements
  BY <1>1 DEF AttributesIInv
<1>5. \A x \in Elements : ListRight(entries'[x], map'[x], name')
  BY <1>1, <1>2, <1>3 DEF AttributesIInv
<1>6. Owned'
  BY <1>2 DEF Owned, AttributesIInv
<1>7. AttributesIInv'
  BY <1>2, <1>4, <1>5, <1>6 DEF AttributesIInv
<1>8. \A x \in Elements, n \in Names : A!Read(x, n)' = A!Read(x, n)
  BY <1>2 DEF A!Read, A!Place, A!SelectInSeq
<1> QED
  BY <1>7, <1>8 DEF Keeps

LEMMA AttributesTypes ==
  ASSUME AttributesIInv
  PROVE  /\ entries \in [Elements -> AttrLists] /\ DOMAIN map = Elements
         /\ name \in [Attrs -> Names \cup {NULL}] /\ value \in [Attrs -> Values \cup {NULL}]
         /\ owner \in [Attrs -> Elements \cup {NULL}]
         /\ \A e \in Elements : ListRight(entries[e], map[e], name)
         /\ \A e \in Elements : \A a \in NodesOf(entries[e]) : a \in Attrs /\ name[a] # NULL
<1>1. \A e \in Elements : NodesOf(entries[e]) \subseteq Attrs
  BY NodesAreAttrs DEF AttributesIInv
<1>2. \A e \in Elements : \A a \in NodesOf(entries[e]) : name[a] # NULL
  BY DEF AttributesIInv, ListRight, NodesOf
<1> QED
  BY <1>1, <1>2 DEF AttributesIInv

LEMMA CreateStep ==
  ASSUME A!AttributesAssumption, AttributesIInv, NEW a \in Attrs, NEW n \in Names, NEW v \in Values,
         A!createAttribute(a, n, v)
  PROVE  AttributesIInv' /\ Keeps
<1>1. name[a] = NULL /\ UNCHANGED <<entries, map>> /\ NULL \notin Elements
  BY DEF A!createAttribute, A!Free, A!Live, A!AttributesAssumption
<1>2. /\ name' = [name EXCEPT ![a] = n] /\ value' = [value EXCEPT ![a] = v]
      /\ owner' = [owner EXCEPT ![a] = NULL]
  BY DEF A!createAttribute
<1>3. /\ name' \in [Attrs -> Names \cup {NULL}] /\ value' \in [Attrs -> Values \cup {NULL}]
      /\ owner' \in [Attrs -> Elements \cup {NULL}] /\ owner'[a] = NULL
      /\ \A b \in Attrs : b # a => name'[b] = name[b] /\ value'[b] = value[b] /\ owner'[b] = owner[b]
  BY <1>2, AttributesTypes
<1>4. \A x \in Elements : \A b \in NodesOf(entries[x]) : b \in Attrs /\ b # a
  BY <1>1, AttributesTypes
<1>5. AttributesIInv' /\ Only(NULL, n)
  BY <1>1, <1>3, <1>4, ValueStep
<1> QED
  BY <1>1, <1>5, OnlyKeeps

LEMMA DestroyStep ==
  ASSUME A!AttributesAssumption, AttributesIInv, NEW a \in Attrs, A!destroyNode(a)
  PROVE  AttributesIInv' /\ Keeps
<1>1. /\ UNCHANGED <<entries, map, owner>> /\ NULL \notin Elements
      /\ \A x \in Elements : a \notin NodesOf(entries[x])
  BY DEF A!destroyNode, A!Nodes, NodesOf, A!AttributesAssumption
<1>2. name' = [name EXCEPT ![a] = NULL] /\ value' = [value EXCEPT ![a] = NULL]
  BY DEF A!destroyNode, A!Destroy
<1>3. /\ name' \in [Attrs -> Names \cup {NULL}] /\ value' \in [Attrs -> Values \cup {NULL}]
      /\ owner' \in [Attrs -> Elements \cup {NULL}] /\ name'[a] = NULL
      /\ \A b \in Attrs : b # a => name'[b] = name[b] /\ value'[b] = value[b]
  BY <1>1, <1>2, AttributesTypes
<1>4. \A x \in Elements : \A b \in NodesOf(entries[x]) : b \in Attrs /\ b # a
  BY <1>1, AttributesTypes
<1>5. AttributesIInv' /\ Only(NULL, NULL)
  BY <1>1, <1>3, <1>4, ValueStep
<1> QED
  BY <1>1, <1>5, OnlyKeeps

(* In a list that has nobody of the name of a, nor has another list a, if   *)
(* a names no other owner.                                                  *)
LEMMA InNoOther ==
  ASSUME AttributesIInv, NEW e \in Elements, NEW a \in Attrs, name[a] # NULL,
         owner[a] \in {NULL, e}, a \notin NodesOf(entries[e]), NULL \notin Elements
  PROVE  \A x \in Elements : a \notin NodesOf(entries[x])
BY DEF AttributesIInv, Owned

LEMMA SetNodeStep ==
  ASSUME A!AttributesAssumption, ~ReplacesMapped, AttributesIInv,
         NEW e \in Elements, NEW a \in Attrs, A!setAttributeNode(e, a), ~torn'
  PROVE  AttributesIInv' /\ Keeps
<1>1. name[a] # NULL /\ A!Replaceable(e, a) /\ NULL \notin Elements
  BY DEF A!setAttributeNode, A!Live, A!AttributesAssumption
<1>2. entries[e] \in AttrLists
  BY AttributesTypes
<1>3. PICK p : p = A!Place(e, name[a])
  OBVIOUS
<1>4. CASE A!Fails("setNode", e)
  BY <1>4, SameKeeps DEF A!Fails
<1>5. CASE ~A!InUse(e, a) /\ p # 0 /\ A!Exchange(e, p, a)
             /\ A!Returns("setNode", e, entries[e][p].node) /\ UNCHANGED <<name, value>>
  <2>1. p \in DOMAIN entries[e] /\ name[entries[e][p].node] = name[a]
    BY <1>2, <1>3, <1>5, PlaceRight
  <2>2. map[e] = NULL /\ entries[e][p].node # a
    BY <1>1, <1>3, <1>5 DEF A!Replaceable
  <2>3. owner[a] \in {NULL, e}
    BY <1>5 DEF A!InUse
  <2>4. AttributesIInv' /\ Only(e, name[a])
    BY <1>1, <1>5, <2>1, <2>2, <2>3, ExchangeStep
  <2>5. called'.element = e
    BY <1>5 DEF A!Returns
  <2> QED
    BY <2>4, <2>5, OnlyKeeps
<1>6. CASE ~A!InUse(e, a) /\ p = 0 /\ A!NodeList_append(e, a)
             /\ A!Returns("setNode", e, NULL) /\ UNCHANGED <<name, value>>
  <2>1. \A i \in DOMAIN entries[e] : name[entries[e][i].node] # name[a]
    BY <1>2, <1>3, <1>6, NoPlace
  <2>2. a \notin NodesOf(entries[e])
    BY <2>1 DEF NodesOf
  <2>3. owner[a] \in {NULL, e}
    BY <1>6 DEF A!InUse
  <2>4. \A x \in Elements : a \notin NodesOf(entries[x])
    BY <1>1, <2>2, <2>3, InNoOther
  <2>5. name' = name /\ value' = value
    BY <1>6
  <2>6. name' \in [Attrs -> Names \cup {NULL}] /\ value' \in [Attrs -> Values \cup {NULL}]
    BY <2>5, AttributesTypes
  <2>7. AttributesIInv' /\ Only(e, name'[a])
    BY <1>1, <1>6, <2>1, <2>4, <2>5, <2>6, AppendStep
  <2>8. called'.element = e
    BY <1>6 DEF A!Returns
  <2> QED
    BY <2>7, <2>8, OnlyKeeps
<1>7. CASE A!NodeList_refuses(e) /\ UNCHANGED <<name, value>>
  BY <1>7, RefuseStep
<1> QED
  BY <1>3, <1>4, <1>5, <1>6, <1>7 DEF A!setAttributeNode

LEMMA RemoveNodeStep ==
  ASSUME A!AttributesAssumption, AttributesIInv, NEW e \in Elements, NEW a \in Attrs,
         A!removeAttributeNode(e, a), ~torn'
  PROVE  AttributesIInv' /\ Keeps
<1>1. CASE A!Fails("removeNode", e)
  BY <1>1, SameKeeps DEF A!Fails
<1>2. CASE A!Lookup(e, a) # 0 /\ A!NodeList_remove(e, a) /\ A!Returns("removeNode", e, a)
             /\ UNCHANGED <<name, value>>
  <2>1. name' = name /\ value' = value
    BY <1>2
  <2>2. AttributesIInv' /\ Only(e, name[a])
    BY <1>2, <2>1, AttributesTypes, RemoveAttributeStep
  <2>3. called'.element = e
    BY <1>2 DEF A!Returns
  <2> QED
    BY <2>2, <2>3, OnlyKeeps
<1> QED
  BY <1>1, <1>2 DEF A!removeAttributeNode

LEMMA SetStep ==
  ASSUME A!AttributesAssumption, AttributesIInv, NEW e \in Elements, NEW n \in Names, NEW v \in Values,
         A!setAttribute(e, n, v), ~torn'
  PROVE  AttributesIInv' /\ Keeps
<1>1. NULL \notin Elements \cup Names
  BY DEF A!AttributesAssumption
<1>2. entries[e] \in AttrLists
  BY AttributesTypes
<1>3. PICK p : p = A!Place(e, n)
  OBVIOUS
<1>4. CASE A!Fails("set", e) \/ (A!NodeList_refuses(e) /\ UNCHANGED <<name, value>>)
  BY <1>4, SameKeeps, RefuseStep DEF A!Fails
<1>5. CASE p # 0 /\ value' = [value EXCEPT ![entries[e][p].node] = v]
             /\ A!Returns("set", e, NULL) /\ UNCHANGED <<entries, map, name, owner>>
  <2>1. PICK a : a = entries[e][p].node
    OBVIOUS
  <2>2. a \in NodesOf(entries[e]) /\ name[a] = n
    <3>1. p \in DOMAIN entries[e] /\ name[entries[e][p].node] = n
      BY <1>2, <1>3, <1>5, PlaceRight
    <3> QED
      BY <2>1, <3>1 DEF NodesOf
  <2>3. a \in Attrs /\ name[a] # NULL
    BY <2>2, AttributesTypes
  <2>4. /\ value' \in [Attrs -> Values \cup {NULL}]
        /\ \A b \in Attrs : b # a => value'[b] = value[b]
    BY <1>5, <2>1, <2>3, AttributesTypes
  <2>5. \A x \in Elements : x # e => a \notin NodesOf(entries[x])
    BY <2>2, <2>3 DEF AttributesIInv, Owned
  <2>6. \A x \in Elements : \A b \in NodesOf(entries[x]) : (x = e /\ name[b] = n) \/ value'[b] = value[b]
    BY <2>2, <2>4, <2>5, AttributesTypes
  <2>7. AttributesIInv' /\ Only(e, n)
    BY <1>5, <2>4, <2>6, AttributesTypes, ValueStep
  <2>8. called'.element = e
    BY <1>5 DEF A!Returns
  <2> QED
    BY <2>7, <2>8, OnlyKeeps
<1>6. ASSUME p = 0, NEW a \in A!Free, name' = [name EXCEPT ![a] = n], value' = [value EXCEPT ![a] = v],
             A!NodeList_append(e, a), A!Returns("set", e, NULL)
      PROVE  AttributesIInv' /\ Keeps
  <2>1. a \in Attrs /\ name[a] = NULL
    BY DEF A!Free, A!Live
  <2>2. /\ name' \in [Attrs -> Names \cup {NULL}] /\ value' \in [Attrs -> Values \cup {NULL}]
        /\ name'[a] = n /\ n # NULL
        /\ \A b \in Attrs : b # a => name'[b] = name[b] /\ value'[b] = value[b]
    BY <1>1, <1>6, <2>1, AttributesTypes
  <2>3. \A i \in DOMAIN entries[e] : name[entries[e][i].node] # n
    BY <1>2, <1>3, <1>6, NoPlace
  <2>4. \A x \in Elements : a \notin NodesOf(entries[x])
    BY <2>1, AttributesTypes
  <2>5. AttributesIInv' /\ Only(e, name'[a])
    BY <1>6, <2>1, <2>2, <2>3, <2>4, AppendStep
  <2>6. called'.element = e
    BY <1>6 DEF A!Returns
  <2> QED
    BY <2>5, <2>6, OnlyKeeps
<1> QED
  BY <1>3, <1>4, <1>5, <1>6 DEF A!setAttribute

LEMMA RemoveNamedStep ==
  ASSUME A!AttributesAssumption, AttributesIInv, NEW e \in Elements, NEW n \in Names,
         A!removeAttribute(e, n), ~torn'
  PROVE  AttributesIInv' /\ Keeps
<1>1. CASE UNCHANGED <<entries, map, name, value, owner>>
  BY <1>1, SameKeeps
<1> DEFINE p == A!Place(e, n)
<1>2. CASE /\ A!Found(e, n) /\ A!NodeList_remove(e, entries[e][p].node)
           /\ A!Destroy(entries[e][p].node) /\ A!Returns("remove", e, NULL)
  <2>1. PICK a : a = entries[e][p].node
    OBVIOUS
  <2>2. p # 0 /\ A!Lookup(e, a) # 0
    BY <1>2, <2>1 DEF A!Found
  <2>3. entries[e] \in AttrLists
    BY AttributesTypes
  <2>4. a \in NodesOf(entries[e]) /\ name[a] = n
    <3>1. p \in DOMAIN entries[e] /\ name[entries[e][p].node] = n
      BY <2>2, <2>3, PlaceRight
    <3> QED
      BY <2>1, <3>1 DEF NodesOf
  <2>5. a \in Attrs
    BY <2>4, AttributesTypes
  <2>6. name' = [name EXCEPT ![a] = NULL] /\ value' = [value EXCEPT ![a] = NULL]
    BY <1>2, <2>1 DEF A!Destroy
  <2>7. /\ name' \in [Attrs -> Names \cup {NULL}] /\ value' \in [Attrs -> Values \cup {NULL}]
        /\ name'[a] = NULL
        /\ \A b \in Attrs : b # a => name'[b] = name[b] /\ value'[b] = value[b]
    BY <2>5, <2>6, AttributesTypes
  <2>8. AttributesIInv' /\ Only(e, name[a])
    BY <1>2, <2>1, <2>2, <2>5, <2>7, RemoveAttributeStep
  <2>9. called'.element = e
    BY <1>2 DEF A!Returns
  <2> QED
    BY <2>8, <2>9, OnlyKeeps
<1> QED
  BY <1>1, <1>2 DEF A!removeAttribute

LEMMA AttributesNextInv ==
  ASSUME A!AttributesAssumption, ~ReplacesMapped, torn \/ AttributesIInv, [A!Next]_A!vars, ~torn'
  PROVE  AttributesIInv' /\ Keeps
<1>0. AttributesIInv
  BY DEF A!Next, A!vars
<1>1. ASSUME NEW a \in Attrs, NEW n \in Names, NEW v \in Values, A!createAttribute(a, n, v)
      PROVE  AttributesIInv' /\ Keeps
  BY <1>0, <1>1, CreateStep
<1>2. ASSUME NEW a \in Attrs, A!destroyNode(a) PROVE AttributesIInv' /\ Keeps
  BY <1>0, <1>2, DestroyStep
<1>3. ASSUME NEW e \in Elements, NEW a \in Attrs,
             A!setAttributeNode(e, a) \/ A!removeAttributeNode(e, a)
      PROVE  AttributesIInv' /\ Keeps
  BY <1>0, <1>3, SetNodeStep, RemoveNodeStep
<1>4. ASSUME NEW e \in Elements, NEW n \in Names, NEW v \in Values, A!setAttribute(e, n, v)
      PROVE  AttributesIInv' /\ Keeps
  BY <1>0, <1>4, SetStep
<1>5. ASSUME NEW e \in Elements, NEW n \in Names, A!removeAttribute(e, n) PROVE AttributesIInv' /\ Keeps
  BY <1>0, <1>5, RemoveNamedStep
<1>6. ASSUME NEW e \in Elements, NEW n \in Names, A!getAttribute(e, n) PROVE AttributesIInv' /\ Keeps
  BY <1>0, <1>6, SameKeeps DEF A!getAttribute
<1>7. CASE UNCHANGED A!vars
  BY <1>0, <1>7, SameKeeps DEF A!vars
<1> QED
  BY <1>1, <1>2, <1>3, <1>4, <1>5, <1>6, <1>7 DEF A!Next

LEMMA AttributesSafe == ASSUME A!AttributesAssumption, AttributesIInv PROVE A!Whole
<1>1. \A e \in Elements : A!Nodes(e) = NodesOf(entries[e])
  BY DEF A!Nodes, NodesOf
<1>2. ASSUME NEW e \in Elements
      PROVE  /\ \A i, j \in DOMAIN entries[e] :
                  i # j => name[entries[e][i].node] # name[entries[e][j].node]
             /\ A!Nodes(e) \subseteq A!Live
  BY <1>1, AttributesTypes DEF ListRight, A!Live
<1>3. ASSUME NEW e \in Elements, map[e] # NULL
      PROVE  map[e] = [a \in A!Nodes(e) |->
                         entries[e][A!SelectInSeq(entries[e], LAMBDA x : x.node = a)].id]
  <2> DEFINE s == entries[e]
             i(a) == A!SelectInSeq(s, LAMBDA x : x.node = a)
  <2>1. s \in AttrLists /\ map[e] \in [NodesOf(s) -> Nat] /\ \A k \in DOMAIN s : map[e][s[k].node] = s[k].id
    BY <1>3, AttributesTypes DEF ListRight, MapOf
  <2>2. \A a \in NodesOf(s) : i(a) \in DOMAIN s /\ s[i(a)].node = a
    BY <2>1, PlaceOfNode
  <2> HIDE DEF i
  <2>3. \A a \in NodesOf(s) : map[e][a] = s[i(a)].id
    BY <2>1, <2>2
  <2>4. map[e] = [a \in NodesOf(s) |-> s[i(a)].id]
    BY <2>1, <2>3
  <2> QED
    BY <1>1, <2>4 DEF i
<1>4. \A a \in A!Live, e \in Elements : owner[a] = e <=> a \in A!Nodes(e)
  BY <1>1 DEF A!Live, AttributesIInv, Owned
<1> QED
  BY <1>2, <1>3, <1>4 DEF A!Whole

LEMMA AttributesStep == [Next]_vars => [A!Next]_A!vars
BY DEF Next, Dom, Events, Attributes, vars, attrVars, A!vars

(* As long as the client sets no attribute in the place of another in a     *)
(* list with a map, or of itself, and no call is short of memory half way   *)
(* through, an attribute is in the one element that it names, an element    *)
(* has one of a name, a map agrees with its list, and a call changes what   *)
(* is read under no other name.                                             *)
THEOREM AttributesKeepTheirOwners == ~ReplacesMapped /\ Spec => AttributesRight
<1> DEFINE IInv == ~ReplacesMapped /\ (torn \/ AttributesIInv)
<1>1. ~ReplacesMapped /\ Init => IInv
  BY AttributesInitInv, DomcAssumption DEF Init, Start, DomcAssumption
<1>2. IInv /\ [Next]_vars => IInv'
  BY AttributesStep, AttributesNextInv, DomcAssumption DEF DomcAssumption
<1>3. IInv /\ [Next]_vars => [~torn' => Keeps]_A!vars
  BY AttributesStep, AttributesNextInv, DomcAssumption DEF DomcAssumption
<1>4. IInv => A!OneOwner
  BY AttributesSafe, DomcAssumption DEF DomcAssumption, A!OneOwner
<1>5. ~ReplacesMapped /\ Spec => []A!OneOwner
  BY <1>1, <1>2, <1>4, PTL DEF Spec
<1>6. Keeps <=> \A e \in Elements, n, m \in Names :
                  A!Read(e, n)' # A!Read(e, n) => /\ called'.element = e
                                                  /\ n # m => A!Read(e, m)' = A!Read(e, m)
  BY DEF Keeps
<1>7. ~ReplacesMapped /\ Spec => A!OthersKeep
  BY <1>1, <1>2, <1>3, <1>6, PTL DEF Spec, A!OthersKeep
<1> QED
  BY <1>5, <1>7, PTL DEF AttributesRight

-----------------------------------------------------------------------------
(* Lists: what the operators of the community modules give.                 *)
PlaceOf(s, n) == D!SelectInSeq(s, LAMBDA m : m = n)

LEMMA FirstPlace ==
  ASSUME NEW S, NEW s \in Seq(S), NEW n
  PROVE  LET k == PlaceOf(s, n) IN
         \/ k = 0 /\ \A i \in 1 .. Len(s) : s[i] # n
         \/ k \in 1 .. Len(s) /\ s[k] = n /\ \A i \in 1 .. k - 1 : s[i] # n
<1> DEFINE I == {i \in 1 .. Len(s) : s[i] = n}
<1>1. PlaceOf(s, n) = IF I # {} THEN D!Min(I) ELSE 0
  BY DEF PlaceOf, D!SelectInSeq
<1>2. Len(s) \in Nat /\ I \subseteq Nat
  OBVIOUS
<1>3. CASE I # {}
  <2>1. PICK m \in I : \A k \in I : m <= k
    BY <1>2, <1>3, LeastNatural
  <2>2. D!Min(I) \in I /\ \A k \in I : D!Min(I) <= k
    BY <2>1 DEF D!Min
  <2>3. PICK k : k = D!Min(I)
    OBVIOUS
  <2>4. k \in 1 .. Len(s) /\ s[k] = n
    BY <2>2, <2>3
  <2>5. \A i \in I : k <= i
    BY <2>2, <2>3
  <2>6. ASSUME NEW i \in 1 .. k - 1, s[i] = n PROVE FALSE
    <3>1. i \in I
      BY <1>2, <2>4, <2>6
    <3> QED
      BY <1>2, <2>4, <2>5, <3>1
  <2> QED
    BY <1>1, <1>3, <2>3, <2>4, <2>6
<1>4. CASE I = {}
  BY <1>1, <1>2, <1>4
<1> QED
  BY <1>3, <1>4

Apart(s) == \A i, k \in DOMAIN s : s[i] = s[k] => i = k

(* r is s without the element at k.                                         *)
WithoutAt(r, s, k) ==
  /\ Len(r) = Len(s) - 1
  /\ \A i \in 1 .. Len(s) - 1 : r[i] = IF i < k THEN s[i] ELSE s[i + 1]

LEMMA RemovedAt ==
  ASSUME NEW S, NEW s \in Seq(S), NEW n
  PROVE  LET r == D!RemoveFirst(s, n) IN
         /\ r \in Seq(S)
         /\ n \notin D!ToSet(s) => r = s
         /\ n \in D!ToSet(s) => \E k \in 1 .. Len(s) : s[k] = n /\ WithoutAt(r, s, k)
<1>1. Len(s) \in Nat /\ DOMAIN s = 1 .. Len(s) /\ \A j \in 1 .. Len(s) : s[j] \in S
  BY ElementOfSeq, LenProperties
<1>2. CASE n \notin D!ToSet(s)
  <2>1. ~\E i \in 1 .. Len(s) : s[i] = n
    BY <1>1, <1>2 DEF D!ToSet
  <2>2. D!RemoveFirst(s, n) = s
    BY <2>1 DEF D!RemoveFirst
  <2> QED
    BY <1>2, <2>2
<1>3. CASE n \in D!ToSet(s)
  <2>1. \E i \in 1 .. Len(s) : s[i] = n
    BY <1>1, <1>3 DEF D!ToSet
  <2>2. PICK k : k = PlaceOf(s, n)
    OBVIOUS
  <2>3. k \in 1 .. Len(s) /\ s[k] = n
    BY <2>1, <2>2, FirstPlace
  <2>4. PICK a : a = SubSeq(s, 1, k - 1)
    OBVIOUS
  <2>5. a \in Seq(S) /\ Len(a) = k - 1 /\ \A j \in 1 .. k - 1 : a[j] = s[j]
    BY <1>1, <2>3, <2>4, SubSeqProperties
  <2>6. PICK c : c = SubSeq(s, k + 1, Len(s))
    OBVIOUS
  <2>7. c \in Seq(S) /\ Len(c) = Len(s) - k /\ \A j \in 1 .. Len(s) - k : c[j] = s[k + j]
    <3>1. PICK h : h = k + 1
      OBVIOUS
    <3>2. h \in Int /\ Len(s) \in Int /\ \A i \in h .. Len(s) : s[i] \in S
      BY <1>1, <2>3, <3>1
    <3>3. /\ c \in Seq(S) /\ Len(c) = IF h <= Len(s) THEN Len(s) - h + 1 ELSE 0
          /\ \A i \in 1 .. Len(s) - h + 1 : c[i] = s[h + i - 1]
      BY <2>6, <3>1, <3>2, SubSeqProperties
    <3>4. Len(s) - h + 1 = Len(s) - k /\ (~(h <= Len(s)) => Len(s) - k = 0)
      <4>1. PICK z \in Nat : z = Len(s)
        BY <1>1
      <4>2. k \in 1 .. z
        BY <2>3, <4>1
      <4>3. z - h + 1 = z - k /\ (~(h <= z) => z - k = 0)
        BY <3>1, <4>2
      <4> QED
        BY <4>1, <4>3
    <3>5. \A j \in 1 .. Len(s) - k : h + j - 1 = k + j
      BY <1>1, <2>3, <3>1
    <3> QED
      BY <3>3, <3>4, <3>5
  <2>8. PICK r : r = a \o c
    OBVIOUS
  <2>9. D!RemoveFirst(s, n) = r
    BY <2>1, <2>2, <2>4, <2>6, <2>8 DEF D!RemoveFirst, D!RemoveAt, PlaceOf
  <2>10. /\ r \in Seq(S) /\ Len(r) = Len(a) + Len(c)
         /\ \A j \in 1 .. Len(a) : r[j] = a[j]
         /\ \A j \in Len(a) + 1 .. Len(a) + Len(c) : r[j] = c[j - Len(a)]
    BY <2>5, <2>7, <2>8, Joined
  <2>11. ASSUME NEW i \in 1 .. Len(s) - 1 PROVE r[i] = IF i < k THEN s[i] ELSE s[i + 1]
    <3>1. CASE i < k
      <4>1. i \in 1 .. k - 1
        BY <1>1, <2>3, <3>1
      <4> QED
        BY <2>5, <2>10, <3>1, <4>1
    <3>2. CASE i >= k
      <4>1. /\ i \in Len(a) + 1 .. Len(a) + Len(c) /\ i - Len(a) = i - k + 1
            /\ i - k + 1 \in 1 .. Len(s) - k /\ k + (i - k + 1) = i + 1
        BY <1>1, <2>3, <2>5, <2>7, <3>2
      <4>2. r[i] = c[i - k + 1] /\ c[i - k + 1] = s[k + (i - k + 1)]
        BY <2>7, <2>10, <4>1
      <4>3. ~(i < k)
        BY <1>1, <2>3, <3>2
      <4> QED
        BY <4>1, <4>2, <4>3
    <3> QED
      BY <1>1, <2>3, <3>1, <3>2
  <2>12. Len(r) = Len(s) - 1
    BY <1>1, <2>3, <2>5, <2>7, <2>10
  <2> QED
    BY <1>3, <2>3, <2>9, <2>10, <2>11, <2>12 DEF WithoutAt
<1> QED
  BY <1>2, <1>3

(* And with e at k.                                                         *)
WithAt(r, s, k, e) ==
  /\ Len(r) = Len(s) + 1
  /\ \A i \in 1 .. Len(s) + 1 : r[i] = IF i < k THEN s[i] ELSE IF i = k THEN e ELSE s[i - 1]

LEMMA InsertedAt ==
  ASSUME NEW S, NEW s \in Seq(S), NEW k \in 1 .. Len(s) + 1, NEW e \in S
  PROVE  LET r == D!InsertAt(s, k, e) IN r \in Seq(S) /\ WithAt(r, s, k, e)
<1>1. Len(s) \in Nat /\ \A j \in 1 .. Len(s) : s[j] \in S
  BY ElementOfSeq, LenProperties
<1>2. PICK a : a = SubSeq(s, 1, k - 1)
  OBVIOUS
<1>3. a \in Seq(S) /\ Len(a) = k - 1 /\ \A j \in 1 .. k - 1 : a[j] = s[j]
  BY <1>1, <1>2, SubSeqProperties
<1>4. PICK b : b = a \o <<e>>
  OBVIOUS
<1>5. b = Append(a, e)
  BY <1>3, <1>4
<1>6. b \in Seq(S) /\ Len(b) = k /\ b[k] = e /\ \A j \in 1 .. k - 1 : b[j] = s[j]
  <2>1. k - 1 \in Nat /\ k - 1 + 1 = k
    BY <1>1
  <2>2. b \in Seq(S) /\ Len(b) = Len(a) + 1 /\ b[Len(a) + 1] = e /\ \A j \in 1 .. Len(a) : b[j] = a[j]
    BY <1>3, <1>5
  <2> QED
    BY <1>3, <2>1, <2>2
<1>7. PICK c : c = SubSeq(s, k, Len(s))
  OBVIOUS
<1>8. c \in Seq(S) /\ Len(c) = Len(s) - k + 1 /\ \A j \in 1 .. Len(s) - k + 1 : c[j] = s[k + j - 1]
  BY <1>1, <1>7, SubSeqProperties
<1>9. PICK r : r = b \o c
  OBVIOUS
<1>10. D!InsertAt(s, k, e) = r
  BY <1>2, <1>4, <1>7, <1>9 DEF D!InsertAt
<1>11. /\ r \in Seq(S) /\ Len(r) = Len(b) + Len(c)
       /\ \A j \in 1 .. Len(b) : r[j] = b[j]
       /\ \A j \in Len(b) + 1 .. Len(b) + Len(c) : r[j] = c[j - Len(b)]
  BY <1>6, <1>8, <1>9, Joined
<1>12. ASSUME NEW i \in 1 .. Len(s) + 1
       PROVE  r[i] = IF i < k THEN s[i] ELSE IF i = k THEN e ELSE s[i - 1]
  <2>1. CASE i < k
    <3>1. i \in 1 .. k - 1 /\ i \in 1 .. Len(b)
      BY <1>1, <1>6, <2>1
    <3> QED
      BY <1>6, <1>11, <2>1, <3>1
  <2>2. CASE i = k
    <3>1. i \in 1 .. Len(b)
      BY <1>1, <1>6, <2>2
    <3> QED
      BY <1>6, <1>11, <2>2, <3>1
  <2>3. CASE i > k
    <3>1. /\ i \in Len(b) + 1 .. Len(b) + Len(c) /\ i - Len(b) = i - k
          /\ i - k \in 1 .. Len(s) - k + 1 /\ k + (i - k) - 1 = i - 1
          /\ ~(i < k) /\ i # k
      BY <1>1, <1>6, <1>8, <2>3
    <3>2. r[i] = c[i - k] /\ c[i - k] = s[k + (i - k) - 1]
      BY <1>8, <1>11, <3>1
    <3> QED
      BY <3>1, <3>2
  <2> QED
    BY <1>1, <2>1, <2>2, <2>3
<1>13. Len(r) = Len(s) + 1
  BY <1>1, <1>6, <1>8, <1>11
<1> QED
  BY <1>10, <1>11, <1>12, <1>13 DEF WithAt

LEMMA AppendedAt ==
  ASSUME NEW S, NEW s \in Seq(S), NEW e \in S
  PROVE  Append(s, e) \in Seq(S) /\ WithAt(Append(s, e), s, Len(s) + 1, e)
<1>1. PICK r : r = Append(s, e)
  OBVIOUS
<1>2. Len(s) \in Nat /\ r \in Seq(S) /\ Len(r) = Len(s) + 1 /\ r[Len(s) + 1] = e
      /\ \A i \in 1 .. Len(s) : r[i] = s[i]
  BY <1>1
<1> QED
  BY <1>1, <1>2 DEF WithAt

-----------------------------------------------------------------------------
(* Loops over a pointer ptr of the nodes.                                   *)
Ptrs == [D!Nodes -> D!Nodes \cup {NULL}]

Steps1(g, ptr, n) ==
  g = [k \in 1 .. Cardinality(D!Nodes) |->
         IF k = 1 THEN n ELSE IF g[k - 1] = NULL THEN NULL ELSE ptr[g[k - 1]]]

(* What such a loop comes to from n, each node once if it ends.             *)
IsWalk(s, ptr, n) ==
  /\ s \in Seq(D!Nodes) /\ Len(s) <= Cardinality(D!Nodes)
  /\ n = NULL <=> Len(s) = 0
  /\ Len(s) # 0 => s[1] = n
  /\ \A i \in 1 .. Len(s) - 1 : s[i + 1] = ptr[s[i]]
  /\ Len(s) # 0 /\ Len(s) < Cardinality(D!Nodes) => ptr[s[Len(s)]] = NULL

LEMMA SameCount == \A S : /\ D!Cardinality(S) = Cardinality(S)
                          /\ D!IsFiniteSet(S) <=> IsFiniteSet(S)
  BY DEF D!Cardinality, Cardinality, D!IsFiniteSet, IsFiniteSet

LEMMA NumberOfNodes ==
  ASSUME D!DomAssumption
  PROVE  /\ Cardinality(D!Nodes) \in Nat \ {0}
         /\ IsFiniteSet(D!Nodes) /\ NULL \notin D!Nodes
<1>1. D!Nodes # {}
  BY DEF D!Nodes
<1>2. IsFiniteSet(D!Nodes) /\ NULL \notin D!Nodes
  BY SameCount DEF D!DomAssumption
<1>3. Cardinality(D!Nodes) \in Nat
  BY <1>2, FS_CardinalityType
<1>4. Cardinality(D!Nodes) # 0
  BY <1>1, <1>2, FS_EmptySet
<1> QED
  BY <1>2, <1>3, <1>4

LEMMA StepsAre ==
  ASSUME D!DomAssumption, NEW ptr \in Ptrs, NEW n \in D!Nodes \cup {NULL}
  PROVE  \E g \in [1 .. Cardinality(D!Nodes) -> D!Nodes \cup {NULL}] : Steps1(g, ptr, n)
<1> DEFINE S == D!Nodes \cup {NULL}
           z == Cardinality(D!Nodes)
           step == [w \in S \X (1 .. z) |-> IF w[2] = 1 THEN n
                                            ELSE IF w[1] = NULL THEN NULL ELSE ptr[w[1]]]
<1>1. z \in Nat
  BY NumberOfNodes
<1>2. step \in [S \X (1 .. z) -> S]
  BY DEF Ptrs
<1>3. \A m \in S, i \in 1 .. z : step[<<m, i>>] = IF i = 1 THEN n ELSE IF m = NULL THEN NULL ELSE ptr[m]
  OBVIOUS
<1> HIDE DEF step, z, S
<1>4. PICK h \in [0 .. z -> S] : h[0] = n /\ Steps(h, step, z)
  <2>1. n \in S
    BY DEF S
  <2> QED
    BY <1>1, <1>2, <2>1, StepsExist
<1> DEFINE g == [k \in 1 .. z |-> h[k]]
<1>5. g \in [1 .. z -> S]
  BY <1>1, <1>4
<1>6. ASSUME NEW k \in 1 .. z
      PROVE  g[k] = IF k = 1 THEN n ELSE IF g[k - 1] = NULL THEN NULL ELSE ptr[g[k - 1]]
  <2>1. h[k] = step[<<h[k - 1], k>>] /\ h[k - 1] \in S
    BY <1>1, <1>4 DEF Steps
  <2>2. h[k] = IF k = 1 THEN n ELSE IF h[k - 1] = NULL THEN NULL ELSE ptr[h[k - 1]]
    BY <1>3, <2>1
  <2>3. k # 1 => k - 1 \in 1 .. z
    BY <1>1
  <2> QED
    BY <2>2, <2>3
<1>7. Steps1(g, ptr, n)
  <2>1. DOMAIN g = 1 .. z
    OBVIOUS
  <2> HIDE DEF g
  <2>2. g = [k \in 1 .. z |-> g[k]]
    BY <1>5
  <2> QED
    BY <1>6, <2>2 DEF Steps1, z
<1> QED
  BY <1>5, <1>7 DEF S, z

LEMMA FollowIs ==
  ASSUME D!DomAssumption, NEW ptr \in Ptrs, NEW n \in D!Nodes \cup {NULL}
  PROVE  IsWalk(D!Follow(ptr, n), ptr, n)
<1> DEFINE S == D!Nodes \cup {NULL}
<1>0. PICK z \in Nat \ {0} : z = Cardinality(D!Nodes)
  BY NumberOfNodes
<1>1. PICK g : g = CHOOSE f : Steps1(f, ptr, n)
  OBVIOUS
<1>2. g \in [1 .. z -> S] /\ Steps1(g, ptr, n)
  <2>1. PICK g2 \in [1 .. z -> S] : Steps1(g2, ptr, n)
    BY <1>0, StepsAre
  <2>2. Steps1(g, ptr, n)
    BY <1>1, <2>1
  <2>3. ASSUME NEW i \in 0 .. z PROVE i # 0 => g[i] = g2[i]
    <3> DEFINE P == {j \in 0 .. z : j # 0 => g[j] = g2[j]}
    <3>1. 0 \in P
      OBVIOUS
    <3>2. ASSUME NEW j \in 1 .. z, j - 1 \in P PROVE j \in P
      <4>1. /\ g[j] = IF j = 1 THEN n ELSE IF g[j - 1] = NULL THEN NULL ELSE ptr[g[j - 1]]
            /\ g2[j] = IF j = 1 THEN n ELSE IF g2[j - 1] = NULL THEN NULL ELSE ptr[g2[j - 1]]
        BY <1>0, <2>1, <2>2 DEF Steps1
      <4>2. CASE j = 1
        BY <4>1, <4>2
      <4>3. CASE j # 1
        BY <3>2, <4>1, <4>3
      <4> QED
        BY <4>2, <4>3
    <3> HIDE DEF P
    <3>3. \A j \in 0 .. z : j \in P
      BY <3>1, <3>2, UpTo
    <3> QED
      BY <3>3 DEF P
  <2>4. g = [k \in 1 .. z |-> g[k]]
    BY <1>0, <2>2 DEF Steps1
  <2>5. \A k \in 1 .. z : g[k] \in S
    BY <2>1, <2>3
  <2>6. g \in [1 .. z -> S]
    BY <2>4, <2>5
  <2> QED
    BY <2>2, <2>6
<1>3. \A k \in 1 .. z : g[k] = IF k = 1 THEN n ELSE IF g[k - 1] = NULL THEN NULL ELSE ptr[g[k - 1]]
  BY <1>0, <1>2 DEF Steps1
<1>4. g \in Seq(S) /\ Len(g) = z
  BY <1>2
<1>5. PICK e : e = PlaceOf(g, NULL)
  OBVIOUS
<1>6. D!Follow(ptr, n) = IF e = 0 THEN g ELSE SubSeq(g, 1, e - 1)
  <2>1. g = CHOOSE at : at = [k \in 1 .. D!Cardinality(D!Nodes) |->
                                IF k = 1 THEN n ELSE IF at[k - 1] = NULL THEN NULL
                                                     ELSE ptr[at[k - 1]]]
    BY <1>1, SameCount DEF Steps1
  <2> QED
    BY <1>5, <2>1 DEF D!Follow, D!BeforeNull, PlaceOf
<1>7. \/ e = 0 /\ \A i \in 1 .. z : g[i] # NULL
      \/ e \in 1 .. z /\ g[e] = NULL /\ \A i \in 1 .. e - 1 : g[i] # NULL
  <2>1. \/ e = 0 /\ \A i \in 1 .. Len(g) : g[i] # NULL
        \/ e \in 1 .. Len(g) /\ g[e] = NULL /\ \A i \in 1 .. e - 1 : g[i] # NULL
    <3> HIDE DEF S
    <3> QED
      BY <1>4, <1>5, FirstPlace
  <2> QED
    BY <1>4, <2>1
<1>8. PICK y \in 0 .. z : /\ y = IF e = 0 THEN z ELSE e - 1
                          /\ \A i \in 1 .. y : g[i] # NULL
                          /\ y < z => g[y + 1] = NULL
  <2>1. CASE e = 0
    BY <1>0, <1>7, <2>1
  <2>2. CASE e # 0
    BY <1>0, <1>7, <2>2
  <2> QED
    BY <2>1, <2>2
<1>9. PICK s : s = D!Follow(ptr, n)
  OBVIOUS
<1>10. s \in Seq(D!Nodes) /\ Len(s) = y /\ \A i \in 1 .. y : s[i] = g[i]
  <2>1. \A i \in 1 .. y : g[i] \in D!Nodes
    BY <1>0, <1>2, <1>8
  <2>2. CASE e = 0
    <3>1. s = g /\ y = z
      BY <1>6, <1>8, <1>9, <2>2
    <3>2. s = [i \in 1 .. z |-> g[i]]
      BY <1>2, <3>1
    <3>3. s \in [1 .. z -> D!Nodes]
      BY <2>1, <3>1, <3>2
    <3> QED
      BY <1>4, <3>1, <3>3
  <2>3. CASE e # 0
    <3>1. s = SubSeq(g, 1, y)
      BY <1>6, <1>8, <1>9, <2>3
    <3> HIDE DEF S
    <3>2. /\ s \in Seq(D!Nodes) /\ Len(s) = IF 1 <= y THEN y - 1 + 1 ELSE 0
          /\ \A i \in 1 .. y - 1 + 1 : s[i] = g[1 + i - 1]
      BY <1>8, <2>1, <3>1, SubSeqProperties
    <3> QED
      BY <1>8, <3>2
  <2> QED
    BY <2>2, <2>3
<1>a. g[1] = n
  <2>1. 1 \in 1 .. z
    BY <1>0
  <2> QED
    BY <1>3, <2>1
<1>11. n = NULL <=> y = 0
  <2>0. y \in 0 .. z /\ z \in Nat
    OBVIOUS
  <2> HIDE DEF S
  <2>1. CASE y = 0
    <3>1. y < z /\ y + 1 = 1
      BY <1>0, <2>1
    <3> QED
      BY <1>8, <1>a, <2>1, <3>1
  <2>2. CASE y # 0
    <3>1. 1 \in 1 .. y
      BY <2>0, <2>2
    <3> QED
      BY <1>8, <1>a, <2>2, <3>1
  <2> QED
    BY <2>1, <2>2
<1>12. ASSUME y # 0 PROVE s[1] = n
  <2>1. 1 \in 1 .. y
    <3>1. y \in 0 .. z /\ z \in Nat
      OBVIOUS
    <3> HIDE DEF S
    <3> QED
      BY <3>1, <1>12
  <2> QED
    BY <1>10, <1>a, <2>1
<1>13. ASSUME NEW i \in 1 .. y - 1 PROVE s[i + 1] = ptr[s[i]]
  <2>1. i + 1 \in 1 .. z /\ i + 1 \in 1 .. y /\ i \in 1 .. y /\ i + 1 # 1 /\ i + 1 - 1 = i
    BY <1>0, <1>8
  <2>2. g[i + 1] = IF g[i] = NULL THEN NULL ELSE ptr[g[i]]
    BY <1>3, <2>1
  <2> QED
    BY <1>8, <1>10, <2>1, <2>2
<1>14. ASSUME y # 0, y < z PROVE ptr[s[y]] = NULL
  <2>1. y + 1 \in 1 .. z /\ y \in 1 .. y /\ y + 1 # 1 /\ y + 1 - 1 = y
    <3>1. y \in 0 .. z /\ z \in Nat
      OBVIOUS
    <3> HIDE DEF S
    <3> QED
      BY <3>1, <1>14
  <2>2. g[y + 1] = IF g[y] = NULL THEN NULL ELSE ptr[g[y]]
    BY <1>3, <2>1
  <2> QED
    BY <1>8, <1>10, <1>14, <2>1, <2>2
<1>15. y <= z
  BY <1>0, <1>8
<1> HIDE DEF S
<1> QED
  BY <1>0, <1>9, <1>10, <1>11, <1>12, <1>13, <1>14, <1>15 DEF IsWalk

(* Of a list without repetitions the pointer makes the list.                *)
LEMMA WalkIsList ==
  ASSUME D!DomAssumption, NEW ptr \in Ptrs, NEW n, NEW s, IsWalk(s, ptr, n),
         NEW l \in Seq(D!Nodes), Apart(l),
         n = IF Len(l) = 0 THEN NULL ELSE l[1],
         \A i \in 1 .. Len(l) : ptr[l[i]] = IF i = Len(l) THEN NULL ELSE l[i + 1]
  PROVE  s = l
<1>0. PICK z \in Nat \ {0} : z = Cardinality(D!Nodes) /\ IsFiniteSet(D!Nodes) /\ NULL \notin D!Nodes
  BY NumberOfNodes
<1>1. PICK y \in Nat : y = Len(l)
  BY LenProperties
<1>2. l \in [1 .. y -> D!Nodes]
  BY <1>1
<1>3. y <= z
  <2>1. l \in Injection(1 .. y, D!Nodes)
    BY <1>2 DEF Injection, IsInjective, Apart
  <2>2. Cardinality(1 .. y) <= z
    BY <1>0, <2>1, FS_Injection
  <2>3. Cardinality(1 .. y) = y
    BY FS_Interval
  <2> QED
    BY <2>2, <2>3
<1>4. PICK x \in Nat : x = Len(s) /\ x <= z
  BY <1>0, LenProperties DEF IsWalk
<1>5. /\ s \in Seq(D!Nodes) /\ (n = NULL <=> x = 0) /\ (x # 0 => s[1] = n)
      /\ \A i \in 1 .. x - 1 : s[i + 1] = ptr[s[i]]
      /\ x # 0 /\ x < z => ptr[s[x]] = NULL
  BY <1>0, <1>4 DEF IsWalk
<1>6. /\ n = IF y = 0 THEN NULL ELSE l[1]
      /\ \A i \in 1 .. y : ptr[l[i]] = IF i = y THEN NULL ELSE l[i + 1]
      /\ \A i \in 1 .. y : l[i] # NULL
  BY <1>0, <1>1, <1>2
<1>7. x = 0 <=> y = 0
  BY <1>5, <1>6
<1> DEFINE P == {i \in 0 .. x : i <= y /\ \A j \in 1 .. i : s[j] = l[j]}
<1>8. 0 \in P
  OBVIOUS
<1>9. ASSUME NEW i \in 1 .. x, i - 1 \in P PROVE i \in P
  <2>1. CASE i = 1
    BY <1>5, <1>6, <1>7, <2>1
  <2>2. CASE i # 1
    <3>1. PICK h \in 1 .. x - 1 : h = i - 1
      BY <2>2
    <3>2. h + 1 = i /\ h \in 1 .. y /\ s[h] = l[h] /\ \A j \in 1 .. h : s[j] = l[j]
      BY <1>9, <3>1
    <3>3. s[i] = ptr[l[h]] /\ s[i] # NULL
      <4>1. s[i] \in D!Nodes
        BY <1>4, <1>5, ElementOfSeq
      <4> QED
        BY <1>0, <1>5, <3>1, <3>2, <4>1
    <3>4. h # y /\ s[i] = l[i]
      BY <1>6, <3>2, <3>3
    <3> QED
      BY <3>1, <3>2, <3>4
  <2> QED
    BY <2>1, <2>2
<1>10. x \in P
  <2> HIDE DEF P
  <2>1. \A i \in 0 .. x : i \in P
    BY <1>8, <1>9, UpTo
  <2> QED
    BY <2>1
<1>11. x <= y /\ \A j \in 1 .. x : s[j] = l[j]
  BY <1>10
<1>12. x = y
  <2>1. SUFFICES ASSUME x < y PROVE FALSE
    BY <1>11
  <2>2. x # 0 /\ x < z /\ x \in 1 .. y /\ x # y /\ x \in 1 .. x /\ x + 1 \in 1 .. y
    BY <1>3, <1>7, <2>1
  <2>3. ptr[l[x]] = NULL /\ ptr[l[x]] = l[x + 1]
    BY <1>5, <1>6, <1>11, <2>2
  <2> QED
    BY <1>6, <2>2, <2>3
<1> QED
  <2>1. s \in [1 .. x -> D!Nodes]
    BY <1>4, <1>5
  <2> QED
    BY <1>2, <1>11, <1>12, <2>1

-----------------------------------------------------------------------------
(* No node is below itself.                                                 *)
NoCircle(ptr) == \A S \in SUBSET D!Nodes : S # {} => \E n \in S : ptr[n] \notin S

LEMMA WalkIsClosed ==
  ASSUME D!DomAssumption, NEW ptr \in Ptrs, NoCircle(ptr), NEW n, NEW s, IsWalk(s, ptr, n),
         NEW m \in D!ToSet(s)
  PROVE  ptr[m] = NULL \/ ptr[m] \in D!ToSet(s)
<1>0. PICK z \in Nat \ {0} : z = Cardinality(D!Nodes) /\ IsFiniteSet(D!Nodes) /\ NULL \notin D!Nodes
  BY NumberOfNodes
<1>1. PICK x \in Nat : x = Len(s) /\ x <= z
  BY <1>0, LenProperties DEF IsWalk
<1>2. /\ s \in [1 .. x -> D!Nodes] /\ \A i \in 1 .. x - 1 : s[i + 1] = ptr[s[i]]
      /\ x # 0 /\ x < z => ptr[s[x]] = NULL
  BY <1>0, <1>1 DEF IsWalk
<1>3. PICK i \in 1 .. x : s[i] = m
  BY <1>2 DEF D!ToSet
<1>4. CASE i < x
  <2>1. i \in 1 .. x - 1 /\ i + 1 \in 1 .. x
    BY <1>4
  <2>2. ptr[m] = s[i + 1]
    BY <1>2, <1>3, <2>1
  <2> QED
    BY <1>2, <2>1, <2>2 DEF D!ToSet
<1>5. CASE i = x /\ x < z
  BY <1>2, <1>3, <1>5
<1>6. CASE i = x /\ x = z
  <2>1. ASSUME NEW a \in 1 .. x, NEW b \in 1 .. x, a < b, s[a] = s[b] PROVE FALSE
    <3> DEFINE C == {s[k] : k \in a .. b - 1}
    <3>1. C \in SUBSET D!Nodes /\ s[a] \in C
      <4>1. a \in a .. b - 1 /\ \A k \in a .. b - 1 : k \in 1 .. x
        BY <2>1
      <4> QED
        BY <1>2, <4>1
    <3>2. PICK k \in a .. b - 1 : ptr[s[k]] \notin C
      BY <3>1 DEF NoCircle
    <3>3. k \in 1 .. x - 1 /\ ptr[s[k]] = s[k + 1]
      BY <1>2, <2>1
    <3>4. k + 1 = b \/ k + 1 \in a .. b - 1
      BY <2>1
    <3> QED
      BY <2>1, <3>1, <3>2, <3>3, <3>4
  <2>2. s \in Injection(1 .. x, D!Nodes)
    <3>1. \A a, b \in 1 .. x : s[a] = s[b] => a = b
      <4>1. SUFFICES ASSUME NEW a \in 1 .. x, NEW b \in 1 .. x, s[a] = s[b], a # b PROVE FALSE
        OBVIOUS
      <4>2. a < b \/ b < a
        BY <4>1
      <4> QED
        BY <2>1, <4>1, <4>2
    <3> QED
      BY <1>2, <3>1 DEF Injection, IsInjective
  <2>3. Cardinality(1 .. x) = x
    BY FS_Interval
  <2>4. s \in Surjection(1 .. x, D!Nodes)
    BY <1>0, <1>6, <2>2, <2>3, FS_Injection
  <2>5. \A q \in D!Nodes : q \in D!ToSet(s)
    BY <1>2, <2>4 DEF Surjection, D!ToSet
  <2>6. m \in D!Nodes
    BY <1>2, <1>3
  <2> QED
    BY <2>5, <2>6 DEF Ptrs
<1> QED
  BY <1>1, <1>3, <1>4, <1>5, <1>6

(* A node goes under another that it is no ancestor of.                     *)
LEMMA StillNoCircle ==
  ASSUME D!DomAssumption, NEW ptr \in Ptrs, NoCircle(ptr), NEW n \in D!Nodes, NEW p \in D!Nodes,
         n \notin D!ToSet(D!Follow(ptr, p))
  PROVE  NoCircle([ptr EXCEPT ![n] = p])
<1>1. PICK s : s = D!Follow(ptr, p)
  OBVIOUS
<1>2. IsWalk(s, ptr, p)
  BY <1>1, FollowIs
<1>3. p \in D!ToSet(s)
  <2>1. Len(s) # 0 /\ s[1] = p /\ Len(s) \in Nat /\ DOMAIN s = 1 .. Len(s)
    BY <1>2, NumberOfNodes, LenProperties DEF IsWalk
  <2> QED
    BY <2>1 DEF D!ToSet
<1>4. n \notin D!ToSet(s)
  BY <1>1
<1>5. \A m \in D!ToSet(s) : ptr[m] = NULL \/ ptr[m] \in D!ToSet(s)
  BY <1>2, WalkIsClosed
<1>6. NULL \notin D!Nodes
  BY NumberOfNodes
<1> DEFINE q == [ptr EXCEPT ![n] = p]
<1>7. q[n] = p /\ \A m \in D!Nodes \ {n} : q[m] = ptr[m]
  BY DEF Ptrs
<1> HIDE DEF q
<1>8. ASSUME NEW S \in SUBSET D!Nodes, S # {}, \A m \in S : q[m] \in S PROVE FALSE
  <2>1. CASE p \in S
    <3> DEFINE C == S \cap D!ToSet(s)
    <3>1. C \in SUBSET D!Nodes /\ p \in C
      BY <1>3, <2>1
    <3>2. PICK m \in C : ptr[m] \notin C
      BY <3>1 DEF NoCircle
    <3>3. m # n /\ m \in D!Nodes /\ m \in S /\ m \in D!ToSet(s)
      BY <1>4, <3>1
    <3>4. ptr[m] \in S
      BY <1>7, <1>8, <3>3
    <3> QED
      BY <1>5, <1>6, <3>2, <3>3, <3>4
  <2>2. CASE p \notin S
    <3>1. n \notin S
      BY <1>7, <1>8, <2>2
    <3>2. \A m \in S : ptr[m] \in S
      BY <1>7, <1>8, <3>1
    <3> QED
      BY <1>8, <3>2 DEF NoCircle
  <2> QED
    BY <2>1, <2>2
<1> QED
  BY <1>8 DEF NoCircle, q

(* A node leaves the others.                                                *)
LEMMA LessNoCircle ==
  ASSUME NULL \notin D!Nodes, NEW ptr \in Ptrs, NoCircle(ptr), NEW q \in Ptrs,
         \A m \in D!Nodes : q[m] = ptr[m] \/ q[m] = NULL
  PROVE  NoCircle(q)
<1>1. ASSUME NEW S \in SUBSET D!Nodes, S # {}, \A m \in S : q[m] \in S PROVE FALSE
  <2>1. \A m \in S : ptr[m] \in S
    BY <1>1
  <2> QED
    BY <1>1, <2>1 DEF NoCircle
<1> QED
  BY <1>1 DEF NoCircle

-----------------------------------------------------------------------------
(* The children s of p, with the pointers of p and of the nodes.            *)
Row(s, p, a, b, par, nxt, prv) ==
  /\ Apart(s)
  /\ a = IF Len(s) = 0 THEN NULL ELSE s[1]
  /\ b = IF Len(s) = 0 THEN NULL ELSE s[Len(s)]
  /\ \A i \in 1 .. Len(s) : /\ par[s[i]] = p
                            /\ nxt[s[i]] = IF i = Len(s) THEN NULL ELSE s[i + 1]
                            /\ prv[s[i]] = IF i = 1 THEN NULL ELSE s[i - 1]

LEMMA OtherRow ==
  ASSUME NEW s \in Seq(D!Nodes), NEW p, NEW a, NEW b, NEW par, NEW nxt, NEW prv,
         Row(s, p, a, b, par, nxt, prv), NEW par2, NEW nxt2, NEW prv2,
         \A m \in D!ToSet(s) : par2[m] = par[m] /\ nxt2[m] = nxt[m] /\ prv2[m] = prv[m]
  PROVE  Row(s, p, a, b, par2, nxt2, prv2)
<1>1. \A i \in 1 .. Len(s) : s[i] \in D!ToSet(s)
  BY DEF D!ToSet
<1> QED
  BY <1>1 DEF Row

LEMMA RowFacts ==
  ASSUME NEW s \in Seq(D!Nodes), NEW p, NEW a, NEW b, NEW par, NEW nxt, NEW prv,
         Row(s, p, a, b, par, nxt, prv)
  PROVE  /\ \A i, j \in 1 .. Len(s) : s[i] = s[j] => i = j
         /\ Len(s) # 0 => a = s[1] /\ b = s[Len(s)]
         /\ \A i \in 1 .. Len(s) : /\ par[s[i]] = p
                                   /\ nxt[s[i]] = IF i = Len(s) THEN NULL ELSE s[i + 1]
                                   /\ prv[s[i]] = IF i = 1 THEN NULL ELSE s[i - 1]
<1>1. DOMAIN s = 1 .. Len(s)
  OBVIOUS
<1>2. Apart(s)
  BY DEF Row
<1>3. \A i, j \in 1 .. Len(s) : s[i] = s[j] => i = j
  BY <1>1, <1>2 DEF Apart
<1>4. Len(s) # 0 => a = s[1] /\ b = s[Len(s)]
  BY DEF Row
<1>5. \A i \in 1 .. Len(s) : /\ par[s[i]] = p
                             /\ nxt[s[i]] = IF i = Len(s) THEN NULL ELSE s[i + 1]
                             /\ prv[s[i]] = IF i = 1 THEN NULL ELSE s[i - 1]
  BY DEF Row
<1> QED
  BY <1>3, <1>4, <1>5, Zenon

(* What the pointers become when the child at k goes.                       *)
LinksLess(s, k, a, b, par, nxt, prv, a2, b2, par2, nxt2, prv2) ==
  /\ a2 = IF k = 1 THEN nxt[s[k]] ELSE a
  /\ b2 = IF k = Len(s) THEN prv[s[k]] ELSE b
  /\ \A i \in 1 .. Len(s) : i # k =>
       /\ par2[s[i]] = par[s[i]]
       /\ nxt2[s[i]] = IF i = k - 1 THEN nxt[s[k]] ELSE nxt[s[i]]
       /\ prv2[s[i]] = IF i = k + 1 THEN prv[s[k]] ELSE prv[s[i]]

LEMMA RowLess ==
  ASSUME NEW s \in Seq(D!Nodes), NEW p, NEW a, NEW b, NEW par, NEW nxt, NEW prv,
         Row(s, p, a, b, par, nxt, prv), NEW k \in 1 .. Len(s),
         NEW r \in Seq(D!Nodes), WithoutAt(r, s, k), NEW a2, NEW b2, NEW par2, NEW nxt2, NEW prv2,
         LinksLess(s, k, a, b, par, nxt, prv, a2, b2, par2, nxt2, prv2)
  PROVE  Row(r, p, a2, b2, par2, nxt2, prv2) /\ D!ToSet(r) = D!ToSet(s) \ {s[k]}
<1>1. PICK z \in Nat : z = Len(s) /\ DOMAIN s = 1 .. z
  BY LenProperties
<1>2. k \in 1 .. z /\ Len(r) = z - 1 /\ DOMAIN r = 1 .. z - 1
      /\ \A i \in 1 .. z - 1 : r[i] = IF i < k THEN s[i] ELSE s[i + 1]
  BY <1>1 DEF WithoutAt
<1>3. /\ \A i, j \in 1 .. z : s[i] = s[j] => i = j
      /\ a = s[1] /\ b = s[z]
      /\ \A i \in 1 .. z : /\ par[s[i]] = p
                           /\ nxt[s[i]] = IF i = z THEN NULL ELSE s[i + 1]
                           /\ prv[s[i]] = IF i = 1 THEN NULL ELSE s[i - 1]
  <2>1. z # 0
    BY <1>2
  <2>2. /\ \A i, j \in 1 .. Len(s) : s[i] = s[j] => i = j
        /\ Len(s) # 0 => a = s[1] /\ b = s[Len(s)]
        /\ \A i \in 1 .. Len(s) : /\ par[s[i]] = p
                                  /\ nxt[s[i]] = IF i = Len(s) THEN NULL ELSE s[i + 1]
                                  /\ prv[s[i]] = IF i = 1 THEN NULL ELSE s[i - 1]
    BY RowFacts
  <2> QED
    BY <1>1, <2>1, <2>2, Zenon
<1>4. /\ a2 = IF k = 1 THEN nxt[s[k]] ELSE a
      /\ b2 = IF k = z THEN prv[s[k]] ELSE b
      /\ \A i \in 1 .. z : i # k =>
           /\ par2[s[i]] = par[s[i]]
           /\ nxt2[s[i]] = IF i = k - 1 THEN nxt[s[k]] ELSE nxt[s[i]]
           /\ prv2[s[i]] = IF i = k + 1 THEN prv[s[k]] ELSE prv[s[i]]
  BY <1>1 DEF LinksLess
<1>5. \A i \in 1 .. z - 1 : IF i < k THEN i \in 1 .. z /\ i # k /\ r[i] = s[i]
                            ELSE i + 1 \in 1 .. z /\ i + 1 # k /\ r[i] = s[i + 1]
  BY <1>2
<1>6. Apart(r)
  <2> SUFFICES ASSUME NEW i \in 1 .. z - 1, NEW j \in 1 .. z - 1, r[i] = r[j] PROVE i = j
    BY <1>2 DEF Apart
  <2> DEFINE i2 == IF i < k THEN i ELSE i + 1
             j2 == IF j < k THEN j ELSE j + 1
  <2>1. i2 \in 1 .. z /\ j2 \in 1 .. z /\ r[i] = s[i2] /\ r[j] = s[j2]
    BY <1>5
  <2> HIDE DEF i2, j2
  <2>2. s[i2] = s[j2]
    BY <2>1
  <2>3. \A x, y \in 1 .. z : s[x] = s[y] => x = y
    BY <1>3
  <2>4. i2 = j2
    BY <2>1, <2>2, <2>3
  <2> QED
    BY <1>2, <2>4 DEF i2, j2
<1>7. a2 = IF z - 1 = 0 THEN NULL ELSE r[1]
  <2>1. CASE k = 1
    BY <1>2, <1>3, <1>4, <2>1
  <2>2. CASE k # 1
    BY <1>2, <1>3, <1>4, <2>2
  <2> QED
    BY <2>1, <2>2
<1>8. b2 = IF z - 1 = 0 THEN NULL ELSE r[z - 1]
  <2>1. CASE k = z
    BY <1>2, <1>3, <1>4, <2>1
  <2>2. CASE k # z
    BY <1>2, <1>3, <1>4, <2>2
  <2> QED
    BY <2>1, <2>2
<1>9. ASSUME NEW i \in 1 .. z - 1
      PROVE  /\ par2[r[i]] = p
             /\ nxt2[r[i]] = IF i = z - 1 THEN NULL ELSE r[i + 1]
             /\ prv2[r[i]] = IF i = 1 THEN NULL ELSE r[i - 1]
  <2>1. CASE i < k
    <3>1. i \in 1 .. z /\ i # k /\ r[i] = s[i] /\ i # k + 1
      BY <1>2, <1>5, <2>1
    <3>2. par2[r[i]] = p
      BY <1>3, <1>4, <3>1
    <3>3. prv2[r[i]] = IF i = 1 THEN NULL ELSE r[i - 1]
      <4>1. i # 1 => i - 1 \in 1 .. z - 1 /\ i - 1 < k /\ r[i - 1] = s[i - 1]
        BY <1>2, <1>5, <2>1
      <4> QED
        BY <1>3, <1>4, <3>1, <4>1
    <3>4. nxt2[r[i]] = IF i = z - 1 THEN NULL ELSE r[i + 1]
      <4>1. CASE i = k - 1
        <5>1. nxt2[r[i]] = nxt[s[k]]
          BY <1>4, <3>1, <4>1
        <5>2. CASE i = z - 1
          BY <1>2, <1>3, <4>1, <5>1, <5>2
        <5>3. CASE i # z - 1
          <6>1. k # z /\ i + 1 = k /\ k \in 1 .. z - 1 /\ r[k] = s[k + 1]
            BY <1>2, <1>5, <4>1, <5>3
          <6> QED
            BY <1>2, <1>3, <5>1, <5>3, <6>1
        <5> QED
          BY <5>2, <5>3
      <4>2. CASE i # k - 1
        <5>1. nxt2[r[i]] = nxt[s[i]] /\ i # z /\ i # z - 1 /\ i + 1 \in 1 .. z - 1 /\ i + 1 < k
          BY <1>2, <1>4, <2>1, <3>1, <4>2
        <5>2. r[i + 1] = s[i + 1]
          BY <1>5, <5>1
        <5> QED
          BY <1>3, <3>1, <5>1, <5>2
      <4> QED
        BY <4>1, <4>2
    <3> QED
      BY <3>2, <3>3, <3>4
  <2>2. CASE i >= k
    <3>1. i + 1 \in 1 .. z /\ i + 1 # k /\ r[i] = s[i + 1] /\ i + 1 # k - 1
      BY <1>2, <1>5, <2>2
    <3>2. par2[r[i]] = p
      BY <1>3, <1>4, <3>1
    <3>3. nxt2[r[i]] = IF i = z - 1 THEN NULL ELSE r[i + 1]
      <4>1. nxt2[r[i]] = nxt[s[i + 1]]
        BY <1>4, <3>1
      <4>2. i # z - 1 => i + 1 \in 1 .. z - 1 /\ ~(i + 1 < k) /\ r[i + 1] = s[i + 1 + 1]
        BY <1>2, <1>5, <2>2
      <4>3. i + 1 = z <=> i = z - 1
        BY <1>1
      <4> QED
        BY <1>3, <3>1, <4>1, <4>2, <4>3
    <3>4. prv2[r[i]] = IF i = 1 THEN NULL ELSE r[i - 1]
      <4>1. CASE i = k
        <5>1. prv2[r[i]] = prv[s[k]]
          BY <1>4, <3>1, <4>1
        <5>2. i # 1 => i - 1 \in 1 .. z - 1 /\ i - 1 < k /\ r[i - 1] = s[i - 1]
          BY <1>2, <1>5, <4>1
        <5> QED
          BY <1>2, <1>3, <4>1, <5>1, <5>2
      <4>2. CASE i # k
        <5>1. i + 1 # k + 1 /\ i # 1 /\ i - 1 \in 1 .. z - 1 /\ ~(i - 1 < k) /\ i - 1 + 1 = i
              /\ i + 1 - 1 = i /\ i + 1 # 1
          BY <1>2, <2>2, <4>2
        <5>2. r[i - 1] = s[i] /\ prv2[r[i]] = prv[s[i + 1]]
          BY <1>4, <1>5, <3>1, <5>1
        <5> QED
          BY <1>3, <3>1, <5>1, <5>2
      <4> QED
        BY <4>1, <4>2
    <3> QED
      BY <3>2, <3>3, <3>4
  <2> QED
    BY <1>2, <2>1, <2>2
<1>10. D!ToSet(r) = D!ToSet(s) \ {s[k]}
  <2>1. ASSUME NEW m \in D!ToSet(r) PROVE m \in D!ToSet(s) \ {s[k]}
    <3>1. PICK i \in 1 .. z - 1 : m = r[i]
      BY <1>2 DEF D!ToSet
    <3>2. PICK j \in 1 .. z : j # k /\ m = s[j]
      BY <1>5, <3>1
    <3> QED
      BY <1>1, <1>2, <1>3, <3>2 DEF D!ToSet
  <2>2. ASSUME NEW m \in D!ToSet(s) \ {s[k]} PROVE m \in D!ToSet(r)
    <3>1. PICK j \in 1 .. z : m = s[j] /\ j # k
      BY <1>1 DEF D!ToSet
    <3>2. CASE j < k
      <4>1. j \in 1 .. z - 1 /\ r[j] = s[j]
        BY <1>2, <1>5, <3>2
      <4> QED
        BY <1>2, <3>1, <4>1 DEF D!ToSet
    <3>3. CASE j > k
      <4>1. j - 1 \in 1 .. z - 1 /\ ~(j - 1 < k) /\ j - 1 + 1 = j
        BY <1>2, <3>3
      <4>2. r[j - 1] = s[j]
        BY <1>5, <4>1
      <4> QED
        BY <1>2, <3>1, <4>1, <4>2 DEF D!ToSet
    <3> QED
      BY <1>2, <3>1, <3>2, <3>3
  <2> QED
    BY <2>1, <2>2
<1> QED
  BY <1>2, <1>6, <1>7, <1>8, <1>9, <1>10 DEF Row

(* And when n comes in at k.                                                *)
LinksMore(s, p, n, k, a, b, par, nxt, prv, a2, b2, par2, nxt2, prv2) ==
  /\ a2 = IF k = 1 THEN n ELSE a
  /\ b2 = IF k = Len(s) + 1 THEN n ELSE b
  /\ par2[n] = p
  /\ nxt2[n] = IF k = Len(s) + 1 THEN NULL ELSE s[k]
  /\ prv2[n] = IF k = 1 THEN NULL ELSE s[k - 1]
  /\ \A i \in 1 .. Len(s) : /\ par2[s[i]] = par[s[i]]
                            /\ nxt2[s[i]] = IF i = k - 1 THEN n ELSE nxt[s[i]]
                            /\ prv2[s[i]] = IF i = k THEN n ELSE prv[s[i]]

LEMMA RowMore ==
  ASSUME NEW s \in Seq(D!Nodes), NEW p, NEW a, NEW b, NEW par, NEW nxt, NEW prv,
         Row(s, p, a, b, par, nxt, prv), NEW n \in D!Nodes, n \notin D!ToSet(s),
         NEW k \in 1 .. Len(s) + 1, NEW r \in Seq(D!Nodes), WithAt(r, s, k, n),
         NEW a2, NEW b2, NEW par2, NEW nxt2, NEW prv2,
         LinksMore(s, p, n, k, a, b, par, nxt, prv, a2, b2, par2, nxt2, prv2)
  PROVE  Row(r, p, a2, b2, par2, nxt2, prv2) /\ D!ToSet(r) = D!ToSet(s) \cup {n}
<1>1. PICK z \in Nat : z = Len(s) /\ DOMAIN s = 1 .. z
  BY LenProperties
<1>2. k \in 1 .. z + 1 /\ Len(r) = z + 1 /\ DOMAIN r = 1 .. z + 1
      /\ \A i \in 1 .. z + 1 : r[i] = IF i < k THEN s[i] ELSE IF i = k THEN n ELSE s[i - 1]
  BY <1>1 DEF WithAt
<1>3. /\ \A i, j \in 1 .. z : s[i] = s[j] => i = j
      /\ \A i \in 1 .. z : s[i] # n
      /\ z # 0 => a = s[1] /\ b = s[z]
      /\ \A i \in 1 .. z : /\ par[s[i]] = p
                           /\ nxt[s[i]] = IF i = z THEN NULL ELSE s[i + 1]
                           /\ prv[s[i]] = IF i = 1 THEN NULL ELSE s[i - 1]
  <2>1. \A i \in 1 .. z : s[i] # n
    BY <1>1 DEF D!ToSet
  <2>2. /\ \A i, j \in 1 .. Len(s) : s[i] = s[j] => i = j
        /\ Len(s) # 0 => a = s[1] /\ b = s[Len(s)]
        /\ \A i \in 1 .. Len(s) : /\ par[s[i]] = p
                                  /\ nxt[s[i]] = IF i = Len(s) THEN NULL ELSE s[i + 1]
                                  /\ prv[s[i]] = IF i = 1 THEN NULL ELSE s[i - 1]
    BY RowFacts
  <2> QED
    BY <1>1, <2>1, <2>2, Zenon
<1>4. /\ a2 = IF k = 1 THEN n ELSE a
      /\ b2 = IF k = z + 1 THEN n ELSE b
      /\ par2[n] = p /\ nxt2[n] = IF k = z + 1 THEN NULL ELSE s[k]
      /\ prv2[n] = IF k = 1 THEN NULL ELSE s[k - 1]
      /\ \A i \in 1 .. z : /\ par2[s[i]] = par[s[i]]
                           /\ nxt2[s[i]] = IF i = k - 1 THEN n ELSE nxt[s[i]]
                           /\ prv2[s[i]] = IF i = k THEN n ELSE prv[s[i]]
  BY <1>1 DEF LinksMore
<1>5. /\ \A i \in 1 .. k - 1 : i \in 1 .. z /\ r[i] = s[i]
      /\ r[k] = n
      /\ \A i \in k + 1 .. z + 1 : i - 1 \in 1 .. z /\ r[i] = s[i - 1]
  BY <1>2
<1>6. Apart(r)
  <2> SUFFICES ASSUME NEW i \in 1 .. z + 1, NEW j \in 1 .. z + 1, r[i] = r[j], i < j PROVE FALSE
    BY <1>2 DEF Apart
  <2>1. CASE j < k
    <3>1. i \in 1 .. k - 1 /\ j \in 1 .. k - 1 /\ i # j
      BY <1>2, <2>1
    <3>2. i \in 1 .. z /\ j \in 1 .. z /\ r[i] = s[i] /\ r[j] = s[j]
      BY <1>5, <3>1
    <3>3. \A x, y \in 1 .. z : s[x] = s[y] => x = y
      BY <1>3
    <3>4. s[i] = s[j]
      BY <3>2
    <3> QED
      BY <3>1, <3>2, <3>3, <3>4
  <2>2. CASE j = k
    <3>1. i \in 1 .. k - 1
      BY <1>2, <2>2
    <3>2. i \in 1 .. z /\ r[i] = s[i] /\ r[j] = n
      BY <1>5, <2>2, <3>1
    <3>3. \A x \in 1 .. z : s[x] # n
      BY <1>3
    <3> QED
      BY <3>2, <3>3
  <2>3. CASE j > k
    <3>1. j - 1 \in 1 .. z /\ r[j] = s[j - 1]
      BY <1>2, <1>5, <2>3
    <3>2. CASE i < k
      <4>1. i \in 1 .. z /\ r[i] = s[i] /\ i # j - 1
        BY <1>2, <1>5, <2>3, <3>2
      <4> QED
        BY <1>3, <3>1, <4>1
    <3>3. CASE i = k
      BY <1>3, <1>5, <3>1, <3>3
    <3>4. CASE i > k
      <4>1. i - 1 \in 1 .. z /\ r[i] = s[i - 1] /\ i - 1 # j - 1
        BY <1>2, <1>5, <3>4
      <4> QED
        BY <1>3, <3>1, <4>1
    <3> QED
      BY <1>2, <3>2, <3>3, <3>4
  <2> QED
    BY <1>2, <2>1, <2>2, <2>3
<1>7. a2 = r[1] /\ b2 = r[z + 1]
  <2>1. a2 = r[1]
    <3>1. k # 1 => z # 0 /\ 1 \in 1 .. k - 1
      BY <1>2
    <3> QED
      BY <1>3, <1>4, <1>5, <3>1
  <2>2. b2 = r[z + 1]
    <3>1. k # z + 1 => z # 0 /\ z + 1 \in k + 1 .. z + 1 /\ z + 1 - 1 = z
      BY <1>2
    <3> QED
      BY <1>3, <1>4, <1>5, <3>1
  <2> QED
    BY <2>1, <2>2
<1>8. ASSUME NEW i \in 1 .. z + 1
      PROVE  /\ par2[r[i]] = p
             /\ nxt2[r[i]] = IF i = z + 1 THEN NULL ELSE r[i + 1]
             /\ prv2[r[i]] = IF i = 1 THEN NULL ELSE r[i - 1]
  <2>1. CASE i = k
    <3>1. i # z + 1 => k + 1 \in k + 1 .. z + 1 /\ k + 1 - 1 = k
      BY <1>2, <2>1
    <3>2. i # 1 => k - 1 \in 1 .. k - 1
      BY <1>2, <2>1
    <3> QED
      BY <1>4, <1>5, <2>1, <3>1, <3>2
  <2>2. CASE i < k
    <3>1. i \in 1 .. k - 1 /\ i \in 1 .. z /\ r[i] = s[i] /\ i # k /\ i # z + 1
      BY <1>2, <1>5, <2>2
    <3>2. i # 1 => i - 1 \in 1 .. k - 1 /\ r[i - 1] = s[i - 1]
      BY <1>2, <1>5, <2>2
    <3>3. i = k - 1 => i + 1 = k
      BY <1>2
    <3>4. i # k - 1 => i + 1 \in 1 .. k - 1 /\ i # z
      BY <1>2, <2>2
    <3>5. par2[r[i]] = p /\ prv2[r[i]] = IF i = 1 THEN NULL ELSE r[i - 1]
      BY <1>3, <1>4, <3>1, <3>2
    <3>6. nxt2[r[i]] = r[i + 1]
      <4>1. CASE i = k - 1
        BY <1>4, <1>5, <3>1, <3>3, <4>1
      <4>2. CASE i # k - 1
        <5>1. r[i + 1] = s[i + 1]
          BY <1>5, <3>4, <4>2
        <5> QED
          BY <1>3, <1>4, <3>1, <3>4, <4>2, <5>1
      <4> QED
        BY <4>1, <4>2
    <3> QED
      BY <3>1, <3>5, <3>6
  <2>3. CASE i > k
    <3>0. PICK j \in 1 .. z : i = j + 1
      <4>1. i - 1 \in 1 .. z /\ i = (i - 1) + 1
        BY <1>2, <2>3
      <4> QED
        BY <4>1
    <3>1. r[i] = s[j] /\ j >= k /\ j # k - 1 /\ i # 1 /\ i - 1 = j
      <4>1. i \in k + 1 .. z + 1 /\ i - 1 = j
        BY <1>2, <2>3, <3>0
      <4> QED
        BY <1>2, <1>5, <2>3, <3>0, <4>1
    <3>2. par2[r[i]] = p
      BY <1>3, <1>4, <3>1
    <3>3. nxt2[r[i]] = IF i = z + 1 THEN NULL ELSE r[i + 1]
      <4>1. nxt2[r[i]] = IF j = z THEN NULL ELSE s[j + 1]
        BY <1>3, <1>4, <3>1
      <4>2. j = z <=> i = z + 1
        BY <1>1, <3>0
      <4>3. j # z => i + 1 \in k + 1 .. z + 1 /\ i + 1 - 1 = j + 1
        BY <1>1, <1>2, <3>0, <3>1
      <4> QED
        BY <1>5, <4>1, <4>2, <4>3
    <3>4. prv2[r[i]] = r[i - 1]
      <4>1. CASE j = k
        BY <1>4, <1>5, <3>1, <4>1
      <4>2. CASE j # k
        <5>1. j \in k + 1 .. z + 1 /\ j # 1
          BY <1>2, <3>1, <4>2
        <5>2. prv2[r[i]] = s[j - 1]
          BY <1>3, <1>4, <3>1, <4>2, <5>1
        <5>3. r[j] = s[j - 1]
          BY <1>5, <5>1
        <5> QED
          BY <3>1, <5>2, <5>3
      <4> QED
        BY <4>1, <4>2
    <3> QED
      BY <3>1, <3>2, <3>3, <3>4
  <2> QED
    BY <1>2, <2>1, <2>2, <2>3
<1>9. D!ToSet(r) = D!ToSet(s) \cup {n}
  <2>1. ASSUME NEW m \in D!ToSet(r) PROVE m \in D!ToSet(s) \cup {n}
    <3>1. PICK i \in 1 .. z + 1 : m = r[i]
      BY <1>2 DEF D!ToSet
    <3>2. CASE i = k
      BY <1>5, <3>1, <3>2
    <3>3. CASE i < k
      <4>1. i \in 1 .. z /\ m = s[i]
        BY <1>2, <1>5, <3>1, <3>3
      <4> QED
        BY <1>1, <4>1 DEF D!ToSet
    <3>4. CASE i > k
      <4>1. i - 1 \in 1 .. z /\ m = s[i - 1]
        BY <1>2, <1>5, <3>1, <3>4
      <4> QED
        BY <1>1, <4>1 DEF D!ToSet
    <3> QED
      BY <1>2, <3>2, <3>3, <3>4
  <2>2. ASSUME NEW m \in D!ToSet(s) PROVE m \in D!ToSet(r)
    <3>1. PICK j \in 1 .. z : m = s[j]
      BY <1>1 DEF D!ToSet
    <3>2. CASE j < k
      <4>1. j \in 1 .. z + 1 /\ r[j] = s[j]
        BY <1>2, <3>2
      <4> QED
        BY <1>2, <3>1, <4>1 DEF D!ToSet
    <3>3. CASE j >= k
      <4>1. j + 1 \in 1 .. z + 1 /\ j + 1 \in k + 1 .. z + 1 /\ j + 1 - 1 = j
        BY <1>2, <3>3
      <4>2. r[j + 1] = s[j]
        BY <1>5, <4>1
      <4> QED
        BY <1>2, <3>1, <4>1, <4>2 DEF D!ToSet
    <3> QED
      BY <1>2, <3>2, <3>3
  <2>3. n \in D!ToSet(r)
    BY <1>2, <1>5 DEF D!ToSet
  <2> QED
    BY <2>1, <2>2, <2>3
<1>10. z + 1 # 0 /\ 1 .. Len(r) = 1 .. z + 1
  BY <1>1, <1>2
<1> QED
  BY <1>2, <1>6, <1>7, <1>8, <1>9, <1>10 DEF Row

(* And when n takes the place k.                                            *)
LinksInstead(s, p, n, k, par, nxt, prv, par2, nxt2, prv2) ==
  /\ par2[n] = p /\ nxt2[n] = nxt[s[k]] /\ prv2[n] = prv[s[k]]
  /\ \A i \in 1 .. Len(s) : i # k =>
       /\ par2[s[i]] = par[s[i]]
       /\ nxt2[s[i]] = IF i = k - 1 THEN n ELSE nxt[s[i]]
       /\ prv2[s[i]] = IF i = k + 1 THEN n ELSE prv[s[i]]

LEMMA RowInstead ==
  ASSUME NEW s \in Seq(D!Nodes), NEW p, NEW a, NEW b, NEW par, NEW nxt, NEW prv,
         Row(s, p, a, b, par, nxt, prv), NEW n \in D!Nodes, n \notin D!ToSet(s),
         NEW k \in 1 .. Len(s), NEW r \in Seq(D!Nodes),
         Len(r) = Len(s), \A i \in 1 .. Len(s) : r[i] = IF i = k THEN n ELSE s[i],
         NEW par2, NEW nxt2, NEW prv2,
         LinksInstead(s, p, n, k, par, nxt, prv, par2, nxt2, prv2)
  PROVE  /\ Row(r, p, r[1], r[Len(r)], par2, nxt2, prv2)
         /\ D!ToSet(r) = (D!ToSet(s) \ {s[k]}) \cup {n}
<1>1. PICK z \in Nat : z = Len(s) /\ DOMAIN s = 1 .. z
  BY LenProperties
<1>2. k \in 1 .. z /\ Len(r) = z /\ DOMAIN r = 1 .. z /\ z # 0
      /\ \A i \in 1 .. z : r[i] = IF i = k THEN n ELSE s[i]
  BY <1>1
<1>3. /\ \A i, j \in 1 .. z : s[i] = s[j] => i = j
      /\ \A i \in 1 .. z : s[i] # n
      /\ \A i \in 1 .. z : /\ par[s[i]] = p
                           /\ nxt[s[i]] = IF i = z THEN NULL ELSE s[i + 1]
                           /\ prv[s[i]] = IF i = 1 THEN NULL ELSE s[i - 1]
  <2>1. \A i \in 1 .. z : s[i] # n
    BY <1>1 DEF D!ToSet
  <2>2. /\ \A i, j \in 1 .. Len(s) : s[i] = s[j] => i = j
        /\ Len(s) # 0 => a = s[1] /\ b = s[Len(s)]
        /\ \A i \in 1 .. Len(s) : /\ par[s[i]] = p
                                  /\ nxt[s[i]] = IF i = Len(s) THEN NULL ELSE s[i + 1]
                                  /\ prv[s[i]] = IF i = 1 THEN NULL ELSE s[i - 1]
    BY RowFacts
  <2> QED
    BY <1>1, <2>1, <2>2, Zenon
<1>4. /\ par2[n] = p /\ nxt2[n] = nxt[s[k]] /\ prv2[n] = prv[s[k]]
      /\ \A i \in 1 .. z : i # k => /\ par2[s[i]] = par[s[i]]
                                    /\ nxt2[s[i]] = IF i = k - 1 THEN n ELSE nxt[s[i]]
                                    /\ prv2[s[i]] = IF i = k + 1 THEN n ELSE prv[s[i]]
  BY <1>1 DEF LinksInstead
<1>5. Apart(r)
  <2> SUFFICES ASSUME NEW i \in 1 .. z, NEW j \in 1 .. z, r[i] = r[j] PROVE i = j
    BY <1>2 DEF Apart
  <2>1. i = k \/ i # k
    OBVIOUS
  <2>2. (i = k => r[i] = n) /\ (i # k => r[i] = s[i]) /\ (j = k => r[j] = n) /\ (j # k => r[j] = s[j])
    BY <1>2
  <2> QED
    BY <1>3, <2>1, <2>2
<1>6. ASSUME NEW i \in 1 .. z
      PROVE  /\ par2[r[i]] = p
             /\ nxt2[r[i]] = IF i = z THEN NULL ELSE r[i + 1]
             /\ prv2[r[i]] = IF i = 1 THEN NULL ELSE r[i - 1]
  <2>1. /\ i # z => i + 1 \in 1 .. z /\ i + 1 # i
        /\ i # 1 => i - 1 \in 1 .. z /\ i - 1 # i
        /\ (i + 1 = k <=> i = k - 1) /\ (i - 1 = k <=> i = k + 1)
    <3>1. k \in Nat /\ i \in Nat /\ z \in Nat
      BY <1>2
    <3> QED
      BY <3>1
  <2>2. par2[r[i]] = p
    BY <1>2, <1>3, <1>4
  <2>3. nxt2[r[i]] = IF i = z THEN NULL ELSE r[i + 1]
    <3>1. CASE i = k
      BY <1>2, <1>3, <1>4, <2>1, <3>1
    <3>2. CASE i # k /\ i = k - 1
      BY <1>2, <1>3, <1>4, <2>1, <3>2
    <3>3. CASE i # k /\ i # k - 1
      <4>1. r[i] = s[i] /\ nxt2[s[i]] = nxt[s[i]]
        BY <1>2, <1>4, <3>3
      <4>2. i # z => r[i + 1] = s[i + 1]
        BY <1>2, <2>1, <3>3
      <4> QED
        BY <1>3, <4>1, <4>2
    <3> QED
      BY <3>1, <3>2, <3>3
  <2>4. prv2[r[i]] = IF i = 1 THEN NULL ELSE r[i - 1]
    <3>1. CASE i = k
      BY <1>2, <1>3, <1>4, <2>1, <3>1
    <3>2. CASE i # k /\ i = k + 1
      BY <1>2, <1>3, <1>4, <2>1, <3>2
    <3>3. CASE i # k /\ i # k + 1
      <4>1. r[i] = s[i] /\ prv2[s[i]] = prv[s[i]]
        BY <1>2, <1>4, <3>3
      <4>2. i # 1 => r[i - 1] = s[i - 1]
        BY <1>2, <2>1, <3>3
      <4> QED
        BY <1>3, <4>1, <4>2
    <3> QED
      BY <3>1, <3>2, <3>3
  <2> QED
    BY <2>2, <2>3, <2>4
<1>7. D!ToSet(r) = (D!ToSet(s) \ {s[k]}) \cup {n}
  <2>1. ASSUME NEW m \in D!ToSet(r) PROVE m \in (D!ToSet(s) \ {s[k]}) \cup {n}
    <3>1. PICK i \in 1 .. z : m = r[i]
      BY <1>2 DEF D!ToSet
    <3>2. CASE i = k
      BY <1>2, <3>1, <3>2
    <3>3. CASE i # k
      <4>1. m = s[i] /\ m \in D!ToSet(s)
        BY <1>1, <1>2, <3>1, <3>3 DEF D!ToSet
      <4>2. \A j \in 1 .. z : s[i] = s[j] => i = j
        BY <1>3
      <4>3. s[i] # s[k]
        BY <1>2, <3>3, <4>2
      <4> QED
        BY <4>1, <4>3
    <3> QED
      BY <3>2, <3>3
  <2>2. ASSUME NEW m \in D!ToSet(s) \ {s[k]} PROVE m \in D!ToSet(r)
    <3>1. PICK i \in 1 .. z : m = s[i] /\ i # k
      BY <1>1 DEF D!ToSet
    <3>2. m = r[i]
      BY <1>2, <3>1
    <3> QED
      BY <1>2, <3>2 DEF D!ToSet
  <2>3. n \in D!ToSet(r)
    BY <1>2 DEF D!ToSet
  <2> QED
    BY <2>1, <2>2, <2>3
<1> QED
  BY <1>2, <1>5, <1>6, <1>7 DEF Row

-----------------------------------------------------------------------------
(* Trees.                                                                   *)
FieldNames == {"alive", "parentNode", "firstChild", "lastChild", "previousSibling", "nextSibling",
               "ownerDocument", "childNodes", "map", "documentElement", "doctype", "commonParent",
               "marked"}

LEMMA FieldsAre ==
  ASSUME NEW t \in D!Fields
  PROVE  /\ DOMAIN t = FieldNames
         /\ t.alive \in SUBSET D!Nodes /\ t.marked \in SUBSET D!Nodes
         /\ t.parentNode \in Ptrs /\ t.firstChild \in Ptrs /\ t.lastChild \in Ptrs
         /\ t.previousSibling \in Ptrs /\ t.nextSibling \in Ptrs
         /\ t.ownerDocument \in [D!Nodes -> {Doc, NULL}]
         /\ t.childNodes \in [D!Nodes -> Seq(D!Nodes)]
         /\ t.map \in [D!Nodes -> (SUBSET D!Nodes) \cup {NULL}]
         /\ t.documentElement \in Elements \cup {NULL} /\ t.doctype \in Doctypes \cup {NULL}
         /\ t.commonParent \in D!Nodes \cup {NULL}
  BY DEF D!Fields, FieldNames, Ptrs

Kinder(t, p) == D!ToSet(t.childNodes[p])

MapsRight(t) == \A p \in D!Nodes : t.map[p] # NULL => t.map[p] = Kinder(t, p)

ElementRight(t) == \A m \in Kinder(t, Doc) \cap Elements : m = t.documentElement

RowOf(t, p) == Row(t.childNodes[p], p, t.firstChild[p], t.lastChild[p],
                   t.parentNode, t.nextSibling, t.previousSibling)

ParentsRight(t) == \A n \in D!Nodes : t.parentNode[n] # NULL => n \in Kinder(t, t.parentNode[n])

TreeRight(t) == /\ t \in D!Fields /\ MapsRight(t) /\ ElementRight(t)
                /\ \A p \in D!Nodes : RowOf(t, p)
                /\ ParentsRight(t) /\ NoCircle(t.parentNode)

LEMMA KinderIn ==
  ASSUME NEW t \in D!Fields, NEW p \in D!Nodes
  PROVE  Kinder(t, p) \subseteq D!Nodes
<1>1. t.childNodes[p] \in Seq(D!Nodes)
  BY FieldsAre
<1> QED
  BY <1>1 DEF Kinder, D!ToSet

LEMMA KinderAre ==
  ASSUME D!DomAssumption, NEW t, TreeRight(t), NEW p \in D!Nodes
  PROVE  /\ \A n \in D!Nodes : n \in Kinder(t, p) <=> t.parentNode[n] = p
         /\ \A n : D!_lookupNode(t, p, n) <=> n \in Kinder(t, p)
<1>1. t \in D!Fields /\ MapsRight(t) /\ ParentsRight(t) /\ RowOf(t, p)
  BY DEF TreeRight
<1>2. t.childNodes[p] \in Seq(D!Nodes) /\ NULL \notin D!Nodes
  BY <1>1, FieldsAre, NumberOfNodes
<1>3. ASSUME NEW n \in D!Nodes PROVE n \in Kinder(t, p) <=> t.parentNode[n] = p
  <2>1. ASSUME n \in Kinder(t, p) PROVE t.parentNode[n] = p
    <3>1. PICK i \in 1 .. Len(t.childNodes[p]) : n = t.childNodes[p][i]
      BY <1>2, <2>1 DEF Kinder, D!ToSet
    <3> QED
      BY <1>1, <3>1 DEF RowOf, Row
  <2>2. ASSUME t.parentNode[n] = p PROVE n \in Kinder(t, p)
    BY <1>1, <1>2, <2>2 DEF ParentsRight
  <2> QED
    BY <2>1, <2>2
<1>4. \A n : D!_lookupNode(t, p, n) <=> n \in Kinder(t, p)
  BY <1>1 DEF D!_lookupNode, MapsRight, Kinder
<1> QED
  BY <1>3, <1>4

(* u differs from t in what the loops do not look at.                       *)
SameTree(u, t) ==
  /\ u.childNodes = t.childNodes /\ u.map = t.map /\ u.parentNode = t.parentNode
  /\ u.firstChild = t.firstChild /\ u.lastChild = t.lastChild
  /\ u.nextSibling = t.nextSibling /\ u.previousSibling = t.previousSibling

LEMMA SameTreeRight ==
  ASSUME NEW t, TreeRight(t), NEW u \in D!Fields, SameTree(u, t), ElementRight(u)
  PROVE  TreeRight(u)
<1>1. /\ u.childNodes = t.childNodes /\ u.map = t.map /\ u.parentNode = t.parentNode
      /\ u.firstChild = t.firstChild /\ u.lastChild = t.lastChild
      /\ u.nextSibling = t.nextSibling /\ u.previousSibling = t.previousSibling
  BY DEF SameTree
<1>2. \A p \in D!Nodes : RowOf(u, p)
  BY <1>1 DEF RowOf, TreeRight
<1>3. \A p : Kinder(u, p) = Kinder(t, p)
  BY <1>1 DEF Kinder
<1>4. MapsRight(u) /\ ParentsRight(u)
  BY <1>1, <1>3 DEF MapsRight, ParentsRight, TreeRight
<1>5. NoCircle(u.parentNode)
  BY <1>1 DEF TreeRight
<1> QED
  BY <1>2, <1>4, <1>5 DEF TreeRight

FirstIn(s, M) == D!SelectInSeq(s, LAMBDA m : m \in M)

LEMMA MarkedPlace ==
  ASSUME NEW S, NEW s \in Seq(S), NEW M
  PROVE  FirstIn(s, M) \in 0 .. Len(s)
<1> DEFINE I == {i \in 1 .. Len(s) : s[i] \in M}
<1>1. FirstIn(s, M) = IF I # {} THEN D!Min(I) ELSE 0
  BY DEF FirstIn, D!SelectInSeq
<1>2. Len(s) \in Nat /\ I \subseteq Nat
  OBVIOUS
<1>3. CASE I # {}
  <2>1. PICK m \in I : \A k \in I : m <= k
    BY <1>2, <1>3, LeastNatural
  <2>2. D!Min(I) \in I
    BY <2>1 DEF D!Min
  <2> QED
    BY <1>1, <1>2, <1>3, <2>2
<1>4. CASE I = {}
  BY <1>1, <1>2, <1>4
<1> QED
  BY <1>3, <1>4

LEMMA CommonParentIs ==
  ASSUME D!DomAssumption, NEW t \in D!Fields, NEW n \in D!Nodes,
         NEW u, u = D!updateCommonParent(t, n)
  PROVE  u \in D!Fields /\ SameTree(u, t) /\ u.documentElement = t.documentElement
<1>1. PICK s : s = D!Ancestry(t, n)
  OBVIOUS
<1>2. s \in Seq(D!Nodes)
  <2>1. IsWalk(s, t.parentNode, n)
    BY <1>1, FollowIs, FieldsAre DEF D!Ancestry
  <2> QED
    BY <2>1 DEF IsWalk
<1>3. PICK i : i = PlaceOf(s, t.commonParent)
  OBVIOUS
<1>4. i \in 0 .. Len(s)
  BY <1>2, <1>3, FirstPlace, LenProperties
<1>5. PICK j : j = FirstIn(s, t.marked)
  OBVIOUS
<1>6. j \in 0 .. Len(s)
  BY <1>2, <1>5, MarkedPlace
<1> DEFINE y == t.marked \cup D!ToSet(IF i = 0 THEN s ELSE SubSeq(s, 1, i - 1))
           x == IF i # 0 THEN t.commonParent ELSE IF j # 0 THEN s[j] ELSE NULL
<1>7. y \in SUBSET D!Nodes
  <2>1. PICK r : r = SubSeq(s, 1, i - 1)
    OBVIOUS
  <2>2. i # 0 => r \in Seq(D!Nodes)
    <3>1. SUFFICES ASSUME i # 0 PROVE r \in Seq(D!Nodes)
      OBVIOUS
    <3>2. \A q \in 1 .. i - 1 : s[q] \in D!Nodes
      BY <1>2, <1>4, <3>1, ElementOfSeq, LenProperties
    <3>3. i - 1 \in Int /\ 1 \in Int
      BY <1>2, <1>4, LenProperties
    <3> QED
      BY <2>1, <3>2, <3>3, SubSeqProperties
  <2>3. D!ToSet(IF i = 0 THEN s ELSE r) \subseteq D!Nodes
    BY <1>2, <2>2 DEF D!ToSet
  <2> QED
    BY <2>1, <2>3, FieldsAre
<1>8. x \in D!Nodes \cup {NULL}
  <2>1. j # 0 => s[j] \in D!Nodes
    BY <1>2, <1>6, ElementOfSeq, LenProperties
  <2> QED
    BY <2>1, FieldsAre
<1>9. \/ u = t
      \/ u = [t EXCEPT !.commonParent = n]
      \/ u = [t EXCEPT !.marked = y, !.commonParent = x]
  <2>1. u = CASE t.ownerDocument[n] = NULL -> t
              [] t.ownerDocument[n] # NULL /\ t.commonParent = NULL -> [t EXCEPT !.commonParent = n]
              [] OTHER -> [t EXCEPT !.marked = y, !.commonParent = x]
    BY <1>1, <1>3, <1>5 DEF D!updateCommonParent, PlaceOf, FirstIn
  <2> HIDE DEF x, y
  <2> QED
    BY <2>1
<1> HIDE DEF x, y
<1>10. CASE u = t
  BY <1>10 DEF SameTree
<1>11. CASE u = [t EXCEPT !.commonParent = n]
  BY <1>11 DEF SameTree, D!Fields
<1>12. CASE u = [t EXCEPT !.marked = y, !.commonParent = x]
  BY <1>7, <1>8, <1>12 DEF SameTree, D!Fields
<1> QED
  BY <1>9, <1>10, <1>11, <1>12

LEMMA CommonParentRight ==
  ASSUME D!DomAssumption, NEW t, TreeRight(t), NEW n \in D!Nodes,
         NEW u, u = D!updateCommonParent(t, n)
  PROVE  TreeRight(u) /\ SameTree(u, t) /\ u.documentElement = t.documentElement
<1>1. u \in D!Fields /\ SameTree(u, t) /\ u.documentElement = t.documentElement
  BY CommonParentIs DEF TreeRight
<1>2. ElementRight(u)
  BY <1>1 DEF ElementRight, Kinder, SameTree, TreeRight
<1> QED
  BY <1>1, <1>2, SameTreeRight

-----------------------------------------------------------------------------
(* A child is taken out.                                                    *)
AtPlace(t, p, n, k, z, a, b) ==
  /\ a = t.previousSibling[n] /\ b = t.nextSibling[n] /\ a # n /\ b # n
  /\ (a = NULL <=> k = 1) /\ (b = NULL <=> k = z)
  /\ (t.firstChild[p] = t.lastChild[p] <=> z = 1)
  /\ (n = t.firstChild[p] <=> k = 1) /\ (n = t.lastChild[p] <=> k = z)

OutOf(u, t, p, n, k, z, a, b) ==
  /\ u \in D!Fields
  /\ u.childNodes = t.childNodes /\ u.map = t.map /\ u.documentElement = t.documentElement
  /\ u.parentNode = [t.parentNode EXCEPT ![n] = NULL]
  /\ u.firstChild = [t.firstChild EXCEPT ![p] = IF k = 1 THEN b ELSE @]
  /\ u.lastChild = [t.lastChild EXCEPT ![p] = IF k = z THEN a ELSE @]
  /\ \A m \in D!Nodes \ {n} :
       /\ u.nextSibling[m] = IF m = a THEN b ELSE t.nextSibling[m]
       /\ u.previousSibling[m] = IF m = b THEN a ELSE t.previousSibling[m]

LEMMA UnlinkedIs ==
  ASSUME D!DomAssumption, NEW t \in D!Fields, NEW p \in D!Nodes, NEW n \in D!Nodes,
         NEW z \in Nat, NEW k \in 1 .. z, NEW a, NEW b, AtPlace(t, p, n, k, z, a, b),
         NEW u, u = D!Unlinked(t, p, n)
  PROVE  OutOf(u, t, p, n, k, z, a, b)
<1>0. /\ a = t.previousSibling[n] /\ b = t.nextSibling[n] /\ a # n /\ b # n
      /\ (a = NULL <=> k = 1) /\ (b = NULL <=> k = z)
      /\ (t.firstChild[p] = t.lastChild[p] <=> z = 1)
      /\ (n = t.firstChild[p] <=> k = 1) /\ (n = t.lastChild[p] <=> k = z)
  BY DEF AtPlace
<1>1. a \in D!Nodes \cup {NULL} /\ b \in D!Nodes \cup {NULL} /\ NULL \notin D!Nodes
  BY <1>0, FieldsAre, NumberOfNodes DEF Ptrs
<1> DEFINE v == CASE t.firstChild[p] = t.lastChild[p] ->
                       [t EXCEPT !.firstChild[p] = NULL, !.lastChild[p] = NULL]
                  [] t.firstChild[p] # t.lastChild[p] /\ n = t.firstChild[p] ->
                       [t EXCEPT !.firstChild[p] = b, !.previousSibling[b] = NULL]
                  [] n # t.firstChild[p] /\ n = t.lastChild[p] ->
                       [t EXCEPT !.lastChild[p] = a, !.nextSibling[a] = NULL]
                  [] OTHER -> [t EXCEPT !.nextSibling[a] = b, !.previousSibling[b] = a]
<1>2. u = [v EXCEPT !.previousSibling[n] = NULL, !.nextSibling[n] = NULL, !.parentNode[n] = NULL]
  BY <1>0 DEF D!Unlinked
<1>3. /\ v \in D!Fields
      /\ v.childNodes = t.childNodes /\ v.map = t.map /\ v.documentElement = t.documentElement
      /\ v.parentNode = t.parentNode
      /\ v.firstChild = [t.firstChild EXCEPT ![p] = IF k = 1 THEN b ELSE @]
      /\ v.lastChild = [t.lastChild EXCEPT ![p] = IF k = z THEN a ELSE @]
      /\ \A m \in D!Nodes \ {n} :
              /\ v.nextSibling[m] = IF m = a THEN b ELSE t.nextSibling[m]
              /\ v.previousSibling[m] = IF m = b THEN a ELSE t.previousSibling[m]
  <2>1. CASE z = 1
    <3>1. v = [t EXCEPT !.firstChild[p] = NULL, !.lastChild[p] = NULL] /\ a = NULL /\ b = NULL /\ k = 1
      BY <1>0, <2>1
    <3> HIDE DEF v
    <3> QED
      BY <1>1, <2>1, <3>1 DEF D!Fields
  <2>2. CASE z # 1 /\ k = 1
    <3>1. v = [t EXCEPT !.firstChild[p] = b, !.previousSibling[b] = NULL] /\ a = NULL /\ b \in D!Nodes
      BY <1>0, <1>1, <2>2
    <3> HIDE DEF v
    <3> QED
      BY <1>1, <2>2, <3>1 DEF D!Fields
  <2>3. CASE z # 1 /\ k # 1 /\ k = z
    <3>1. v = [t EXCEPT !.lastChild[p] = a, !.nextSibling[a] = NULL] /\ b = NULL /\ a \in D!Nodes
      BY <1>0, <1>1, <2>3
    <3> HIDE DEF v
    <3> QED
      BY <1>1, <2>3, <3>1 DEF D!Fields
  <2>4. CASE z # 1 /\ k # 1 /\ k # z
    <3>1. v = [t EXCEPT !.nextSibling[a] = b, !.previousSibling[b] = a] /\ b \in D!Nodes /\ a \in D!Nodes
      BY <1>0, <1>1, <2>4
    <3> HIDE DEF v
    <3> QED
      BY <1>1, <2>4, <3>1 DEF D!Fields
  <2> QED
    BY <2>1, <2>2, <2>3, <2>4
<1> HIDE DEF v
<1>4. PICK w1 : w1 = [v.previousSibling EXCEPT ![n] = NULL]
  OBVIOUS
<1>5. PICK w2 : w2 = [v.nextSibling EXCEPT ![n] = NULL]
  OBVIOUS
<1>6. PICK w3 : w3 = [v.parentNode EXCEPT ![n] = NULL]
  OBVIOUS
<1>7. /\ v.previousSibling \in Ptrs /\ v.nextSibling \in Ptrs /\ v.parentNode \in Ptrs
      /\ DOMAIN v = FieldNames
  BY <1>3, FieldsAre
<1>8. /\ w1 \in Ptrs /\ w2 \in Ptrs /\ w3 \in Ptrs
      /\ \A m \in D!Nodes \ {n} : w1[m] = v.previousSibling[m] /\ w2[m] = v.nextSibling[m]
  BY <1>4, <1>5, <1>6, <1>7 DEF Ptrs
<1>9. u = [v EXCEPT !.previousSibling = w1, !.nextSibling = w2, !.parentNode = w3]
  BY <1>2, <1>4, <1>5, <1>6, <1>7 DEF FieldNames
<1>10. v \in D!Fields
  BY <1>3
<1>11. /\ u \in D!Fields
       /\ u.childNodes = v.childNodes /\ u.map = v.map /\ u.documentElement = v.documentElement
       /\ u.parentNode = w3 /\ u.firstChild = v.firstChild /\ u.lastChild = v.lastChild
       /\ u.previousSibling = w1 /\ u.nextSibling = w2
  BY <1>8, <1>9, <1>10 DEF D!Fields, Ptrs
<1> QED
  BY <1>3, <1>6, <1>8, <1>11 DEF OutOf

(* A row of another node stays.                                             *)
LEMMA OtherRows ==
  ASSUME NEW t, TreeRight(t), NEW q \in D!Nodes, NEW u,
         u.childNodes[q] = t.childNodes[q], u.firstChild[q] = t.firstChild[q],
         u.lastChild[q] = t.lastChild[q],
         \A m \in Kinder(t, q) : /\ u.parentNode[m] = t.parentNode[m]
                                 /\ u.nextSibling[m] = t.nextSibling[m]
                                 /\ u.previousSibling[m] = t.previousSibling[m]
  PROVE  RowOf(u, q)
<1>1. t.childNodes[q] \in Seq(D!Nodes) /\ RowOf(t, q)
  BY FieldsAre DEF TreeRight
<1> QED
  BY <1>1, OtherRow DEF RowOf, Kinder

(* What is left of t when n has gone from the children of p.                *)
PartLeft(u, t, p, n) ==
  /\ u \in D!Fields /\ MapsRight(u) /\ (\A q \in D!Nodes : RowOf(u, q))
  /\ ParentsRight(u) /\ NoCircle(u.parentNode)
  /\ u.documentElement = t.documentElement
  /\ u.parentNode = [t.parentNode EXCEPT ![n] = NULL]
  /\ Kinder(u, p) = Kinder(t, p) \ {n}
  /\ \A q \in D!Nodes : q # p => u.childNodes[q] = t.childNodes[q]
  /\ (t.map[p] # NULL => u.map[p] # NULL)

Leaves(u, t, p, n) ==
  /\ TreeRight(u)
  /\ u.parentNode = [t.parentNode EXCEPT ![n] = NULL]
  /\ Kinder(u, p) = Kinder(t, p) \ {n}
  /\ \A q \in D!Nodes : q # p => u.childNodes[q] = t.childNodes[q]
  /\ (t.documentElement = NULL => u.documentElement = NULL)
  /\ (t.map[p] # NULL => u.map[p] # NULL)

LEMMA TakenOut ==
  ASSUME D!DomAssumption, NEW t, TreeRight(t), NEW p \in D!Nodes, NEW n \in Kinder(t, p),
         NEW u, u = D!Unlinked(D!NodeList_remove(t, p, n), p, n)
  PROVE  PartLeft(u, t, p, n)
<1>0. t \in D!Fields /\ NULL \notin D!Nodes
  BY NumberOfNodes DEF TreeRight
<1>1. PICK s \in Seq(D!Nodes) : s = t.childNodes[p]
  BY <1>0, FieldsAre
<1>2. Kinder(t, p) = D!ToSet(s) /\ n \in D!Nodes
  BY <1>0, <1>1, KinderIn DEF Kinder
<1>3. PICK r : r = D!RemoveFirst(s, n)
  OBVIOUS
<1>4. r \in Seq(D!Nodes) /\ \E k \in 1 .. Len(s) : s[k] = n /\ WithoutAt(r, s, k)
  BY <1>2, <1>3, RemovedAt
<1>5. PICK k \in 1 .. Len(s) : s[k] = n /\ WithoutAt(r, s, k)
  BY <1>4
<1>6. PICK z \in Nat : z = Len(s)
  BY LenProperties
<1>7. Row(s, p, t.firstChild[p], t.lastChild[p], t.parentNode, t.nextSibling, t.previousSibling)
  BY <1>1 DEF TreeRight, RowOf
<1>8. PICK a : a = t.previousSibling[n]
  OBVIOUS
<1>9. PICK b : b = t.nextSibling[n]
  OBVIOUS
<1>10. /\ \A i, j \in 1 .. z : s[i] = s[j] => i = j
       /\ t.firstChild[p] = s[1] /\ t.lastChild[p] = s[z]
       /\ \A i \in 1 .. z : s[i] \in D!Nodes
       /\ a = IF k = 1 THEN NULL ELSE s[k - 1]
       /\ b = IF k = z THEN NULL ELSE s[k + 1]
  <2>1. \A i, j \in 1 .. Len(s) : s[i] = s[j] => i = j
    BY <1>7, RowFacts
  <2>2. Len(s) # 0 => t.firstChild[p] = s[1] /\ t.lastChild[p] = s[Len(s)]
    BY <1>7, RowFacts
  <2>3. /\ t.nextSibling[s[k]] = IF k = Len(s) THEN NULL ELSE s[k + 1]
        /\ t.previousSibling[s[k]] = IF k = 1 THEN NULL ELSE s[k - 1]
    BY <1>5, <1>7, RowFacts
  <2>4. \A i \in 1 .. Len(s) : s[i] \in D!Nodes
    BY ElementOfSeq
  <2>5. Len(s) # 0
    BY <1>5, <1>6
  <2> QED
    BY <1>5, <1>6, <1>8, <1>9, <2>1, <2>2, <2>3, <2>4, <2>5
<1>11. k \in 1 .. z /\ 1 \in 1 .. z /\ z \in 1 .. z /\ (k # 1 => k - 1 \in 1 .. z) /\ (k # z => k + 1 \in 1 .. z)
  BY <1>5, <1>6
<1>12. /\ a # n /\ b # n /\ (a = NULL <=> k = 1) /\ (b = NULL <=> k = z)
       /\ (t.firstChild[p] = t.lastChild[p] <=> z = 1)
       /\ (n = t.firstChild[p] <=> k = 1) /\ (n = t.lastChild[p] <=> k = z)
  <2>1. n \in D!Nodes /\ n = s[k]
    BY <1>2, <1>5
  <2>2. k # 1 => s[k - 1] # n /\ s[k - 1] # NULL
    <3>1. k # 1 => k - 1 \in 1 .. z /\ k - 1 # k
      BY <1>11
    <3> QED
      BY <1>0, <1>10, <1>11, <2>1, <3>1
  <2>3. k # z => s[k + 1] # n /\ s[k + 1] # NULL
    <3>1. k # z => k + 1 \in 1 .. z /\ k + 1 # k
      BY <1>11
    <3> QED
      BY <1>0, <1>10, <1>11, <2>1, <3>1
  <2>4. s[1] = s[z] <=> z = 1
    BY <1>10, <1>11
  <2>5. (s[k] = s[1] <=> k = 1) /\ (s[k] = s[z] <=> k = z)
    BY <1>10, <1>11
  <2> QED
    BY <1>0, <1>10, <2>1, <2>2, <2>3, <2>4, <2>5
<1>13. PICK l : l = D!NodeList_remove(t, p, n)
  OBVIOUS
<1>14. /\ l \in D!Fields
       /\ l.childNodes = [t.childNodes EXCEPT ![p] = r]
       /\ l.map = [t.map EXCEPT ![p] = IF t.map[p] = NULL THEN NULL ELSE t.map[p] \ {n}]
       /\ l.parentNode = t.parentNode /\ l.firstChild = t.firstChild /\ l.lastChild = t.lastChild
       /\ l.previousSibling = t.previousSibling /\ l.nextSibling = t.nextSibling
       /\ l.documentElement = t.documentElement
  <2>1. PICK m : m = IF t.map[p] = NULL THEN NULL ELSE t.map[p] \ {n}
    OBVIOUS
  <2>2. m \in (SUBSET D!Nodes) \cup {NULL}
    BY <1>0, <2>1, FieldsAre
  <2>3. l = [t EXCEPT !.map[p] = m, !.childNodes[p] = r]
    BY <1>0, <1>1, <1>3, <1>13, <2>1, FieldsAre DEF D!NodeList_remove, D!_removeFromMap, FieldNames
  <2>4. PICK mm : mm = [t.map EXCEPT ![p] = m]
    OBVIOUS
  <2>5. PICK cc : cc = [t.childNodes EXCEPT ![p] = r]
    OBVIOUS
  <2>6. /\ t.map \in [D!Nodes -> (SUBSET D!Nodes) \cup {NULL}]
        /\ t.childNodes \in [D!Nodes -> Seq(D!Nodes)] /\ DOMAIN t = FieldNames
    BY <1>0, FieldsAre
  <2>7. mm \in [D!Nodes -> (SUBSET D!Nodes) \cup {NULL}] /\ cc \in [D!Nodes -> Seq(D!Nodes)]
    BY <1>4, <2>2, <2>4, <2>5, <2>6
  <2>8. l = [t EXCEPT !.map = mm, !.childNodes = cc]
    BY <2>3, <2>4, <2>5, <2>6 DEF FieldNames
  <2>9. /\ l \in D!Fields
        /\ l.childNodes = cc /\ l.map = mm
        /\ l.parentNode = t.parentNode /\ l.firstChild = t.firstChild /\ l.lastChild = t.lastChild
        /\ l.previousSibling = t.previousSibling /\ l.nextSibling = t.nextSibling
        /\ l.documentElement = t.documentElement
    BY <1>0, <2>7, <2>8 DEF D!Fields
  <2> QED
    BY <2>1, <2>4, <2>5, <2>9
<1>15. /\ u \in D!Fields
       /\ u.childNodes = l.childNodes /\ u.map = l.map /\ u.documentElement = l.documentElement
       /\ u.parentNode = [l.parentNode EXCEPT ![n] = NULL]
       /\ u.firstChild = [l.firstChild EXCEPT ![p] = IF k = 1 THEN b ELSE @]
       /\ u.lastChild = [l.lastChild EXCEPT ![p] = IF k = z THEN a ELSE @]
       /\ \A m \in D!Nodes \ {n} :
            /\ u.nextSibling[m] = IF m = a THEN b ELSE l.nextSibling[m]
            /\ u.previousSibling[m] = IF m = b THEN a ELSE l.previousSibling[m]
  <2>1. u = D!Unlinked(l, p, n)
    BY <1>13
  <2>2. a = l.previousSibling[n] /\ b = l.nextSibling[n]
    BY <1>8, <1>9, <1>14
  <2>3. /\ (l.firstChild[p] = l.lastChild[p] <=> z = 1)
        /\ (n = l.firstChild[p] <=> k = 1) /\ (n = l.lastChild[p] <=> k = z)
    BY <1>12, <1>14
  <2>4. l \in D!Fields /\ k \in 1 .. z /\ n \in D!Nodes
    BY <1>2, <1>11, <1>14
  <2>5. AtPlace(l, p, n, k, z, a, b)
    BY <1>12, <2>2, <2>3 DEF AtPlace
  <2>6. OutOf(u, l, p, n, k, z, a, b)
    BY <2>1, <2>4, <2>5, UnlinkedIs
  <2> QED
    BY <2>6 DEF OutOf
<1>16. /\ u.parentNode = [t.parentNode EXCEPT ![n] = NULL]
       /\ u.documentElement = t.documentElement
       /\ u.childNodes = [t.childNodes EXCEPT ![p] = r]
       /\ u.firstChild = [t.firstChild EXCEPT ![p] = IF k = 1 THEN b ELSE @]
       /\ u.lastChild = [t.lastChild EXCEPT ![p] = IF k = z THEN a ELSE @]
       /\ \A m \in D!Nodes \ {n} :
            /\ u.nextSibling[m] = IF m = a THEN b ELSE t.nextSibling[m]
            /\ u.previousSibling[m] = IF m = b THEN a ELSE t.previousSibling[m]
       /\ \A m \in D!Nodes \ {n} : u.parentNode[m] = t.parentNode[m]
  <2>1. \A m \in D!Nodes \ {n} : u.parentNode[m] = t.parentNode[m]
    BY <1>14, <1>15
  <2> QED
    BY <1>14, <1>15, <2>1
<1>17. t.childNodes \in [D!Nodes -> Seq(D!Nodes)] /\ t.firstChild \in Ptrs /\ t.lastChild \in Ptrs
       /\ t.parentNode \in Ptrs
  BY <1>0, FieldsAre
<1>18. /\ u.childNodes[p] = r
       /\ u.firstChild[p] = IF k = 1 THEN b ELSE t.firstChild[p]
       /\ u.lastChild[p] = IF k = z THEN a ELSE t.lastChild[p]
       /\ \A q \in D!Nodes : q # p => /\ u.childNodes[q] = t.childNodes[q]
                                      /\ u.firstChild[q] = t.firstChild[q]
                                      /\ u.lastChild[q] = t.lastChild[q]
  BY <1>16, <1>17 DEF Ptrs
<1>19. RowOf(u, p) /\ D!ToSet(r) = D!ToSet(s) \ {n}
  <2>1. ASSUME NEW i \in 1 .. Len(s), i # k
        PROVE  /\ u.parentNode[s[i]] = t.parentNode[s[i]]
               /\ u.nextSibling[s[i]] = IF i = k - 1 THEN t.nextSibling[s[k]] ELSE t.nextSibling[s[i]]
               /\ u.previousSibling[s[i]] = IF i = k + 1 THEN t.previousSibling[s[k]]
                                            ELSE t.previousSibling[s[i]]
    <3>1. i \in 1 .. z /\ s[i] \in D!Nodes /\ s[i] # n
      BY <1>5, <1>6, <1>10, <1>11, <2>1
    <3>2. s[i] = a <=> i = k - 1
      <4>1. CASE k = 1
        BY <1>0, <1>6, <1>10, <3>1, <4>1
      <4>2. CASE k # 1
        BY <1>10, <1>11, <3>1, <4>2
      <4> QED
        BY <4>1, <4>2
    <3>3. s[i] = b <=> i = k + 1
      <4>1. CASE k = z
        BY <1>0, <1>6, <1>10, <3>1, <4>1
      <4>2. CASE k # z
        BY <1>10, <1>11, <3>1, <4>2
      <4> QED
        BY <4>1, <4>2
    <3>4. t.nextSibling[s[k]] = b /\ t.previousSibling[s[k]] = a
      BY <1>5, <1>8, <1>9
    <3> QED
      BY <1>16, <3>1, <3>2, <3>3, <3>4
  <2>2. /\ u.firstChild[p] = IF k = 1 THEN t.nextSibling[s[k]] ELSE t.firstChild[p]
        /\ u.lastChild[p] = IF k = Len(s) THEN t.previousSibling[s[k]] ELSE t.lastChild[p]
    BY <1>5, <1>6, <1>8, <1>9, <1>18
  <2>3. Row(r, p, u.firstChild[p], u.lastChild[p], u.parentNode, u.nextSibling, u.previousSibling)
        /\ D!ToSet(r) = D!ToSet(s) \ {s[k]}
    <3>1. PICK a2, b2, par2, nxt2, prv2 :
            /\ a2 = u.firstChild[p] /\ b2 = u.lastChild[p] /\ par2 = u.parentNode
            /\ nxt2 = u.nextSibling /\ prv2 = u.previousSibling
      OBVIOUS
    <3>2. PICK a1, b1, par, nxt, prv :
            /\ a1 = t.firstChild[p] /\ b1 = t.lastChild[p] /\ par = t.parentNode
            /\ nxt = t.nextSibling /\ prv = t.previousSibling
      OBVIOUS
    <3>3. Row(s, p, a1, b1, par, nxt, prv)
      BY <1>7, <3>2
    <3>4. LinksLess(s, k, a1, b1, par, nxt, prv, a2, b2, par2, nxt2, prv2)
      BY <2>1, <2>2, <3>1, <3>2 DEF LinksLess
    <3>6. r \in Seq(D!Nodes) /\ WithoutAt(r, s, k)
      BY <1>4, <1>5
    <3>7. Row(r, p, a2, b2, par2, nxt2, prv2) /\ D!ToSet(r) = D!ToSet(s) \ {s[k]}
      BY <3>3, <3>4, <3>6, RowLess
    <3> QED
      BY <3>1, <3>7
  <2> QED
    BY <1>5, <1>18, <2>3 DEF RowOf
<1>20. Kinder(u, p) = Kinder(t, p) \ {n} /\ \A q \in D!Nodes : q # p => Kinder(u, q) = Kinder(t, q)
  BY <1>2, <1>18, <1>19 DEF Kinder
<1>21. ASSUME NEW q \in D!Nodes, q # p PROVE RowOf(u, q)
  <2>1. ASSUME NEW m \in Kinder(t, q)
        PROVE  /\ u.parentNode[m] = t.parentNode[m]
               /\ u.nextSibling[m] = t.nextSibling[m]
               /\ u.previousSibling[m] = t.previousSibling[m]
    <3>1. m \in D!Nodes /\ t.parentNode[m] = q
      BY <1>0, KinderIn, KinderAre
    <3>2. \A i \in 1 .. z : t.parentNode[s[i]] = p
      BY <1>6, <1>7 DEF Row
    <3>3. m # n /\ m # a /\ m # b
      BY <1>0, <1>5, <1>6, <1>10, <1>11, <1>21, <3>1, <3>2
    <3> QED
      BY <1>16, <3>1, <3>3
  <2> QED
    BY <1>18, <1>21, <2>1, OtherRows
<1>22. MapsRight(u)
  <2>1. u.map = [t.map EXCEPT ![p] = IF t.map[p] = NULL THEN NULL ELSE t.map[p] \ {n}]
    BY <1>14, <1>15
  <2>2. t.map \in [D!Nodes -> (SUBSET D!Nodes) \cup {NULL}] /\ MapsRight(t)
    BY <1>0, FieldsAre DEF TreeRight
  <2> QED
    BY <1>20, <2>1, <2>2 DEF MapsRight
<1>c. t.map[p] # NULL => u.map[p] # NULL
  <2>1. u.map = [t.map EXCEPT ![p] = IF t.map[p] = NULL THEN NULL ELSE t.map[p] \ {n}]
    BY <1>14, <1>15
  <2>2. t.map \in [D!Nodes -> (SUBSET D!Nodes) \cup {NULL}]
    BY <1>0, FieldsAre
  <2>3. \A S \in SUBSET D!Nodes : NULL # S
    BY DEF D!DomAssumption
  <2>4. t.map[p] # NULL => t.map[p] \ {n} \in SUBSET D!Nodes
    BY <2>2
  <2> QED
    BY <2>1, <2>2, <2>3, <2>4
<1>23. ParentsRight(u)
  <2> SUFFICES ASSUME NEW m \in D!Nodes, u.parentNode[m] # NULL PROVE m \in Kinder(u, u.parentNode[m])
    BY DEF ParentsRight
  <2>1. m # n /\ u.parentNode[m] = t.parentNode[m]
    BY <1>16, <1>17 DEF Ptrs
  <2>2. m \in Kinder(t, t.parentNode[m]) /\ t.parentNode[m] \in D!Nodes
    BY <1>17, <2>1 DEF TreeRight, ParentsRight, Ptrs
  <2> QED
    BY <1>20, <2>1, <2>2
<1>24. NoCircle(u.parentNode)
  <2>1. u.parentNode \in Ptrs /\ NoCircle(t.parentNode)
    BY <1>15, FieldsAre DEF TreeRight
  <2>2. \A m \in D!Nodes : u.parentNode[m] = t.parentNode[m] \/ u.parentNode[m] = NULL
    BY <1>16, <1>17 DEF Ptrs
  <2> QED
    BY <1>0, <1>17, <2>1, <2>2, LessNoCircle
<1> QED
  BY <1>15, <1>16, <1>18, <1>19, <1>20, <1>21, <1>22, <1>c, <1>23, <1>24 DEF PartLeft

LEMMA ChildRemoved ==
  ASSUME D!DomAssumption, NEW t, TreeRight(t), NEW p \in D!Nodes, NEW n \in Kinder(t, p),
         NEW u, u = D!_removeChild(t, p, n)
  PROVE  Leaves(u, t, p, n)
<1>1. PICK v : v = D!Unlinked(D!NodeList_remove(t, p, n), p, n)
  OBVIOUS
<1>2. /\ v \in D!Fields /\ MapsRight(v) /\ (\A q \in D!Nodes : RowOf(v, q))
      /\ ParentsRight(v) /\ NoCircle(v.parentNode)
      /\ v.documentElement = t.documentElement
      /\ v.parentNode = [t.parentNode EXCEPT ![n] = NULL]
      /\ Kinder(v, p) = Kinder(t, p) \ {n}
      /\ \A q \in D!Nodes : q # p => v.childNodes[q] = t.childNodes[q]
      /\ (t.map[p] # NULL => v.map[p] # NULL)
  <2>1. PartLeft(v, t, p, n)
    BY <1>1, TakenOut
  <2> QED
    BY <2>1 DEF PartLeft
<1>3. ElementRight(t) /\ NULL \notin D!Nodes /\ t \in D!Fields /\ Elements \cap Doctypes = {} /\ n \in D!Nodes
      /\ Doc \in D!Nodes
  BY NumberOfNodes, KinderIn DEF TreeRight, D!DomAssumption, D!Nodes
<1>4. Kinder(v, Doc) \subseteq Kinder(t, Doc)
  BY <1>2, <1>3 DEF Kinder
<1>5. ElementRight(v)
  BY <1>2, <1>3, <1>4 DEF ElementRight
<1>6. TreeRight(v)
  BY <1>2, <1>5 DEF TreeRight
<1>7. CASE D!MODIFYING_DOC_ELEM(p, n)
  <2>1. u = [v EXCEPT !.documentElement = NULL]
    <3>1. ~D!MODIFYING_DOCTYPE_ELEM(p, n)
      BY <1>3, <1>7 DEF D!MODIFYING_DOC_ELEM, D!MODIFYING_DOCTYPE_ELEM
    <3> QED
      BY <1>1, <1>7, <3>1 DEF D!_removeChild
  <2>2. u \in D!Fields /\ SameTree(u, v) /\ u.documentElement = NULL
    BY <1>2, <2>1 DEF D!Fields, SameTree
  <2>3. ElementRight(u)
    <3>1. Kinder(u, Doc) = Kinder(v, Doc) /\ p = Doc /\ n \in Elements
      BY <1>7, <2>2 DEF Kinder, SameTree, D!MODIFYING_DOC_ELEM
    <3>2. Kinder(v, Doc) \cap Elements = {}
      BY <1>2, <1>3, <3>1 DEF ElementRight
    <3> QED
      BY <3>1, <3>2 DEF ElementRight
  <2>4. TreeRight(u)
    BY <1>6, <2>2, <2>3, SameTreeRight
  <2> QED
    BY <1>2, <2>2, <2>4 DEF SameTree, Kinder, Leaves
<1>8. CASE D!MODIFYING_DOCTYPE_ELEM(p, n)
  <2>1. u = [v EXCEPT !.doctype = NULL, !.ownerDocument[n] = NULL]
    <3>1. ~D!MODIFYING_DOC_ELEM(p, n)
      BY <1>3, <1>8 DEF D!MODIFYING_DOC_ELEM, D!MODIFYING_DOCTYPE_ELEM
    <3> QED
      BY <1>1, <1>8, <3>1 DEF D!_removeChild
  <2>2. u \in D!Fields /\ SameTree(u, v) /\ u.documentElement = v.documentElement
    <3>1. PICK own : own = [v.ownerDocument EXCEPT ![n] = NULL]
      OBVIOUS
    <3>2. v.ownerDocument \in [D!Nodes -> {Doc, NULL}] /\ DOMAIN v = FieldNames /\ v \in D!Fields
      BY <1>2, FieldsAre
    <3>3. own \in [D!Nodes -> {Doc, NULL}]
      BY <3>1, <3>2
    <3>4. u = [v EXCEPT !.doctype = NULL, !.ownerDocument = own]
      BY <2>1, <3>1, <3>2 DEF FieldNames
    <3> QED
      BY <3>2, <3>3, <3>4 DEF D!Fields, SameTree
  <2>3. ElementRight(u)
    BY <1>5, <2>2 DEF ElementRight, Kinder, SameTree
  <2>4. TreeRight(u)
    BY <1>6, <2>2, <2>3, SameTreeRight
  <2> QED
    BY <1>2, <2>2, <2>4 DEF SameTree, Kinder, Leaves
<1>9. CASE ~D!MODIFYING_DOC_ELEM(p, n) /\ ~D!MODIFYING_DOCTYPE_ELEM(p, n)
  <2>1. u = D!updateCommonParent(v, p)
    BY <1>1, <1>9 DEF D!_removeChild
  <2>2. TreeRight(u) /\ SameTree(u, v) /\ u.documentElement = v.documentElement
    BY <1>6, <2>1, CommonParentRight
  <2> QED
    BY <1>2, <2>2 DEF SameTree, Kinder, Leaves
<1> QED
  BY <1>7, <1>8, <1>9

-----------------------------------------------------------------------------
(* A node that is no child comes into a list.                               *)
ToPlace(t, p, n, ref, k, z, a) ==
  /\ a = IF ref = NULL THEN t.lastChild[p] ELSE t.previousSibling[ref]
  /\ ref \in D!Nodes \cup {NULL} /\ a # n /\ ref # n
  /\ (a = NULL <=> k = 1) /\ (ref = NULL <=> k = z + 1)
  /\ (t.firstChild[p] = NULL <=> z = 0)
  /\ (ref # NULL => (ref = t.firstChild[p] <=> k = 1))

InTo(u, t, p, n, ref, k, z, a) ==
  /\ u \in D!Fields
  /\ u.childNodes = t.childNodes /\ u.map = t.map /\ u.documentElement = t.documentElement
  /\ u.parentNode = [t.parentNode EXCEPT ![n] = p]
  /\ u.firstChild = [t.firstChild EXCEPT ![p] = IF k = 1 THEN n ELSE @]
  /\ u.lastChild = [t.lastChild EXCEPT ![p] = IF k = z + 1 THEN n ELSE @]
  /\ u.nextSibling[n] = ref /\ u.previousSibling[n] = a
  /\ \A m \in D!Nodes \ {n} :
       /\ u.nextSibling[m] = IF m = a THEN n ELSE t.nextSibling[m]
       /\ u.previousSibling[m] = IF m = ref THEN n ELSE t.previousSibling[m]

LEMMA LinkedIs ==
  ASSUME D!DomAssumption, NEW t \in D!Fields, NEW p \in D!Nodes, NEW n \in D!Nodes, NEW ref,
         NEW z \in Nat, NEW k \in 1 .. z + 1, NEW a, ToPlace(t, p, n, ref, k, z, a),
         NEW u, u = D!Linked(t, p, n, ref)
  PROVE  InTo(u, t, p, n, ref, k, z, a)
<1>0. /\ a = IF ref = NULL THEN t.lastChild[p] ELSE t.previousSibling[ref]
      /\ ref \in D!Nodes \cup {NULL} /\ a # n /\ ref # n
      /\ (a = NULL <=> k = 1) /\ (ref = NULL <=> k = z + 1)
      /\ (t.firstChild[p] = NULL <=> z = 0)
      /\ (ref # NULL => (ref = t.firstChild[p] <=> k = 1))
  BY DEF ToPlace
<1>1. NULL \notin D!Nodes /\ a \in D!Nodes \cup {NULL}
  BY <1>0, FieldsAre, NumberOfNodes DEF Ptrs
<1> DEFINE v == [t EXCEPT !.parentNode[n] = p, !.previousSibling[n] = a, !.nextSibling[n] = ref]
<1>2. u = CASE t.firstChild[p] = NULL -> [v EXCEPT !.firstChild[p] = n, !.lastChild[p] = n]
            [] t.firstChild[p] # NULL /\ ref = NULL ->
                 [v EXCEPT !.nextSibling[a] = n, !.lastChild[p] = n]
            [] ref # NULL /\ ref = t.firstChild[p] ->
                 [v EXCEPT !.firstChild[p] = n, !.previousSibling[ref] = n]
            [] OTHER -> [v EXCEPT !.nextSibling[a] = n, !.previousSibling[ref] = n]
  BY <1>0 DEF D!Linked
<1>3. /\ v \in D!Fields
      /\ v.childNodes = t.childNodes /\ v.map = t.map /\ v.documentElement = t.documentElement
      /\ v.firstChild = t.firstChild /\ v.lastChild = t.lastChild
      /\ v.parentNode = [t.parentNode EXCEPT ![n] = p]
      /\ v.previousSibling[n] = a /\ v.nextSibling[n] = ref
      /\ \A m \in D!Nodes \ {n} : /\ v.nextSibling[m] = t.nextSibling[m]
                                  /\ v.previousSibling[m] = t.previousSibling[m]
  <2>1. PICK w1 : w1 = [t.previousSibling EXCEPT ![n] = a]
    OBVIOUS
  <2>2. PICK w2 : w2 = [t.nextSibling EXCEPT ![n] = ref]
    OBVIOUS
  <2>3. PICK w3 : w3 = [t.parentNode EXCEPT ![n] = p]
    OBVIOUS
  <2>4. /\ t.previousSibling \in Ptrs /\ t.nextSibling \in Ptrs /\ t.parentNode \in Ptrs
        /\ DOMAIN t = FieldNames
    BY FieldsAre
  <2>5. /\ w1 \in Ptrs /\ w2 \in Ptrs /\ w3 \in Ptrs /\ w1[n] = a /\ w2[n] = ref
        /\ \A m \in D!Nodes \ {n} : w1[m] = t.previousSibling[m] /\ w2[m] = t.nextSibling[m]
    BY <1>0, <1>1, <2>1, <2>2, <2>3, <2>4 DEF Ptrs
  <2>6. v = [t EXCEPT !.parentNode = w3, !.previousSibling = w1, !.nextSibling = w2]
    BY <2>1, <2>2, <2>3, <2>4 DEF FieldNames
  <2> HIDE DEF v
  <2>7. /\ v \in D!Fields
        /\ v.childNodes = t.childNodes /\ v.map = t.map /\ v.documentElement = t.documentElement
        /\ v.firstChild = t.firstChild /\ v.lastChild = t.lastChild
        /\ v.parentNode = w3 /\ v.previousSibling = w1 /\ v.nextSibling = w2
    BY <2>5, <2>6 DEF D!Fields, Ptrs
  <2> QED
    BY <2>3, <2>5, <2>7
<1> HIDE DEF v
<1>4. CASE z = 0
  <2>1. u = [v EXCEPT !.firstChild[p] = n, !.lastChild[p] = n]
        /\ a = NULL /\ ref = NULL /\ k = 1
    BY <1>0, <1>2, <1>4
  <2>2. PICK w1 : w1 = [v.firstChild EXCEPT ![p] = n]
    OBVIOUS
  <2>3. PICK w2 : w2 = [v.lastChild EXCEPT ![p] = n]
    OBVIOUS
  <2>4. v.firstChild \in Ptrs /\ v.lastChild \in Ptrs /\ DOMAIN v = FieldNames
    BY <1>3, FieldsAre
  <2>5. w1 \in Ptrs /\ w2 \in Ptrs
    BY <2>1, <2>2, <2>3, <2>4 DEF Ptrs
  <2>6. u = [v EXCEPT !.firstChild = w1, !.lastChild = w2]
    BY <2>1, <2>2, <2>3, <2>4 DEF FieldNames
  <2>7. v \in D!Fields
    BY <1>3
  <2>8. /\ u \in D!Fields
        /\ u.firstChild = w1 /\ u.lastChild = w2
        /\ u.childNodes = v.childNodes
        /\ u.map = v.map
        /\ u.documentElement = v.documentElement
        /\ u.parentNode = v.parentNode
        /\ u.nextSibling = v.nextSibling
        /\ u.previousSibling = v.previousSibling
    BY <2>5, <2>6, <2>7 DEF D!Fields, Ptrs
  <2>9. t.firstChild \in Ptrs /\ t.lastChild \in Ptrs
    BY FieldsAre
  <2> QED
    BY <1>0, <1>1, <1>3, <1>4, <2>1, <2>2, <2>3, <2>4, <2>8, <2>9 DEF InTo, Ptrs
<1>5. CASE z # 0 /\ k = z + 1
  <2>1. u = [v EXCEPT !.nextSibling[a] = n, !.lastChild[p] = n]
        /\ ref = NULL /\ a \in D!Nodes /\ k # 1
    BY <1>0, <1>1, <1>2, <1>5
  <2>2. PICK w3 : w3 = [v.nextSibling EXCEPT ![a] = n]
    OBVIOUS
  <2>3. PICK w2 : w2 = [v.lastChild EXCEPT ![p] = n]
    OBVIOUS
  <2>4. v.nextSibling \in Ptrs /\ v.lastChild \in Ptrs /\ DOMAIN v = FieldNames
    BY <1>3, FieldsAre
  <2>5. w3 \in Ptrs /\ w2 \in Ptrs
    BY <2>1, <2>2, <2>3, <2>4 DEF Ptrs
  <2>6. u = [v EXCEPT !.nextSibling = w3, !.lastChild = w2]
    BY <2>1, <2>2, <2>3, <2>4 DEF FieldNames
  <2>7. v \in D!Fields
    BY <1>3
  <2>8. /\ u \in D!Fields
        /\ u.nextSibling = w3 /\ u.lastChild = w2
        /\ u.childNodes = v.childNodes
        /\ u.map = v.map
        /\ u.documentElement = v.documentElement
        /\ u.parentNode = v.parentNode
        /\ u.firstChild = v.firstChild
        /\ u.previousSibling = v.previousSibling
    BY <2>5, <2>6, <2>7 DEF D!Fields, Ptrs
  <2>9. t.firstChild \in Ptrs /\ t.lastChild \in Ptrs
    BY FieldsAre
  <2> QED
    BY <1>0, <1>1, <1>3, <1>5, <2>1, <2>2, <2>3, <2>4, <2>8, <2>9 DEF InTo, Ptrs
<1>6. CASE z # 0 /\ k # z + 1 /\ k = 1
  <2>1. u = [v EXCEPT !.firstChild[p] = n, !.previousSibling[ref] = n]
        /\ ref \in D!Nodes /\ a = NULL
    BY <1>0, <1>1, <1>2, <1>6
  <2>2. PICK w1 : w1 = [v.firstChild EXCEPT ![p] = n]
    OBVIOUS
  <2>3. PICK w4 : w4 = [v.previousSibling EXCEPT ![ref] = n]
    OBVIOUS
  <2>4. v.firstChild \in Ptrs /\ v.previousSibling \in Ptrs /\ DOMAIN v = FieldNames
    BY <1>3, FieldsAre
  <2>5. w1 \in Ptrs /\ w4 \in Ptrs
    BY <2>1, <2>2, <2>3, <2>4 DEF Ptrs
  <2>6. u = [v EXCEPT !.firstChild = w1, !.previousSibling = w4]
    BY <2>1, <2>2, <2>3, <2>4 DEF FieldNames
  <2>7. v \in D!Fields
    BY <1>3
  <2>8. /\ u \in D!Fields
        /\ u.firstChild = w1 /\ u.previousSibling = w4
        /\ u.childNodes = v.childNodes
        /\ u.map = v.map
        /\ u.documentElement = v.documentElement
        /\ u.parentNode = v.parentNode
        /\ u.lastChild = v.lastChild
        /\ u.nextSibling = v.nextSibling
    BY <2>5, <2>6, <2>7 DEF D!Fields, Ptrs
  <2>9. t.firstChild \in Ptrs /\ t.lastChild \in Ptrs
    BY FieldsAre
  <2> QED
    BY <1>0, <1>1, <1>3, <1>6, <2>1, <2>2, <2>3, <2>4, <2>8, <2>9 DEF InTo, Ptrs
<1>7. CASE z # 0 /\ k # z + 1 /\ k # 1
  <2>1. u = [v EXCEPT !.nextSibling[a] = n, !.previousSibling[ref] = n]
        /\ ref \in D!Nodes /\ a \in D!Nodes
    BY <1>0, <1>1, <1>2, <1>7
  <2>2. PICK w3 : w3 = [v.nextSibling EXCEPT ![a] = n]
    OBVIOUS
  <2>3. PICK w4 : w4 = [v.previousSibling EXCEPT ![ref] = n]
    OBVIOUS
  <2>4. v.nextSibling \in Ptrs /\ v.previousSibling \in Ptrs /\ DOMAIN v = FieldNames
    BY <1>3, FieldsAre
  <2>5. w3 \in Ptrs /\ w4 \in Ptrs
    BY <2>1, <2>2, <2>3, <2>4 DEF Ptrs
  <2>6. u = [v EXCEPT !.nextSibling = w3, !.previousSibling = w4]
    BY <2>1, <2>2, <2>3, <2>4 DEF FieldNames
  <2>7. v \in D!Fields
    BY <1>3
  <2>8. /\ u \in D!Fields
        /\ u.nextSibling = w3 /\ u.previousSibling = w4
        /\ u.childNodes = v.childNodes
        /\ u.map = v.map
        /\ u.documentElement = v.documentElement
        /\ u.parentNode = v.parentNode
        /\ u.firstChild = v.firstChild
        /\ u.lastChild = v.lastChild
    BY <2>5, <2>6, <2>7 DEF D!Fields, Ptrs
  <2>9. t.firstChild \in Ptrs /\ t.lastChild \in Ptrs
    BY FieldsAre
  <2> QED
    BY <1>0, <1>1, <1>3, <1>7, <2>1, <2>2, <2>3, <2>4, <2>8, <2>9 DEF InTo, Ptrs
<1> QED
  BY <1>4, <1>5, <1>6, <1>7

(* The tree with n under p, and what else it says.                          *)
Joins(u, t, p, n) ==
  /\ u.documentElement = t.documentElement
  /\ u.parentNode = [t.parentNode EXCEPT ![n] = p]
  /\ Kinder(u, p) = Kinder(t, p) \cup {n}
  /\ \A q \in D!Nodes : q # p => u.childNodes[q] = t.childNodes[q]

Listed(l, t, p, n, ref, k, r) ==
  /\ WithAt(r, t.childNodes[p], k, n)
  /\ (ref = NULL <=> k = Len(t.childNodes[p]) + 1)
  /\ (ref # NULL => ref = t.childNodes[p][k])
  /\ l \in D!Fields
  /\ l.childNodes = [t.childNodes EXCEPT ![p] = r]
  /\ \A q \in D!Nodes : q # p => l.map[q] = t.map[q]
  /\ l.map[p] \in {NULL, Kinder(t, p) \cup {n}}
  /\ l.parentNode = t.parentNode /\ l.firstChild = t.firstChild /\ l.lastChild = t.lastChild
  /\ l.previousSibling = t.previousSibling /\ l.nextSibling = t.nextSibling
  /\ l.documentElement = t.documentElement

LEMMA ListedIs ==
  ASSUME D!DomAssumption, NEW t, TreeRight(t), NEW p \in D!Nodes, NEW n \in D!Nodes,
         NEW ref, ref = NULL \/ ref \in Kinder(t, p),
         NEW l, l = D!NodeList_insert(t, p, n, ref)
  PROVE  \E k \in 1 .. Len(t.childNodes[p]) + 1, r \in Seq(D!Nodes) : Listed(l, t, p, n, ref, k, r)
<1>0. t \in D!Fields /\ NULL \notin D!Nodes /\ MapsRight(t)
  BY NumberOfNodes DEF TreeRight
<1>1. PICK s \in Seq(D!Nodes) : s = t.childNodes[p]
  BY <1>0, FieldsAre
<1>2. PICK z \in Nat : z = Len(s)
  BY LenProperties
<1>3. PICK k : k = IF ref = NULL THEN z + 1 ELSE PlaceOf(s, ref)
  OBVIOUS
<1>4. PICK r : r = IF ref = NULL THEN Append(s, n) ELSE D!InsertAt(s, k, n)
  OBVIOUS
<1>5. k \in 1 .. z + 1 /\ (ref = NULL <=> k = z + 1) /\ (ref # NULL => ref = s[k])
  <2>1. CASE ref = NULL
    BY <1>3, <2>1
  <2>2. CASE ref # NULL
    <3>1. PICK i \in 1 .. Len(s) : ref = s[i]
      BY <1>1, <2>2 DEF Kinder, D!ToSet
    <3>2. k = PlaceOf(s, ref)
      BY <1>3, <2>2
    <3>3. k \in 1 .. Len(s) /\ s[k] = ref
      BY <3>1, <3>2, FirstPlace
    <3> QED
      BY <1>2, <2>2, <3>3
  <2> QED
    BY <2>1, <2>2
<1>6. r \in Seq(D!Nodes) /\ WithAt(r, s, k, n)
  <2>1. CASE ref = NULL
    <3>1. r = Append(s, n) /\ k = Len(s) + 1
      BY <1>2, <1>3, <1>4, <2>1
    <3> QED
      BY <3>1, AppendedAt
  <2>2. CASE ref # NULL
    <3>1. r = D!InsertAt(s, k, n) /\ k \in 1 .. Len(s) + 1
      BY <1>2, <1>4, <1>5, <2>2
    <3> QED
      BY <3>1, InsertedAt
  <2> QED
    BY <2>1, <2>2
<1>7. PICK m : m = D!_addToMap(t, p, n)
  OBVIOUS
<1>8. m \in {NULL, Kinder(t, p) \cup {n}}
  BY <1>0, <1>7 DEF D!_addToMap, MapsRight, Kinder
<1>9. m \in (SUBSET D!Nodes) \cup {NULL}
  BY <1>0, <1>8, KinderIn
<1>10. PICK mm : mm = [t.map EXCEPT ![p] = m]
  OBVIOUS
<1>11. PICK cc : cc = [t.childNodes EXCEPT ![p] = r]
  OBVIOUS
<1>12. /\ t.map \in [D!Nodes -> (SUBSET D!Nodes) \cup {NULL}]
       /\ t.childNodes \in [D!Nodes -> Seq(D!Nodes)] /\ DOMAIN t = FieldNames
  BY <1>0, FieldsAre
<1>13. mm \in [D!Nodes -> (SUBSET D!Nodes) \cup {NULL}] /\ cc \in [D!Nodes -> Seq(D!Nodes)]
  BY <1>6, <1>9, <1>10, <1>11, <1>12
<1>14. l = [t EXCEPT !.map = mm, !.childNodes = cc]
  <2>1. l = [t EXCEPT !.map[p] = m,
                      !.childNodes[p] = IF ref = NULL THEN Append(s, n)
                                        ELSE D!InsertAt(s, PlaceOf(s, ref), n)]
    BY <1>1, <1>7, <1>12 DEF D!NodeList_insert, PlaceOf, FieldNames
  <2>2. l = [t EXCEPT !.map[p] = m, !.childNodes[p] = r]
    BY <1>3, <1>4, <2>1
  <2> QED
    BY <1>10, <1>11, <1>12, <2>2 DEF FieldNames
<1>15. /\ l \in D!Fields
       /\ l.childNodes = cc /\ l.map = mm
       /\ l.parentNode = t.parentNode /\ l.firstChild = t.firstChild /\ l.lastChild = t.lastChild
       /\ l.previousSibling = t.previousSibling /\ l.nextSibling = t.nextSibling
       /\ l.documentElement = t.documentElement
  BY <1>0, <1>13, <1>14 DEF D!Fields
<1>16. l.map[p] = m /\ \A q \in D!Nodes : q # p => l.map[q] = t.map[q]
  BY <1>10, <1>12, <1>15
<1>17. Listed(l, t, p, n, ref, k, r)
  BY <1>1, <1>2, <1>5, <1>6, <1>8, <1>11, <1>15, <1>16 DEF Listed
<1> QED
  BY <1>1, <1>2, <1>5, <1>6, <1>17

LEMMA LinkedIn ==
  ASSUME D!DomAssumption, NEW t, TreeRight(t), NEW p \in D!Nodes, NEW n \in D!Nodes,
         t.parentNode[n] = NULL, NoCircle([t.parentNode EXCEPT ![n] = p]),
         NEW ref, ref = NULL \/ ref \in Kinder(t, p),
         NEW u, u = D!Linked(D!NodeList_insert(t, p, n, ref), p, n, ref)
  PROVE  /\ u \in D!Fields /\ MapsRight(u) /\ (\A q \in D!Nodes : RowOf(u, q))
         /\ ParentsRight(u) /\ NoCircle(u.parentNode)
         /\ Joins(u, t, p, n)
<1>0. t \in D!Fields /\ NULL \notin D!Nodes
  BY NumberOfNodes DEF TreeRight
<1>1. PICK s \in Seq(D!Nodes) : s = t.childNodes[p]
  BY <1>0, FieldsAre
<1>2. PICK l : l = D!NodeList_insert(t, p, n, ref)
  OBVIOUS
<1>a. PICK k \in 1 .. Len(s) + 1, r \in Seq(D!Nodes) : Listed(l, t, p, n, ref, k, r)
  <2>1. \E k \in 1 .. Len(t.childNodes[p]) + 1, r \in Seq(D!Nodes) : Listed(l, t, p, n, ref, k, r)
    BY <1>2, ListedIs
  <2> QED
    BY <1>1, <2>1
<1>3. /\ WithAt(r, s, k, n)
      /\ (ref = NULL <=> k = Len(s) + 1)
      /\ (ref # NULL => ref = s[k])
      /\ l \in D!Fields
      /\ l.childNodes = [t.childNodes EXCEPT ![p] = r]
      /\ \A q \in D!Nodes : q # p => l.map[q] = t.map[q]
      /\ l.map[p] \in {NULL, Kinder(t, p) \cup {n}}
      /\ l.parentNode = t.parentNode /\ l.firstChild = t.firstChild
      /\ l.lastChild = t.lastChild
      /\ l.previousSibling = t.previousSibling /\ l.nextSibling = t.nextSibling
      /\ l.documentElement = t.documentElement
  BY <1>1, <1>a DEF Listed
<1>4. PICK z \in Nat : z = Len(s)
  BY LenProperties
<1>5. Row(s, p, t.firstChild[p], t.lastChild[p], t.parentNode, t.nextSibling, t.previousSibling)
  BY <1>1 DEF TreeRight, RowOf
<1>6. PICK a : a = IF ref = NULL THEN t.lastChild[p] ELSE t.previousSibling[ref]
  OBVIOUS
<1>7. /\ \A i, j \in 1 .. z : s[i] = s[j] => i = j
      /\ t.firstChild[p] = IF z = 0 THEN NULL ELSE s[1]
      /\ t.lastChild[p] = IF z = 0 THEN NULL ELSE s[z]
      /\ \A i \in 1 .. z : s[i] \in D!Nodes /\ s[i] \in Kinder(t, p)
      /\ \A i \in 1 .. z : t.previousSibling[s[i]] = IF i = 1 THEN NULL ELSE s[i - 1]
  <2>1. /\ \A i, j \in 1 .. Len(s) : s[i] = s[j] => i = j
        /\ \A i \in 1 .. Len(s) : t.previousSibling[s[i]] = IF i = 1 THEN NULL ELSE s[i - 1]
    BY <1>5, RowFacts
  <2>2. /\ t.firstChild[p] = IF Len(s) = 0 THEN NULL ELSE s[1]
        /\ t.lastChild[p] = IF Len(s) = 0 THEN NULL ELSE s[Len(s)]
    BY <1>5 DEF Row
  <2>3. \A i \in 1 .. Len(s) : s[i] \in D!Nodes /\ s[i] \in Kinder(t, p)
    BY <1>1, ElementOfSeq DEF Kinder, D!ToSet
  <2> QED
    BY <1>4, <2>1, <2>2, <2>3
<1>8. n \notin Kinder(t, p)
  BY <1>0, KinderAre
<1>9. \A i \in 1 .. z : s[i] # n
  BY <1>7, <1>8
<1>10. k \in 1 .. z + 1 /\ (ref = NULL <=> k = z + 1) /\ (ref # NULL => ref = s[k])
       /\ (k # z + 1 => k \in 1 .. z) /\ (k # 1 => k - 1 \in 1 .. z)
  BY <1>3, <1>4
<1>11. a = IF k = 1 THEN NULL ELSE s[k - 1]
  <2>1. CASE ref = NULL
    <3>1. k = z + 1 /\ k - 1 = z /\ (k = 1 <=> z = 0)
      BY <1>10, <2>1
    <3> QED
      BY <1>6, <1>7, <2>1, <3>1
  <2>2. CASE ref # NULL
    BY <1>6, <1>7, <1>10, <2>2
  <2> QED
    BY <2>1, <2>2
<1>12. ToPlace(l, p, n, ref, k, z, a)
  <2>1. a = IF ref = NULL THEN l.lastChild[p] ELSE l.previousSibling[ref]
    BY <1>3, <1>6
  <2>2. ref \in D!Nodes \cup {NULL} /\ ref # n
    BY <1>0, <1>7, <1>9, <1>10
  <2>3. a # n /\ (a = NULL <=> k = 1)
    BY <1>0, <1>7, <1>9, <1>10, <1>11
  <2>4. l.firstChild[p] = NULL <=> z = 0
    <3>1. z # 0 => 1 \in 1 .. z
      OBVIOUS
    <3> QED
      BY <1>0, <1>3, <1>7, <3>1
  <2>5. ref # NULL => (ref = l.firstChild[p] <=> k = 1)
    <3>1. ref # NULL => z # 0 /\ 1 \in 1 .. z /\ k \in 1 .. z /\ ref = s[k]
      BY <1>10
    <3> QED
      BY <1>3, <1>7, <3>1
  <2> QED
    BY <1>10, <2>1, <2>2, <2>3, <2>4, <2>5 DEF ToPlace
<1>13. InTo(u, l, p, n, ref, k, z, a)
  BY <1>2, <1>3, <1>10, <1>12, LinkedIs
<1>14. /\ u \in D!Fields
       /\ u.childNodes = [t.childNodes EXCEPT ![p] = r]
       /\ u.map = l.map /\ u.documentElement = t.documentElement
       /\ u.parentNode = [t.parentNode EXCEPT ![n] = p]
       /\ u.firstChild = [t.firstChild EXCEPT ![p] = IF k = 1 THEN n ELSE @]
       /\ u.lastChild = [t.lastChild EXCEPT ![p] = IF k = z + 1 THEN n ELSE @]
       /\ u.nextSibling[n] = ref /\ u.previousSibling[n] = a
       /\ \A m \in D!Nodes \ {n} :
            /\ u.nextSibling[m] = IF m = a THEN n ELSE t.nextSibling[m]
            /\ u.previousSibling[m] = IF m = ref THEN n ELSE t.previousSibling[m]
  BY <1>3, <1>13 DEF InTo
<1>15. t.childNodes \in [D!Nodes -> Seq(D!Nodes)] /\ t.firstChild \in Ptrs /\ t.lastChild \in Ptrs
       /\ t.parentNode \in Ptrs
  BY <1>0, FieldsAre
<1>16. /\ u.childNodes[p] = r
       /\ u.firstChild[p] = IF k = 1 THEN n ELSE t.firstChild[p]
       /\ u.lastChild[p] = IF k = z + 1 THEN n ELSE t.lastChild[p]
       /\ \A q \in D!Nodes : q # p => /\ u.childNodes[q] = t.childNodes[q]
                                      /\ u.firstChild[q] = t.firstChild[q]
                                      /\ u.lastChild[q] = t.lastChild[q]
       /\ u.parentNode[n] = p /\ \A m \in D!Nodes \ {n} : u.parentNode[m] = t.parentNode[m]
  BY <1>14, <1>15 DEF Ptrs
<1>17. RowOf(u, p) /\ D!ToSet(r) = D!ToSet(s) \cup {n}
  <2>1. ASSUME NEW i \in 1 .. z
        PROVE  /\ u.parentNode[s[i]] = t.parentNode[s[i]]
               /\ u.nextSibling[s[i]] = IF i = k - 1 THEN n ELSE t.nextSibling[s[i]]
               /\ u.previousSibling[s[i]] = IF i = k THEN n ELSE t.previousSibling[s[i]]
    <3>1. s[i] \in D!Nodes \ {n} /\ s[i] # NULL
      BY <1>0, <1>7, <1>9
    <3>2. s[i] = a <=> i = k - 1
      <4>1. CASE k = 1
        BY <1>11, <3>1, <4>1
      <4>2. CASE k # 1
        BY <1>7, <1>10, <1>11, <4>2
      <4> QED
        BY <4>1, <4>2
    <3>3. s[i] = ref <=> i = k
      <4>1. CASE k = z + 1
        BY <1>10, <3>1, <4>1
      <4>2. CASE k # z + 1
        BY <1>7, <1>10, <4>2
      <4> QED
        BY <4>1, <4>2
    <3> QED
      BY <1>14, <1>16, <3>1, <3>2, <3>3
  <2>2. PICK a2, b2, par2, nxt2, prv2 :
          /\ a2 = u.firstChild[p] /\ b2 = u.lastChild[p] /\ par2 = u.parentNode
          /\ nxt2 = u.nextSibling /\ prv2 = u.previousSibling
    OBVIOUS
  <2>3. PICK a1, b1, par, nxt, prv :
          /\ a1 = t.firstChild[p] /\ b1 = t.lastChild[p] /\ par = t.parentNode
          /\ nxt = t.nextSibling /\ prv = t.previousSibling
    OBVIOUS
  <2>4. Row(s, p, a1, b1, par, nxt, prv)
    BY <1>5, <2>3
  <2>5. LinksMore(s, p, n, k, a1, b1, par, nxt, prv, a2, b2, par2, nxt2, prv2)
    <3>1. /\ a2 = IF k = 1 THEN n ELSE a1
          /\ b2 = IF k = Len(s) + 1 THEN n ELSE b1
          /\ par2[n] = p
          /\ nxt2[n] = IF k = Len(s) + 1 THEN NULL ELSE s[k]
          /\ prv2[n] = IF k = 1 THEN NULL ELSE s[k - 1]
      BY <1>4, <1>10, <1>11, <1>14, <1>16, <2>2, <2>3
    <3>2. \A i \in 1 .. Len(s) : /\ par2[s[i]] = par[s[i]]
                                 /\ nxt2[s[i]] = IF i = k - 1 THEN n ELSE nxt[s[i]]
                                 /\ prv2[s[i]] = IF i = k THEN n ELSE prv[s[i]]
      BY <1>4, <2>1, <2>2, <2>3
    <3> QED
      BY <3>1, <3>2 DEF LinksMore
  <2>6. n \notin D!ToSet(s)
    BY <1>1, <1>8 DEF Kinder
  <2>7. Row(r, p, a2, b2, par2, nxt2, prv2) /\ D!ToSet(r) = D!ToSet(s) \cup {n}
    BY <1>3, <2>4, <2>5, <2>6, RowMore
  <2> QED
    BY <1>16, <2>2, <2>7 DEF RowOf
<1>18. Kinder(u, p) = Kinder(t, p) \cup {n} /\ \A q \in D!Nodes : q # p => Kinder(u, q) = Kinder(t, q)
  BY <1>1, <1>16, <1>17 DEF Kinder
<1>19. ASSUME NEW q \in D!Nodes, q # p PROVE RowOf(u, q)
  <2>1. ASSUME NEW m \in Kinder(t, q)
        PROVE  /\ u.parentNode[m] = t.parentNode[m]
               /\ u.nextSibling[m] = t.nextSibling[m]
               /\ u.previousSibling[m] = t.previousSibling[m]
    <3>1. m \in D!Nodes /\ t.parentNode[m] = q
      BY <1>0, KinderIn, KinderAre
    <3>2. \A j \in 1 .. z : t.parentNode[s[j]] = p
      BY <1>0, <1>7, KinderAre
    <3>3. m # n /\ m # a /\ m # ref
      <4>1. m # n
        BY <1>0, <3>1
      <4>2. m # a
        BY <1>0, <1>10, <1>11, <1>19, <3>1, <3>2
      <4>3. m # ref
        BY <1>0, <1>10, <1>19, <3>1, <3>2
      <4> QED
        BY <4>1, <4>2, <4>3
    <3> QED
      BY <1>14, <1>16, <3>1, <3>3
  <2> QED
    BY <1>16, <1>19, <2>1, OtherRows
<1>20. MapsRight(u)
  <2>1. MapsRight(t)
    BY DEF TreeRight
  <2>2. SUFFICES ASSUME NEW q \in D!Nodes, u.map[q] # NULL PROVE u.map[q] = Kinder(u, q)
    BY DEF MapsRight
  <2>3. CASE q = p
    BY <1>3, <1>14, <1>18, <2>2, <2>3
  <2>4. CASE q # p
    BY <1>3, <1>14, <1>18, <2>1, <2>2, <2>4 DEF MapsRight
  <2> QED
    BY <2>3, <2>4
<1>21. ParentsRight(u)
  <2> SUFFICES ASSUME NEW m \in D!Nodes, u.parentNode[m] # NULL PROVE m \in Kinder(u, u.parentNode[m])
    BY DEF ParentsRight
  <2>1. CASE m = n
    BY <1>16, <1>18, <2>1
  <2>2. CASE m # n
    <3>1. u.parentNode[m] = t.parentNode[m]
      BY <1>16, <2>2
    <3>2. m \in Kinder(t, t.parentNode[m]) /\ t.parentNode[m] \in D!Nodes
      BY <1>15, <3>1 DEF TreeRight, ParentsRight, Ptrs
    <3> QED
      BY <1>18, <3>1, <3>2
  <2> QED
    BY <2>1, <2>2
<1>22. NoCircle(u.parentNode)
  BY <1>14
<1>23. Joins(u, t, p, n)
  BY <1>14, <1>16, <1>18 DEF Joins
<1> QED
  BY <1>14, <1>17, <1>19, <1>20, <1>21, <1>22, <1>23

LEMMA NotedIs ==
  ASSUME D!DomAssumption, NEW t \in D!Fields, NEW p \in D!Nodes, NEW n \in D!Nodes,
         NEW u, u = D!Noted(t, p, n)
  PROVE  /\ u \in D!Fields /\ SameTree(u, t)
         /\ u.documentElement = IF p = Doc /\ n \in Elements THEN n ELSE t.documentElement
<1>1. Elements \cap Doctypes = {}
  BY DEF D!DomAssumption
<1>2. CASE p = Doc /\ n \in Elements
  <2>1. u = [t EXCEPT !.documentElement = n]
    BY <1>1, <1>2 DEF D!Noted, D!MODIFYING_DOC_ELEM, D!MODIFYING_DOCTYPE_ELEM
  <2> QED
    BY <1>2, <2>1 DEF D!Fields, SameTree
<1>3. CASE p = Doc /\ n \in Doctypes
  <2>1. u = [t EXCEPT !.doctype = n, !.ownerDocument[n] = p]
    BY <1>1, <1>3 DEF D!Noted, D!MODIFYING_DOC_ELEM, D!MODIFYING_DOCTYPE_ELEM
  <2>2. PICK own : own = [t.ownerDocument EXCEPT ![n] = p]
    OBVIOUS
  <2>3. t.ownerDocument \in [D!Nodes -> {Doc, NULL}] /\ DOMAIN t = FieldNames
    BY FieldsAre
  <2>4. own \in [D!Nodes -> {Doc, NULL}]
    BY <1>3, <2>2, <2>3
  <2>5. u = [t EXCEPT !.doctype = n, !.ownerDocument = own]
    BY <2>1, <2>2, <2>3 DEF FieldNames
  <2>6. u \in D!Fields /\ SameTree(u, t) /\ u.documentElement = t.documentElement
    BY <1>3, <2>4, <2>5 DEF D!Fields, SameTree
  <2> QED
    BY <1>1, <1>3, <2>6
<1>4. CASE ~(p = Doc /\ n \in Elements) /\ ~(p = Doc /\ n \in Doctypes)
  <2>1. u = t
    BY <1>4 DEF D!Noted, D!MODIFYING_DOC_ELEM, D!MODIFYING_DOCTYPE_ELEM
  <2> QED
    BY <1>4, <2>1 DEF SameTree
<1> QED
  BY <1>2, <1>3, <1>4

(* The document's element is noted when it comes in.                        *)
LEMMA NotedRight ==
  ASSUME D!DomAssumption, NEW t, TreeRight(t), NEW p \in D!Nodes, NEW n \in D!Nodes,
         p = Doc /\ n \in Elements => t.documentElement = NULL,
         NEW u \in D!Fields, MapsRight(u), \A q \in D!Nodes : RowOf(u, q),
         ParentsRight(u), NoCircle(u.parentNode), u.documentElement = t.documentElement,
         Kinder(u, Doc) \subseteq Kinder(t, Doc) \cup (IF p = Doc THEN {n} ELSE {}),
         NEW v, v = D!Noted(u, p, n)
  PROVE  TreeRight(v) /\ SameTree(v, u)
<1>1. v \in D!Fields /\ SameTree(v, u)
      /\ v.documentElement = IF p = Doc /\ n \in Elements THEN n ELSE u.documentElement
  BY NotedIs
<1>2. ElementRight(t) /\ NULL \notin D!Nodes /\ Kinder(t, Doc) \subseteq D!Nodes
  <2>1. Doc \in D!Nodes
    BY DEF D!Nodes
  <2> QED
    BY <2>1, KinderIn, NumberOfNodes DEF TreeRight
<1>3. Kinder(v, Doc) = Kinder(u, Doc)
  BY <1>1 DEF SameTree, Kinder
<1>4. ElementRight(v)
  <2> SUFFICES ASSUME NEW m \in Kinder(v, Doc) \cap Elements PROVE m = v.documentElement
    BY DEF ElementRight
  <2>1. m \in Kinder(t, Doc) \/ (p = Doc /\ m = n)
    BY <1>3
  <2>2. m \in Kinder(t, Doc) => m = t.documentElement /\ m # NULL
    BY <1>2 DEF ElementRight
  <2> QED
    BY <1>1, <2>1, <2>2
<1>5. /\ v.childNodes = u.childNodes /\ v.map = u.map /\ v.parentNode = u.parentNode
      /\ v.firstChild = u.firstChild /\ v.lastChild = u.lastChild
      /\ v.nextSibling = u.nextSibling /\ v.previousSibling = u.previousSibling
  BY <1>1 DEF SameTree
<1>6. \A q \in D!Nodes : RowOf(v, q)
  BY <1>5 DEF RowOf
<1>7. \A q : Kinder(v, q) = Kinder(u, q)
  BY <1>5 DEF Kinder
<1>8. MapsRight(v) /\ ParentsRight(v)
  BY <1>5, <1>7 DEF MapsRight, ParentsRight
<1> QED
  BY <1>1, <1>4, <1>5, <1>6, <1>8 DEF TreeRight

LEMMA DetachedRight ==
  ASSUME D!DomAssumption, NEW t, TreeRight(t), NEW p \in D!Nodes, NEW n \in D!Nodes,
         t.parentNode[n] \in {p, NULL}, NEW u, u = D!Detached(t, p, n)
  PROVE  Leaves(u, t, p, n) /\ (t.parentNode[n] = NULL => u = t)
<1>1. NULL \notin D!Nodes /\ t.parentNode \in Ptrs
  BY NumberOfNodes, FieldsAre DEF TreeRight
<1>2. D!_lookupNode(t, p, n) <=> n \in Kinder(t, p)
  BY KinderAre
<1>3. n \in Kinder(t, p) <=> t.parentNode[n] = p
  BY KinderAre
<1>4. CASE n \in Kinder(t, p)
  <2>1. u = D!_removeChild(t, p, n)
    BY <1>2, <1>4 DEF D!Detached
  <2>2. Leaves(u, t, p, n)
    BY <1>4, <2>1, ChildRemoved
  <2> QED
    BY <1>1, <1>3, <1>4, <2>2
<1>5. CASE n \notin Kinder(t, p)
  <2>1. u = t /\ t.parentNode[n] = NULL
    BY <1>2, <1>3, <1>5 DEF D!Detached
  <2>2. t.parentNode = [t.parentNode EXCEPT ![n] = NULL]
    BY <1>1, <2>1 DEF Ptrs
  <2> QED
    BY <1>5, <2>1, <2>2 DEF Leaves
<1> QED
  BY <1>4, <1>5

(* What comes of an insertion.                                              *)
Adds(r, t, p, n) ==
  /\ TreeRight(r.tree) /\ r \in [tree : D!Fields, done : BOOLEAN]
  /\ \A q \in D!Nodes : q # p => r.tree.childNodes[q] = t.childNodes[q]
  /\ (r.done => Kinder(r.tree, p) = Kinder(t, p) \cup {n})
  /\ (~r.done /\ t.parentNode[n] = NULL => r.tree = t)

LEMMA NotBelow ==
  ASSUME D!DomAssumption, NEW t, TreeRight(t), NEW p \in D!Nodes, NEW n \in D!Nodes,
         ~D!_isAncestor(t, n, p), NEW u, u.parentNode = [t.parentNode EXCEPT ![n] = NULL]
  PROVE  NoCircle([u.parentNode EXCEPT ![n] = p])
<1>1. t.parentNode \in Ptrs /\ NoCircle(t.parentNode)
  BY FieldsAre DEF TreeRight
<1>2. n \notin D!ToSet(D!Follow(t.parentNode, p))
  BY DEF D!_isAncestor, D!Ancestry
<1>3. NoCircle([t.parentNode EXCEPT ![n] = p])
  BY <1>1, <1>2, StillNoCircle
<1>4. [u.parentNode EXCEPT ![n] = p] = [t.parentNode EXCEPT ![n] = p]
  BY <1>1 DEF Ptrs
<1> QED
  BY <1>3, <1>4

LEMMA InsertedRight ==
  ASSUME D!DomAssumption, NEW t, TreeRight(t), NEW p \in D!Nodes, NEW n \in D!Nodes,
         t.parentNode[n] \in {p, NULL}, NEW ref, NEW r, r = D!Inserted(t, p, n, ref)
  PROVE  Adds(r, t, p, n)
<1>1. PICK u : u = D!Detached(t, p, n)
  OBVIOUS
<1>2. Leaves(u, t, p, n) /\ (t.parentNode[n] = NULL => u = t)
  BY <1>1, DetachedRight
<1>3. PICK v : v = D!Linked(D!NodeList_insert(u, p, n, ref), p, n, ref)
  OBVIOUS
<1>4. PICK w : w = D!Noted(v, p, n)
  OBVIOUS
<1>5. PICK x : x = D!updateCommonParent(w, p)
  OBVIOUS
<1>6. r = CASE D!Refused(t, p, n) -> [tree |-> t, done |-> FALSE]
            [] ~D!Refused(t, p, n) /\ ref # NULL /\ ~D!_lookupNode(u, p, ref) ->
                 [tree |-> u, done |-> FALSE]
            [] OTHER -> [tree |-> x, done |-> TRUE]
  BY <1>1, <1>3, <1>4, <1>5 DEF D!Inserted
<1>7. CASE D!Refused(t, p, n)
  <2>1. r = [tree |-> t, done |-> FALSE]
    BY <1>6, <1>7
  <2> QED
    BY <2>1 DEF Adds, TreeRight
<1>8. CASE ~D!Refused(t, p, n) /\ ref # NULL /\ ~D!_lookupNode(u, p, ref)
  <2>1. r = [tree |-> u, done |-> FALSE]
    BY <1>6, <1>8
  <2> QED
    BY <1>2, <2>1 DEF Adds, Leaves, TreeRight
<1>9. CASE ~D!Refused(t, p, n) /\ (ref = NULL \/ D!_lookupNode(u, p, ref))
  <2>1. r = [tree |-> x, done |-> TRUE]
    BY <1>6, <1>9
  <2>2. /\ TreeRight(u)
        /\ u.parentNode = [t.parentNode EXCEPT ![n] = NULL]
        /\ Kinder(u, p) = Kinder(t, p) \ {n}
        /\ \A q \in D!Nodes : q # p => u.childNodes[q] = t.childNodes[q]
        /\ (t.documentElement = NULL => u.documentElement = NULL)
  /\ (t.map[p] # NULL => u.map[p] # NULL)
    BY <1>2 DEF Leaves
  <2>3. ~D!INVALID_HIER_REQ(t, p, n) /\ ~D!_isAncestor(t, n, p)
    BY <1>9 DEF D!Refused
  <2>4. p = Doc /\ n \in Elements => u.documentElement = NULL
    BY <2>2, <2>3 DEF D!INVALID_HIER_REQ, D!MODIFYING_DOC_ELEM
  <2>5. u.parentNode[n] = NULL
    <3>1. t.parentNode \in Ptrs
      BY FieldsAre DEF TreeRight
    <3> QED
      BY <2>2, <3>1 DEF Ptrs
  <2>6. NoCircle([u.parentNode EXCEPT ![n] = p])
    BY <2>2, <2>3, NotBelow
  <2>7. ref = NULL \/ ref \in Kinder(u, p)
    BY <1>9, <2>2, KinderAre
  <2>8. /\ v \in D!Fields /\ MapsRight(v) /\ (\A q \in D!Nodes : RowOf(v, q))
        /\ ParentsRight(v) /\ NoCircle(v.parentNode)
        /\ Joins(v, u, p, n)
    BY <1>3, <2>2, <2>5, <2>6, <2>7, LinkedIn
  <2>9. /\ v.documentElement = u.documentElement
        /\ Kinder(v, p) = Kinder(u, p) \cup {n}
        /\ \A q \in D!Nodes : q # p => v.childNodes[q] = u.childNodes[q]
    BY <2>8 DEF Joins
  <2>10. Kinder(v, Doc) \subseteq Kinder(u, Doc) \cup (IF p = Doc THEN {n} ELSE {})
    <3>1. Doc \in D!Nodes
      BY DEF D!Nodes
    <3>2. p # Doc => Kinder(v, Doc) = Kinder(u, Doc)
      BY <2>9, <3>1 DEF Kinder
    <3> QED
      BY <2>9, <3>2
  <2>11. TreeRight(w) /\ SameTree(w, v)
    BY <1>4, <2>2, <2>4, <2>8, <2>9, <2>10, NotedRight
  <2>12. TreeRight(x) /\ SameTree(x, w)
    BY <1>5, <2>11, CommonParentRight
  <2>13. x.childNodes = v.childNodes
    BY <2>11, <2>12 DEF SameTree
  <2>14. Kinder(x, p) = Kinder(t, p) \cup {n}
    BY <2>2, <2>9, <2>13 DEF Kinder
  <2> QED
    BY <2>1, <2>2, <2>9, <2>12, <2>13, <2>14 DEF Adds, TreeRight
<1> QED
  BY <1>7, <1>8, <1>9

-----------------------------------------------------------------------------
(* A node is destroyed, and what is below it.                               *)
Below(t, S) == S \cup UNION {Kinder(t, m) : m \in S}

Downwards(g, t, n) ==
  g = [d \in 0 .. Cardinality(D!Nodes) |-> IF d = 0 THEN {n} ELSE Below(t, g[d - 1])]

GoneFrom(gone, t, n) ==
  /\ n \in gone
  /\ \A m \in gone : Kinder(t, m) \subseteq gone
  /\ \A m \in gone \ {n} : \E q \in gone : m \in Kinder(t, q)

LEMMA DownwardsAre ==
  ASSUME D!DomAssumption, NEW t \in D!Fields, NEW n \in D!Nodes
  PROVE  \E g : Downwards(g, t, n)
<1> DEFINE S == SUBSET D!Nodes
           z == Cardinality(D!Nodes)
           step == [w \in S \X (1 .. z) |-> Below(t, w[1])]
<1>1. z \in Nat
  BY NumberOfNodes
<1>2. \A M \in S : Below(t, M) \in S
  BY KinderIn DEF Below
<1>3. step \in [S \X (1 .. z) -> S] /\ \A M \in S, i \in 1 .. z : step[<<M, i>>] = Below(t, M)
  BY <1>2
<1> HIDE DEF step, z, S
<1>4. PICK h \in [0 .. z -> S] : h[0] = {n} /\ Steps(h, step, z)
  <2>1. {n} \in S
    BY DEF S
  <2> QED
    BY <1>1, <1>3, <2>1, StepsExist
<1>5. ASSUME NEW d \in 0 .. z PROVE h[d] = IF d = 0 THEN {n} ELSE Below(t, h[d - 1])
  <2>1. CASE d = 0
    BY <1>4, <2>1
  <2>2. CASE d # 0
    <3>1. d \in 1 .. z /\ d - 1 \in 0 .. z
      BY <1>1, <2>2
    <3>2. h[d] = step[<<h[d - 1], d>>] /\ h[d - 1] \in S
      BY <1>4, <3>1 DEF Steps
    <3> QED
      BY <1>3, <2>2, <3>1, <3>2
  <2> QED
    BY <2>1, <2>2
<1>6. h = [d \in 0 .. z |-> h[d]]
  BY <1>4
<1>7. Downwards(h, t, n)
  BY <1>5, <1>6 DEF Downwards, z
<1> QED
  BY <1>7

LEMMA GoneIs ==
  ASSUME D!DomAssumption, NEW t \in D!Fields, NEW n \in D!Nodes, NEW g, Downwards(g, t, n)
  PROVE  g[Cardinality(D!Nodes)] \in SUBSET D!Nodes /\ GoneFrom(g[Cardinality(D!Nodes)], t, n)
<1>0. PICK z \in Nat \ {0} : z = Cardinality(D!Nodes) /\ IsFiniteSet(D!Nodes)
  BY NumberOfNodes
<1>1. g[0] = {n} /\ \A d \in 1 .. z : g[d] = Below(t, g[d - 1])
  <2>1. \A d \in 0 .. z : g[d] = IF d = 0 THEN {n} ELSE Below(t, g[d - 1])
    BY <1>0 DEF Downwards
  <2> QED
    BY <1>0, <2>1
<1> DEFINE Closed(M) == \A m \in M : Kinder(t, m) \subseteq M
           Reached(M) == \A m \in M \ {n} : \E q \in M : m \in Kinder(t, q)
           P == {d \in 0 .. z : /\ g[d] \in SUBSET D!Nodes /\ n \in g[d] /\ Reached(g[d])
                                /\ Closed(g[d]) \/ d + 1 <= Cardinality(g[d])}
<1>2. 0 \in P
  <2>1. 0 \in 0 .. z /\ g[0] \in SUBSET D!Nodes /\ n \in g[0] /\ Reached(g[0])
    BY <1>1
  <2>2. 0 + 1 <= Cardinality(g[0])
    <3>1. Cardinality({n}) = 1
      BY FS_Singleton
    <3> QED
      BY <1>1, <3>1
  <2> QED
    BY <2>1, <2>2
<1>3. ASSUME NEW d \in 1 .. z, d - 1 \in P PROVE d \in P
  <2>1. PICK M \in SUBSET D!Nodes : M = g[d - 1] /\ n \in M /\ Reached(M)
          /\ (Closed(M) \/ d - 1 + 1 <= Cardinality(M))
    BY <1>3
  <2>2. PICK U : U = Below(t, M)
    OBVIOUS
  <2>3. g[d] = U
    BY <1>1, <2>1, <2>2
  <2>4. U \in SUBSET D!Nodes /\ M \subseteq U /\ n \in U
    BY <2>1, <2>2, KinderIn DEF Below
  <2>5. Reached(U)
    <3> SUFFICES ASSUME NEW m \in U \ {n} PROVE \E q \in U : m \in Kinder(t, q)
      OBVIOUS
    <3>1. CASE m \in M
      BY <2>1, <2>4, <3>1
    <3>2. CASE m \notin M
      BY <2>2, <2>4, <3>2 DEF Below
    <3> QED
      BY <3>1, <3>2
  <2>6. Closed(M) => U = M
    BY <2>2 DEF Below
  <2>7. ~Closed(M) => d + 1 <= Cardinality(U)
    <3>1. SUFFICES ASSUME ~Closed(M) PROVE d + 1 <= Cardinality(U)
      OBVIOUS
    <3>2. U # M
      BY <2>2, <3>1 DEF Below
    <3>3. IsFiniteSet(U)
      BY <1>0, <2>4, FS_Subset
    <3>4. IsFiniteSet(M) /\ Cardinality(M) <= Cardinality(U) /\ Cardinality(U) # Cardinality(M)
      BY <2>4, <3>2, <3>3, FS_Subset
    <3>5. Cardinality(M) \in Nat /\ Cardinality(U) \in Nat
      BY <3>3, <3>4, FS_CardinalityType
    <3>6. d <= Cardinality(M)
      BY <2>1, <3>1
    <3> QED
      BY <3>4, <3>5, <3>6
  <2>8. Closed(U) \/ d + 1 <= Cardinality(U)
    BY <2>6, <2>7
  <2>9. d \in 0 .. z
    OBVIOUS
  <2> HIDE DEF Closed, Reached
  <2> QED
    BY <2>3, <2>4, <2>5, <2>8, <2>9
<1>4. z \in P
  <2> HIDE DEF P
  <2>1. \A d \in 0 .. z : d \in P
    BY <1>2, <1>3, UpTo
  <2> QED
    BY <2>1
<1>5. /\ g[z] \in SUBSET D!Nodes /\ n \in g[z] /\ Reached(g[z])
      /\ Closed(g[z]) \/ z + 1 <= Cardinality(g[z])
  BY <1>4
<1>6. Cardinality(g[z]) <= z /\ Cardinality(g[z]) \in Nat
  BY <1>0, <1>5, FS_Subset, FS_CardinalityType
<1>7. Closed(g[z])
  BY <1>5, <1>6
<1> QED
  BY <1>0, <1>5, <1>7 DEF GoneFrom

Lost(u, t, gone) ==
  /\ u \in D!Fields /\ u.documentElement = t.documentElement
  /\ \A m \in D!Nodes :
       /\ u.childNodes[m] = IF m \in gone THEN <<>> ELSE t.childNodes[m]
       /\ u.map[m] = IF m \in gone THEN NULL ELSE t.map[m]
       /\ u.parentNode[m] = IF m \in gone THEN NULL ELSE t.parentNode[m]
       /\ u.firstChild[m] = IF m \in gone THEN NULL ELSE t.firstChild[m]
       /\ u.lastChild[m] = IF m \in gone THEN NULL ELSE t.lastChild[m]
       /\ u.previousSibling[m] = IF m \in gone THEN NULL ELSE t.previousSibling[m]
       /\ u.nextSibling[m] = IF m \in gone THEN NULL ELSE t.nextSibling[m]

LEMMA DestroyedIs ==
  ASSUME D!DomAssumption, NEW t \in D!Fields, NEW n \in D!Nodes, NEW u, u = D!Destroyed(t, n)
  PROVE  \E gone \in SUBSET D!Nodes : GoneFrom(gone, t, n) /\ Lost(u, t, gone)
<1>1. PICK g : g = CHOOSE f : Downwards(f, t, n)
  OBVIOUS
<1>2. Downwards(g, t, n)
  BY <1>1, DownwardsAre
<1>3. PICK gone : gone = g[Cardinality(D!Nodes)]
  OBVIOUS
<1>4. gone \in SUBSET D!Nodes /\ GoneFrom(gone, t, n)
  BY <1>2, <1>3, GoneIs
<1> DEFINE New(f, x) == [m \in D!Nodes |-> IF m \in gone THEN x ELSE f[m]]
<1>5. PICK c, a, q, b, e, v, w, o :
        /\ c = New(t.childNodes, <<>>) /\ a = New(t.map, NULL) /\ q = New(t.parentNode, NULL)
        /\ b = New(t.firstChild, NULL) /\ e = New(t.lastChild, NULL)
        /\ v = New(t.previousSibling, NULL) /\ w = New(t.nextSibling, NULL)
        /\ o = [m \in D!Nodes |-> IF m \in gone \cap Doctypes THEN NULL
                                  ELSE t.ownerDocument[m]]
  OBVIOUS
<1>6. /\ c \in [D!Nodes -> Seq(D!Nodes)] /\ a \in [D!Nodes -> (SUBSET D!Nodes) \cup {NULL}]
      /\ q \in Ptrs /\ b \in Ptrs /\ e \in Ptrs /\ v \in Ptrs /\ w \in Ptrs
      /\ o \in [D!Nodes -> {Doc, NULL}]
      /\ t.alive \ gone \in SUBSET D!Nodes /\ t.marked \ gone \in SUBSET D!Nodes
  <2>1. /\ t.childNodes \in [D!Nodes -> Seq(D!Nodes)]
        /\ t.map \in [D!Nodes -> (SUBSET D!Nodes) \cup {NULL}]
        /\ t.parentNode \in Ptrs /\ t.firstChild \in Ptrs /\ t.lastChild \in Ptrs
        /\ t.previousSibling \in Ptrs /\ t.nextSibling \in Ptrs
        /\ t.ownerDocument \in [D!Nodes -> {Doc, NULL}]
        /\ t.alive \in SUBSET D!Nodes /\ t.marked \in SUBSET D!Nodes
    BY FieldsAre
  <2>2. c \in [D!Nodes -> Seq(D!Nodes)]
    BY <1>5, <2>1
  <2>3. a \in [D!Nodes -> (SUBSET D!Nodes) \cup {NULL}]
    BY <1>5, <2>1
  <2>4. q \in Ptrs /\ b \in Ptrs /\ e \in Ptrs /\ v \in Ptrs /\ w \in Ptrs
    BY <1>5, <2>1 DEF Ptrs
  <2>5. o \in [D!Nodes -> {Doc, NULL}]
    BY <1>5, <2>1
  <2> QED
    BY <2>1, <2>2, <2>3, <2>4, <2>5
<1>7. u = [t EXCEPT !.alive = t.alive \ gone, !.marked = t.marked \ gone,
                    !.childNodes = c, !.map = a, !.parentNode = q,
                    !.firstChild = b, !.lastChild = e, !.previousSibling = v,
                    !.nextSibling = w, !.ownerDocument = o]
  <2>1. D!Cardinality(D!Nodes) = Cardinality(D!Nodes)
    BY SameCount
  <2>2. DOMAIN t = FieldNames
    BY FieldsAre
  <2>3. g = CHOOSE down : down = [d \in 0 .. D!Cardinality(D!Nodes) |->
              IF d = 0 THEN {n}
              ELSE down[d - 1] \cup UNION {D!ToSet(t.childNodes[m]) : m \in down[d - 1]}]
    BY <1>1, <2>1 DEF Downwards, Below, Kinder
  <2>4. gone = g[D!Cardinality(D!Nodes)]
    BY <1>3, <2>1
  <2>5. u = [t EXCEPT !.alive = @ \ gone, !.marked = @ \ gone,
                !.childNodes = New(@, <<>>), !.map = New(@, NULL),
                !.parentNode = New(@, NULL),
                !.firstChild = New(@, NULL), !.lastChild = New(@, NULL),
                !.previousSibling = New(@, NULL), !.nextSibling = New(@, NULL),
                !.ownerDocument = [m \in D!Nodes |-> IF m \in gone \cap Doctypes THEN NULL
                                                     ELSE @[m]]]
    BY <2>3, <2>4 DEF D!Destroyed
  <2> QED
    BY <1>5, <2>2, <2>5 DEF FieldNames
<1>8. /\ u \in D!Fields /\ u.documentElement = t.documentElement
      /\ u.childNodes = c /\ u.map = a /\ u.parentNode = q
      /\ u.firstChild = b /\ u.lastChild = e /\ u.previousSibling = v /\ u.nextSibling = w
  BY <1>6, <1>7 DEF D!Fields, Ptrs
<1>9. Lost(u, t, gone)
  BY <1>5, <1>8 DEF Lost
<1> QED
  BY <1>4, <1>9

LEMMA DestroyedRight ==
  ASSUME D!DomAssumption, NEW t, TreeRight(t), NEW n \in D!Nodes, t.parentNode[n] = NULL,
         NEW u, u = D!Destroyed(t, n)
  PROVE  TreeRight(u)
<1>0. t \in D!Fields /\ MapsRight(t) /\ ElementRight(t) /\ ParentsRight(t) /\ NoCircle(t.parentNode)
      /\ NULL \notin D!Nodes /\ Doc \in D!Nodes
  BY NumberOfNodes DEF TreeRight, D!Nodes
<1>1. PICK gone \in SUBSET D!Nodes : GoneFrom(gone, t, n) /\ Lost(u, t, gone)
  BY <1>0, DestroyedIs
<1>2. /\ \A m \in gone : Kinder(t, m) \subseteq gone
      /\ \A m \in gone \ {n} : \E q \in gone : m \in Kinder(t, q)
  BY <1>1 DEF GoneFrom
<1>3. /\ u \in D!Fields /\ u.documentElement = t.documentElement
      /\ \A m \in D!Nodes :
           /\ u.childNodes[m] = IF m \in gone THEN <<>> ELSE t.childNodes[m]
           /\ u.map[m] = IF m \in gone THEN NULL ELSE t.map[m]
           /\ u.parentNode[m] = IF m \in gone THEN NULL ELSE t.parentNode[m]
           /\ u.firstChild[m] = IF m \in gone THEN NULL ELSE t.firstChild[m]
           /\ u.lastChild[m] = IF m \in gone THEN NULL ELSE t.lastChild[m]
           /\ u.previousSibling[m] = IF m \in gone THEN NULL ELSE t.previousSibling[m]
           /\ u.nextSibling[m] = IF m \in gone THEN NULL ELSE t.nextSibling[m]
  BY <1>1 DEF Lost
<1>4. D!ToSet(<<>>) = {}
  BY DEF D!ToSet
<1>5. \A q \in D!Nodes : Kinder(u, q) = IF q \in gone THEN {} ELSE Kinder(t, q)
  BY <1>3, <1>4 DEF Kinder
<1>6. ASSUME NEW q \in D!Nodes PROVE RowOf(u, q)
  <2>1. CASE q \in gone
    <3>1. u.childNodes[q] = <<>> /\ u.firstChild[q] = NULL /\ u.lastChild[q] = NULL
      BY <1>3, <2>1
    <3> QED
      BY <3>1 DEF RowOf, Row, Apart
  <2>2. CASE q \notin gone
    <3>1. ASSUME NEW m \in Kinder(t, q)
          PROVE  /\ u.parentNode[m] = t.parentNode[m]
                 /\ u.nextSibling[m] = t.nextSibling[m]
                 /\ u.previousSibling[m] = t.previousSibling[m]
      <4>1. m \in D!Nodes /\ t.parentNode[m] = q
        BY <1>0, KinderIn, KinderAre
      <4>2. m \notin gone
        <5>1. SUFFICES ASSUME m \in gone PROVE FALSE
          OBVIOUS
        <5>2. m # n
          BY <1>0, <4>1
        <5>3. PICK x \in gone : m \in Kinder(t, x)
          BY <1>2, <5>1, <5>2
        <5>4. t.parentNode[m] = x
          BY <4>1, <5>3, KinderAre
        <5> QED
          BY <2>2, <4>1, <5>4
      <4> QED
        BY <1>3, <4>1, <4>2
    <3>2. /\ u.childNodes[q] = t.childNodes[q] /\ u.firstChild[q] = t.firstChild[q]
          /\ u.lastChild[q] = t.lastChild[q]
      BY <1>3, <2>2
    <3> QED
      BY <3>1, <3>2, OtherRows
  <2> QED
    BY <2>1, <2>2
<1>7. MapsRight(u)
  BY <1>0, <1>3, <1>5 DEF MapsRight
<1>8. ElementRight(u)
  BY <1>0, <1>3, <1>5 DEF ElementRight
<1>9. ParentsRight(u)
  <2> SUFFICES ASSUME NEW m \in D!Nodes, u.parentNode[m] # NULL PROVE m \in Kinder(u, u.parentNode[m])
    BY DEF ParentsRight
  <2>1. m \notin gone /\ u.parentNode[m] = t.parentNode[m]
    BY <1>3
  <2>2. m \in Kinder(t, t.parentNode[m]) /\ t.parentNode[m] \in D!Nodes
    BY <1>0, <2>1, FieldsAre DEF ParentsRight, Ptrs
  <2>3. t.parentNode[m] \notin gone
    BY <1>2, <2>1, <2>2
  <2> QED
    BY <1>5, <2>1, <2>2, <2>3
<1>10. NoCircle(u.parentNode)
  <2>1. t.parentNode \in Ptrs /\ u.parentNode \in Ptrs
    BY <1>0, <1>3, FieldsAre
  <2>2. \A m \in D!Nodes : u.parentNode[m] = t.parentNode[m] \/ u.parentNode[m] = NULL
    BY <1>3
  <2> QED
    BY <1>0, <2>1, <2>2, LessNoCircle
<1> QED
  BY <1>3, <1>6, <1>7, <1>8, <1>9, <1>10 DEF TreeRight

-----------------------------------------------------------------------------
(* The links show the lists.                                                *)
LEMMA KidsAre ==
  ASSUME D!DomAssumption, NEW t, TreeRight(t), NEW p \in D!Nodes
  PROVE  D!Kids(t, p) = t.childNodes[p]
<1>1. PICK l \in Seq(D!Nodes) : l = t.childNodes[p]
  BY FieldsAre DEF TreeRight
<1>2. t.nextSibling \in Ptrs /\ t.firstChild[p] \in D!Nodes \cup {NULL}
  BY FieldsAre DEF TreeRight, Ptrs
<1>3. PICK ptr, n, s : ptr = t.nextSibling /\ n = t.firstChild[p] /\ s = D!Follow(ptr, n)
  OBVIOUS
<1>4. ptr \in Ptrs /\ IsWalk(s, ptr, n)
  BY <1>2, <1>3, FollowIs
<1>5. /\ Apart(l) /\ n = IF Len(l) = 0 THEN NULL ELSE l[1]
      /\ \A i \in 1 .. Len(l) : ptr[l[i]] = IF i = Len(l) THEN NULL ELSE l[i + 1]
  BY <1>1, <1>3 DEF TreeRight, RowOf, Row
<1>6. s = l
  BY <1>4, <1>5, WalkIsList
<1> QED
  BY <1>1, <1>3, <1>6 DEF D!Kids

LEMMA BackwardsAre ==
  ASSUME D!DomAssumption, NEW t, TreeRight(t), NEW p \in D!Nodes
  PROVE  D!Follow(t.previousSibling, t.lastChild[p]) = D!Reverse(t.childNodes[p])
<1>1. PICK l \in Seq(D!Nodes) : l = t.childNodes[p]
  BY FieldsAre DEF TreeRight
<1>2. t.previousSibling \in Ptrs /\ t.lastChild[p] \in D!Nodes \cup {NULL}
  BY FieldsAre DEF TreeRight, Ptrs
<1>3. PICK ptr, n, s : ptr = t.previousSibling /\ n = t.lastChild[p] /\ s = D!Follow(ptr, n)
  OBVIOUS
<1>4. ptr \in Ptrs /\ IsWalk(s, ptr, n)
  BY <1>2, <1>3, FollowIs
<1>5. PICK z \in Nat : z = Len(l)
  BY LenProperties
<1>6. /\ Apart(l) /\ n = IF Len(l) = 0 THEN NULL ELSE l[Len(l)]
      /\ \A i \in 1 .. Len(l) : ptr[l[i]] = IF i = 1 THEN NULL ELSE l[i - 1]
  BY <1>1, <1>3 DEF TreeRight, RowOf, Row
<1>7. /\ \A i, k \in 1 .. z : l[i] = l[k] => i = k
      /\ \A i \in 1 .. z : l[i] \in D!Nodes
      /\ n = IF z = 0 THEN NULL ELSE l[z]
      /\ \A i \in 1 .. z : ptr[l[i]] = IF i = 1 THEN NULL ELSE l[i - 1]
  <2>1. DOMAIN l = 1 .. z
    BY <1>5
  <2> QED
    BY <1>5, <1>6, <2>1, ElementOfSeq DEF Apart
<1>8. PICK r : r = D!Reverse(l)
  OBVIOUS
<1>9. r = [i \in 1 .. z |-> l[(z - i) + 1]]
  BY <1>5, <1>8 DEF D!Reverse
<1>10. \A i \in 1 .. z : (z - i) + 1 \in 1 .. z
  OBVIOUS
<1>11. r \in Seq(D!Nodes) /\ Len(r) = z /\ DOMAIN r = 1 .. z /\ \A i \in 1 .. z : r[i] = l[(z - i) + 1]
  <2>1. r \in [1 .. z -> D!Nodes]
    BY <1>7, <1>9, <1>10
  <2> QED
    BY <1>9, <2>1
<1>12. Apart(r)
  <2> SUFFICES ASSUME NEW i \in 1 .. z, NEW k \in 1 .. z, r[i] = r[k] PROVE i = k
    BY <1>11 DEF Apart
  <2>1. l[(z - i) + 1] = l[(z - k) + 1]
    BY <1>11
  <2>2. (z - i) + 1 = (z - k) + 1
    BY <1>7, <1>10, <2>1
  <2> QED
    BY <2>2
<1>13. n = IF Len(r) = 0 THEN NULL ELSE r[1]
  <2>1. z # 0 => 1 \in 1 .. z /\ (z - 1) + 1 = z
    OBVIOUS
  <2> QED
    BY <1>7, <1>11, <2>1
<1>14. \A i \in 1 .. Len(r) : ptr[r[i]] = IF i = Len(r) THEN NULL ELSE r[i + 1]
  <2> SUFFICES ASSUME NEW i \in 1 .. z PROVE ptr[r[i]] = IF i = z THEN NULL ELSE r[i + 1]
    BY <1>11
  <2>1. PICK k \in 1 .. z : k = (z - i) + 1
    BY <1>10
  <2>2. ptr[r[i]] = IF k = 1 THEN NULL ELSE l[k - 1]
    BY <1>7, <1>11, <2>1
  <2>3. k = 1 <=> i = z
    BY <2>1
  <2>4. i # z => i + 1 \in 1 .. z /\ (z - (i + 1)) + 1 = k - 1
    BY <2>1
  <2>5. i # z => r[i + 1] = l[k - 1]
    BY <1>11, <2>4
  <2> QED
    BY <2>2, <2>3, <2>5
<1>15. s = r
  <2>1. r \in Seq(D!Nodes) /\ ptr \in Ptrs /\ IsWalk(s, ptr, n)
    BY <1>4, <1>11
  <2> QED
    BY <1>12, <1>13, <1>14, <2>1, WalkIsList
<1> QED
  BY <1>1, <1>3, <1>8, <1>15

-----------------------------------------------------------------------------
(* The children of a fragment f go under p, one by one.                     *)
Results == [tree : D!Fields, done : BOOLEAN]

AfterMoves(g, r, p, f, l, ref) ==
  g = [i \in 0 .. Len(l) |-> IF i = 0 THEN r ELSE D!Moved(g[i - 1], p, f, l[i], ref)]

LEMMA AfterMovesAre ==
  ASSUME NEW r, NEW p, NEW f, NEW l \in Seq(D!Nodes), NEW ref
  PROVE  \E g : AfterMoves(g, r, p, f, l, ref)
<1>0. PICK z \in Nat : z = Len(l)
  BY LenProperties
<1> DEFINE Right(g, k) == g = [i \in 0 .. k |-> IF i = 0 THEN r ELSE D!Moved(g[i - 1], p, f, l[i], ref)]
           P == {k \in 0 .. z : \E g : Right(g, k)}
<1>1. 0 \in P
  <2>1. PICK g : g = [i \in 0 .. 0 |-> r]
    OBVIOUS
  <2>2. Right(g, 0)
    BY <2>1
  <2> HIDE DEF Right
  <2> QED
    BY <2>2
<1>2. ASSUME NEW k \in 1 .. z, k - 1 \in P PROVE k \in P
  <2>1. PICK g : Right(g, k - 1)
    BY <1>2
  <2>2. \A i \in 0 .. k - 1 : g[i] = IF i = 0 THEN r ELSE D!Moved(g[i - 1], p, f, l[i], ref)
    BY <2>1
  <2>3. PICK h : h = [i \in 0 .. k |-> IF i = k THEN D!Moved(g[k - 1], p, f, l[k], ref) ELSE g[i]]
    OBVIOUS
  <2>4. ASSUME NEW i \in 0 .. k
        PROVE  h[i] = IF i = 0 THEN r ELSE D!Moved(h[i - 1], p, f, l[i], ref)
    <3>1. i # 0 => i - 1 \in 0 .. k /\ i - 1 # k /\ h[i - 1] = g[i - 1]
      BY <2>3
    <3>2. CASE i = k
      BY <2>3, <3>1, <3>2
    <3>3. CASE i # k
      <4>1. i \in 0 .. k - 1 /\ h[i] = g[i]
        BY <2>3, <3>3
      <4> QED
        BY <2>2, <3>1, <4>1
    <3> QED
      BY <3>2, <3>3
  <2>5. h = [i \in 0 .. k |-> h[i]]
    BY <2>3
  <2>6. Right(h, k)
    BY <2>4, <2>5
  <2> HIDE DEF Right
  <2> QED
    BY <2>6
<1>3. z \in P
  <2> HIDE DEF P
  <2>1. \A i \in 0 .. z : i \in P
    BY <1>1, <1>2, UpTo
  <2> QED
    BY <2>1
<1> QED
  BY <1>0, <1>3 DEF AfterMoves

LEMMA MovedRight ==
  ASSUME D!DomAssumption, NEW r \in Results, TreeRight(r.tree),
         NEW p \in D!Nodes, NEW f \in D!Nodes, p # f, NEW n \in D!Nodes,
         r.done => n \in Kinder(r.tree, f), NEW ref, NEW s, s = D!Moved(r, p, f, n, ref)
  PROVE  /\ s \in Results /\ TreeRight(s.tree)
         /\ s.done => /\ r.done /\ Kinder(s.tree, f) = Kinder(r.tree, f) \ {n}
                      /\ Kinder(r.tree, p) \subseteq Kinder(s.tree, p)
<1>1. PICK t : t = r.tree
  OBVIOUS
<1>2. PICK u : u = D!_removeChild(t, f, n)
  OBVIOUS
<1>3. PICK w : w = D!Inserted(u, p, n, ref)
  OBVIOUS
<1>4. s = CASE ~r.done -> r
            [] r.done /\ w.done -> w
            [] r.done /\ ~w.done -> [w EXCEPT !.tree = D!Destroyed(w.tree, n)]
  BY <1>1, <1>2, <1>3 DEF D!Moved, D!Settled, Results
<1>5. r.done \in BOOLEAN
  BY DEF Results
<1>6. CASE ~r.done
  <2>1. s = r
    BY <1>4, <1>6
  <2> QED
    BY <1>6, <2>1
<1>7. CASE r.done
  <2>0. TreeRight(t) /\ n \in Kinder(t, f) /\ t.parentNode \in Ptrs /\ NULL \notin D!Nodes
    BY <1>1, <1>7, NumberOfNodes, FieldsAre DEF TreeRight
  <2>1. /\ TreeRight(u)
        /\ u.parentNode = [t.parentNode EXCEPT ![n] = NULL]
        /\ Kinder(u, f) = Kinder(t, f) \ {n}
        /\ \A q \in D!Nodes : q # f => u.childNodes[q] = t.childNodes[q]
    <3>1. Leaves(u, t, f, n)
      BY <1>2, <2>0, ChildRemoved
    <3> QED
      BY <3>1 DEF Leaves
  <2>2. u.parentNode[n] = NULL
    BY <2>0, <2>1 DEF Ptrs
  <2>3. Adds(w, u, p, n)
    BY <1>3, <2>1, <2>2, InsertedRight
  <2>4. /\ TreeRight(w.tree) /\ w \in Results
        /\ \A q \in D!Nodes : q # p => w.tree.childNodes[q] = u.childNodes[q]
        /\ (w.done => Kinder(w.tree, p) = Kinder(u, p) \cup {n})
        /\ (~w.done => w.tree = u)
    BY <2>2, <2>3 DEF Adds, Results
  <2>5. Kinder(u, p) = Kinder(t, p)
    BY <2>1 DEF Kinder
  <2>6. CASE w.done
    <3>1. s = w
      BY <1>4, <1>7, <2>6
    <3>2. Kinder(w.tree, f) = Kinder(u, f)
      BY <2>4 DEF Kinder
    <3> QED
      BY <1>1, <1>7, <2>1, <2>4, <2>5, <2>6, <3>1, <3>2
  <2>7. CASE ~w.done
    <3>1. PICK x : x = D!Destroyed(w.tree, n)
      OBVIOUS
    <3>2. s = [w EXCEPT !.tree = x]
      BY <1>4, <1>7, <2>7, <3>1
    <3>3. TreeRight(x)
      BY <2>1, <2>2, <2>4, <2>7, <3>1, DestroyedRight
    <3>4. s \in Results /\ s.tree = x /\ ~s.done
      BY <2>4, <2>7, <3>2, <3>3 DEF Results, TreeRight
    <3> QED
      BY <3>3, <3>4
  <2> QED
    BY <2>6, <2>7
<1> QED
  BY <1>5, <1>6, <1>7

LEMMA FragmentRight ==
  ASSUME D!DomAssumption, NEW t, TreeRight(t), NEW p \in D!Nodes, NEW f \in D!Nodes, p # f,
         NEW ref, NEW r, r = D!InsertedFragment(t, p, f, ref)
  PROVE  /\ r \in Results /\ TreeRight(r.tree)
         /\ r.done => Kinder(t, p) \subseteq Kinder(r.tree, p)
<1>1. PICK l \in Seq(D!Nodes) : l = t.childNodes[f]
  BY FieldsAre DEF TreeRight
<1>2. PICK z \in Nat : z = Len(l)
  BY LenProperties
<1>3. D!Kids(t, f) = l
  BY <1>1, KidsAre
<1>4. PICK r0 : r0 = [tree |-> t, done |-> TRUE]
  OBVIOUS
<1>5. PICK g : g = CHOOSE h : AfterMoves(h, r0, p, f, l, ref)
  OBVIOUS
<1>6. AfterMoves(g, r0, p, f, l, ref)
  BY <1>5, AfterMovesAre
<1>7. r = IF D!FragmentRefused(t, p, f) THEN [tree |-> t, done |-> FALSE] ELSE g[z]
  BY <1>2, <1>3, <1>4, <1>5 DEF D!InsertedFragment, AfterMoves
<1>8. r0 \in Results /\ TreeRight(r0.tree) /\ r0.done
  BY <1>4 DEF Results, TreeRight
<1>9. g[0] = r0 /\ \A i \in 1 .. z : g[i] = D!Moved(g[i - 1], p, f, l[i], ref)
  BY <1>2, <1>6 DEF AfterMoves
<1>10. /\ \A i, j \in 1 .. z : l[i] = l[j] => i = j
       /\ \A i \in 1 .. z : l[i] \in D!Nodes
  <2>1. DOMAIN l = 1 .. z /\ Apart(l)
    BY <1>1, <1>2 DEF TreeRight, RowOf, Row
  <2> QED
    BY <1>2, <2>1, ElementOfSeq DEF Apart
<1> DEFINE Good(x, i) == /\ x \in Results /\ TreeRight(x.tree)
                         /\ (x.done => /\ Kinder(x.tree, f) = {l[j] : j \in i + 1 .. z}
                                       /\ Kinder(t, p) \subseteq Kinder(x.tree, p))
           P == {i \in 0 .. z : Good(g[i], i)}
<1>11. 0 \in P
  <2>1. Kinder(t, f) = {l[j] : j \in 1 .. z}
    BY <1>1, <1>2 DEF Kinder, D!ToSet
  <2>2. r0.tree = t
    BY <1>4
  <2>3. Good(r0, 0)
    BY <1>8, <2>1, <2>2
  <2> HIDE DEF Good
  <2> QED
    BY <1>9, <2>3
<1>12. ASSUME NEW i \in 1 .. z, i - 1 \in P PROVE i \in P
  <2>1. PICK x : x = g[i - 1]
    OBVIOUS
  <2>2. PICK y : y = g[i]
    OBVIOUS
  <2>3. y = D!Moved(x, p, f, l[i], ref)
    BY <1>9, <2>1, <2>2
  <2>4. /\ x \in Results /\ TreeRight(x.tree)
        /\ (x.done => /\ Kinder(x.tree, f) = {l[j] : j \in i - 1 + 1 .. z}
                      /\ Kinder(t, p) \subseteq Kinder(x.tree, p))
    BY <1>12, <2>1
  <2>5. i - 1 + 1 = i /\ i \in i .. z
    OBVIOUS
  <2>6. x.done => l[i] \in Kinder(x.tree, f)
    BY <2>4, <2>5
  <2>7. /\ y \in Results /\ TreeRight(y.tree)
        /\ (y.done => /\ x.done /\ Kinder(y.tree, f) = Kinder(x.tree, f) \ {l[i]}
                      /\ Kinder(x.tree, p) \subseteq Kinder(y.tree, p))
    <3>1. PICK m \in D!Nodes : m = l[i]
      BY <1>10
    <3>2. y = D!Moved(x, p, f, m, ref) /\ (x.done => m \in Kinder(x.tree, f))
      BY <2>3, <2>6, <3>1
    <3>3. x \in Results /\ TreeRight(x.tree)
      BY <2>4
    <3>4. /\ y \in Results /\ TreeRight(y.tree)
          /\ y.done => /\ x.done /\ Kinder(y.tree, f) = Kinder(x.tree, f) \ {m}
                       /\ Kinder(x.tree, p) \subseteq Kinder(y.tree, p)
      BY <3>2, <3>3, MovedRight
    <3> QED
      BY <3>1, <3>4
  <2>8. {l[j] : j \in i .. z} \ {l[i]} = {l[j] : j \in i + 1 .. z}
    <3>1. \A j \in i .. z : j # i <=> j \in i + 1 .. z
      OBVIOUS
    <3>2. \A j \in i .. z : j \in 1 .. z
      OBVIOUS
    <3>3. \A j \in i + 1 .. z : j \in i .. z
      OBVIOUS
    <3> QED
      BY <1>10, <3>1, <3>2, <3>3
  <2>9. Good(y, i)
    BY <2>4, <2>5, <2>7, <2>8
  <2>10. i \in 0 .. z
    OBVIOUS
  <2> HIDE DEF Good
  <2> QED
    BY <2>2, <2>9, <2>10
<1>13. Good(g[z], z)
  <2> HIDE DEF Good
  <2>0. \A i \in 1 .. z : i - 1 \in P => i \in P
    BY <1>12
  <2>1. \A i \in 0 .. z : i \in P
    <3> HIDE DEF P
    <3> QED
      BY <1>11, <2>0, UpTo
  <2>2. z \in 0 .. z
    OBVIOUS
  <2> QED
    BY <2>1, <2>2
<1>14. CASE D!FragmentRefused(t, p, f)
  <2>1. r = [tree |-> t, done |-> FALSE]
    BY <1>7, <1>14
  <2> QED
    BY <2>1 DEF Results, TreeRight
<1>15. CASE ~D!FragmentRefused(t, p, f)
  <2>1. r = g[z]
    BY <1>7, <1>15
  <2> QED
    BY <1>13, <2>1
<1> QED
  BY <1>14, <1>15

-----------------------------------------------------------------------------
(* A node takes the place of a child.                                       *)
Replacing(l, t, p, n, old, k, r, mm) ==
  /\ t.childNodes[p][k] = old /\ Len(r) = Len(t.childNodes[p])
  /\ \A i \in 1 .. Len(t.childNodes[p]) : r[i] = IF i = k THEN n ELSE t.childNodes[p][i]
  /\ mm \in {NULL, (Kinder(t, p) \ {old}) \cup {n}}
  /\ l = [t EXCEPT !.map[p] = mm, !.childNodes[p] = r]

LEMMA ReplacingList ==
  ASSUME D!DomAssumption, NEW t, TreeRight(t), NEW p \in D!Nodes, NEW n \in D!Nodes,
         NEW old \in Kinder(t, p), n # old,
         t.map[p] # NULL \/ Len(t.childNodes[p]) <= FillFactor,
         NEW l, l = D!NodeList_replace(t, p, n, old)
  PROVE  \E k \in 1 .. Len(t.childNodes[p]), r \in Seq(D!Nodes) :
           \E mm : Replacing(l, t, p, n, old, k, r, mm)
<1>0. t \in D!Fields /\ NULL \notin D!Nodes /\ MapsRight(t)
  BY NumberOfNodes DEF TreeRight
<1>1. PICK s \in Seq(D!Nodes) : s = t.childNodes[p]
  BY <1>0, FieldsAre
<1>2. PICK z \in Nat : z = Len(s)
  BY LenProperties
<1>3. DOMAIN s = 1 .. z /\ \A i, j \in 1 .. z : s[i] = s[j] => i = j
  BY <1>1, <1>2 DEF TreeRight, RowOf, Row, Apart
<1>4. PICK k \in 1 .. z : s[k] = old
  BY <1>1, <1>2 DEF Kinder, D!ToSet
<1>5. PICK r : r = D!ReplaceAll(s, old, n)
  OBVIOUS
<1>6. r = [i \in 1 .. z |-> IF s[i] = old THEN n ELSE s[i]]
  BY <1>2, <1>5 DEF D!ReplaceAll
<1>7. \A i \in 1 .. z : s[i] \in D!Nodes
  BY <1>2, ElementOfSeq
<1>8. r \in [1 .. z -> D!Nodes]
  BY <1>6, <1>7
<1>9. r \in Seq(D!Nodes) /\ Len(r) = z
  BY <1>8
<1>10. \A i \in 1 .. z : r[i] = IF i = k THEN n ELSE s[i]
  BY <1>3, <1>4, <1>6
<1>11. DOMAIN t = FieldNames /\ t.map \in [D!Nodes -> (SUBSET D!Nodes) \cup {NULL}]
       /\ t.childNodes \in [D!Nodes -> Seq(D!Nodes)]
  BY <1>0, FieldsAre
<1>12. PICK m1 : m1 = D!_removeFromMap(t, p, old)
  OBVIOUS
<1>13. PICK u : u = [t EXCEPT !.map[p] = m1]
  OBVIOUS
<1>14. PICK mm : mm = D!_addToMap(u, p, n)
  OBVIOUS
<1>15. l = [t EXCEPT !.map[p] = mm, !.childNodes[p] = r]
  <2>1. l = [u EXCEPT !.map[p] = mm, !.childNodes[p] = D!ReplaceAll(@, old, n)]
    BY <1>12, <1>13, <1>14 DEF D!NodeList_replace
  <2> QED
    BY <1>1, <1>5, <1>11, <1>13, <2>1 DEF FieldNames
<1>16. u.map[p] = m1 /\ u.childNodes = t.childNodes
  BY <1>11, <1>13 DEF FieldNames
<1>17. mm \in {NULL, (Kinder(t, p) \ {old}) \cup {n}}
  <2>1. CASE t.map[p] = NULL
    <3>1. m1 = NULL /\ Len(s) <= FillFactor
      BY <1>1, <1>12, <2>1 DEF D!_removeFromMap
    <3>2. FillFactor \in Nat
      BY DEF D!DomAssumption
    <3>3. ~(Len(s) > FillFactor)
      BY <1>2, <3>1, <3>2
    <3> QED
      BY <1>1, <1>14, <1>16, <3>1, <3>3 DEF D!_addToMap
  <2>2. CASE t.map[p] # NULL
    <3>1. t.map[p] = Kinder(t, p)
      BY <1>0, <2>2 DEF MapsRight
    <3>2. m1 = Kinder(t, p) \ {old}
      BY <1>12, <2>2, <3>1 DEF D!_removeFromMap
    <3>3. m1 # NULL
      <4>1. m1 \in SUBSET D!Nodes
        BY <1>0, <3>2, KinderIn
      <4> QED
        BY <4>1 DEF D!DomAssumption
    <3> QED
      BY <1>14, <1>16, <3>2, <3>3 DEF D!_addToMap
  <2> QED
    BY <2>1, <2>2
<1>18. Len(t.childNodes[p]) = z
  BY <1>1, <1>2
<1>19. Replacing(l, t, p, n, old, k, r, mm)
  BY <1>1, <1>4, <1>9, <1>10, <1>15, <1>17, <1>18 DEF Replacing
<1> QED
  BY <1>9, <1>18, <1>19

MayReplace(t, p, n) ==
  /\ t.parentNode[n] = NULL /\ NoCircle([t.parentNode EXCEPT ![n] = p])
  /\ p = Doc /\ n \in Elements => t.documentElement = NULL
  /\ t.map[p] # NULL \/ Len(t.childNodes[p]) <= FillFactor

LEMMA ReplacedRight ==
  ASSUME D!DomAssumption, NEW t, TreeRight(t), NEW p \in D!Nodes, NEW n \in D!Nodes,
         NEW old \in Kinder(t, p), MayReplace(t, p, n), NEW x, x = D!Replaced(t, p, n, old)
  PROVE  TreeRight(x)
<1> USE DEF MayReplace
<1>0. t \in D!Fields /\ NULL \notin D!Nodes /\ MapsRight(t) /\ ParentsRight(t)
      /\ Kinder(t, p) \subseteq D!Nodes
  BY NumberOfNodes, KinderIn DEF TreeRight
<1>1. PICK s \in Seq(D!Nodes) : s = t.childNodes[p]
  BY <1>0, FieldsAre
<1>2. PICK z \in Nat : z = Len(s)
  BY LenProperties
<1>3. n \notin Kinder(t, p) /\ n # old
  BY <1>0, KinderAre
<1>4. PICK l : l = D!NodeList_replace(t, p, n, old)
  OBVIOUS
<1>40. \E k \in 1 .. Len(t.childNodes[p]), r \in Seq(D!Nodes) :
         \E mm : Replacing(l, t, p, n, old, k, r, mm)
  BY <1>3, <1>4, ReplacingList
<1>42. PICK k \in 1 .. z, r \in Seq(D!Nodes) : \E mm : Replacing(l, t, p, n, old, k, r, mm)
  BY <1>1, <1>2, <1>40
<1>41. PICK mm : Replacing(l, t, p, n, old, k, r, mm)
  BY <1>42
<1>5. /\ s[k] = old /\ Len(r) = z
      /\ \A i \in 1 .. z : r[i] = IF i = k THEN n ELSE s[i]
      /\ mm \in {NULL, (Kinder(t, p) \ {old}) \cup {n}}
      /\ l = [t EXCEPT !.map[p] = mm, !.childNodes[p] = r]
  BY <1>1, <1>2, <1>41 DEF Replacing
<1>6. PICK a, b : a = t.previousSibling[old] /\ b = t.nextSibling[old]
  OBVIOUS
<1>7. Row(s, p, t.firstChild[p], t.lastChild[p], t.parentNode, t.nextSibling, t.previousSibling)
  BY <1>1 DEF TreeRight, RowOf
<1>8. /\ \A i, j \in 1 .. z : s[i] = s[j] => i = j
      /\ \A i \in 1 .. z : s[i] \in D!Nodes /\ s[i] \in Kinder(t, p) /\ s[i] # n
      /\ a = IF k = 1 THEN NULL ELSE s[k - 1]
      /\ b = IF k = z THEN NULL ELSE s[k + 1]
      /\ (k # 1 => k - 1 \in 1 .. z) /\ (k # z => k + 1 \in 1 .. z)
  <2>1. \A i, j \in 1 .. Len(s) : s[i] = s[j] => i = j
    BY <1>7, RowFacts
  <2>2. \A i \in 1 .. Len(s) : /\ t.nextSibling[s[i]] = IF i = Len(s) THEN NULL ELSE s[i + 1]
                               /\ t.previousSibling[s[i]] = IF i = 1 THEN NULL ELSE s[i - 1]
    BY <1>7, RowFacts
  <2>3. \A i \in 1 .. Len(s) : s[i] \in D!Nodes /\ s[i] \in Kinder(t, p)
    BY <1>1, ElementOfSeq DEF Kinder, D!ToSet
  <2>4. a = IF k = 1 THEN NULL ELSE s[k - 1]
    BY <1>2, <1>5, <1>6, <2>2
  <2>5. b = IF k = z THEN NULL ELSE s[k + 1]
    BY <1>2, <1>5, <1>6, <2>2
  <2>6. (k # 1 => k - 1 \in 1 .. z) /\ (k # z => k + 1 \in 1 .. z)
    OBVIOUS
  <2> QED
    BY <1>2, <1>3, <2>1, <2>3, <2>4, <2>5, <2>6
<1>9. a \in D!Nodes \cup {NULL} /\ b \in D!Nodes \cup {NULL} /\ a # n /\ b # n /\ a # old /\ b # old
  <2>1. k # 1 => k - 1 # k
    OBVIOUS
  <2>2. k # z => k + 1 # k
    OBVIOUS
  <2>3. s[k] = old /\ old \in D!Nodes
    BY <1>0, <1>5
  <2>4. a \in D!Nodes \cup {NULL} /\ a # n /\ a # old
    BY <1>0, <1>8, <2>1, <2>3
  <2>5. b \in D!Nodes \cup {NULL} /\ b # n /\ b # old
    BY <1>0, <1>8, <2>2, <2>3
  <2> QED
    BY <2>4, <2>5
<1>10. PICK first, last : first = r[1] /\ last = r[Len(r)]
  OBVIOUS
<1>11. first \in D!Nodes /\ last \in D!Nodes
  <2>1. 1 \in 1 .. Len(r) /\ Len(r) \in 1 .. Len(r)
    BY <1>5
  <2> QED
    BY <1>10, <2>1, ElementOfSeq
<1>12. PICK nxt, prv, par, frs, lst, chn, mps :
         /\ nxt = [t.nextSibling EXCEPT ![a] = n, ![n] = b, ![old] = NULL]
         /\ prv = [t.previousSibling EXCEPT ![b] = n, ![n] = a, ![old] = NULL]
         /\ par = [t.parentNode EXCEPT ![n] = p, ![old] = NULL]
         /\ frs = [t.firstChild EXCEPT ![p] = first]
         /\ lst = [t.lastChild EXCEPT ![p] = last]
         /\ chn = [t.childNodes EXCEPT ![p] = r]
         /\ mps = [t.map EXCEPT ![p] = mm]
  OBVIOUS
<1>13. /\ DOMAIN t = FieldNames
       /\ t.parentNode \in Ptrs /\ t.firstChild \in Ptrs /\ t.lastChild \in Ptrs
       /\ t.previousSibling \in Ptrs /\ t.nextSibling \in Ptrs
       /\ t.childNodes \in [D!Nodes -> Seq(D!Nodes)]
       /\ t.map \in [D!Nodes -> (SUBSET D!Nodes) \cup {NULL}]
  BY <1>0, FieldsAre
<1>14. /\ nxt \in Ptrs /\ prv \in Ptrs /\ par \in Ptrs /\ frs \in Ptrs /\ lst \in Ptrs
       /\ chn \in [D!Nodes -> Seq(D!Nodes)]
       /\ mps \in [D!Nodes -> (SUBSET D!Nodes) \cup {NULL}]
  <2>1. nxt \in Ptrs
    BY <1>9, <1>12, <1>13 DEF Ptrs
  <2>2. prv \in Ptrs
    BY <1>9, <1>12, <1>13 DEF Ptrs
  <2>3. par \in Ptrs
    BY <1>12, <1>13 DEF Ptrs
  <2>4. frs \in Ptrs /\ lst \in Ptrs
    BY <1>11, <1>12, <1>13 DEF Ptrs
  <2>5. chn \in [D!Nodes -> Seq(D!Nodes)]
    BY <1>12, <1>13
  <2>6. mps \in [D!Nodes -> (SUBSET D!Nodes) \cup {NULL}]
    <3>1. mm \in (SUBSET D!Nodes) \cup {NULL}
      BY <1>0, <1>5
    <3> QED
      BY <1>12, <1>13, <3>1
  <2> QED
    BY <2>1, <2>2, <2>3, <2>4, <2>5, <2>6
<1>15. PICK u : u = [t EXCEPT !.map = mps, !.childNodes = chn, !.firstChild = frs,
                              !.lastChild = lst, !.nextSibling = nxt, !.previousSibling = prv,
                              !.parentNode = par]
  OBVIOUS
<1>16. x = D!updateCommonParent(D!Noted(u, p, n), p)
  <2>1. l.childNodes[p] = r
    BY <1>5, <1>13 DEF FieldNames
  <2>2. D!Head(l.childNodes[p]) = first /\ D!Last(l.childNodes[p]) = last
    BY <1>5, <1>10, <2>1 DEF D!Last
  <2>3. PICK v : v = [l EXCEPT !.firstChild[p] = first, !.lastChild[p] = last,
                     !.nextSibling = [@ EXCEPT ![a] = n, ![n] = b, ![old] = NULL],
                     !.previousSibling = [@ EXCEPT ![b] = n, ![n] = a, ![old] = NULL],
                     !.parentNode = [@ EXCEPT ![n] = p, ![old] = NULL]]
    OBVIOUS
  <2>4. x = D!updateCommonParent(D!Noted(v, p, n), p)
    BY <1>4, <1>6, <2>2, <2>3 DEF D!Replaced
  <2>5. l = [t EXCEPT !.map = mps, !.childNodes = chn]
    BY <1>5, <1>12, <1>13 DEF FieldNames
  <2>6. v = u
    BY <1>12, <1>13, <1>15, <2>3, <2>5 DEF FieldNames
  <2> QED
    BY <2>4, <2>6
<1>17. /\ u \in D!Fields /\ u.documentElement = t.documentElement
       /\ u.map = mps /\ u.childNodes = chn /\ u.firstChild = frs /\ u.lastChild = lst
       /\ u.nextSibling = nxt /\ u.previousSibling = prv /\ u.parentNode = par
  BY <1>0, <1>14, <1>15 DEF D!Fields, Ptrs
<1>18. /\ u.childNodes[p] = r /\ u.firstChild[p] = first /\ u.lastChild[p] = last /\ u.map[p] = mm
       /\ \A q \in D!Nodes : q # p => /\ u.childNodes[q] = t.childNodes[q] /\ u.map[q] = t.map[q]
                                      /\ u.firstChild[q] = t.firstChild[q]
                                      /\ u.lastChild[q] = t.lastChild[q]
  BY <1>12, <1>13, <1>17 DEF Ptrs
<1>19. /\ u.parentNode[n] = p /\ u.nextSibling[n] = b /\ u.previousSibling[n] = a
       /\ u.parentNode[old] = NULL
       /\ \A m \in D!Nodes : m # n /\ m # old =>
            /\ u.parentNode[m] = t.parentNode[m]
            /\ u.nextSibling[m] = IF m = a THEN n ELSE t.nextSibling[m]
            /\ u.previousSibling[m] = IF m = b THEN n ELSE t.previousSibling[m]
  <2>1. old \in D!Nodes
    BY <1>0
  <2>2. u.parentNode[n] = p /\ u.parentNode[old] = NULL
        /\ \A m \in D!Nodes : m # n /\ m # old => u.parentNode[m] = t.parentNode[m]
    BY <1>3, <1>12, <1>13, <1>17, <2>1 DEF Ptrs
  <2>3. u.nextSibling[n] = b
        /\ \A m \in D!Nodes : m # n /\ m # old =>
             u.nextSibling[m] = IF m = a THEN n ELSE t.nextSibling[m]
    BY <1>3, <1>9, <1>12, <1>13, <1>17, <2>1 DEF Ptrs
  <2>4. u.previousSibling[n] = a
        /\ \A m \in D!Nodes : m # n /\ m # old =>
             u.previousSibling[m] = IF m = b THEN n ELSE t.previousSibling[m]
    BY <1>3, <1>9, <1>12, <1>13, <1>17, <2>1 DEF Ptrs
  <2> QED
    BY <2>2, <2>3, <2>4
<1>20. RowOf(u, p) /\ D!ToSet(r) = (D!ToSet(s) \ {old}) \cup {n}
  <2>1. ASSUME NEW i \in 1 .. z, i # k
        PROVE  /\ u.parentNode[s[i]] = t.parentNode[s[i]]
               /\ u.nextSibling[s[i]] = IF i = k - 1 THEN n ELSE t.nextSibling[s[i]]
               /\ u.previousSibling[s[i]] = IF i = k + 1 THEN n ELSE t.previousSibling[s[i]]
    <3>1. s[i] \in D!Nodes /\ s[i] # n /\ s[i] # old /\ s[i] # NULL
      BY <1>0, <1>5, <1>8, <2>1
    <3>2. s[i] = a <=> i = k - 1
      <4>1. CASE k = 1
        BY <1>8, <3>1, <4>1
      <4>2. CASE k # 1
        BY <1>8, <4>2
      <4> QED
        BY <4>1, <4>2
    <3>3. s[i] = b <=> i = k + 1
      <4>1. CASE k = z
        BY <1>8, <3>1, <4>1
      <4>2. CASE k # z
        BY <1>8, <4>2
      <4> QED
        BY <4>1, <4>2
    <3> QED
      BY <1>19, <3>1, <3>2, <3>3
  <2>2. PICK par2, nxt2, prv2 : par2 = u.parentNode /\ nxt2 = u.nextSibling /\ prv2 = u.previousSibling
    OBVIOUS
  <2>3. PICK a1, b1, par1, nxt1, prv1 :
          /\ a1 = t.firstChild[p] /\ b1 = t.lastChild[p] /\ par1 = t.parentNode
          /\ nxt1 = t.nextSibling /\ prv1 = t.previousSibling
    OBVIOUS
  <2>4. Row(s, p, a1, b1, par1, nxt1, prv1)
    BY <1>7, <2>3
  <2>5. LinksInstead(s, p, n, k, par1, nxt1, prv1, par2, nxt2, prv2)
    BY <1>2, <1>5, <1>6, <1>19, <2>1, <2>2, <2>3 DEF LinksInstead
  <2>6. n \notin D!ToSet(s) /\ k \in 1 .. Len(s) /\ Len(r) = Len(s)
        /\ \A i \in 1 .. Len(s) : r[i] = IF i = k THEN n ELSE s[i]
    BY <1>1, <1>2, <1>3, <1>5 DEF Kinder
  <2>7. Row(r, p, r[1], r[Len(r)], par2, nxt2, prv2) /\ D!ToSet(r) = (D!ToSet(s) \ {s[k]}) \cup {n}
    BY <2>4, <2>5, <2>6, RowInstead
  <2> QED
    BY <1>5, <1>10, <1>18, <2>2, <2>7 DEF RowOf
<1>21. /\ Kinder(u, p) = (Kinder(t, p) \ {old}) \cup {n}
       /\ \A q \in D!Nodes : q # p => Kinder(u, q) = Kinder(t, q)
  BY <1>1, <1>18, <1>20 DEF Kinder
<1>22. ASSUME NEW q \in D!Nodes PROVE RowOf(u, q)
  <2>1. CASE q = p
    BY <1>20, <2>1
  <2>2. CASE q # p
    <3>1. ASSUME NEW m \in Kinder(t, q)
          PROVE  /\ u.parentNode[m] = t.parentNode[m]
                 /\ u.nextSibling[m] = t.nextSibling[m]
                 /\ u.previousSibling[m] = t.previousSibling[m]
      <4>1. m \in D!Nodes /\ t.parentNode[m] = q
        BY <1>0, KinderIn, KinderAre
      <4>2. \A j \in 1 .. z : t.parentNode[s[j]] = p
        BY <1>0, <1>8, KinderAre
      <4>3. m # n
        BY <1>0, <4>1
      <4>4. \A j \in 1 .. z : m # s[j]
        BY <2>2, <4>1, <4>2
      <4>5. m # old
        BY <1>5, <4>4
      <4>6. m # a
        BY <1>0, <1>8, <4>1, <4>4
      <4>7. m # b
        BY <1>0, <1>8, <4>1, <4>4
      <4> QED
        BY <1>19, <4>1, <4>3, <4>5, <4>6, <4>7
    <3> QED
      BY <1>18, <2>2, <3>1, OtherRows
  <2> QED
    BY <2>1, <2>2
<1>23. MapsRight(u)
  <2> SUFFICES ASSUME NEW q \in D!Nodes, u.map[q] # NULL PROVE u.map[q] = Kinder(u, q)
    BY DEF MapsRight
  <2>1. CASE q = p
    BY <1>5, <1>18, <1>21, <2>1
  <2>2. CASE q # p
    BY <1>0, <1>18, <1>21, <2>2 DEF MapsRight
  <2> QED
    BY <2>1, <2>2
<1>24. ParentsRight(u)
  <2> SUFFICES ASSUME NEW m \in D!Nodes, u.parentNode[m] # NULL PROVE m \in Kinder(u, u.parentNode[m])
    BY DEF ParentsRight
  <2>1. CASE m = n
    BY <1>19, <1>21, <2>1
  <2>2. CASE m # n
    <3>1. m # old /\ u.parentNode[m] = t.parentNode[m]
      BY <1>19, <2>2
    <3>2. m \in Kinder(t, t.parentNode[m]) /\ t.parentNode[m] \in D!Nodes
      BY <1>0, <1>13, <3>1 DEF ParentsRight, Ptrs
    <3> QED
      BY <1>21, <3>1, <3>2
  <2> QED
    BY <2>1, <2>2
<1>25. NoCircle(u.parentNode)
  <2>1. PICK par0 : par0 = [t.parentNode EXCEPT ![n] = p]
    OBVIOUS
  <2>2. par0 \in Ptrs /\ NoCircle(par0)
    BY <1>13, <2>1 DEF Ptrs
  <2>3. \A m \in D!Nodes : u.parentNode[m] = par0[m] \/ u.parentNode[m] = NULL
    BY <1>13, <1>19, <2>1 DEF Ptrs
  <2>4. u.parentNode \in Ptrs
    BY <1>14, <1>17
  <2> QED
    BY <1>0, <2>2, <2>3, <2>4, LessNoCircle
<1>26. Kinder(u, Doc) \subseteq Kinder(t, Doc) \cup (IF p = Doc THEN {n} ELSE {})
  <2>1. Doc \in D!Nodes
    BY DEF D!Nodes
  <2> QED
    BY <1>21, <2>1
<1>27. PICK v : v = D!Noted(u, p, n)
  OBVIOUS
<1>28. TreeRight(v)
  BY <1>17, <1>22, <1>23, <1>24, <1>25, <1>26, <1>27, NotedRight
<1> QED
  BY <1>16, <1>27, <1>28, CommonParentRight

LEMMA RemovedTree ==
  ASSUME D!DomAssumption, NEW t, TreeRight(t), NEW p \in D!Nodes, NEW n \in Kinder(t, p)
  PROVE  TreeRight(D!_removeChild(t, p, n))
BY ChildRemoved DEF Leaves

LEMMA PutInPlaceRight ==
  ASSUME D!DomAssumption, NEW t, TreeRight(t), NEW p \in D!Nodes, NEW n \in D!Nodes,
         t.parentNode[n] \in {p, NULL}, n \in Fragments => n # p,
         NEW old \in Kinder(t, p),
         t.map[p] # NULL \/ Len(D!Detached(t, p, n).childNodes[p]) <= FillFactor,
         NEW x, x = D!PutInPlace(t, p, n, old)
  PROVE  TreeRight(x)
<1>1. CASE n \in Fragments
  <2>1. PICK r : r = D!InsertedFragment(t, p, n, old)
    OBVIOUS
  <2>2. x = IF r.done THEN D!_removeChild(r.tree, p, old) ELSE r.tree
    BY <1>1, <2>1 DEF D!PutInPlace
  <2>3. /\ r \in Results /\ TreeRight(r.tree)
        /\ r.done => Kinder(t, p) \subseteq Kinder(r.tree, p)
    BY <1>1, <2>1, FragmentRight
  <2>4. CASE r.done
    <3>1. PICK v : v = r.tree
      OBVIOUS
    <3>2. TreeRight(v) /\ old \in Kinder(v, p) /\ x = D!_removeChild(v, p, old)
      BY <2>2, <2>3, <2>4, <3>1
    <3> QED
      BY <3>2, RemovedTree
  <2>5. CASE ~r.done
    BY <2>2, <2>3, <2>5
  <2> QED
    BY <2>4, <2>5
<1>2. CASE n \notin Fragments
  <2>1. PICK u : u = D!Detached(t, p, n)
    OBVIOUS
  <2>2. x = CASE D!Refused(t, p, n) -> t
              [] ~D!Refused(t, p, n) /\ ~D!_lookupNode(u, p, old) -> u
              [] OTHER -> D!Replaced(u, p, n, old)
    BY <1>2, <2>1 DEF D!PutInPlace
  <2>3. /\ TreeRight(u)
        /\ u.parentNode = [t.parentNode EXCEPT ![n] = NULL]
        /\ Kinder(u, p) = Kinder(t, p) \ {n}
        /\ (t.documentElement = NULL => u.documentElement = NULL)
        /\ (t.map[p] # NULL => u.map[p] # NULL)
    <3>1. Leaves(u, t, p, n)
      BY <2>1, DetachedRight
    <3> QED
      BY <3>1 DEF Leaves
  <2>4. CASE D!Refused(t, p, n)
    BY <2>2, <2>4
  <2>5. CASE ~D!Refused(t, p, n) /\ ~D!_lookupNode(u, p, old)
    BY <2>2, <2>3, <2>5
  <2>6. CASE ~D!Refused(t, p, n) /\ D!_lookupNode(u, p, old)
    <3>1. x = D!Replaced(u, p, n, old)
      BY <2>2, <2>6
    <3>2. ~D!INVALID_HIER_REQ(t, p, n) /\ ~D!_isAncestor(t, n, p)
      BY <2>6 DEF D!Refused
    <3>3. p = Doc /\ n \in Elements => u.documentElement = NULL
      BY <2>3, <3>2 DEF D!INVALID_HIER_REQ, D!MODIFYING_DOC_ELEM
    <3>4. u.parentNode[n] = NULL
      <4>1. t.parentNode \in Ptrs
        BY FieldsAre DEF TreeRight
      <4> QED
        BY <2>3, <4>1 DEF Ptrs
    <3>5. NoCircle([u.parentNode EXCEPT ![n] = p])
      BY <2>3, <3>2, NotBelow
    <3>6. old \in Kinder(u, p)
      BY <2>3, <2>6, KinderAre
    <3>7. u.map[p] # NULL \/ Len(u.childNodes[p]) <= FillFactor
      BY <2>1, <2>3
    <3>8. MayReplace(u, p, n)
      BY <3>3, <3>4, <3>5, <3>7 DEF MayReplace
    <3> QED
      BY <2>3, <3>1, <3>6, <3>8, ReplacedRight
  <2> QED
    BY <2>4, <2>5, <2>6
<1> QED
  BY <1>1, <1>2

-----------------------------------------------------------------------------
(* The calls.                                                               *)
LEMMA PutRight ==
  ASSUME D!DomAssumption, NEW t, TreeRight(t), NEW p \in D!Nodes, NEW n \in D!Nodes,
         t.parentNode[n] \in {p, NULL}, n \in Fragments => n # p, NEW ref
  PROVE  TreeRight(D!Put(t, p, n, ref).tree)
<1>1. CASE n \in Fragments
  <2>1. PICK r : r = D!InsertedFragment(t, p, n, ref)
    OBVIOUS
  <2>2. D!Put(t, p, n, ref) = r
    BY <1>1, <2>1 DEF D!Put
  <2>3. TreeRight(r.tree)
    BY <1>1, <2>1, FragmentRight
  <2> QED
    BY <2>2, <2>3
<1>2. CASE n \notin Fragments
  <2>1. PICK r : r = D!Inserted(t, p, n, ref)
    OBVIOUS
  <2>2. D!Put(t, p, n, ref) = r
    BY <1>2, <2>1 DEF D!Put
  <2>3. Adds(r, t, p, n)
    BY <2>1, InsertedRight
  <2> QED
    BY <2>2, <2>3 DEF Adds
<1> QED
  BY <1>1, <1>2

LEMMA CreatedRight ==
  ASSUME D!DomAssumption, NEW t, TreeRight(t), NEW n \in D!Nodes,
         NEW u, u = [t EXCEPT !.alive = @ \cup {n}]
  PROVE  TreeRight(u)
<1>1. t \in D!Fields /\ ElementRight(t)
  BY DEF TreeRight
<1>2. u \in D!Fields /\ SameTree(u, t) /\ u.documentElement = t.documentElement
  BY <1>1 DEF D!Fields, SameTree
<1>3. ElementRight(u)
  BY <1>1, <1>2 DEF ElementRight, Kinder, SameTree
<1> QED
  BY <1>2, <1>3, SameTreeRight

LEMMA ClearedRight ==
  ASSUME D!DomAssumption, NEW t, TreeRight(t), NEW u, u = D!_clearSubtreeModified(t)
  PROVE  TreeRight(u)
<1>1. t \in D!Fields /\ ElementRight(t)
  BY DEF TreeRight
<1>2. PICK S \in SUBSET D!Nodes : u = [t EXCEPT !.marked = S, !.commonParent = NULL]
  <2> DEFINE Reached(n) == LET way == D!Ancestry(t, n)
                           IN  /\ D!Last(way) = Doc /\ n # Doc
                               /\ D!ToSet(D!Front(way)) \subseteq t.marked
  <2>1. PICK S : S = {n \in t.marked : ~Reached(n)}
    OBVIOUS
  <2>2. u = [t EXCEPT !.marked = S, !.commonParent = NULL]
    BY <2>1, FieldsAre, <1>1 DEF D!_clearSubtreeModified, FieldNames
  <2>3. t.marked \subseteq D!Nodes
    BY <1>1, FieldsAre
  <2>4. S \subseteq t.marked
    BY <2>1
  <2> QED
    BY <2>2, <2>3, <2>4
<1>3. u \in D!Fields /\ SameTree(u, t) /\ u.documentElement = t.documentElement
  BY <1>1, <1>2 DEF D!Fields, SameTree
<1>4. ElementRight(u)
  BY <1>1, <1>3 DEF ElementRight, Kinder, SameTree
<1> QED
  BY <1>3, <1>4, SameTreeRight

LEMMA DomNextInv ==
  ASSUME D!DomAssumption, ~Moves, ~ReplaceUnmapped, TreeRight(dom), D!Next
  PROVE  TreeRight(dom')
<1>1. ASSUME NEW p \in D!Nodes, NEW n \in D!Nodes, D!Usable(p, n)
      PROVE  dom.parentNode[n] \in {p, NULL} /\ (n \in Fragments => n # p)
  BY <1>1 DEF D!Usable
<1>2. ASSUME NEW p \in D!Nodes, NEW n \in D!Nodes, NEW ref, D!DOM_Node_insertBefore(p, n, ref)
      PROVE  TreeRight(dom')
  <2>1. D!Usable(p, n) /\ dom' = D!Put(dom, p, n, ref).tree
    BY <1>2 DEF D!DOM_Node_insertBefore
  <2> QED
    BY <1>1, <2>1, PutRight
<1>3. ASSUME NEW p \in D!Nodes, NEW n \in D!Nodes, D!DOM_Node_appendChild(p, n)
      PROVE  TreeRight(dom')
  <2>1. D!Usable(p, n) /\ dom' = D!Put(dom, p, n, NULL).tree
    BY <1>3 DEF D!DOM_Node_appendChild
  <2> QED
    BY <1>1, <2>1, PutRight
<1>4. ASSUME NEW p \in D!Nodes, NEW n \in D!Nodes, NEW old \in D!Nodes,
             D!DOM_Node_replaceChild(p, n, old)
      PROVE  TreeRight(dom')
  <2>1. /\ D!Usable(p, n) /\ D!_lookupNode(dom, p, old)
        /\ dom.map[p] # NULL \/ Len(D!Detached(dom, p, n).childNodes[p]) <= FillFactor
        /\ dom' = D!PutInPlace(dom, p, n, old)
    BY <1>4 DEF D!DOM_Node_replaceChild
  <2>2. old \in Kinder(dom, p)
    BY <2>1, KinderAre
  <2> QED
    BY <1>1, <2>1, <2>2, PutInPlaceRight
<1>5. ASSUME NEW p \in D!Nodes, NEW old \in D!Nodes, D!DOM_Node_removeChild(p, old)
      PROVE  TreeRight(dom')
  <2>1. D!_lookupNode(dom, p, old) /\ dom' = D!_removeChild(dom, p, old)
    BY <1>5 DEF D!DOM_Node_removeChild
  <2>2. old \in Kinder(dom, p)
    BY <2>1, KinderAre
  <2> QED
    BY <2>1, <2>2, RemovedTree
<1>6. ASSUME NEW n \in D!Nodes, D!Document_createNode(n) PROVE TreeRight(dom')
  BY <1>6, CreatedRight DEF D!Document_createNode
<1>7. ASSUME NEW n \in D!Nodes, D!DOM_Document_destroyNode(n) PROVE TreeRight(dom')
  BY <1>7, DestroyedRight DEF D!DOM_Document_destroyNode
<1>8. ASSUME D!DOM_MutationEvent_processSubtreeModified PROVE TreeRight(dom')
  BY <1>8, ClearedRight DEF D!DOM_MutationEvent_processSubtreeModified
<1> QED
  BY <1>2, <1>3, <1>4, <1>5, <1>6, <1>7, <1>8 DEF D!Next

LEMMA DomInitInv ==
  ASSUME D!DomAssumption, D!Init
  PROVE  TreeRight(dom)
<1>0. NULL \notin D!Nodes /\ Doc \in D!Nodes /\ Doctypes \subseteq D!Nodes
  BY NumberOfNodes DEF D!Nodes
<1>1. PICK none, empty : none = D!None /\ empty = [n \in D!Nodes |-> <<>>]
  OBVIOUS
<1>2. /\ none \in Ptrs /\ none \in [D!Nodes -> (SUBSET D!Nodes) \cup {NULL}]
      /\ empty \in [D!Nodes -> Seq(D!Nodes)]
      /\ \A n \in D!Nodes : none[n] = NULL /\ empty[n] = <<>>
  <2>1. <<>> \in Seq(D!Nodes)
    OBVIOUS
  <2> QED
    BY <1>1, <2>1 DEF D!None, Ptrs
<1>3. PICK own : own = [n \in D!Nodes |-> IF n \in {Doc} \cup Doctypes THEN NULL ELSE Doc]
  OBVIOUS
<1>4. dom = [alive |-> {Doc},
             parentNode |-> none, firstChild |-> none, lastChild |-> none,
             previousSibling |-> none, nextSibling |-> none, ownerDocument |-> own,
             childNodes |-> empty, map |-> none, documentElement |-> NULL, doctype |-> NULL,
             commonParent |-> NULL, marked |-> {}]
  BY <1>1, <1>3 DEF D!Init
<1>5. own \in [D!Nodes -> {Doc, NULL}]
  BY <1>3
<1>6. dom \in D!Fields
  BY <1>0, <1>2, <1>4, <1>5 DEF D!Fields, Ptrs
<1>7. /\ dom.parentNode = none /\ dom.map = none /\ dom.childNodes = empty
      /\ dom.firstChild = none /\ dom.lastChild = none
  BY <1>4
<1>8. \A p \in D!Nodes : Kinder(dom, p) = {}
  BY <1>2, <1>7 DEF Kinder, D!ToSet
<1>9. \A p \in D!Nodes : RowOf(dom, p)
  BY <1>2, <1>7 DEF RowOf, Row, Apart
<1>10. MapsRight(dom) /\ ParentsRight(dom) /\ ElementRight(dom)
  BY <1>0, <1>2, <1>7, <1>8 DEF MapsRight, ParentsRight, ElementRight
<1>11. NoCircle(dom.parentNode)
  BY <1>0, <1>2, <1>7 DEF NoCircle
<1> QED
  BY <1>6, <1>9, <1>10, <1>11 DEF TreeRight

LEMMA DomSafe ==
  ASSUME D!DomAssumption, TreeRight(dom)
  PROVE  /\ D!TypeOK /\ D!LinksRight /\ D!MapRight /\ D!Acyclic
         /\ D!OneDocumentElement
<1>1. dom \in D!Fields /\ MapsRight(dom) /\ ElementRight(dom) /\ NoCircle(dom.parentNode)
  BY DEF TreeRight
<1>2. D!TypeOK
  BY <1>1 DEF D!TypeOK
<1>3. D!LinksRight
  <2>1. ASSUME NEW p \in D!Nodes
        PROVE  /\ D!Kids(dom, p) = dom.childNodes[p]
               /\ D!Follow(dom.previousSibling, dom.lastChild[p]) = D!Reverse(dom.childNodes[p])
               /\ \A n \in D!Nodes : dom.parentNode[n] = p <=> n \in D!ToSet(dom.childNodes[p])
    <3>1. \A n \in D!Nodes : n \in Kinder(dom, p) <=> dom.parentNode[n] = p
      BY KinderAre
    <3>2. D!Kids(dom, p) = dom.childNodes[p]
      BY KidsAre
    <3>3. D!Follow(dom.previousSibling, dom.lastChild[p]) = D!Reverse(dom.childNodes[p])
      BY BackwardsAre
    <3> QED
      BY <3>1, <3>2, <3>3 DEF Kinder
  <2> QED
    BY <2>1 DEF D!LinksRight
<1>4. D!MapRight
  BY <1>1 DEF D!MapRight, MapsRight, Kinder
<1>5. D!Acyclic
  <2>1. dom.alive \subseteq D!Nodes
    BY <1>1, FieldsAre
  <2> QED
    BY <1>1, <2>1 DEF D!Acyclic, NoCircle
<1>6. D!OneDocumentElement
  BY <1>1 DEF D!OneDocumentElement, ElementRight, Kinder
<1> QED
  BY <1>2, <1>3, <1>4, <1>5, <1>6

LEMMA DomStep ==
  ASSUME [Next]_vars
  PROVE  [D!Next]_dom
BY DEF Next, Dom, Events, Attributes, vars, domVars

-----------------------------------------------------------------------------
(* As long as the client inserts no child of another node, and replaces no  *)
(* child in a list that is due for a map and has none, the links of nodes   *)
(* agree with the lists in both directions, a map has the nodes of its      *)
(* list, and no node is below itself.                                       *)
THEOREM TreeIsKept == ~Moves /\ ~ReplaceUnmapped /\ Spec => []LinksRight
<1> DEFINE IInv == ~Moves /\ ~ReplaceUnmapped /\ TreeRight(dom)
<1>1. ~Moves /\ ~ReplaceUnmapped /\ Init => IInv
  BY DomInitInv, DomcAssumption DEF Init, Start, DomcAssumption
<1>2. IInv /\ [Next]_vars => IInv'
  BY DomStep, DomNextInv, DomcAssumption DEF DomcAssumption
<1>3. IInv => LinksRight
  BY DomSafe, DomcAssumption DEF DomcAssumption, LinksRight
<1> QED
  BY <1>1, <1>2, <1>3, PTL DEF Spec

(* Under the same conditions the document has at most one element, which is *)
(* documentElement.                                                         *)
THEOREM DocumentHasOneElement == ~Moves /\ ~ReplaceUnmapped /\ Spec => []OneDocumentElement
<1> DEFINE IInv == ~Moves /\ ~ReplaceUnmapped /\ TreeRight(dom)
<1>1. ~Moves /\ ~ReplaceUnmapped /\ Init => IInv
  BY DomInitInv, DomcAssumption DEF Init, Start, DomcAssumption
<1>2. IInv /\ [Next]_vars => IInv'
  BY DomStep, DomNextInv, DomcAssumption DEF DomcAssumption
<1>3. IInv => OneDocumentElement
  BY DomSafe, DomcAssumption DEF DomcAssumption, OneDocumentElement
<1> QED
  BY <1>1, <1>2, <1>3, PTL DEF Spec
=============================================================================
