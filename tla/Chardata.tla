------------------------------ MODULE Chardata ------------------------------
(***************************************************************************)
(* Text in an element (domc's src/dom.c): the calls that edit the data of  *)
(* a text node, splitText, which makes two siblings of one, and normalize, *)
(* which joins siblings again.  The data are multibyte strings, and every  *)
(* node keeps their length in a field beside them.                         *)
(*                                                                         *)
(* The links between the nodes are in Dom, the mutation events that every  *)
(* change dispatches are in Events.                                        *)
(*                                                                         *)
(* A definition X_slip is a mistake that X could contain; no behaviour of  *)
(* the model uses it.                                                      *)
(***************************************************************************)
EXTENDS Mbs, SequencesExt, FiniteSetsExt

CONSTANTS Texts,   \* addresses of text nodes
          Others,  \* other nodes, which are children already
          Strings, \* what the program passes
          Counts,  \* the offsets and counts that it passes
          Memory,  \* whether malloc may give memory, and whether it may not
          MaxData  \* model bound: characters, or columns, in all nodes

ChardataAssumption == /\ Texts \cap Others = {}
                      /\ Strings \subseteq Seq(DOMAIN Width)
                      /\ Counts \subseteq Int
                      /\ Memory \subseteq BOOLEAN /\ TRUE \in Memory

VARIABLES
  kids,      \* the children of the element, in order
  data,      \* data->nodeValue
  len,       \* data->u.CharacterData.length
  exception, \* DOM_Exception # 0
  did        \* auxiliary: the last call that succeeded

vars == <<kids, data, len, exception, did>>

Init == /\ kids = SetToSeq(Others)
        /\ data = [t \in Texts |-> <<>>] /\ len = [t \in Texts |-> 0]
        /\ exception = FALSE /\ did = "nothing"

Used == Texts \cap Range(kids)
Free == Texts \ Range(kids)

(* The characters, or the columns that are counted, in the nodes S.         *)
Room(d, n) == Max({Len(d), n})
Size(S)    == MapThenSumSet(LAMBDA t : Room(data[t], len[t]), S)

Fail == exception' = TRUE /\ did' = "failed" /\ UNCHANGED <<kids, data, len>>

(* malloc fails in this call.                                               *)
NoMemory == FALSE \in Memory /\ Fail

(* The call ends with the data d and the length n in t.                     *)
Holds(call, t, d, n) == /\ data' = [data EXCEPT ![t] = d]
                        /\ len' = [len EXCEPT ![t] = n]
                        /\ did' = call /\ UNCHANGED <<kids, exception>>

-----------------------------------------------------------------------------
(* What the calls do to a string; past the end of it they are undefined.    *)
(* The length counts columns and the offsets characters, so that with wide  *)
(* characters an offset that is not too large may be past the end.          *)
Before(d, p) == SubSeq(d, 1, p - 1)
From(d, p)   == SubSeq(d, p, Len(d))

Inserted(d, off, s) == LET p == mbsoff(d, off) IN Before(d, p) \o s \o From(d, p)

(* Where count characters after the place p end.                            *)
Ending(d, p, count) == p - 1 + mbsoff(From(d, p), count)

Deleted_slip(d, off, count) == LET p == mbsoff(d, off)
                               IN  Before(d, p) \o From(d, p + count)

Deleted(d, off, count) == LET p == mbsoff(d, off)
                          IN  Before(d, p) \o From(d, Ending(d, p, count))

(* The characters from off on, count of them, are all there.                *)
Inside(d, off, count) == LET p == mbsoff(d, off)
                         IN  p <= Len(d) + 1 /\ Ending(d, p, count) <= Len(d) + 1

BadOffset(t, off) == off < 0 \/ off > len[t]

(* deleteData and substringData take no more than there is; deleteData also *)
(* takes all of it for a negative count.                                    *)
Clipped(t, off, count) == IF count < 0 \/ off + count > len[t] THEN len[t] - off ELSE count

createTextNode(t, i, s) ==    \* and insertBefore the child i
  /\ t \in Free
  /\ Size(Used) + Room(s, mbslen(s)) <= MaxData
  /\ kids' = InsertAt(kids, i, t)
  /\ data' = [data EXCEPT ![t] = s] /\ len' = [len EXCEPT ![t] = mbslen(s)]
  /\ did' = "create" /\ UNCHANGED exception

(* insertData; appendData is the same at the end of the data.               *)
insertData(t, off, s) ==
  /\ t \in Used
  /\ Size(Used) + Room(s, mbslen(s)) <= MaxData
  /\ \/ BadOffset(t, off) /\ Fail
     \/ /\ ~BadOffset(t, off)
        /\ mbsoff(data[t], off) <= Len(data[t]) + 1
        /\ Holds("edit", t, Inserted(data[t], off, s), len[t] + mbslen(s))
     \/ NoMemory

appendData(t, s) ==
  /\ t \in Used
  /\ Size(Used) + Room(s, mbslen(s)) <= MaxData
  /\ \/ Holds("edit", t, data[t] \o s, len[t] + mbslen(s))
     \/ NoMemory

deleteData(t, off, count) ==
  /\ t \in Used
  /\ \/ BadOffset(t, off) /\ Fail
     \/ /\ ~BadOffset(t, off)
        /\ LET n == Clipped(t, off, count)
           IN  /\ Inside(data[t], off, n)
               /\ Holds("edit", t, Deleted(data[t], off, n), len[t] - n)
     \/ NoMemory

(* replaceData deletes, then inserts, and does not look between at whether  *)
(* it could: either may be all that it does.                                *)
replaceData(t, off, count, s) ==
  /\ t \in Used
  /\ Size(Used) + Room(s, mbslen(s)) <= MaxData
  /\ \/ BadOffset(t, off) /\ Fail
     \/ /\ ~BadOffset(t, off)
        /\ Inside(data[t], off, Clipped(t, off, count))
        /\ \E deletes, inserts \in Memory :
             LET n    == IF deletes THEN Clipped(t, off, count) ELSE 0
                 d    == Deleted(data[t], off, n)
                 more == IF inserts THEN s ELSE <<>>
             IN  /\ mbsoff(d, off) <= Len(d) + 1
                 /\ data' = [data EXCEPT ![t] = Inserted(d, off, more)]
                 /\ len' = [len EXCEPT ![t] = @ - n + mbslen(more)]
                 /\ exception' = (exception \/ ~deletes \/ ~inserts)
                 /\ did' = IF deletes /\ inserts THEN "edit" ELSE "failed"
                 /\ UNCHANGED kids

(* The new node takes the data from the offset on and follows the old one.  *)
(* When deleteData fails the old one has them too.                          *)
Split_slip(t, off, new) == InsertAt(kids, SelectInSeq(kids, LAMBDA k : k = t), new)

Split(t, off, new) == InsertAt(kids, SelectInSeq(kids, LAMBDA k : k = t) + 1, new)

splitText(t, off, new) ==
  /\ t \in Used /\ new \in Free
  /\ \/ BadOffset(t, off) /\ Fail
     \/ /\ ~BadOffset(t, off)
        /\ \E deletes \in Memory :
             LET p    == mbsoff(data[t], off)
                 rest == From(data[t], p)
                 n    == IF deletes THEN len[t] - off ELSE 0
             IN  /\ Inside(data[t], off, len[t] - off)
                 /\ Size(Used) + Room(rest, mbslen(rest)) <= MaxData \/ deletes
                 /\ data' = [data EXCEPT ![new] = rest, ![t] = Deleted(@, off, n)]
                 /\ len' = [len EXCEPT ![new] = mbslen(rest), ![t] = @ - n]
                 /\ kids' = Split(t, off, new)
                 /\ exception' = (exception \/ ~deletes)
                 /\ did' = IF deletes THEN "split" ELSE "failed"
     \/ NoMemory

-----------------------------------------------------------------------------
(* normalize goes through the children.  A text node that follows another   *)
(* has the data of that one inserted before its own, and that one is        *)
(* destroyed, whether or not there was memory for the insertion.  It looks  *)
(* at DOM_Exception after every child.                                      *)
Walk(k, d, n, bad) == [kids |-> k, data |-> d, len |-> n, bad |-> bad]

Joined(w, last, t, ok) ==
  [w EXCEPT !.kids = Append(Front(@), t),
            !.data = IF ok THEN [@ EXCEPT ![t] = w.data[last] \o @] ELSE @,
            !.len  = IF ok THEN [@ EXCEPT ![t] = @ + mbslen(w.data[last])] ELSE @,
            !.bad  = ~ok]

Joins(w, k) == w.kids # <<>> /\ Last(w.kids) \in Texts /\ k \in Texts

(* Once an error is seen the children that are left stay as they are.       *)
PastChild(w, k, ok) ==
  IF w.bad THEN [w EXCEPT !.kids = Append(@, k)]
  ELSE IF Joins(w, k) THEN Joined(w, Last(w.kids), k, ok)
  ELSE [w EXCEPT !.kids = Append(@, k)]

(* There is memory until the child number failing.                          *)
Walked(failing) ==
  FoldLeftDomain(LAMBDA w, i : PastChild(w, kids[i], i # failing),
                 Walk(<<>>, data, len, exception), kids)

normalize ==
  \E failing \in {0} \cup (IF FALSE \in Memory THEN DOMAIN kids ELSE {}) :
    LET w == Walked(failing) IN
    /\ kids' = w.kids /\ data' = w.data /\ len' = w.len
    /\ exception' = w.bad
    /\ did' = IF w.bad THEN "failed" ELSE "normalize"

(* The program resets the exception, as the tests do.                       *)
Handled == exception /\ exception' = FALSE /\ did' = "nothing"
           /\ UNCHANGED <<kids, data, len>>

Next == \/ \E t \in Texts, s \in Strings, i \in 1 .. Len(kids) + 1 : createTextNode(t, i, s)
        \/ \E t \in Texts, s \in Strings : appendData(t, s)
        \/ \E t \in Texts, s \in Strings, off \in Counts : insertData(t, off, s)
        \/ \E t \in Texts, off, n \in Counts : deleteData(t, off, n)
        \/ \E t \in Texts, s \in Strings, off, n \in Counts : replaceData(t, off, n, s)
        \/ \E t, new \in Texts, off \in Counts : splitText(t, off, new)
        \/ normalize
        \/ Handled

Spec == Init /\ [][Next]_vars
-----------------------------------------------------------------------------
(* The text between two other nodes is that of the text nodes in turn.      *)
Content == FlattenSeq([i \in DOMAIN kids |-> IF kids[i] \in Texts THEN data[kids[i]]
                                             ELSE <<kids[i]>>])

(* The field beside the data says how many columns they take, and a node    *)
(* without wide characters takes as many as it has characters that do not   *)
(* combine: every offset that the calls admit is then a place in the data.  *)
Right(t)  == len[t] = mbslen(data[t])
Narrow(t) == \A c \in Range(data[t]) : Columns(c) < 2
Places(t) == \A off \in 0 .. len[t] : mbsoff(data[t], off) <= Len(data[t]) + 1

LengthRight == \A t \in Used : /\ len[t] >= mbslen(data[t])
                               /\ Right(t) /\ Narrow(t) => Places(t)

(* Every edit, split and join of a node without wide characters, whatever   *)
(* is inserted, keeps the field right, also when memory fails half way; and *)
(* that of a new node is right.                                             *)
LengthKept ==
  [][\A t \in Used' : (t \in Used => Right(t) /\ Narrow(t)) => Right(t)']_vars

(* DOM_CharacterData.html:68 says that the length is in characters, so that *)
(* every offset that the calls admit is a place in the data.  Not with wide *)
(* characters; in no run.                                                   *)
OffsetsArePlaces == \A t \in Used : Places(t)

(* Splitting a node and joining nodes moves characters between nodes and    *)
(* neither loses nor reorders one; a normalize that succeeds leaves no two  *)
(* text nodes side by side.                                                 *)
ContentKept ==
  [][/\ did' \in {"split", "normalize"} => Content' = Content
     /\ did' = "normalize" =>
          \A i \in 1 .. Len(kids') - 1 : {kids'[i], kids'[i + 1]} \cap Others # {}]_vars
=============================================================================
