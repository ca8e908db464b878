-------------------------------- MODULE Msgno -------------------------------
(***************************************************************************)
(* Message numbers (libmba's src/msgno.c): a library registers the table   *)
(* of its messages, msgno_add_codes gives the numbers that the table       *)
(* leaves open, with the place of the table in their high bits, and        *)
(* msgno_msg finds the message of a number again.                          *)
(*                                                                         *)
(* A number is <<high bits, low bits>>.  One call is one step.             *)
(*                                                                         *)
(* A definition X_slip is a mistake that X could contain; no behaviour of  *)
(* the model uses it.                                                      *)
(***************************************************************************)
EXTENDS Integers, Sequences, FiniteSetsExt

CONSTANTS Lists,   \* the tables of the libraries
          Given,   \* for each, the low bits it comes with; 0 for a number to be given
          Tables,  \* MSGNO_NUM_LISTS: 16
          NULL

MsgnoAssumption == /\ Given \in [Lists -> Seq(Nat)] /\ \A l \in Lists : Given[l] # <<>>
                   /\ Tables \in Nat /\ Tables > 1 /\ NULL \notin Lists

VARIABLES
  list_tbl,  \* the list and num_msgs of the places after that of the builtin codes
  next,      \* next_tbl_idx
  msgno,     \* for each list, its numbers
  ret        \* what the last call returned, and for which list

vars == <<list_tbl, next, msgno, ret>>

Init == /\ list_tbl = [t \in 1 .. Tables - 1 |-> [list |-> NULL, num_msgs |-> 0]]
        /\ next = 1
        /\ msgno = [l \in Lists |-> [i \in DOMAIN Given[l] |-> <<0, Given[l][i]>>]]
        /\ ret = <<NULL, 0>>

-----------------------------------------------------------------------------
(* What the loop over the entries of a list does with entry i: its number   *)
(* and the next one, when they may be given.                                *)
Hi == next + 1

Numbered_slip(n, next_msgno) == IF n[2] = 0 THEN [msgno |-> <<Hi, next_msgno>>, next |-> next_msgno + 1]
                                ELSE [msgno |-> <<Hi, n[2]>>, next |-> n[2]]

Numbered(n, next_msgno) == IF n[2] = 0 THEN [msgno |-> <<Hi, next_msgno>>, next |-> next_msgno + 1]
                           ELSE [msgno |-> <<Hi, n[2]>>, next |-> n[2] + 1]

Refused(n, next_msgno) == n[1] # 0 \/ (n[2] # 0 /\ n[2] < next_msgno)

(* After i entries: the numbers, the next number, and at which entry the    *)
(* list was refused, or 0.                                                  *)
Loop(list) ==
  LET after[i \in 0 .. Len(msgno[list])] ==
        IF i = 0 THEN [msgnos |-> msgno[list], next |-> 0, refused |-> 0]
        ELSE LET s == after[i - 1]
                 n == s.msgnos[i]
             IN  IF s.refused # 0 THEN s
                 ELSE IF Refused(n, s.next) THEN [s EXCEPT !.refused = i]
                 ELSE [s EXCEPT !.msgnos[i] = Numbered(n, s.next).msgno,
                                !.next = Numbered(n, s.next).next]
  IN  after[Len(msgno[list])]

(* A list that is refused leaves its first numbers given, and num_msgs      *)
(* counted up.                                                              *)
msgno_add_codes(list) ==
  \/ /\ next = Tables
     /\ ret' = <<list, -1>> /\ UNCHANGED <<list_tbl, next, msgno>>
  \/ /\ next < Tables
     /\ \E t \in 1 .. next - 1 : list_tbl[t].list = list
     /\ ret' = <<list, 0>> /\ UNCHANGED <<list_tbl, next, msgno>>
  \/ /\ next < Tables
     /\ \A t \in 1 .. next - 1 : list_tbl[t].list # list
     /\ LET s == Loop(list) IN
        /\ msgno' = [msgno EXCEPT ![list] = s.msgnos]
        /\ IF s.refused = 0
           THEN /\ list_tbl' = [list_tbl EXCEPT ![next].list = list,
                                                ![next].num_msgs = @ + Len(s.msgnos)]
                /\ next' = next + 1 /\ ret' = <<list, 0>>
           ELSE /\ list_tbl' = [list_tbl EXCEPT ![next].num_msgs = @ + s.refused - 1]
                /\ ret' = <<list, -1>> /\ UNCHANGED next

(* Where the number is in the list at the place that its high bits say.     *)
Found(n) == LET list == list_tbl[n[1] - 1].list
            IN  IF list = NULL THEN {} ELSE {i \in DOMAIN msgno[list] : msgno[list][i] = n}

(* The message of a number: <<list, i>>, or <<why there is none>>.          *)
(* num_msgs may be larger than the list.                                    *)
msgno_msg(n) ==
  IF n[1] = 0 THEN <<"strerror">>
  ELSE IF n[1] >= Tables THEN <<"No such msgno list">>
  ELSE IF n[1] = 1 THEN <<"builtin">>
  ELSE LET te == list_tbl[n[1] - 1]
       IN  IF Found(n) # {} THEN <<te.list, Min(Found(n))>>
           ELSE IF te.num_msgs > (IF te.list = NULL THEN 0 ELSE Len(msgno[te.list]))
           THEN <<"beyond the list">> ELSE <<"No such message in msgno list">>

(* A refused list may be tried again as often as its num_msgs is counted;   *)
(* it is refused at its first entry from then on, unless that was the one.  *)
Next == \E list \in Lists : msgno_add_codes(list)

Spec == Init /\ [][Next]_vars
-----------------------------------------------------------------------------
Added == {list_tbl[t].list : t \in 1 .. next - 1}

(* Every number of every list that was added gives its own message, with    *)
(* numbers that the list came with and others, and whatever was refused     *)
(* before or is refused after; but not for the list at the last place,      *)
(* whose high bits msgno_msg takes to be too large (msgno.c:113).           *)
NumbersSay == \A t \in 1 .. next - 1 : t + 1 < Tables =>
                LET l == list_tbl[t].list
                IN  \A i \in DOMAIN msgno[l] : msgno_msg(msgno[l][i]) = <<l, i>>

(* "The msgno_msg function returns the message associated with the msgno    *)
(* parameters that have previously been registered": it does not for the    *)
(* last place.                                                              *)
AllNumbersSay == \A l \in Added : \A i \in DOMAIN msgno[l] : msgno_msg(msgno[l][i]) = <<l, i>>
=============================================================================
