-------------------------------- MODULE List --------------------------------
(***************************************************************************)
(* What a list of bounded length promises, as a sequence and the answer to *)
(* each request.                                                           *)
(***************************************************************************)
EXTENDS Integers, SequencesExt

CONSTANTS Key,       \* what the comparison function orders the data by
          MaxSize,   \* the most elements the list takes
          Calls,     \* the requests, records [op, idx, data]
          NULL

VARIABLES s,         \* the data, in order
          call,      \* the request being served, or NULL
          ret        \* the last answer: an int and a pointer

vars == <<s, call, ret>>

Fail     == <<-1, NULL>>
Done     == <<0, NULL>>
Found(d) == <<0, d>>

Growing == {"add", "insert", "insert_sorted", "insert_replacing"}

Init == s = <<>> /\ call = NULL /\ ret = NULL

Request == /\ call = NULL
           /\ call' \in Calls
           /\ ret' = NULL
           /\ UNCHANGED s

Asked(op) == call # NULL /\ call.op = op

Serve(op, answer) == /\ Asked(op)
                     /\ call' = NULL
                     /\ ret' = answer

(* A list that is full, or has no memory, stays as it is. *)
Refuse == /\ \E op \in Growing : Serve(op, Fail)
          /\ UNCHANGED s

Grow(op, k, answer) == /\ Serve(op, answer)
                       /\ Len(s) < MaxSize
                       /\ k \in 1 .. Len(s) + 1
                       /\ s' = InsertAt(s, k, call.data)

(* The first of the places in K, or the end. *)
Place(K) == IF K = {} THEN Len(s) + 1 ELSE Min(K)

Above == Place({k \in 1 .. Len(s) : Key[s[k]] > Key[call.data]})
Upon  == Place({k \in 1 .. Len(s) : Key[s[k]] >= Key[call.data]})
Same  == Place({k \in 1 .. Len(s) : s[k] = call.data})

Equal == Upon <= Len(s) /\ Key[s[Upon]] = Key[call.data]

Add    == Grow("add", Len(s) + 1, Done)
Insert == Asked("insert") /\ Grow("insert", call.idx + 1, Done)

(* Left open: whether an element goes before those equal to it, as is       *)
(* documented, or after them, and whether the answer is 0, as is documented, *)
(* or the index.                                                            *)
Answers(k, d) == {<<0, d>>, <<k - 1, d>>}

InsertSorted == /\ Asked("insert_sorted")
                /\ \E k \in {Upon, Above} :
                     \E r \in Answers(k, NULL) : Grow("insert_sorted", k, r)

InsertReplacing == /\ Asked("insert_replacing")
                   /\ IF Equal
                      THEN /\ \E r \in Answers(Upon, s[Upon]) : Serve("insert_replacing", r)
                           /\ s' = ReplaceAt(s, Upon, call.data)
                      ELSE \E r \in Answers(Upon, NULL) : Grow("insert_replacing", Upon, r)

Get == /\ Asked("get")
       /\ Serve("get", IF call.idx < Len(s) THEN Found(s[call.idx + 1]) ELSE Done)
       /\ UNCHANGED s

GetLast == /\ Serve("get_last", IF s # <<>> THEN Found(Last(s)) ELSE Done)
           /\ UNCHANGED s

Take(op, k) == IF k \in 1 .. Len(s)
               THEN Serve(op, Found(s[k])) /\ s' = RemoveAt(s, k)
               ELSE Serve(op, Done) /\ UNCHANGED s

RemoveIdx  == Asked("remove") /\ Take("remove", call.idx + 1)
RemoveLast == Take("remove_last", Len(s))
RemoveData == Asked("remove_data") /\ Take("remove_data", Same)

Clear == Serve("clear", Done) /\ s' = <<>>

Next == \/ Request \/ Refuse
        \/ Add \/ Insert \/ InsertSorted \/ InsertReplacing
        \/ Get \/ GetLast
        \/ RemoveIdx \/ RemoveLast \/ RemoveData \/ Clear

Spec == Init /\ [][Next]_vars
=============================================================================
