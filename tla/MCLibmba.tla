------------------------------ MODULE MCLibmba ------------------------------
(* Small instances of the modules of libmba and of the sound server, and    *)
(* the functions without state as one more part.                            *)
EXTENDS Libmba, TLC

CONSTANTS m1, m2, m3, m4, p1, p2, p3

VARIABLES asked, answers

pureVars == <<asked, answers>>

-----------------------------------------------------------------------------
(* Four tables for three places: one to be numbered, one with a number, one *)
(* with both, and one that is refused.                                      *)
FourTables == (m1 :> <<0, 0>>) @@ (m2 :> <<2, 0>>) @@ (m3 :> <<2, 0, 5>>) @@ (m4 :> <<3, 3>>)

(* A prompt of two bytes and an answer of one; the ring has three.          *)
PromptAndAnswer == <<<<"p", "s">>, <<"n">>>>

(* Three starts, with two files, one for both purposes, or one alone.       *)
FilePairs == {<<"lock", "pid">>, <<"lock", "lock">>, <<NULL, "pid">>, <<"lock", NULL>>}

(* Two channels for three rules; some packets fit two rules, or none.       *)
Rule(proto, src, dst_port, length) ==
  [proto |-> proto, srcport |-> src, dstport |-> dst_port, len |-> length]
Packet(proto, src, dst_port) == [proto |-> proto, srcport |-> src, dstport |-> dst_port]

ThreeRules  == {<<Rule(2, 0, 80, 2), Rule(2, 22, 0, 3), Rule(3, 0, 0, 1)>>}
FourPackets == {Packet(2, 22, 80), Packet(2, 22, 9), Packet(3, 0, 0), Packet(1, 0, 0)}

(* The inputs of the functions without state: all that are short, over the  *)
(* characters that a function tells apart.                                  *)
Q      == INSTANCE SequencesExt
Csv    == INSTANCE Csv
Eval   == INSTANCE Eval
Encdec == INSTANCE Encdec WITH Byte <- 4, Epoch1904 <- 100, Epoch1601 <- 7, Millis <- 3, Nanos <- 5

Upto(chars, n) == Q!SeqOf(chars, n)

(* Rows of one or two elements, as a program may write them that is to be   *)
(* read with the flags: spaces around the elements are for CSV_TRIM, and so *)
(* is "\r\n" before the reader of wide characters.  CSV_TRIM takes a space   *)
(* off the last element where the input ends, quoted or not.                *)
Elements  == Upto({"a", ",", "\"", "\n", " ", "\r"}, 2)
OneOrTwo  == {<<e>> : e \in Elements} \cup {<<e, <<"a">>>> : e \in Elements}
               \cup {<<<<"a">>, e>> : e \in Elements}
CrLf      == <<"\r", "\n">>
Written   == [row : OneOrTwo, always : BOOLEAN, pad : {<<>>, <<" ">>},
              end : {<<>>, <<"\n">>, CrLf},
              flags : {Csv!Flags(trim, TRUE, wide, 3, 0) : trim, wide \in BOOLEAN}]
Spaced(e) == e # <<>> /\ Csv!isspace(Q!Last(e))
Rows == {r \in Written : /\ r.pad # <<>> => r.flags.trim /\ r.end # <<>>
                         /\ r.end = CrLf => r.flags.trim \/ ~r.flags.wide
                         /\ r.end = <<>> /\ r.flags.trim => ~Spaced(Q!Last(r.row))}

Texts == Upto({"a", "b", "=", " ", "\n", "#"}, 5) \cup Upto({"a", "=", " ", "\n"}, 6)
Names == {<<"a">>, <<"b">>, <<"a", "b">>}

Exprs == UNION {Eval!Expr({"1", "2"}, {"|", "-", "+", "*"}, n) : n \in 0 .. 3} \cup
         UNION {Eval!Expr({"1", Eval!UNKNOWN}, {"|", "*"}, n) : n \in 0 .. 2}

Pairs == [a : Upto({1, 2}, 5), b : Upto({1, 2}, 5), dmax : {2, 3, 100}]

Paths == [src : Upto({"a", ".", "/"}, 6), room : 0 .. 8]

Copies == [src : Upto({0, 1}, 4), room : 0 .. 5, n : -1 .. 5]

Points == {1, 65, 127, 128, 129, 2047, 2048, 4660, 65535, 65536, 131072, 1114111}
Wides == {[wc |-> p, n |-> k, rest |-> r] :
            p \in Points, k \in 1 .. 4, r \in {<<>>, <<65>>, <<128>>}}
Fitting == {w \in Wides : w.wc < <<128, 2048, 65536, 2097152>>[w.n]}

Ints == 0 .. 300 \cup 65200 .. 65535

Chars == {Encdec!Char(1, 1, 1), Encdec!Char(0, 2, 1), Encdec!Char(2, 1, 3), Encdec!NULC,
          Encdec!Bad, Encdec!Shift(1), Encdec!Tag(2)}
Strings == [src : Upto(Chars, 3), sn : {3}, dn : 0 .. 4, wn : 0 .. 3]

A == INSTANCE Algorithms
       WITH call <- asked, ret <- answers, Wides <- Fitting, Bufsiz <- 6,
            Byte <- 4, Epoch1904 <- 100, Epoch1601 <- 7, Millis <- 3, Nanos <- 5

ASSUME A!Cfg!CfgAssumption /\ A!Encdec!EncdecAssumption

-----------------------------------------------------------------------------
MCInit ==
  /\ \/ LibInit /\ asked = <<>> /\ answers = <<>>
     \/ part = "algorithms" /\ Start /\ A!Init
  /\ part # "daemon" => paths = <<NULL, "pid">>

Library == LibNext /\ UNCHANGED pureVars

Algorithms == part = "algorithms" /\ A!Next /\ UNCHANGED libVars

MCSpec == MCInit /\ [][Library \/ Algorithms]_<<libVars, pureVars>>

-----------------------------------------------------------------------------
(* What a later step or a property can read: of suba not the headers of     *)
(* cells that were joined to another, nor cell.next under a block's data;   *)
(* of a pool's unused, which grows with every pool_clean, only that it is   *)
(* too large.                                                               *)
View ==
  CASE part = "suba"   -> <<part, tail, [c \in Cells |-> size[c]], [c \in free |-> next[c]],
                            inUse, used, alloc, frees, fault>>
    [] part = "pool"   -> <<part, stk, bits, held, given.failed, P!UnusedRight>>
    [] part = "varray" -> <<part, varrayVars>>
    [] part = "msgno"  -> <<part, msgnoVars>>
    [] part = "shellout" -> <<part, shoVars>>
    [] part = "daemon" -> <<part, daemonVars>>
    [] part = "sound"  -> <<part, soundVars>>
    [] OTHER           -> <<part, pureVars>>

-----------------------------------------------------------------------------
(* Rows and settings are read as they were written.                         *)
FilesRight == part = "algorithms" => A!FilesRight

(* An expression has the value of its grammar.                              *)
EvalRight == part = "algorithms" => A!EvalRight

(* diff answers the edit distance and a shortest script.                    *)
DiffRight == part = "algorithms" => A!DiffRight

(* Paths, copies, characters, integers and times are converted as they      *)
(* should be, within the limits given.                                      *)
ConversionsRight == part = "algorithms" => A!ConversionsRight
=============================================================================
