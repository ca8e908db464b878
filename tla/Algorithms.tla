----------------------------- MODULE Algorithms -----------------------------
(***************************************************************************)
(* The functions of libmba and encdec that keep nothing between two calls  *)
(* (src/csv.c, cfg.c, eval.c, diff.c, path.c, text.c and encdec's src), as *)
(* a machine that is given one call and answers it.                        *)
(*                                                                         *)
(* What the functions do, and what their answers are compared with, is in  *)
(* the modules that are instantiated here.                                 *)
(***************************************************************************)
EXTENDS Integers, Sequences

CONSTANTS
  Rows,     \* csv: [row, always, pad, end, flags], a row and how it is written
  Texts,    \* cfg: the texts,
  Names,    \*      and the names that are looked up in each
  Exprs,    \* eval: expressions with their values
  Pairs,    \* diff: [a, b, dmax]
  Paths,    \* path: [src, room]
  Copies,   \* text: [src, room, n],
  Wides,    \*       and [wc, n, rest], a character in n bytes with others behind
  Ints,     \* encdec: integers that are encoded, and taken for times,
  Strings,  \*         and [src, sn, dn, wn], a string to be converted in limits
  Bufsiz, Byte, Epoch1904, Epoch1601, Millis, Nanos

VARIABLES call,  \* the function and its arguments
          ret    \* <<>>, or what it answered

vars == <<call, ret>>

Csv    == INSTANCE Csv
Cfg    == INSTANCE Cfg
Eval   == INSTANCE Eval
Diff   == INSTANCE Diff
Path   == INSTANCE Path
Text   == INSTANCE Text
Encdec == INSTANCE Encdec

Asked == \/ \E x \in Rows    : call = <<"csv", x>>
         \/ \E x \in Texts   : call = <<"cfg", x>>
         \/ \E x \in Exprs   : call = <<"eval", x>>
         \/ \E x \in Pairs   : call = <<"diff", x>>
         \/ \E x \in Paths   : call = <<"path", x>>
         \/ \E x \in Copies  : call = <<"copy", x>>
         \/ \E x \in Wides   : call = <<"utf8", x>>
         \/ \E x \in Ints    : call = <<"ints", x>>
         \/ \E x \in Strings : call = <<"mbs", x>>

Init == Asked /\ ret = <<>>

Answers(function, answer) == /\ call[1] = function /\ ret = <<>>
                             /\ ret' = <<answer>> /\ UNCHANGED call

x == call[2]

Source == Csv!Written(x.row, x.always, x.pad, x.end)

(* In buffers of every size up to that of the input and a terminator.       *)
csv_parse == Answers("csv", [bn \in 0 .. Len(Source) + 1 |->
                               Csv!csv_row_parse(Source, [x.flags EXCEPT !.bn = bn])])

cfg_parse == Answers("cfg", [file |-> Cfg!cfg_load(<<>>, x), str |-> Cfg!cfg_load_str(<<>>, x)])

eval_expression == Answers("eval", Eval!eval_expression(Eval!eval_new, x.toks))

diff == Answers("diff", Diff!diff(x.a, x.b, x.dmax))

path_canon == Answers("path", Path!path_canon(Append(x.src, Path!NUL), x.room))

str_copy == Answers("copy", Text!str_copy(x.src, x.room, x.n))

utf8towc == Answers("utf8", Text!utf8towc(Text!Encoded(x.wc, x.n) \o x.rest, TRUE))

encode == Answers("ints", [be |-> Encdec!enc_uint64be(x), le |-> Encdec!enc_uint64le(x)])

dec_mbsncpy == Answers("mbs", Encdec!dec_mbsncpy(x.src, x.sn, x.dn, x.wn))

Next == \/ csv_parse \/ cfg_parse \/ eval_expression \/ diff \/ path_canon
        \/ str_copy \/ utf8towc \/ encode \/ dec_mbsncpy

Spec == Init /\ [][Next]_vars
-----------------------------------------------------------------------------
Answered(function) == call[1] = function /\ ret # <<>>

(* What programs keep in files is read as it was written: every row of      *)
(* comma-separated values, with separators, quotes, newlines and spaces in  *)
(* its elements, in a buffer that has room for it; and every setting of a   *)
(* configuration, among comments, blank lines and settings of the same      *)
(* name, from a file, from a string and from the file that the              *)
(* configuration is stored in.  What has no room is refused.                *)
FilesRight ==
  /\ Answered("csv") =>
       /\ Csv!ReadsWhatIsWritten(x.row, Source, ret[1][Len(Source) + 1])
       /\ \A bn \in DOMAIN ret[1] : Csv!ReadsOrRefuses(x.row, Source, ret[1][bn])
  /\ Answered("cfg") => Cfg!LooksUp(x, Names, ret[1].file, ret[1].str)

(* Every expression, with any nesting and mixture of operators, has the     *)
(* value of its grammar, and the evaluator's stacks are empty after it; one *)
(* with a name that is not known has none.                                  *)
EvalRight == Answered("eval") => Eval!EvalRight(Eval!eval_new, x, ret[1])

(* diff answers the edit distance and a script of that length that makes    *)
(* the one sequence of the other, or the limit on the distance.             *)
DiffRight == Answered("diff") => Diff!DiffRight(x.a, x.b, x.dmax, ret[1])

(* What is converted keeps its meaning and its limits: a path is resolved   *)
(* component by component, a copy is a string that fits, a character is     *)
(* decoded from just the bytes it needs, an integer and a time is decoded   *)
(* as it was encoded, a string stays in its bytes and columns.              *)
ConversionsRight ==
  /\ Answered("path") => Path!CanonRight(x.src, x.room, ret[1])
  /\ Answered("copy") => Text!CopyRight(x.src, x.room, x.n)
  /\ Answered("utf8") => Text!DecodeRight(x.wc, x.n, x.rest)
  /\ Answered("ints") => Encdec!DecodesIntegers(x) /\ Encdec!DecodesTimes(x)
  /\ Answered("mbs")  => Encdec!ConvertsInLimits(x.src, x.sn, x.dn, x.wn)
=============================================================================
