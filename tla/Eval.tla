-------------------------------- MODULE Eval --------------------------------
(***************************************************************************)
(* The evaluator of expressions (libmba's src/eval.c): tokens go through a *)
(* matrix that says, for a token and the operator on top of a stack, what  *)
(* to do with them.  Values are on a second stack.                         *)
(*                                                                         *)
(* A value is the expression that it is the value of: <<token>> or         *)
(* <<operator, value, value>>.  A token is what next_tok makes of the      *)
(* text; TOK_TYPE_EMPTY stands for its end.  There is memory for the       *)
(* stacks.                                                                 *)
(*                                                                         *)
(* A definition X_slip is a mistake that X could contain; no behaviour of  *)
(* the model uses it.                                                      *)
(***************************************************************************)
EXTENDS Integers, SequencesExt

EMPTY == "e"
Bitwise  == {"|", "&", "^"}
Additive == {"+", "-"}
Multiplicative == {"*", "/"}
Operators == Bitwise \cup Additive \cup Multiplicative
UNKNOWN == "name"    \* a name that symlook does not know
VALUE(tok) == tok \notin Operators \cup {EMPTY, "(", ")"}

(* trans_matrix                                                             *)
Pops(tok, op) ==
  /\ op \in Operators
  /\ \/ tok \in Bitwise \cup {EMPTY, ")"}
     \/ tok \in Additive /\ op \notin Bitwise
     \/ tok \in Multiplicative /\ op \in Multiplicative

Trans(tok, op) ==
  CASE VALUE(tok)                     -> "output"
    [] Pops(tok, op)                  -> "pop"
    [] tok \in Operators \/ tok = "(" -> "push"
    [] tok = EMPTY /\ op = EMPTY      -> "NULL"
    [] tok = ")" /\ op = "("          -> "pren"
    [] OTHER                          -> "error"

(* struct eval: its two stacks.  err: the answer is -1; crashed: pop used a *)
(* value that there is none of.                                             *)
Eval(opstk, stk) == [opstk |-> opstk, stk |-> stk, err |-> FALSE, crashed |-> FALSE]
eval_new == Eval(<<EMPTY>>, <<>>)

Applied_slip(s) == LET n == Len(s.stk) IN <<Last(s.opstk), s.stk[n], s.stk[n - 1]>>

Applied(s) == LET n == Len(s.stk) IN <<Last(s.opstk), s.stk[n - 1], s.stk[n]>>

pop(s) ==
  IF Len(s.stk) < 2 THEN [s EXCEPT !.crashed = TRUE]
  ELSE [s EXCEPT !.opstk = Front(@),
                 !.stk = Append(SubSeq(@, 1, Len(@) - 2), Applied(s))]

(* The inner loop of eval_expression: it pops until something else is done. *)
Popping(s, tok) ==
  FoldLeft(LAMBDA r, i : IF r.crashed \/ ~Pops(tok, Last(r.opstk)) THEN r ELSE pop(r),
           s, [i \in 1 .. Len(s.opstk) |-> i])

Token(s0, tok) ==
  LET s == Popping(s0, tok)
  IN  IF s0.err \/ s0.crashed THEN s0
      ELSE IF tok = UNKNOWN THEN [s0 EXCEPT !.err = TRUE]
      ELSE IF s.crashed THEN s
      ELSE CASE Trans(tok, Last(s.opstk)) = "output" -> [s EXCEPT !.stk = Append(@, <<tok>>)]
             [] Trans(tok, Last(s.opstk)) = "push"   -> [s EXCEPT !.opstk = Append(@, tok)]
             [] Trans(tok, Last(s.opstk)) = "pren"   -> [s EXCEPT !.opstk = Front(@)]
             [] Trans(tok, Last(s.opstk)) = "error"  -> [s EXCEPT !.err = TRUE]
             [] OTHER                                -> s

(* eval_expression with an evaluator in any state; where the stack of       *)
(* values is empty the result is 0.                                         *)
eval_expression(eval, toks) ==
  LET s == FoldLeft(Token, Eval(eval.opstk, eval.stk), Append(toks, EMPTY))
  IN  IF toks = <<>> THEN [eval |-> s, ok |-> TRUE, result |-> <<"0">>]
      ELSE IF s.err \/ s.crashed THEN [eval |-> s, ok |-> FALSE, result |-> <<"0">>]
      ELSE IF s.stk = <<>> THEN [eval |-> s, ok |-> TRUE, result |-> <<"0">>]
      ELSE [eval |-> [s EXCEPT !.stk = Front(@)], ok |-> TRUE, result |-> Last(s.stk)]

-----------------------------------------------------------------------------
(* The expressions with a number of operators and parentheses, each with    *)
(* its value.  An operator takes on its left what binds at least as tightly *)
(* as itself, and on its right what binds more tightly.                     *)
Levels == <<Bitwise, Additive, Multiplicative>>
E(toks, value) == [toks |-> toks, value |-> value]

Expr(atoms, ops, number) ==
  LET expr[n \in 0 .. number, l \in 1 .. 4] ==
        (IF l = 4
         THEN {E(<<a>>, <<a>>) : a \in atoms} \cup
              (IF n = 0 THEN {}
               ELSE {E(<<"(">> \o e.toks \o <<")">>, e.value) : e \in expr[n - 1, 1]})
         ELSE expr[n, l + 1] \cup
              UNION {{E(p[1].toks \o <<o>> \o p[2].toks, <<o, p[1].value, p[2].value>>) :
                      p \in expr[k, l] \X expr[n - 1 - k, l + 1], o \in ops \cap Levels[l]}
                     : k \in 0 .. n - 1})
  IN  expr[number, 1]

(* An expression has the value of its grammar, and the evaluator is as it   *)
(* was before; one with a name that is not known has none.                  *)
EvalRight(eval, e, r) ==
  IF UNKNOWN \in Range(e.toks) THEN ~r.ok
  ELSE r.ok /\ r.result = e.value /\ r.eval = eval
=============================================================================
