-------------------------------- MODULE Csv ---------------------------------
(***************************************************************************)
(* The reader of comma-separated values (libmba's src/csv.c): one call     *)
(* goes through the input character by character to the end of a row.  The *)
(* readers of bytes and of wide characters differ in one thing.            *)
(*                                                                         *)
(* A definition X_slip is a mistake that X could contain; no behaviour of  *)
(* the model uses it.                                                      *)
(***************************************************************************)
EXTENDS Integers, SequencesExt

(* The characters the reader tells apart, and any other.                    *)
Sep == ","
Quote == "\""
NL == "\n"
CR == "\r"
isspace(c) == c \in {" ", NL, CR}

(* What a call was asked: CSV_TRIM, CSV_QUOTES, the sizes of the row and of *)
(* the buffer; wide for csv_parse_wcs.                                      *)
Flags(trim, quotes, wide, rn, bn) ==
  [trim |-> trim, quotes |-> quotes, wide |-> wide, rn |-> rn, bn |-> bn]

(* Where it is: cur is what is written of the present element and t how     *)
(* much of that is kept at its end.                                         *)
Begin(f) == [state |-> "START", inquotes |-> FALSE, cur |-> <<>>, t |-> 0,
             row |-> <<>>, rn |-> f.rn, bn |-> f.bn, count |-> 0, err |-> ""]

Put(s, c) == [s EXCEPT !.cur = Append(s.cur, c), !.bn = @ - 1]
Fail(s, e) == [s EXCEPT !.err = e]

(* An element ends after n characters; a newline ends the row.              *)
Ended(s, n, c) ==
  [s EXCEPT !.row = Append(@, SubSeq(s.cur, 1, n)),
            !.rn = IF c = NL THEN 0 ELSE @ - 1,
            !.bn = @ - 1, !.cur = <<>>, !.t = 0,
            !.state = "START", !.inquotes = FALSE]

CrLf(f, s, c) == ~f.wide /\ c = NL /\ s.t > 0 /\ s.cur[s.t] = CR

Collect(f, s, c) ==
  LET kept == Put(s, c)
  IN  IF s.inquotes /\ c = Quote THEN [s EXCEPT !.state = "END_QUOTE"]
      ELSE IF ~s.inquotes /\ c \in {Sep, NL}
           THEN IF CrLf(f, s, c) THEN Ended([s EXCEPT !.bn = @ + 1], s.t - 1, c)
                ELSE Ended(s, s.t, c)
      ELSE IF ~s.inquotes /\ f.quotes /\ c = Quote THEN Fail(s, "EILSEQ")
      ELSE IF f.trim /\ isspace(c) THEN kept ELSE [kept EXCEPT !.t = Len(kept.cur)]

Start(f, s, c) ==
  IF c \notin {NL, Sep} /\ isspace(c)
  THEN IF f.trim THEN s ELSE [Put(s, c) EXCEPT !.t = Len(s.cur) + 1]
  ELSE IF f.quotes /\ c = Quote
  THEN [s EXCEPT !.cur = <<>>, !.t = 0, !.state = "COLLECT", !.inquotes = TRUE]
  ELSE Collect(f, [s EXCEPT !.state = "COLLECT"], c)

EndQuote_slip(f, s, c) ==
  IF c \in {Sep, NL} THEN Ended(s, s.t, c)
  ELSE IF f.quotes /\ c = Quote /\ s.state # "TAILSPACE"
  THEN [Put(s, c) EXCEPT !.t = Len(s.cur) + 1, !.state = "COLLECT"]
  ELSE IF isspace(c) THEN [s EXCEPT !.state = "TAILSPACE"]
  ELSE Fail(s, "EILSEQ")

EndQuote(f, s, c) ==
  IF c \in {Sep, NL} THEN Ended(s, Len(s.cur), c)
  ELSE IF f.quotes /\ c = Quote /\ s.state # "TAILSPACE"
  THEN [Put(s, c) EXCEPT !.t = Len(s.cur) + 1, !.state = "COLLECT"]
  ELSE IF isspace(c) THEN [s EXCEPT !.state = "TAILSPACE"]
  ELSE Fail(s, "EILSEQ")

Step(f, s0, c) ==
  LET s == [s0 EXCEPT !.count = @ + 1]
  IN  IF s0.rn = 0 \/ s0.bn = 0 \/ s0.err # "" THEN s0
      ELSE CASE s.state = "START"   -> Start(f, s, c)
             [] s.state = "COLLECT" -> Collect(f, s, c)
             [] OTHER               -> EndQuote(f, s, c)

(* The input, or the row, or the buffer has come to its end.                *)
Finish_slip(s) ==
  IF s.err # "" \/ s.rn = 0 THEN s
  ELSE IF s.inquotes /\ s.state # "END_QUOTE" THEN Fail(s, "EILSEQ")
  ELSE [s EXCEPT !.row = Append(@, SubSeq(s.cur, 1, s.t))]

Finish(s) ==
  IF s.err # "" THEN s
  ELSE IF s.bn = 0 THEN Fail(s, "E2BIG")
  ELSE IF s.rn = 0 THEN s
  ELSE IF s.inquotes /\ s.state # "END_QUOTE" THEN Fail(s, "EILSEQ")
  ELSE [s EXCEPT !.row = Append(@, SubSeq(s.cur, 1, s.t))]

csv_row_parse(src, f) ==
  LET s == Finish(FoldLeft(LAMBDA r, c : Step(f, r, c), Begin(f), src))
  IN  [row   |-> s.row, err |-> s.err, count |-> s.count,
       room  |-> s.bn - (IF s.rn = 0 THEN 0 ELSE 1)]

-----------------------------------------------------------------------------
(* A row as a program that writes such files puts it down.                  *)
Doubled(e) == FlattenSeq([i \in DOMAIN e |-> IF e[i] = Quote THEN <<Quote, Quote>> ELSE <<e[i]>>])
InQuotes(e) == <<Quote>> \o Doubled(e) \o <<Quote>>
NeedsQuotes(e) == \E i \in DOMAIN e : e[i] \in {Sep, Quote, NL, CR, " "}

Written(row, always, pad, end) ==
  LET one(e) == pad \o (IF always \/ NeedsQuotes(e) THEN InQuotes(e) ELSE e) \o pad
  IN  FlattenSeq([i \in DOMAIN row |-> IF i = 1 THEN one(row[i]) ELSE <<Sep>> \o one(row[i])]) \o end

(* What is written is read again: with CSV_QUOTES, the row is parsed to its *)
(* last character and the elements are those written, separators, newlines, *)
(* quotes and spaces inside of quotes included, with or without CSV_TRIM    *)
(* and spaces around quotes.                                                *)
ReadsWhatIsWritten(row, src, r) == r.err = "" /\ r.count = Len(src) /\ r.row = row

(* In a buffer of any size this is what happens, without a byte written     *)
(* past its end, or the row is refused as too big.                          *)
ReadsOrRefuses(row, src, r) ==
  r.err # "E2BIG" => ReadsWhatIsWritten(row, src, r) /\ r.room >= 0
=============================================================================
