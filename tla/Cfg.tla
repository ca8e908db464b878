-------------------------------- MODULE Cfg ---------------------------------
(***************************************************************************)
(* Configurations (libmba's src/cfg.c): a list of lines, read from a file, *)
(* a string, the query string of a CGI or the environment, in which names  *)
(* are looked up.                                                          *)
(*                                                                         *)
(* A text is a sequence of characters.  A configuration is the sequence of *)
(* its lines, without their ends.                                          *)
(*                                                                         *)
(* A definition X_slip is a mistake that X could contain; no behaviour of  *)
(* the model uses it.                                                      *)
(***************************************************************************)
EXTENDS Integers, SequencesExt

CONSTANT Bufsiz     \* BUFSIZ, the limit of a line with its terminator

CfgAssumption == Bufsiz \in Nat \ {0}

NL == "\n"
isspace(c)   == c \in {" ", "\t", NL}
iscomment(c) == c \in {"#", "!"}
escaped(c)   == CASE c = "t" -> "\t" [] c = "n" -> NL [] OTHER -> c

-----------------------------------------------------------------------------
(* readline, one character of a file at a time.  The first character of a   *)
(* line is taken as it is; end is where the line will be cut, behind what   *)
(* is last in it and no space.  \uxxxx is never accepted.                   *)
Reading == [lines |-> <<>>, buf |-> <<>>, state |-> "first", end |-> 0, err |-> FALSE]

Line(s, buf) == [s EXCEPT !.lines = Append(@, buf), !.buf = <<>>, !.state = "first", !.end = 0]
Kept(s, c)   == [s EXCEPT !.buf = Append(@, c)]
Ending(s)    == [s EXCEPT !.end = Len(s.buf) + 1]

Plain_slip(s, c) ==
  CASE c = "\\" -> [s EXCEPT !.state = "escape"]
    [] c = NL   -> Line(s, s.buf)
    [] c = "="  -> [Kept(s, c) EXCEPT !.state = "lead"]
    [] isspace(c) -> [Kept(s, c) EXCEPT !.state = "plain"]
    [] OTHER    -> [Kept(Ending(s), c) EXCEPT !.state = "plain"]

Plain(s, c) ==
  CASE c = "\\" -> [s EXCEPT !.state = "escape"]
    [] c = NL   -> Line(s, SubSeq(s.buf, 1, s.end))
    [] c = "="  -> [Kept(s, c) EXCEPT !.state = "lead"]
    [] isspace(c) -> [Kept(s, c) EXCEPT !.state = "plain"]
    [] OTHER    -> [Kept(Ending(s), c) EXCEPT !.state = "plain"]

Escape(s, c) ==
  CASE c = NL  -> [Ending(s) EXCEPT !.state = "lead"]
    [] c = "u" -> [s EXCEPT !.err = TRUE]
    [] c \in {"t", "n", "\\", " "} -> [Kept(Ending(s), escaped(c)) EXCEPT !.state = "plain"]
    [] OTHER   -> [Ending(s) EXCEPT !.state = "plain"]

Read(s, c) ==
  CASE s.err -> s
    [] s.state = "first"  -> IF c = NL THEN Line(s, <<>>)
                             ELSE [Kept(s, c) EXCEPT !.state = "plain"]
    [] s.state # "first" /\ Len(s.buf) >= Bufsiz -> [s EXCEPT !.err = TRUE]
    [] s.state = "plain"  -> Plain(s, c)
    [] s.state = "escape" -> Escape(s, c)
    [] s.state = "lead"   -> IF c # NL /\ isspace(c) THEN s ELSE Plain([s EXCEPT !.state = "plain"], c)

readlines(text) ==
  LET s == FoldLeft(Read, Reading, text)
  IN  IF s.err \/ Len(s.buf) >= Bufsiz THEN [s EXCEPT !.err = TRUE]
      ELSE IF s.state = "first" THEN s ELSE Line(s, s.buf)

-----------------------------------------------------------------------------
(* validateline: a comment, or nothing but space, or a name, which has no   *)
(* space in it, an equals sign and anything.                                *)
Trim(s) ==
  LET in == {i \in DOMAIN s : ~isspace(s[i])}
      first == CHOOSE i \in in : \A j \in in : i <= j
      last  == CHOOSE i \in in : \A j \in in : i >= j
  IN  IF in = {} THEN <<>> ELSE SubSeq(s, first, last)

Blank(line)   == Trim(line) = <<>>
Comment(line) == ~Blank(line) /\ iscomment(Trim(line)[1])
Equals(line)  == SelectInSeq(line, LAMBDA c : c = "=")

(* A name is at least one character, which may be an equals sign itself.    *)
NameEnd(line) ==
  LET first == SelectInSeq(line, LAMBDA c : ~isspace(c))
  IN  SelectInSubSeq(line, first + 1, Len(line), LAMBDA c : c = "=")
Name(line) == Trim(SubSeq(line, 1, NameEnd(line) - 1))

validateline(line) ==
  \/ Blank(line) \/ Comment(line)
  \/ /\ NameEnd(line) # 0
     /\ \A i \in DOMAIN Name(line) : ~isspace(Name(line)[i])

(* The lines of a text, and those of a query string.                        *)
Split(text, sep) ==
  FoldLeft(LAMBDA r, c : IF c = sep THEN Append(r, <<>>)
                         ELSE Append(Front(r), Append(Last(r), c)), <<<<>>>>, text)

(* cfg_load and cfg_load_str: when a line is refused the whole list is      *)
(* cleared, with what it had before.                                        *)
Added(cfg, lines, err) ==
  IF err THEN [cfg |-> cfg, ok |-> FALSE]
  ELSE IF \E i \in DOMAIN lines : ~validateline(lines[i]) THEN [cfg |-> <<>>, ok |-> FALSE]
  ELSE [cfg |-> cfg \o lines, ok |-> TRUE]

(* The lines before a failing readline are in the list already.             *)
cfg_load(cfg, text) ==
  LET s == readlines(text)
      r == Added(cfg, s.lines, FALSE)
  IN  [r EXCEPT !.ok = @ /\ ~s.err]

cfg_load_str(cfg, text) ==
  LET lines == Split(text, NL)
  IN  Added(cfg, IF Last(lines) = <<>> THEN Front(lines) ELSE lines, FALSE)

(* cfg_load_cgi_query_string: the pairs before the one refused stay.        *)
Pair(p) == /\ p # <<>> /\ p[1] \notin {"=", NL, "\t"}
           /\ Cardinality({i \in DOMAIN p : p[i] = "="}) = 1
cfg_load_cgi_query_string(cfg, text) ==
  LET all   == Split(text, "&")
      pairs == IF Last(all) = <<>> THEN Front(all) ELSE all
      good(i) == Pair(pairs[i]) /\ validateline(pairs[i]) /\ Len(pairs[i]) < Bufsiz
      n     == SelectInSeq([i \in DOMAIN pairs |-> good(i)], LAMBDA b : ~b)
  IN  IF n = 0 THEN [cfg |-> cfg \o pairs, ok |-> TRUE]
      ELSE [cfg |-> cfg \o SubSeq(pairs, 1, n - 1), ok |-> FALSE]

-----------------------------------------------------------------------------
(* cfg_get_str: the first line with the name, and what is behind its equals *)
(* sign.                                                                    *)
Matches_slip(line, name) == IsPrefix(name, Trim(line)) /\ ~Comment(line)

Matches(line, name) ==
  LET t == Trim(line)
  IN  /\ t # <<>> /\ ~iscomment(t[1]) /\ IsPrefix(name, t)
      /\ Len(name) < Len(line) - SelectInSeq(line, LAMBDA c : ~isspace(c)) + 1
      /\ LET c == line[SelectInSeq(line, LAMBDA x : ~isspace(x)) + Len(name)]
         IN  isspace(c) \/ c = "="

ValueOf(line, name) ==
  LET from == SelectInSeq(line, LAMBDA c : ~isspace(c)) + Len(name)
  IN  SubSeq(line, SelectInSubSeq(line, from, Len(line), LAMBDA c : c = "=") + 1, Len(line))

cfg_get_str(cfg, name) ==
  LET n == SelectInSeq(cfg, LAMBDA line : Matches(line, name))
  IN  IF n = 0 THEN [found |-> FALSE, value |-> <<>>]
      ELSE [found |-> TRUE, value |-> ValueOf(cfg[n], name)]

cfg_fwrite(cfg) == FlattenSeq([i \in DOMAIN cfg |-> Append(cfg[i], NL)])

-----------------------------------------------------------------------------
(* The settings that a text has, by its lines.                              *)
Setting(line) ==
  [name  |-> Trim(SubSeq(line, 1, Equals(line) - 1)),
   value |-> Trim(SubSeq(line, Equals(line) + 1, Len(line)))]

(* The lines of which one would think that they are read as they look: with *)
(* one equals sign that is not at the end, or a comment, or blank.  (A line *)
(* of one character, and one whose value is empty, are read as another.)    *)
Ordinary(line) ==
  /\ "\\" \notin ToSet(line) /\ Len(line) < Bufsiz
  /\ \/ Blank(line) \/ Comment(line)
     \/ /\ Cardinality({i \in DOMAIN line : line[i] = "="}) = 1
        /\ Setting(line).name # <<>> /\ Setting(line).value # <<>>
        /\ \A i \in DOMAIN Setting(line).name : ~isspace(Setting(line).name[i])

(* A line that is too long for the buffer, and has no space that is skipped *)
(* before it comes there.                                                   *)
TooLong(line) ==
  /\ Len(line) >= Bufsiz /\ "\\" \notin ToSet(line)
  /\ \A i \in 1 .. Len(line) - 1 : line[i] = "=" => ~isspace(line[i + 1])

(* An ordinary text is accepted, from a file and as a string, and a name is *)
(* answered with the value of the first line that sets it; the text that is *)
(* stored is loaded again with the same answers.  A line that is too long   *)
(* for the buffer is refused.                                               *)
Settings(text) ==
  LET lines == Split(text, NL)
  IN  SelectSeq(lines, LAMBDA l : ~Blank(l) /\ ~Comment(l))

Looked(text, name) ==
  LET ls == Settings(text)
      n  == SelectInSeq(ls, LAMBDA l : Setting(l).name = name)
  IN  IF n = 0 THEN [found |-> FALSE, value |-> <<>>]
      ELSE [found |-> TRUE, value |-> Setting(ls[n]).value]

EndsInNL(text) == text # <<>> /\ Last(text) = NL

Trimmed(answer) == [answer EXCEPT !.value = Trim(@)]

LooksUp(text, names, file, str) ==
  /\ (\E i \in DOMAIN Split(text, NL) : TooLong(Split(text, NL)[i])) => ~file.ok
  /\ (\A i \in DOMAIN Split(text, NL) : Ordinary(Split(text, NL)[i])) =>
     /\ file.ok /\ str.ok
     /\ \A name \in names :
          /\ Trimmed(cfg_get_str(file.cfg, name)) = Looked(text, name)
          /\ Trimmed(cfg_get_str(str.cfg, name)) = Looked(text, name)
          /\ LET again == cfg_load(<<>>, cfg_fwrite(file.cfg))
             IN  again.ok /\ (EndsInNL(text) => cfg_get_str(again.cfg, name) = cfg_get_str(file.cfg, name))
          /\ EndsInNL(text) => cfg_get_str(file.cfg, name) = Looked(text, name)
=============================================================================
