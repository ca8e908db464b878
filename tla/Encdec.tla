------------------------------- MODULE Encdec -------------------------------
(***************************************************************************)
(* Encoding and decoding (encdec's src/encdec.c and src/encdec_iconv.c):   *)
(* integers and times as bytes, and strings from one character set to      *)
(* another with limits on the bytes read, the bytes written and the        *)
(* columns.                                                                *)
(*                                                                         *)
(* A byte has Byte values, 256 in the code; so has everything else that    *)
(* follows from the width of an integer.                                   *)
(*                                                                         *)
(* A definition X_slip is a mistake that X could contain; no behaviour of  *)
(* the model uses it.                                                      *)
(***************************************************************************)
EXTENDS Integers, SequencesExt

CONSTANTS Byte,      \* how many values a byte has
          Epoch1904, \* SEC_BETWEEEN_1904_AND_1970
          Epoch1601, \* MILLISECONDS_BETWEEN_1970_AND_1601
          Millis,    \* milliseconds of a second: 1000
          Nanos      \* the units of 1601 of a millisecond: 10000

EncdecAssumption == /\ Byte \in Nat \ {0, 1} /\ Millis \in Nat \ {0}
                    /\ Nanos \in Nat \ {0} /\ {Epoch1904, Epoch1601} \subseteq Nat

Word(n) == Byte ^ n                 \* how many values n bytes have

-----------------------------------------------------------------------------
(* Integers of 2 and 4 bytes, big and little endian.                        *)
Shifted(i, k) == (i \div Word(k)) % Byte

enc_be(i, n) == [k \in 1 .. n |-> Shifted(i, n - k)]
enc_le(i, n) == [k \in 1 .. n |-> Shifted(i, k - 1)]

dec_be(src, n) == FoldLeft(LAMBDA r, k : r * Byte + src[k], 0, [k \in 1 .. n |-> k])
dec_le(src, n) == FoldLeft(LAMBDA r, k : r + src[k] * Word(k - 1), 0, [k \in 1 .. n |-> k])

(* Integers of 8 bytes are two of 4.                                        *)
enc_uint64be_slip(i) == enc_be(i % Word(4), 4) \o enc_be(i \div Word(4), 4)

enc_uint64be(i) == enc_be(i \div Word(4), 4) \o enc_be(i % Word(4), 4)
enc_uint64le(i) == enc_le(i % Word(4), 4) \o enc_le(i \div Word(4), 4)
dec_uint64be(src) == dec_be(src, 4) * Word(4) + dec_be(SubSeq(src, 5, 8), 4)
dec_uint64le(src) == dec_le(SubSeq(src, 5, 8), 4) * Word(4) + dec_le(src, 4)

(* Times; what does not fit in the bytes is cut off.                        *)
Encodings == {"1970_SEC_32BE", "1970_SEC_32LE", "1904_SEC_32BE", "1904_SEC_32LE",
              "1601_NANOS_64BE", "1601_NANOS_64LE", "1970_MILLIS_64BE", "1970_MILLIS_64LE"}

enc_time(t, enc) ==
  LET nanos == (t * Millis + Epoch1601) * Nanos
  IN  CASE enc = "1970_SEC_32BE"    -> enc_be(t % Word(4), 4)
        [] enc = "1970_SEC_32LE"    -> enc_le(t % Word(4), 4)
        [] enc = "1904_SEC_32BE"    -> enc_be((t + Epoch1904) % Word(4), 4)
        [] enc = "1904_SEC_32LE"    -> enc_le((t + Epoch1904) % Word(4), 4)
        [] enc = "1601_NANOS_64BE"  -> enc_uint64be(nanos % Word(8))
        [] enc = "1601_NANOS_64LE"  -> enc_uint64le(nanos % Word(8))
        [] enc = "1970_MILLIS_64BE" -> enc_uint64be((t * Millis) % Word(8))
        [] OTHER                    -> enc_uint64le((t * Millis) % Word(8))

(* The difference of two unsigned integers is unsigned.                     *)
dec_time(src, enc) ==
  LET since(n) == ((n \div Nanos - Epoch1601) % Word(8)) \div Millis
  IN  CASE enc = "1970_SEC_32BE"    -> dec_be(src, 4)
        [] enc = "1970_SEC_32LE"    -> dec_le(src, 4)
        [] enc = "1904_SEC_32BE"    -> (dec_be(src, 4) - Epoch1904) % Word(4)
        [] enc = "1904_SEC_32LE"    -> (dec_le(src, 4) - Epoch1904) % Word(4)
        [] enc = "1601_NANOS_64BE"  -> since(dec_uint64be(src))
        [] enc = "1601_NANOS_64LE"  -> since(dec_uint64le(src))
        [] enc = "1970_MILLIS_64BE" -> dec_uint64be(src) \div Millis
        [] OTHER                    -> dec_uint64le(src) \div Millis

(* What is encoded is decoded: every integer of 4 and 8 bytes, in the order *)
(* of bytes of its name, and every time that the encoding has room for.     *)
Room(t, enc) ==
  CASE enc \in {"1970_SEC_32BE", "1970_SEC_32LE"}     -> t < Word(4)
    [] enc \in {"1904_SEC_32BE", "1904_SEC_32LE"}     -> t + Epoch1904 < Word(4)
    [] enc \in {"1601_NANOS_64BE", "1601_NANOS_64LE"} -> (t * Millis + Epoch1601) * Nanos < Word(8)
    [] OTHER                                          -> t * Millis < Word(8)

DecodesIntegers(i) ==
  /\ i < Word(4) => /\ dec_be(enc_be(i, 4), 4) = i /\ dec_le(enc_le(i, 4), 4) = i
                    /\ enc_le(i, 4) = Reverse(enc_be(i, 4))
  /\ dec_uint64be(enc_uint64be(i)) = i /\ dec_uint64le(enc_uint64le(i)) = i
  /\ enc_uint64be(i) = [k \in 1 .. 8 |-> Shifted(i, 8 - k)]
  /\ enc_uint64le(i) = Reverse(enc_uint64be(i))

DecodesTimes(t) == \A enc \in Encodings : Room(t, enc) => dec_time(enc_time(t, enc), enc) = t

-----------------------------------------------------------------------------
(* Strings.  A character is its width in columns, -1 for one that cannot be *)
(* printed, and the bytes that it takes before and after: for one that the  *)
(* other set lacks, those of its transliteration or substitute, though the  *)
(* width stays its own.  Bad are bytes that are no character, or one that   *)
(* nothing can stand for; a shift sequence only changes the state of the    *)
(* converter; a tag is a character (0xe0000 on) that the other set may lack *)
(* and nothing stands for.  NULC is the terminator.                         *)
Item(kind, width, in, out) == [kind |-> kind, width |-> width, in |-> in, out |-> out]
Char(width, in, out) == Item("char", width, in, out)
Shift(in) == Item("shift", 0, in, 0)
Tag(in)   == Item("tag", 0, in, 0)
Bad       == Item("bad", 0, 1, 0)
NULC      == Char(-1, 1, 1)

(* unicode_loop_convertn with inleft, outleft and count; zt asks for a      *)
(* terminator.  wc is the last character read, none to begin with.          *)
Converting(inleft, outleft, n) ==
  [inleft |-> inleft, outleft |-> outleft, count |-> n, wc |-> <<>>,
   out |-> <<>>, stop |-> FALSE, err |-> FALSE]

Width(c) == IF c = NULC \/ c.width = -1 THEN 1 ELSE c.width

(* zt keeps a byte for the terminator.                                      *)
Fits_slip(s, c, zt) == c.out <= s.outleft

Fits(s, c, zt) == c.out <= s.outleft /\ ~(zt = 1 /\ c # NULC /\ c.out = s.outleft)

Convert(s0, c, zt) ==
  LET s == [s0 EXCEPT !.wc = <<c>>]
  IN  IF s0.stop \/ s0.wc = <<NULC>> \/ s0.inleft <= 0 \/ s0.outleft <= zt THEN s0
      ELSE IF c.in > s0.inleft THEN [s0 EXCEPT !.stop = TRUE]
      ELSE IF c.kind = "bad" THEN [s0 EXCEPT !.stop = TRUE, !.err = TRUE]
      ELSE IF c.kind = "shift" THEN [s0 EXCEPT !.inleft = @ - c.in]
      ELSE IF c.kind = "tag" THEN [s EXCEPT !.inleft = @ - c.in]
      ELSE IF ~Fits(s, c, zt) \/ Width(c) > s.count THEN [s EXCEPT !.stop = TRUE]
      ELSE [s EXCEPT !.count = @ - Width(c), !.out = Append(@, c),
                     !.outleft = @ - c.out, !.inleft = @ - c.in]

(* What is in the destination; where dst is NULL, the bytes asked for.      *)
Size(out) == FoldLeft(LAMBDA r, c : r + c.out, 0, out)

convertn(src, inleft, outleft, n, zt) ==
  LET s == FoldLeft(LAMBDA r, c : Convert(r, c, zt), Converting(inleft, outleft, n), src)
  IN  IF n = 0 THEN [out |-> <<>>, size |-> 0, count |-> 0, err |-> FALSE]
      ELSE [out   |-> IF zt = 1 /\ s.wc # <<NULC>> THEN Append(s.out, NULC) ELSE s.out,
            size  |-> Size(s.out) + (IF s.wc # <<NULC>> \/ s.count = 0 THEN 1 ELSE 0),
            count |-> s.count, err |-> s.err]

(* dec_mbsndup converts twice, first to learn the size.                     *)
dec_mbsncpy(src, sn, dn, wn) == convertn(src, sn, dn, wn, 1)
enc_mbsncpy(src, sn, dn, wn) ==
  LET r == convertn(src, sn, dn, wn, 0) IN [out |-> r.out, columns |-> wn - r.count]

(* A conversion stays within its limits: what dec_mbsncpy writes are the    *)
(* first characters of the source and a terminator, in wn columns, in no    *)
(* more bytes than dec_mbsndup has allocated for it, and in dn bytes, but   *)
(* for one: where dn is 0 the terminator is written all the same.           *)
(* enc_mbsncpy never writes more than dn bytes.                             *)
Columns(out)   == FoldLeft(LAMBDA r, c : r + Width(c), 0, SelectSeq(out, LAMBDA c : c # NULC))
Printed(chars) == SelectSeq(chars, LAMBDA c : c.kind = "char")
ConvertsInLimits(src, sn, dn, wn) ==
  LET r == dec_mbsncpy(src, sn, dn, wn)
      e == enc_mbsncpy(src, sn, dn, wn)
  IN  ~r.err =>
        /\ Size(r.out) <= dn \/ (dn = 0 /\ r.out = <<NULC>>)
        /\ Size(r.out) <= r.size /\ Columns(r.out) <= wn
        /\ \/ IsPrefix(r.out, Printed(src))
           \/ Last(r.out) = NULC /\ IsPrefix(Front(r.out), Printed(src))
        /\ Size(e.out) <= dn /\ e.columns <= wn

(* Documented (docs/ref/encdec.html): dec_mbsncpy does not write more than  *)
(* dn bytes.  Where dn is 0 it writes the terminator.                       *)
NeverBeyond(src, sn, dn, wn) ==
  LET r == dec_mbsncpy(src, sn, dn, wn) IN ~r.err => Size(r.out) <= dn

(* "the string is always zero terminated": what dec_mbsncpy has written     *)
(* ends with a terminator.                                                  *)
AlwaysTerminated(src, sn, dn, wn) ==
  LET r == dec_mbsncpy(src, sn, dn, wn)
  IN  ~r.err /\ dn > 0 /\ wn > 0 => r.out # <<>> /\ Last(r.out) = NULC
=============================================================================
