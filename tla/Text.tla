-------------------------------- MODULE Text --------------------------------
(***************************************************************************)
(* Strings with bounds (libmba's src/text.c).  A source is the sequence of *)
(* characters from src up to slim, empty when src is NULL or not below     *)
(* slim; room is how many characters there are from dst up to dlim.  The   *)
(* functions of bytes and of wide characters are the same.                 *)
(*                                                                         *)
(* A definition X_slip is a mistake that X could contain; no behaviour of  *)
(* the model uses it.                                                      *)
(***************************************************************************)
EXTENDS Integers, Sequences, FiniteSetsExt

NUL == 0

(* The characters before the terminator, or all of them where there is none.*)
Before(src) == Min({i - 1 : i \in {j \in DOMAIN src : src[j] = NUL}} \cup {Len(src)})
Ends(src)   == Before(src) < Len(src)

str_length(src) == IF Ends(src) THEN Before(src) ELSE 0
str_size(src)   == IF Ends(src) THEN Before(src) + 1 ELSE 0

(* How many characters a copy of at most n takes, with n < 0 for no limit:  *)
(* none when it would come to a limit, even with nothing left to be copied. *)
Taken_slip(src, room, n) ==
  LET k == IF n < 0 THEN Before(src) ELSE Min({n, Before(src)})
  IN  IF k > 0 /\ (k > Len(src) \/ k > room) THEN 0 ELSE k

Taken(src, room, n) ==
  LET k == IF n < 0 THEN Before(src) ELSE Min({n, Before(src)})
  IN  IF k > 0 /\ (k >= Len(src) \/ k >= room) THEN 0 ELSE k

(* What is written from dst on, which is nothing when there is no room.     *)
str_copy(src, room, n) ==
  IF room <= 0 THEN <<>>
  ELSE IF src = <<>> THEN <<NUL>>
  ELSE Append(SubSeq(src, 1, Taken(src, room, n)), NUL)

(* What is allocated; no memory, <<>>, stands for the null pointer.         *)
str_copy_new(src, n) ==
  LET k == IF n < 0 THEN Before(src) ELSE Min({n, Before(src)})
  IN  IF src = <<>> \/ (k > 0 /\ k >= Len(src)) THEN <<>>
      ELSE Append(SubSeq(src, 1, k), NUL)

(* A copy is a string that fits and is a prefix of the source; it is all of *)
(* it, up to n characters, whenever that fits and the source has an end;    *)
(* and a copy in new memory is what a copy into room enough is.             *)
CopyRight(src, room, n) ==
  LET dst  == str_copy(src, room, n)
      k    == Len(dst) - 1
      all  == IF n < 0 THEN str_length(src) ELSE Min({n, str_length(src)})
      new  == str_copy_new(src, n)
  IN  /\ Len(dst) <= Max({room, 0})
      /\ room > 0 => dst[k + 1] = NUL /\ (k > 0 => k < Len(src) /\ k = Before(dst))
                     /\ \A i \in 1 .. k : dst[i] = src[i]
      /\ Ends(src) /\ room > all => k = all
      /\ new # <<>> => new = str_copy(src, Len(src) + 1, n)

-----------------------------------------------------------------------------
(* utf8towc: how long a sequence is from its first byte, and the least      *)
(* character that needs so many bytes.  Where wchar_t has two bytes those   *)
(* of three are refused.                                                    *)
Long(b) == CASE b < 128           -> 1
             [] b \in 192 .. 223  -> 2
             [] b \in 224 .. 239  -> 3
             [] b \in 240 .. 247  -> 4
             [] OTHER             -> 1     \* and no character is stored
Least == <<0, 128, 2048, 65536>>
Lead(b) == CASE b < 128          -> b
             [] b \in 192 .. 223 -> b % 32
             [] b \in 224 .. 239 -> b % 16
             [] b \in 240 .. 247 -> b % 8
             [] OTHER            -> 0
More(b) == b \in 128 .. 191

Value(bytes) ==
  CASE Len(bytes) = 1 -> Lead(bytes[1])
    [] Len(bytes) = 2 -> Lead(bytes[1]) * 64 + (bytes[2] % 64)
    [] Len(bytes) = 3 -> Lead(bytes[1]) * 4096 + (bytes[2] % 64) * 64 + (bytes[3] % 64)
    [] OTHER          -> Lead(bytes[1]) * 262144 + (bytes[2] % 64) * 4096
                           + (bytes[3] % 64) * 64 + (bytes[4] % 64)

Decoded(n, wc) == [n |-> n, wc |-> wc]

TooShort_slip(n, wc) == wc <= Least[n]

TooShort(n, wc) == wc < Least[n]

utf8towc(src, wide) ==
  LET n     == Long(src[1])
      bytes == SubSeq(src, 1, n)
  IN  IF src = <<>> THEN Decoded(0, 0)
      ELSE IF n > Len(src) THEN Decoded(0, 0)
      ELSE IF n = 3 /\ ~wide THEN Decoded(-1, 0)
      ELSE IF (\E i \in 2 .. n : ~More(bytes[i])) \/ TooShort(n, Value(bytes)) THEN Decoded(-1, 0)
      ELSE Decoded(n, Value(bytes))

(* The UTF-8 of a character in n bytes, more than it needs included.        *)
Encoded(wc, n) ==
  LET tail(k) == 128 + ((wc \div (64 ^ k)) % 64)
  IN  CASE n = 1 -> <<wc>>
        [] n = 2 -> <<192 + wc \div 64, tail(0)>>
        [] n = 3 -> <<224 + wc \div 4096, tail(1), tail(0)>>
        [] OTHER -> <<240 + wc \div 262144, tail(2), tail(1), tail(0)>>
Needs(wc) == CHOOSE n \in 1 .. 4 : wc >= Least[n] /\ (n = 4 \/ wc < Least[n + 1])

(* A character is decoded from the bytes that it needs and from no more, a  *)
(* sequence that is cut off asks for more, and what follows does not count. *)
DecodeRight(wc, n, rest) ==
  LET src == Encoded(wc, n)
  IN  /\ utf8towc(src \o rest, TRUE) = IF n = Needs(wc) THEN Decoded(n, wc) ELSE Decoded(-1, 0)
      /\ \A k \in 0 .. n - 1 : utf8towc(SubSeq(src, 1, k), TRUE) = Decoded(0, 0)
=============================================================================
