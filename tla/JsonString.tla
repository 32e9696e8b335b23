----------------------------- MODULE JsonString -----------------------------
(***************************************************************************)
(* Strings of JSON (src/runtime/json.cpp): UTF-8 is checked on the way in  *)
(* and on the way out, control characters are escaped, and \\u escapes are *)
(* decoded with their surrogate pairs.  A text is a sequence of bytes.     *)
(***************************************************************************)
EXTENDS Integers, Sequences, SequencesExt

Quote     == 34
Backslash == 92
LetterU   == 117

(* The letters of the short escapes, with the bytes they stand for. *)
Short == { <<34, 34>>, <<92, 92>>, <<98, 8>>, <<102, 12>>, <<110, 10>>, <<114, 13>>, <<116, 9>> }

utf8(code) ==
  LET Tail6(shift) == 128 + ((code \div shift) % 64)
  IN  CASE code < 128   -> <<code>>
        [] code < 2048  -> <<192 + (code \div 64), Tail6(1)>>
        [] code < 65536 -> <<224 + (code \div 4096), Tail6(64), Tail6(1)>>
        [] OTHER        -> <<240 + (code \div 262144), Tail6(4096), Tail6(64), Tail6(1)>>

-----------------------------------------------------------------------------
(* validate_utf8: the length from the first byte, 9 for one that begins no *)
(* character, and the code from all.                                       *)

Following(c) == CASE c \in 194..223 -> 1 [] c \in 224..239 -> 2 [] c \in 240..244 -> 3 [] OTHER -> 9

Code(bytes) ==
  FoldLeft(LAMBDA code, part : 64 * code + (part % 64), Head(bytes) % 2^(7 - Len(bytes)), Tail(bytes))

(* Mutant of Encodes: surrogates pass. *)
EncodesSurrogates(code, n) == code >= (CASE n = 1 -> 128 [] n = 2 -> 2048 [] OTHER -> 65536) /\ code <= 1114111

(* The shortest form, in range, no surrogate. *)
Encodes(code, n) ==
  /\ code >= (CASE n = 1 -> 128 [] n = 2 -> 2048 [] OTHER -> 65536)
  /\ code <= 1114111 /\ code \notin 55296..57343

RECURSIVE validate_utf8(_)
validate_utf8(text) ==
  IF text = <<>> THEN TRUE
  ELSE IF Head(text) < 128 THEN validate_utf8(Tail(text))
  ELSE LET n == Following(Head(text))
       IN  /\ n # 9 /\ n + 1 <= Len(text)
           /\ \A i \in 2..(n + 1) : text[i] \div 64 = 2
           /\ Encodes(Code(SubSeq(text, 1, n + 1)), n)
           /\ validate_utf8(SubSeq(text, n + 2, Len(text)))

-----------------------------------------------------------------------------
HexDigit(n) == IF n < 10 THEN 48 + n ELSE 87 + n

(* The value of a hexadecimal digit, 16 for any other byte. *)
HexValue(c) == CASE c \in 48..57  -> c - 48 [] c \in 97..102 -> c - 87
                 [] c \in 65..70  -> c - 55 [] OTHER         -> 16

Escaped(c) ==
  CASE \E s \in Short : s[2] = c -> <<Backslash, (CHOOSE s \in Short : s[2] = c)[1]>>
    [] c < 32 -> <<Backslash, LetterU, 48, 48, HexDigit(c \div 16), HexDigit(c % 16)>>
    [] OTHER  -> <<c>>

(* quote_json of a text that validate_utf8 accepts. *)
quote_json(text) == <<Quote>> \o FlattenSeq([i \in DOMAIN text |-> Escaped(text[i])]) \o <<Quote>>

-----------------------------------------------------------------------------
(* The reader returns its bytes, or Invalid. *)

Invalid == <<-1>>

(* hex4 at a position: -1 if the text ends or a byte is no digit. *)
hex4(text, pos) ==
  IF pos + 3 > Len(text) \/ \E i \in pos..(pos + 3) : HexValue(text[i]) = 16 THEN -1
  ELSE FoldLeft(LAMBDA out, c : 16 * out + HexValue(c), 0, SubSeq(text, pos, pos + 3))

(* The code of the escape behind "\\u", 0 or more, and how long it is. *)
Escape(text, pos) ==
  LET high == hex4(text, pos)
      low  == IF pos + 5 <= Len(text) /\ SubSeq(text, pos + 4, pos + 5) = <<Backslash, LetterU>>
              THEN hex4(text, pos + 6) ELSE -1
  IN  IF high \in 55296..56319 /\ low \in 56320..57343
      THEN [code |-> 65536 + (high - 55296) * 1024 + low - 56320, length |-> 10]
      ELSE [code |-> IF high \in 55296..57343 THEN -1 ELSE high, length |-> 4]

(* The bytes from pos up to the closing quote. *)
RECURSIVE Bytes(_, _, _)
Bytes(text, pos, out) ==
  IF pos > Len(text) THEN Invalid
  ELSE LET c    == text[pos]
           next == IF pos < Len(text) THEN text[pos + 1] ELSE -1
           e    == Escape(text, pos + 2)
       IN  CASE c = Quote -> IF pos = Len(text) /\ validate_utf8(out) THEN out ELSE Invalid
             [] c < 32    -> Invalid
             [] c >= 32 /\ c \notin {Quote, Backslash} -> Bytes(text, pos + 1, Append(out, c))
             [] c = Backslash /\ next = LetterU ->
                  IF e.code < 0 THEN Invalid ELSE Bytes(text, pos + 2 + e.length, out \o utf8(e.code))
             [] c = Backslash /\ next = 47 -> Bytes(text, pos + 2, Append(out, 47))
             [] c = Backslash /\ \E s \in Short : s[1] = next ->
                  Bytes(text, pos + 2, Append(out, (CHOOSE s \in Short : s[1] = next)[2]))
             [] OTHER -> Invalid

(* string(), of a text that is one string. *)
string(text) == IF text # <<>> /\ Head(text) = Quote THEN Bytes(text, 2, <<>>) ELSE Invalid
=============================================================================
