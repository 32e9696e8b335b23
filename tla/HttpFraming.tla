---------------------------- MODULE HttpFraming -----------------------------
(***************************************************************************)
(* How parse_http_response (src/runtime/posix.cpp) finds the body of an    *)
(* answer.  The exchange reads until the peer closes, so an answer that    *)
(* was cut off on the way looks like one that ended; only its framing can  *)
(* tell.                                                                   *)
(*                                                                         *)
(* A header is a sequence of fields, a body a sequence of bytes: digits,   *)
(* "x" for any other, "R" and "L" for the two bytes of a line end.         *)
(***************************************************************************)
EXTENDS Integers, Sequences, SequencesExt

CONSTANTS MaxBody,        \* 8192 in the code
          MaxRetryAfter   \* 86400 s in the code

Digits == <<"0", "1", "2">>

IsNumber(text) == text # <<>> /\ \A i \in DOMAIN text : Contains(Digits, text[i])

number(text, base) == FoldLeft(LAMBDA n, d : base * n + (CHOOSE i \in 1..3 : Digits[i] = d) - 1, 0, text)

refused == [ok |-> FALSE, body |-> <<>>]

Answer(body) == IF Len(body) > MaxBody THEN refused ELSE [ok |-> TRUE, body |-> body]

Field(header, name) == {i \in DOMAIN header : header[i].name = name}

(* The n bytes of a chunk are there, and the line end behind them. *)
ChunkEnds(body, n) == n + 2 <= Len(body) /\ SubSeq(body, n + 1, n + 2) = <<"R", "L">>

(* Mutant of Ended: what follows the last chunk is not looked at. *)
EndedAnyhow(rest) == TRUE

(* Behind the empty chunk comes its line end, and nothing else. *)
Ended(rest) == rest = <<"R", "L">>

LineEnds(body) == {i \in 1..(Len(body) - 1) : SubSeq(body, i, i + 1) = <<"R", "L">>}

(* Size line, chunk and line end, again until the empty chunk. *)
RECURSIVE Chunks(_, _)
Chunks(body, content) ==
  IF LineEnds(body) = {} THEN refused
  ELSE LET end  == CHOOSE i \in LineEnds(body) : \A j \in LineEnds(body) : i <= j
           line == SubSeq(body, 1, end - 1)
           rest == SubSeq(body, end + 2, Len(body))
           n    == number(line, 16)
       IN  IF ~IsNumber(line) \/ n > MaxBody \/ ~ChunkEnds(rest, n) THEN refused
           ELSE IF n = 0 THEN (IF Ended(rest) THEN Answer(content) ELSE refused)
           ELSE IF Len(content) + n > MaxBody THEN refused
           ELSE Chunks(SubSeq(rest, n + 3, Len(rest)), content \o SubSeq(rest, 1, n))

(* One field may say how long the body is: two, of one name or of both,    *)
(* are refused.  So is a Retry-After out of range.                         *)
parse_http_response(header, body) ==
  LET lengths == Field(header, "content-length")
      codings == Field(header, "transfer-encoding")
      length  == header[CHOOSE i \in lengths : TRUE].value
      coding  == header[CHOOSE i \in codings : TRUE].value
  IN  IF \/ \E i, j \in DOMAIN header : i # j /\ header[i].name = header[j].name
         \/ lengths # {} /\ codings # {}
         \/ \E i \in Field(header, "retry-after") :
              ~IsNumber(header[i].value) \/ number(header[i].value, 10) > MaxRetryAfter
      THEN refused
      ELSE IF codings # {} THEN (IF coding = <<"chunked">> THEN Chunks(body, <<>>) ELSE refused)
      ELSE IF lengths # {} /\ (~IsNumber(length) \/ number(length, 10) # Len(body)) THEN refused
      ELSE Answer(body)
=============================================================================
