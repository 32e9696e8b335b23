---------------------------- MODULE MCAlgorithms ----------------------------
(***************************************************************************)
(* The parts of the service that run by themselves: the pure algorithms,   *)
(* each driven by every input of a bounded kind and compared with a        *)
(* reference definition, and the observation ledger on its file.  Inputs   *)
(* grow by one symbol, update or episode at a time; subject says who is at *)
(* work.                                                                   *)
(***************************************************************************)
EXTENDS ConditionHistory, FrameHistory, JsonText, JsonString, HttpFraming, ObservationLedger

CONSTANTS
  MaxEpisodes,       \* condition model: episodes
  MaxTokens,         \* JSON: tokens of a text
  ByteSet, MaxBytes, \* strings: bytes at the limits of UTF-8
  Units, MaxUnits,   \* strings: UTF-16 units at the limits of the surrogates
  MaxUpdates         \* frames: updates

VARIABLES subject, text, header

avars == <<subject, text, header, conditionVars, frameVars, vars>>

Feed(symbol) == text' = Append(text, symbol) /\ UNCHANGED <<subject, header, conditionVars, frameVars, vars>>

-----------------------------------------------------------------------------
(* JSON: the language as the set of all texts with their values. *)

Word(words, value) == [words |-> words, value |-> value]

(* Sequences of at most two. *)
UpToTwo(S) == {<<>>} \cup {<<x>> : x \in S} \cup {<<x, y>> : x, y \in S}

TextsOf(words) == [i \in DOMAIN words |-> words[i].words]

Arrays(S) == {Word(<<"[">> \o Joined(TextsOf(ws)) \o <<"]">>,
                   CanonicalArray([i \in DOMAIN ws |-> ws[i].value])) : ws \in UpToTwo(S)}

Objects(S, doubled) ==
  LET Member(n, w) == [name |-> n, of |-> w]
      lists == {ms \in UpToTwo({Member(n, w) : n \in Names, w \in S}) :
                  Len(ms) = 2 /\ ~doubled => ms[1].name # ms[2].name}
  IN  {Word(<<"{">> \o Joined([i \in DOMAIN ms |-> <<ms[i].name, ":">> \o ms[i].of.words]) \o <<"}">>,
            CanonicalObject([n \in {ms[i].name : i \in DOMAIN ms} |->
                               ms[CHOOSE i \in DOMAIN ms : ms[i].name = n].of.value])) : ms \in lists}

RECURSIVE Language(_, _)
Language(depth, doubled) ==
  LET inner == IF depth = 0 THEN {} ELSE Language(depth - 1, doubled)
  IN  {w \in {Word(<<t>>, <<t>>) : t \in Names \cup Scalars} \cup Arrays(inner) \cup Objects(inner, doubled) :
         Len(w.words) <= MaxTokens}

Sentences == Language(MaxNesting, FALSE)

Written == {w.words : w \in Sentences}

(* Inputs go one level deeper, and may have a name twice. *)
Begun == UNION {{SubSeq(w.words, 1, n) : n \in 0..Len(w.words)} : w \in Language(MaxNesting + 1, TRUE)}

(* A text grows until it is no longer the beginning of one of them. *)
AddToken(token) ==
  /\ subject = "json" /\ text \in Begun /\ Len(text) < MaxTokens
  /\ Feed(token)

(* The reader accepts the texts of the grammar, up to the nesting and with *)
(* distinct names, and nothing else; blanks make no difference, it reads   *)
(* the value that was written, and canonical text reads back as itself.    *)
ParserAgreesWithGrammar ==
  subject = "json" =>
    LET read == parse_json(text)
    IN  /\ Failed(read) = (text \notin Written)
        /\ ~Failed(read) => \A w \in {s \in Sentences : s.words = text} :
             /\ read.value = w.value
             /\ parse_json(read.value).value = read.value
             /\ parse_json(FlattenSeq([i \in DOMAIN text |-> <<" ", text[i]>>])).value = w.value

-----------------------------------------------------------------------------
(* Strings. *)

AddByte(b) ==
  /\ subject = "bytes" /\ Len(text) < MaxBytes
  /\ Feed(b)

(* The well-formed byte sequences, as the Unicode standard lists them. *)
WellFormed1(s) ==
  LET Continues(i, lo, hi) == i <= Len(s) /\ s[i] \in lo..hi
  IN  CASE s[1] \in 0..127   -> 1
        [] s[1] \in 194..223 /\ Continues(2, 128, 191) -> 2
        [] s[1] \in 224..239 /\ Continues(3, 128, 191)
             /\ Continues(2, IF s[1] = 224 THEN 160 ELSE 128, IF s[1] = 237 THEN 159 ELSE 191) -> 3
        [] s[1] \in 240..244 /\ Continues(3, 128, 191) /\ Continues(4, 128, 191)
             /\ Continues(2, IF s[1] = 240 THEN 144 ELSE 128, IF s[1] = 244 THEN 143 ELSE 191) -> 4
        [] OTHER -> 0

RECURSIVE WellFormed(_)
WellFormed(s) ==
  s = <<>> \/ (WellFormed1(s) > 0 /\ WellFormed(SubSeq(s, WellFormed1(s) + 1, Len(s))))

AddUnit(u) ==
  /\ subject = "units" /\ Len(text) < MaxUnits
  /\ Feed(u)

High(u) == u \in 55296..56319
Low(u)  == u \in 56320..57343

(* The code points of a sequence of UTF-16 units. *)
Paired(us) == \A i \in DOMAIN us : /\ High(us[i]) => i < Len(us) /\ Low(us[i + 1])
                                   /\ Low(us[i]) => i > 1 /\ High(us[i - 1])

Points(us) ==
  LET starts == SelectSeq([i \in DOMAIN us |-> i], LAMBDA i : ~Low(us[i]))
  IN  [j \in DOMAIN starts |->
         LET i == starts[j]
         IN  IF High(us[i]) THEN 65536 + (us[i] - 55296) * 1024 + (us[i + 1] - 56320) ELSE us[i]]

EscapedUnit(u) == <<Backslash, LetterU>> \o
  [i \in 1..4 |-> HexDigit((u \div 16^(4 - i)) % 16)]

Escaping(us) == <<Quote>> \o FlattenSeq([i \in DOMAIN us |-> EscapedUnit(us[i])]) \o <<Quote>>

(* Exactly the well-formed texts are let through, and each of them reads   *)
(* back as it was before it was quoted: what a checksum was taken of is    *)
(* what a restart compares it with.  Escapes decode to the code points of  *)
(* their UTF-16 units; a surrogate without its partner is refused.         *)
StringsRoundTrip ==
  /\ subject = "bytes" =>
       /\ validate_utf8(text) = WellFormed(text)
       /\ WellFormed(text) => string(quote_json(text)) = text
  /\ subject = "units" =>
       string(Escaping(text)) = IF Paired(text)
                                THEN FlattenSeq([j \in DOMAIN Points(text) |-> utf8(Points(text)[j])])
                                ELSE Invalid

-----------------------------------------------------------------------------
(* HTTP answers: all chunked bodies with up to two chunks. *)

Payloads == {<<"x">>, <<"R">>, <<"x", "x">>, <<"L", "1">>}

Sizes(n) == {<<Digits[n + 1]>>, <<"0", Digits[n + 1]>>}

Chunked(chunks) ==
  LET Chunk(size, c) == size \o <<"R", "L">> \o c \o <<"R", "L">>
      ends == {size \o <<"R", "L", "R", "L">> : size \in Sizes(0)}
  IN  CASE Len(chunks) = 0 -> ends
        [] Len(chunks) = 1 -> {Chunk(z, chunks[1]) \o e : z \in Sizes(Len(chunks[1])), e \in ends}
        [] OTHER -> {Chunk(z, chunks[1]) \o Chunk(<<Digits[Len(chunks[2]) + 1]>>, chunks[2]) \o e :
                       z \in Sizes(Len(chunks[1])), e \in ends}

Bodies == UNION {{Word(b, FlattenSeq(cs)) : b \in Chunked(cs)} : cs \in UpToTwo(Payloads)}

Arriving == UNION {{SubSeq(b.words, 1, n) : n \in 0..Len(b.words)} : b \in Bodies}

Fields == {[name |-> "content-length", value |-> <<"0">>], [name |-> "content-length", value |-> <<"2">>],
           [name |-> "content-length", value |-> <<"x">>],
           [name |-> "transfer-encoding", value |-> <<"chunked">>],
           [name |-> "transfer-encoding", value |-> <<"x">>],
           [name |-> "retry-after", value |-> <<"1">>], [name |-> "retry-after", value |-> <<"2">>]}

AddToBody(b) ==
  /\ subject = "http" /\ text \in Arriving
  /\ Feed(b)

Stated(name) == {i \in DOMAIN header : header[i].name = name}

(* An answer that says how long it is is taken only when it is all there   *)
(* and nothing follows: no beginning of it passes for the answer itself.   *)
(* A chunked answer gives the bytes of its chunks, up to the limit.        *)
ResponseIsWhole ==
  subject = "http" =>
    LET answer  == parse_http_response(header, text)
        chunked == Len(header) = 1 /\ header[1] = [name |-> "transfer-encoding", value |-> <<"chunked">>]
        meant   == {b \in Bodies : b.words = text /\ Len(b.value) <= MaxBody}
    IN  /\ answer.ok /\ Stated("content-length") \cup Stated("transfer-encoding") # {} =>
             \A n \in 0..(Len(text) - 1) : ~parse_http_response(header, SubSeq(text, 1, n)).ok
        /\ chunked => /\ answer.ok = (meant # {})
                      /\ \A b \in meant : answer.body = b.value
        /\ Cardinality(Stated("content-length") \cup Stated("transfer-encoding")) > 1 => ~answer.ok

-----------------------------------------------------------------------------
(* The condition model and the frames, in histories of bounded length. *)

AddEpisode(f, samples, id) ==
  /\ Len(past) < MaxEpisodes /\ Apply(f, samples, id)
  /\ UNCHANGED <<subject, text, header, frameVars, vars>>

Samplings == [epoch: Epochs, quality: {"good"}] \cup
           {[epoch |-> 1, quality |-> "unusable"], [epoch |-> 1, quality |-> "implausible"]}

AddEntries(update, wall) ==
  /\ Len(updates) < MaxUpdates /\ AddUpdate(update, wall)
  /\ UNCHANGED <<subject, text, header, conditionVars, vars>>

-----------------------------------------------------------------------------
AInit ==
  /\ subject \in {"condition", "json", "bytes", "units", "http", "frames", "ledger"}
  /\ text = <<>> /\ ConditionInit /\ FrameInit /\ Init
  /\ header \in IF subject = "http" THEN UpToTwo(Fields) ELSE {<<>>}

ANext ==
  \/ subject = "condition" /\ \E f \in Features, samples \in Samples, id \in Ids : AddEpisode(f, samples, id)
  \/ \E token \in Tokens \ {" "} : AddToken(token)
  \/ \E b \in ByteSet : AddByte(b)
  \/ \E u \in Units : AddUnit(u)
  \/ \E b \in {"0", "1", "2", "x", "R", "L"} : AddToBody(b)
  \/ /\ subject = "frames"
     /\ \E some \in SUBSET Signals : \E update \in [some -> Samplings], wall \in Walls : AddEntries(update, wall)
  \/ subject = "ledger" /\ Next /\ UNCHANGED <<subject, text, header, conditionVars, frameVars>>

ASpec == AInit /\ [][ANext]_avars
=============================================================================
