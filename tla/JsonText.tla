------------------------------ MODULE JsonText ------------------------------
(***************************************************************************)
(* The structure of JSON as the service reads and writes it (class Parser  *)
(* of src/runtime/json.cpp and canonical of src/runtime/protocol.cpp).     *)
(* Every file, message and receipt passes through it, and checksums and    *)
(* message keys are taken of the canonical text.                           *)
(*                                                                         *)
(* A text is a sequence of tokens; a string, a number or a literal is one  *)
(* token (JsonString models strings).  A value is its canonical text.      *)
(***************************************************************************)
EXTENDS Integers, Sequences, SequencesExt

CONSTANT MaxNesting  \* 24 in the code

(* Two strings, in the order of std::map, and a number. *)
NameOrder == <<"a", "b">>
Names     == {"a", "b"}
Scalars   == {"1"}
Tokens    == Names \cup Scalars \cup {"{", "}", "[", "]", ",", ":", " "}

-----------------------------------------------------------------------------
(* canonical: members in the order of their names, no blanks. *)

Joined(texts) == FoldLeft(LAMBDA all, t : IF all = <<>> THEN t ELSE all \o <<",">> \o t, <<>>, texts)

CanonicalArray(texts) == <<"[">> \o Joined(texts) \o <<"]">>

(* members: a function from some of the names to texts. *)
CanonicalObject(members) ==
  LET there == SelectSeq(NameOrder, LAMBDA name : name \in DOMAIN members)
  IN  <<"{">> \o Joined([i \in DOMAIN there |-> <<there[i], ":">> \o members[there[i]]]) \o <<"}">>

-----------------------------------------------------------------------------
(* The reader.  Reading from a position gives the position behind the      *)
(* value, and the value; position 0 stands for invalid().                  *)

Read(pos, value) == [pos |-> pos, value |-> value]

invalid == Read(0, <<>>)

Failed(read) == read.pos = 0

At(text, pos) == IF pos \in DOMAIN text THEN text[pos] ELSE "end"

RECURSIVE space(_, _)
space(text, pos) == IF At(text, pos) = " " THEN space(text, pos + 1) ELSE pos

(* take(token) succeeds, and the position behind it. *)
Takes(text, pos, token) == At(text, space(text, pos)) = token

Behind(text, pos) == space(text, pos) + 1

With(members, name, value) ==
  [n \in DOMAIN members \cup {name} |-> IF n = name THEN value ELSE members[n]]

RECURSIVE item(_, _, _), Members(_, _, _, _), Elements(_, _, _, _)

(* Mutant of emplace: the last of two members with one name wins. *)
emplaceOver(members, name) == TRUE

(* emplace refuses a name that is there. *)
emplace(members, name) == name \notin DOMAIN members

(* The members from pos up to the closing brace. *)
Members(text, pos, depth, members) ==
  LET name  == At(text, space(text, pos))
      colon == Behind(text, pos)
      value == IF name \in Names /\ Takes(text, colon, ":")
               THEN item(text, Behind(text, colon), depth + 1) ELSE invalid
      more  == With(members, name, value.value)
  IN  CASE Failed(value) \/ ~emplace(members, name) -> invalid
        [] Takes(text, value.pos, ",") -> Members(text, Behind(text, value.pos), depth, more)
        [] Takes(text, value.pos, "}") -> Read(Behind(text, value.pos), CanonicalObject(more))
        [] OTHER -> invalid

Elements(text, pos, depth, texts) ==
  LET value == item(text, pos, depth + 1)
      more  == Append(texts, value.value)
  IN  CASE Failed(value) -> invalid
        [] Takes(text, value.pos, ",") -> Elements(text, Behind(text, value.pos), depth, more)
        [] Takes(text, value.pos, "]") -> Read(Behind(text, value.pos), CanonicalArray(more))
        [] OTHER -> invalid

item(text, from, depth) ==
  LET pos   == space(text, from)
      token == At(text, pos)
  IN  CASE depth > MaxNesting -> invalid
        [] token \in Names \cup Scalars -> Read(pos + 1, <<token>>)
        [] token = "{" -> IF Takes(text, pos + 1, "}") THEN Read(Behind(text, pos + 1), CanonicalObject(<<>>))
                                                       ELSE Members(text, pos + 1, depth, <<>>)
        [] token = "[" -> IF Takes(text, pos + 1, "]") THEN Read(Behind(text, pos + 1), CanonicalArray(<<>>))
                                                       ELSE Elements(text, pos + 1, depth, <<>>)
        [] OTHER -> invalid

(* Nothing may follow the value. *)
parse_json(text) ==
  LET read == item(text, 1, 0)
  IN  IF ~Failed(read) /\ space(text, read.pos) = Len(text) + 1 THEN read ELSE invalid
=============================================================================
