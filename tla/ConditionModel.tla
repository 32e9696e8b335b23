--------------------------- MODULE ConditionModel ---------------------------
(***************************************************************************)
(* The tire condition model (src/model.cpp, assess): four features in      *)
(* basis points give a score, the score a raw band, and the accepted band  *)
(* follows it at once when it worsens and after three equal raw bands in a *)
(* row when it improves.  A bounded list of recent episodes keeps an       *)
(* episode from being counted twice.                                       *)
(***************************************************************************)
EXTENDS Integers, Sequences

CONSTANTS Ids,           \* episode identities
          RecentLimit,   \* 128 in the code
          NoId           \* no episode yet

ASSUME RecentAssumption == RecentLimit \in Nat \ {0}

(* enum class Band: a larger value is a worse condition. *)
NotEvaluated == -1
Good         == 0
Inspection   == 1
Replacement  == 2
RawBands     == {Good, Inspection, Replacement}
Bands        == RawBands \cup {NotEvaluated}

Load(f) == (30 * f.longitudinal + 30 * f.lateral + 20 * f.dispersion
              + 20 * f.persistence + 50) \div 100

Score(f) == 100 - (Load(f) + 50) \div 100

Raw(score) == IF score >= 70 THEN Good ELSE IF score >= 40 THEN Inspection ELSE Replacement

(* ModelState, as far as later decisions read it. *)
FreshModel == [band |-> NotEvaluated, better |-> NotEvaluated, count |-> 0,
               last |-> NoId, recent |-> <<>>]

Listed(seq, id) == \E i \in DOMAIN seq : seq[i] = id

Remember(recent, id) ==
  LET r == Append(recent, id) IN IF Len(r) > RecentLimit THEN Tail(r) ELSE r

(* Mutant of Banded: a different better band keeps the count. *)
BandedMixed(m, raw) ==
  IF m.band = NotEvaluated \/ raw > m.band
  THEN [m EXCEPT !.band = raw, !.better = NotEvaluated, !.count = 0]
  ELSE IF raw = m.band THEN [m EXCEPT !.better = NotEvaluated, !.count = 0]
  ELSE IF m.count + 1 >= 3
       THEN [m EXCEPT !.band = raw, !.better = NotEvaluated, !.count = 0]
       ELSE [m EXCEPT !.better = raw, !.count = m.count + 1]

(* The accepted band after one raw band. *)
Banded(m, raw) ==
  LET n == IF m.better = raw THEN m.count + 1 ELSE 1
  IN  IF m.band = NotEvaluated \/ raw > m.band
      THEN [m EXCEPT !.band = raw, !.better = NotEvaluated, !.count = 0]
      ELSE IF raw = m.band THEN [m EXCEPT !.better = NotEvaluated, !.count = 0]
      ELSE IF n >= 3
           THEN [m EXCEPT !.band = raw, !.better = NotEvaluated, !.count = 0]
           ELSE [m EXCEPT !.better = raw, !.count = n]

(* assess refuses an episode it remembers, or one whose samples or         *)
(* features are out of range.                                              *)
Assessable(m, features, samples, id) ==
  /\ samples \in 20..120
  /\ \A c \in DOMAIN features : features[c] \in 0..10000
  /\ ~Listed(m.recent, id)

Assess(m, raw, id) ==
  [Banded(m, raw) EXCEPT !.last = id, !.recent = Remember(m.recent, id)]
=============================================================================
