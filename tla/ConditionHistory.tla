-------------------------- MODULE ConditionHistory --------------------------
(***************************************************************************)
(* The condition model under every sequence of episodes, with the history  *)
(* of the raw bands it was given and of the bands it accepted.             *)
(***************************************************************************)
EXTENDS ConditionModel

CONSTANTS Levels, Samples  \* feature values, sample counts

VARIABLES
  model,  \* ModelState
  past    \* history: each raw band with the band accepted after it

conditionVars == <<model, past>>

Features == [longitudinal: Levels, lateral: Levels, dispersion: Levels, persistence: Levels]

Apply(f, samples, id) ==
  /\ Assessable(model, f, samples, id)
  /\ model' = Assess(model, Raw(Score(f)), id)
  /\ past' = Append(past, [raw |-> Raw(Score(f)), band |-> model'.band])

ConditionInit == model = FreshModel /\ past = <<>>

ConditionNext == \E f \in Features, samples \in Samples, id \in Ids : Apply(f, samples, id)

ConditionSpec == ConditionInit /\ [][ConditionNext]_conditionVars

-----------------------------------------------------------------------------
BandBefore(n) == IF n = 1 THEN NotEvaluated ELSE past[n - 1].band

(* The third equal raw band in a row that is better than the accepted one, *)
(* which did not move in between.                                          *)
ThirdBetter(n) ==
  /\ n >= 3 /\ past[n].raw < BandBefore(n)
  /\ \A i \in {n - 2, n - 1} : past[i].raw = past[n].raw /\ BandBefore(i) = BandBefore(n)

(* The counters kept between episodes give the band that the history of    *)
(* raw bands alone gives: worse at once, better after three in a row.      *)
BandFollowsHistory ==
  \A n \in DOMAIN past :
    past[n].band = IF \/ n = 1 \/ past[n].raw > BandBefore(n) \/ ThirdBetter(n)
                   THEN past[n].raw ELSE BandBefore(n)
=============================================================================
