------------------------------ MODULE Heuristic ------------------------------
(***************************************************************************)
(* heuristic.Heuristic: the range of the values that have been seen, and   *)
(* the score of a value in it, between zero and the weight.  Weights and   *)
(* scores are whole numbers of a unit, One of which are the weight 1; a    *)
(* quotient that does not come out even is rounded down.                   *)
(***************************************************************************)
EXTENDS Integers

CONSTANTS
    One,    \* units of the weight 1
    Grain,  \* units of a thousandth: final scores are multiples of it
    MaxInt  \* math.MaxInt

ASSUME HeuristicAssumption ==
    One \in Nat \ {0} /\ Grain \in Nat \ {0} /\ MaxInt \in Nat

Heuristics ==
    [lowest : Int, highest : Int, lowerIsBetter : BOOLEAN, weight : 0 .. One]

NewFull(lowest, highest, weight, lowerIsBetter) ==
    [lowest |-> lowest, highest |-> highest,
     lowerIsBetter |-> lowerIsBetter, weight |-> weight]

New(weight, lowerIsBetter) == NewFull(MaxInt, 0, weight, lowerIsBetter)

(* Mutant: a new highest value hides a new lowest one.                     *)
UpdateEither(h, value) ==
    IF h.weight = 0 THEN h
    ELSE IF value > h.highest THEN [h EXCEPT !.highest = value]
    ELSE [h EXCEPT !.lowest = IF value < @ THEN value ELSE @]

(* A heuristic without weight does not follow the values.                  *)
Update(h, value) ==
    IF h.weight = 0 THEN h
    ELSE [h EXCEPT !.highest = IF value > @ THEN value ELSE @,
                   !.lowest = IF value < @ THEN value ELSE @]

(* The share of the weight for the place of the value in the range.        *)
Portion(h, value) ==
    ((value - h.lowest) * h.weight) \div (h.highest - h.lowest)

(* Mutant: the score of a high value is not inverted.                      *)
GetScoreUpright(h, value) ==
    IF h.weight = 0 THEN 0
    ELSE IF value = 0 THEN (IF h.lowerIsBetter THEN h.weight ELSE 0)
    ELSE IF h.highest = h.lowest THEN h.weight
    ELSE Portion(h, value)

(* Zero is a special case before the range is looked at.                   *)
GetScore(h, value) ==
    IF h.weight = 0 THEN 0
    ELSE IF value = 0 THEN (IF h.lowerIsBetter THEN h.weight ELSE 0)
    ELSE IF h.highest = h.lowest THEN h.weight
    ELSE IF h.lowerIsBetter THEN h.weight - Portion(h, value)
    ELSE Portion(h, value)

(* math.Round(score * 1000) / 1000, of a score that is not negative.       *)
Rounded(score) == Grain * ((2 * score + Grain) \div (2 * Grain))

(* The values that Update has been given, before GetScore is.              *)
Seen(h, value) == h.lowest <= value /\ value <= h.highest

(* One value is at least as good as another one.                           *)
AsGood(h, a, b) == IF h.lowerIsBetter THEN a <= b ELSE a >= b
=============================================================================
