------------------------------ MODULE FeeRule ------------------------------
(***************************************************************************)
(* The fee rate and the maximum HTLC that Hydrus computes for a channel:   *)
(* calculateNewFeeRate and calculateNewMaxHTLC.  Both work in floating     *)
(* point; where a rounding error may show in the integer result, the       *)
(* result is a set of values.                                              *)
(***************************************************************************)
EXTENDS Integers

CONSTANTS
    MinFeePPMUpdate,  \* minFeePPMUpdate: 10
    DrainedFee,       \* 5,000: fee rate of a channel that is almost empty
    OneWeek           \* oneWeekInBlocks: 1,008

ASSUME FeeAssumption ==
    /\ MinFeePPMUpdate \in Nat \ {0}
    /\ DrainedFee \in Nat
    /\ OneWeek \in Nat

Larger(a, b) == IF a >= b THEN a ELSE b

(* float64(value) / 100 * percent, truncated.  For 5, 10 and 80 percent    *)
(* the result is the exact one.                                            *)
Percentage(value, percent) == (value * percent) \div 100

(* Truncated quotients in floating point: where the exact one is an        *)
(* integer, a rounding error may lose one.                                 *)
Truncated(n, d) == {q \in {n \div d, n \div d - 1} :
                      q >= 0 /\ (q = n \div d \/ n % d = 0)}

(* Only used with fee >= MinFeePPMUpdate.                                  *)
Lower(fee, delta) == fee - Larger(delta, MinFeePPMUpdate)

(* Mutant: small fee rates are not treated apart, and wrap around.         *)
IdleFeeUnguarded(fee) == Lower(fee, Percentage(fee, 10))

(* Without outgoing forwards the fee rate falls by a tenth, below the      *)
(* minimum update to zero.                                                 *)
IdleFee(fee) ==
    IF fee < MinFeePPMUpdate THEN 0 ELSE Lower(fee, Percentage(fee, 10))

(* The share of satoshis that leave, out / (in + out), moves the fee rate  *)
(* by its distance from one half, unless it is between 0.4 and 0.6.        *)
BusyFees(fee, in, out) ==
    LET total == in + out
    IN  IF 10 * out < 4 * total
        THEN IF fee < MinFeePPMUpdate THEN {fee}
             ELSE {Lower(fee, d) : d \in Truncated(fee * (in - out), 2 * total)}
        ELSE IF 10 * out > 6 * total
        THEN {fee + Larger(d, MinFeePPMUpdate) :
                 d \in Truncated(fee * (out - in), 2 * total)}
        ELSE {fee}

ForwardFees(fee, in, out) ==
    IF out = 0 THEN {IdleFee(fee)} ELSE BusyFees(fee, in, out)

Drained(balance, capacity) == balance < Percentage(capacity, 5)

(* calculateNewFeeRate; age is the unsigned difference of two heights.     *)
NewFeeRates(balance, capacity, age, fee, in, out) ==
    IF Drained(balance, capacity) THEN {DrainedFee}
    ELSE UNION {IF balance > most /\ age > OneWeek
                THEN {0} ELSE ForwardFees(fee, in, out) :
                   most \in Truncated(capacity * 95, 100)}

(* calculateNewMaxHTLC, in millisatoshis.                                  *)
NewMaxHTLC(balance) ==
    IF balance < 2 THEN 1000 ELSE Percentage(balance, 80) * 1000
=============================================================================
