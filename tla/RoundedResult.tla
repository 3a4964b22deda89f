---------------------------- MODULE RoundedResult ----------------------------
(***************************************************************************)
(* One `round(...)` or `divide(...)` stored in a field, as cobol-backend   *)
(* generates it (emitRounded, emitRoundingAdjustment, emitCompute).        *)
(*                                                                         *)
(* Every value is in units that make it an integer.  The exact result is   *)
(* n/d units of the receiving field's last place: for a product, d is the  *)
(* power of ten between the two scales, and for a quotient n and d are the *)
(* dividend and the divisor at a common scale.  A field of p digits holds  *)
(* the magnitudes below its limit, 10^p in the receiver's own units, and   *)
(* a store that is not guarded by ON SIZE ERROR drops the digits above.    *)
(*                                                                         *)
(* HALF_UP and DOWN are phrases COBOL has.  The other modes truncate into  *)
(* a work field, measure what truncation discarded, and step the last      *)
(* place when the mode says to.                                            *)
(***************************************************************************)
EXTENDS Integers

CONSTANTS
    RoundingLimit,      \* the receiver, VALUE and UNITS hold magnitudes below it
    DividendLimit,      \* DIVIDEND likewise
    DivisorLimit,       \* DIVISOR likewise
    ExcessLimit,        \* EXCESS likewise, in units of the operand
    Products,           \* the operands <<n, d>> of a rounded product
    Quotients,          \* those of a rounded division
    Leftovers           \* what a work field may hold from its last use

RoundingModes == {"HALF_UP", "DOWN", "HALF_EVEN", "HALF_DOWN", "UP", "CEILING", "FLOOR"}
NativeModes == {"HALF_UP", "DOWN"}

ASSUME RoundingAssumption ==
    /\ RoundingLimit \in Nat /\ RoundingLimit > 1
    /\ DividendLimit \in Nat \ {0} /\ DivisorLimit \in Nat \ {0}
    /\ ExcessLimit \in Nat \ {0}
    /\ Products \subseteq Int \X (1..ExcessLimit)
    /\ Quotients \subseteq Int \X Int
    /\ Leftovers \subseteq (1 - RoundingLimit)..(RoundingLimit - 1)

VARIABLES
    asked,              \* the statement: its mode, shape, operands, and place
    stage,              \* the next statement generated for it
    dividend, divisor,  \* BANK-RND-n-DIVIDEND, -DIVISOR; for a product n and d
    value,              \* BANK-RND-n-VALUE
    excess,             \* BANK-RND-n-EXCESS, or -REMAINDER
    stepping,           \* BANK-RND-n-STEP
    target,             \* the receiving field
    overflow            \* "no", "step" (the step failed) or "sort" (SORT-RETURN 16)

roundVars == <<asked, stage, dividend, divisor, value, excess, stepping, target, overflow>>

-----------------------------------------------------------------------------
Abs(v) == IF v < 0 THEN -v ELSE v

(* What a field keeps of a value stored in it without ON SIZE ERROR.       *)
Held(v, limit) == IF v < 0 THEN -(Abs(v) % limit) ELSE Abs(v) % limit

(* n/d without its fraction, and n/d by COBOL's own ROUNDED.               *)
Quotient(n, d) ==
    IF (n < 0) = (d < 0) THEN Abs(n) \div Abs(d) ELSE -(Abs(n) \div Abs(d))
Away(n, d) == IF (n < 0) = (d < 0) THEN 1 ELSE -1
RoundedPhrase(n, d) ==
    IF 2 * Abs(n - Quotient(n, d) * d) >= Abs(d)
    THEN Quotient(n, d) + Away(n, d) ELSE Quotient(n, d)

(* What ON SIZE ERROR lets through.                                        *)
FitsLoosely(v) == Abs(v) < RoundingLimit - 1                             \* a mutant
Fits(v) == Abs(v) < RoundingLimit

Statements(shape, operands) ==
    {[mode |-> m, shape |-> shape, n |-> nd[1], d |-> nd[2], sorting |-> s] :
        m \in RoundingModes, nd \in operands, s \in BOOLEAN}

Requests == Statements("product", Products) \union Statements("quotient", Quotients)

RoundInit ==
    /\ asked \in Requests
    /\ stage = IF asked.mode \in NativeModes THEN "compute" ELSE "load"
    /\ dividend = 0 /\ divisor = 1
    /\ value \in Leftovers
    /\ excess = 0 /\ stepping = 1
    /\ target \in Leftovers
    /\ overflow = "no"

(* ON SIZE ERROR: the step fails and leaves the routine; in a procedure of *)
(* a sort, which control may not leave, SORT-RETURN is set and what is     *)
(* generated next runs.                                                    *)
SizeError(next) ==
    /\ overflow' = IF asked.sorting THEN "sort" ELSE "step"
    /\ stage' = IF asked.sorting THEN next ELSE "left"

(* A native mode: COMPUTE ... ROUNDED, or without the phrase.              *)
Native == IF asked.mode = "HALF_UP" THEN RoundedPhrase(asked.n, asked.d)
                                    ELSE Quotient(asked.n, asked.d)
Compute ==
    /\ stage = "compute"
    /\ IF asked.d # 0 /\ Fits(Native)
       THEN target' = Native /\ stage' = "done" /\ UNCHANGED overflow
       ELSE SizeError("done") /\ UNCHANGED target
    /\ UNCHANGED <<asked, dividend, divisor, value, excess, stepping>>

(* A quotient's operands go to fields of their own, unguarded.             *)
Load ==
    /\ stage = "load"
    /\ dividend' = IF asked.shape = "quotient" THEN Held(asked.n, DividendLimit) ELSE asked.n
    /\ divisor' = IF asked.shape = "quotient" THEN Held(asked.d, DivisorLimit) ELSE asked.d
    /\ stage' = "truncate"
    /\ UNCHANGED <<asked, value, excess, stepping, target, overflow>>

(* COMPUTE VALUE, or DIVIDE GIVING VALUE REMAINDER.                        *)
Truncate ==
    /\ stage = "truncate"
    /\ IF divisor # 0 /\ Fits(Quotient(dividend, divisor))
       THEN /\ value' = Quotient(dividend, divisor)
            /\ excess' = IF asked.shape = "quotient"
                         THEN dividend - Quotient(dividend, divisor) * divisor ELSE excess
            /\ stage' = "measure"
            /\ UNCHANGED overflow
       ELSE SizeError("measure") /\ UNCHANGED <<value, excess>>
    /\ UNCHANGED <<asked, dividend, divisor, stepping, target>>

(* EXCESS, for a product, and the way STEP goes.                           *)
Discarded == IF asked.shape = "quotient" THEN excess
             ELSE Held(dividend - value * divisor, ExcessLimit)
ExcessSign(e, d) == IF e < 0 THEN -1 ELSE 1                              \* a mutant
StepSign(e, d) == IF (e < 0 /\ d > 0) \/ (e > 0 /\ d < 0) THEN -1 ELSE 1

Measure ==
    /\ stage = "measure"
    /\ excess' = Discarded
    /\ stepping' = StepSign(Discarded, divisor)
    /\ stage' = "adjust"
    /\ UNCHANGED <<asked, dividend, divisor, value, target, overflow>>

(* emitRoundingAdjustment: whether the mode takes the step.                *)
TakesStep(mode, v, e, d, s) ==
    CASE mode = "UP"        -> e # 0
      [] mode = "CEILING"   -> e # 0 /\ s > 0
      [] mode = "FLOOR"     -> e # 0 /\ s < 0
      [] mode = "HALF_DOWN" -> 2 * Abs(e) > Abs(d)
      [] mode = "HALF_EVEN" -> 2 * Abs(e) > Abs(d) \/ (2 * Abs(e) = Abs(d) /\ v % 2 = 1)
      [] OTHER              -> FALSE

(* ADD STEP TO VALUE, unguarded.                                           *)
Adjust ==
    /\ stage = "adjust"
    /\ value' = IF TakesStep(asked.mode, value, excess, divisor, stepping)
                THEN Held(value + stepping, RoundingLimit) ELSE value
    /\ stage' = "store"
    /\ UNCHANGED <<asked, dividend, divisor, excess, stepping, target, overflow>>

Store ==
    /\ stage = "store"
    /\ target' = value
    /\ stage' = "done"
    /\ UNCHANGED <<asked, dividend, divisor, value, excess, stepping, overflow>>

RoundNext == Compute \/ Load \/ Truncate \/ Measure \/ Adjust \/ Store
RoundSpec == RoundInit /\ [][RoundNext]_roundVars

-----------------------------------------------------------------------------
(* What each mode means: r is n/d rounded, e is what is left of n.  The    *)
(* definitions are by the distance and the side of r, not by how it is     *)
(* found.                                                                  *)
Below(e, d) == IF d > 0 THEN 0 <= e /\ e < d ELSE d < e /\ e <= 0
Above(e, d) == IF d > 0 THEN -d < e /\ e <= 0 ELSE 0 <= e /\ e < -d
Towards(e, n, d) == IF (n < 0) = (d < 0) THEN Below(e, d) ELSE Above(e, d)
Beyond(e, n, d) == IF (n < 0) = (d < 0) THEN Above(e, d) ELSE Below(e, d)
Nearest(e, d) == 2 * Abs(e) <= Abs(d)
Tie(e, d) == 2 * Abs(e) = Abs(d)

IsRounding(mode, n, d, r) ==
    LET e == n - r * d
    IN  CASE mode = "DOWN"      -> Towards(e, n, d)
          [] mode = "UP"        -> Beyond(e, n, d)
          [] mode = "CEILING"   -> Above(e, d)
          [] mode = "FLOOR"     -> Below(e, d)
          [] mode = "HALF_UP"   -> Nearest(e, d) /\ (Tie(e, d) => Beyond(e, n, d))
          [] mode = "HALF_DOWN" -> Nearest(e, d) /\ (Tie(e, d) => Towards(e, n, d))
          [] mode = "HALF_EVEN" -> Nearest(e, d) /\ (Tie(e, d) => r % 2 = 0)

OperandsFit ==
    asked.shape = "quotient" => Abs(asked.n) < DividendLimit /\ Abs(asked.d) < DivisorLimit

Rounds(r) == IsRounding(asked.mode, asked.n, asked.d, r)
Holdable == (1 - RoundingLimit)..(RoundingLimit - 1)

(* Every field keeps to its picture.                                       *)
RoundTypeOK ==
    /\ asked \in Requests
    /\ stage \in {"compute", "load", "truncate", "measure", "adjust", "store", "left", "done"}
    /\ dividend \in Int /\ divisor \in Int
    /\ value \in Holdable /\ target \in Holdable
    /\ excess \in Int
    /\ stepping \in {-1, 1}
    /\ overflow \in {"no", "step", "sort"}

(* A result stored with no overflow reported is the mode's rounding of the *)
(* exact value, for both shapes, either sign and every tie; unless the     *)
(* last place was already all nines, and the step took it to zero          *)
(* (emitRounded, "provable rather than asserted").                         *)
OnlyTheLastStepWraps ==
    stage = "done" /\ overflow = "no" /\ OperandsFit =>
        \/ asked.d # 0 /\ Rounds(target)
        \/ Abs(Quotient(asked.n, asked.d)) = RoundingLimit - 1 /\ target = 0

(* An overflow is reported only when there is no such result, or no        *)
(* rounding of it that the field can hold (emitCompute).                   *)
NoFalseAlarm ==
    overflow # "no" /\ OperandsFit => asked.d = 0 \/ ~ \E r \in Holdable : Rounds(r)

(* "Every computation is emitted with ON SIZE ERROR ... the wrong value    *)
(* never reaches the ledger" (docs/language/expressions.md).  Not so of    *)
(* the step of a generated mode, nor of the operands of a division.        *)
OverflowStops == stage = "done" => overflow # "no" \/ Rounds(target)
=============================================================================
