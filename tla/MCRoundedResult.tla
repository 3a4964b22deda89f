--------------------------- MODULE MCRoundedResult ---------------------------
(* One-digit receivers and two-digit operands: every remainder and tie     *)
(* near zero, and the results that do not fit, just and by far.            *)
EXTENDS RoundedResult

Numerators == (-24..24) \union {-105, -100, -99, -96, -95, -94, 94, 95, 96, 99, 100, 105}
ProductOperands == Numerators \X {10}
QuotientOperands == Numerators \X ((-4..4) \union {-10, 10})
Stale == {0, 2}
=============================================================================
