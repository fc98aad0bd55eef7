------------------------------- MODULE Figures -------------------------------
(***************************************************************************)
(* What the code's decimal figures need: a figure nobody wrote down, the     *)
(* lesser of two, a division rounded half up, sums over the rows of a list.  *)
(***************************************************************************)
EXTENDS Integers, Sequences, FiniteSetsExt

None == -1
Or0(x) == IF x = None THEN 0 ELSE x
Lesser(a, b) == IF a < b THEN a ELSE b
NonNegative(a) == IF a < 0 THEN 0 ELSE a
HalfUp(a, b) == (2 * a + b) \div (2 * b)
SumOf(q) == SumFunctionOnSet(q, DOMAIN q)
SumWhere(q, P(_)) == SumOf([i \in DOMAIN q |-> IF P(i) THEN q[i] ELSE 0])
=============================================================================
