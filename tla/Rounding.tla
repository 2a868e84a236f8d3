----------------------------- MODULE Rounding -----------------------------
(***************************************************************************)
(* Python's round, as the two report generators use it for a percentage.   *)
(***************************************************************************)
EXTENDS Integers

\* round(100 * part / whole): a half goes to the even neighbour.
Percent(part, whole) ==
  LET q == (100 * part) \div whole
      r == (100 * part) % whole
  IN  IF 2 * r < whole \/ (2 * r = whole /\ q % 2 = 0) THEN q ELSE q + 1
===========================================================================
