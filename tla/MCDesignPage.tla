---------------------------- MODULE MCDesignPage ----------------------------
(***************************************************************************)
(* Reports of up to four findings: every type in two dimensions, findings  *)
(* without a dimension, equal findings.                                    *)
(***************************************************************************)
EXTENDS DesignPage

CONSTANTS fit, cost

MCDimension == {fit, cost}

F(cls, dim) == [classification |-> cls, dimension |-> dim]

MCReports ==
  {<<F("risk", fit), F("strength", Absent), F("open-question", cost), F("risk", cost)>>,
   <<F("open-question", Absent), F("open-question", fit), F("open-question", Absent)>>,
   <<F("strength", cost)>>,
   <<>>}
=============================================================================
