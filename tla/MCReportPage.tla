--------------------------- MODULE MCReportPage ---------------------------
(***************************************************************************)
(* Reports of up to four findings: every severity, a strength that is also *)
(* a confirmed finding, a finding with no severity and no dimension, equal *)
(* findings, more pressing findings than the key panel shows.              *)
(***************************************************************************)
EXTENDS ReportPage

CONSTANTS correctness, scalability

MCDimension == {correctness, scalability}

F(cls, sv, dim, tag) ==
  [classification |-> cls, severity |-> sv, dimension |-> dim, tagged |-> tag]

MCReports ==
  {<<F("confirmed", Absent, Absent, TRUE), F("risk", "high", scalability, FALSE),
     F("strength", "info", scalability, FALSE)>>,
   <<F("risk", "medium", scalability, FALSE), F("gap", "high", correctness, FALSE),
     F("misaligned", "medium", Absent, FALSE), F("risk", "high", scalability, TRUE)>>,
   <<F("risk", "low", scalability, FALSE), F("risk", "low", scalability, FALSE),
     F("confirmed", "info", correctness, FALSE)>>,
   <<>>}
===========================================================================
