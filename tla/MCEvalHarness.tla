-------------------------- MODULE MCEvalHarness ---------------------------
(***************************************************************************)
(* Cases in the manner of cases.json: one that plants an issue and narrows *)
(* it to a classification, some that forbid a finding of a classification, *)
(* of a dimension or of both and expect a check to be not applicable, and  *)
(* one without a fixture.  The agent writes documents that pass and that   *)
(* fail at the gate and at the grading.                                    *)
(***************************************************************************)
EXTENDS EvalHarness

CONSTANTS f1, f2, c1, c2, x, bulk, throughput

MCFindingId == {f1, f2}
MCCheckId   == {c1, c2}
MCTarget    == {x}
MCDimension == {"scalability", "observability"}
MCManifest  == [d \in MCDimension |-> IF d = "scalability" THEN {c1} ELSE {c2}]
MCOverrides == [t \in {"cli-tool"} |-> [d \in {"observability"} |-> "informational"]]
MCPattern   == {bulk, throughput}
MCSays      == [f \in MCFindingId |-> IF f = f1 THEN {bulk} ELSE {bulk, throughput}]
MCAbout     == [f \in MCFindingId |-> IF f = f1 THEN "observability" ELSE "scalability"]

CaseOf(runnable, find, not, na) ==
  [runnable |-> runnable, must_find |-> find, must_not_find |-> not,
   expected_not_applicable |-> na]

Saying(p, cls, dim) == [match |-> p, classification |-> cls, dimension |-> dim]

MCCases ==
  {CaseOf(TRUE, {Saying(bulk, "gap", Absent)}, {}, {}),
   CaseOf(TRUE, {}, {Saying(throughput, "risk", "scalability")}, {c1}),
   CaseOf(TRUE, {Saying(bulk, Absent, Absent)}, {Saying(throughput, "risk", Absent),
                                                 Saying(bulk, Absent, "scalability")}, {}),
   CaseOf(FALSE, {}, {}, {})}

F(id, cls) ==
  [id |-> id, classification |-> cls, dimension |-> "known", severity |-> "low",
   texts |-> TRUE, recommendation |-> FALSE,
   evidence |-> {[file |-> "present", line |-> "positive"]},
   external |-> FALSE, searched |-> FALSE]

C(id, status, fids) ==
  [id |-> id, scope |-> {}, status |-> status, finding_ids |-> fids,
   finding_id |-> NoId, evidence |-> TRUE, reason |-> TRUE]

MCWritten ==
  [findings |-> {<<>>, <<F(f1, "gap")>>, <<F(f1, "risk")>>, <<F(f1, "gap"), F(f2, "risk")>>,
                 <<[F(f1, "gap") EXCEPT !.evidence = {}]>>},
   checks   |-> {<<C(c1, "not-applicable", <<>>)>>,
                 <<C(c1, "clean", <<>>), C(c2, "not-applicable", <<>>)>>,
                 <<C(c1, "risk", <<f2>>)>>},
   context  |-> {[system_type |-> "cli-tool"], [system_type |-> Absent]}]
===========================================================================
