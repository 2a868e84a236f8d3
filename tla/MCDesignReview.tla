-------------------------- MODULE MCDesignReview --------------------------
(***************************************************************************)
(* Two findings and up to three check records over two checks, edited one  *)
(* at a time between a report and the next, in a review that may or may    *)
(* not have reached the second repository.  The verdict depends on the     *)
(* findings alone, so a review with check records keeps to few of them.    *)
(***************************************************************************)
EXTENDS DesignReview

CONSTANTS f1, f2, c1, c2, stray, x, y, primary, billing

MCFindingId == {f1, f2}
MCCheckId   == {c1, c2, stray}
MCManifest  == {c1, c2}
MCTarget    == {x, y}
MCLabel     == {primary, billing}

F(id, cls, sv, block) ==
  [id |-> id, classification |-> cls, dimension |-> "known", severity |-> sv,
   blocking |-> block, texts |-> TRUE, recommendation |-> TRUE, question |-> TRUE,
   evidence |-> {[repo |-> primary, file |-> "present", line |-> "positive"]},
   external |-> FALSE, searched |-> FALSE]

\* f1 is a risk that grows and shrinks, f2 whatever else a review finds.
MCFindings ==
  {F(f1, "risk", "high", TRUE), F(f1, "risk", "medium", TRUE), F(f1, "risk", "high", FALSE),
   F(f1, "risk", "medium", FALSE), F(f1, "risk", "low", FALSE),
   F(f2, "open-question", "high", FALSE), F(f2, "open-question", "high", TRUE),
   F(f2, "strength", "null", FALSE), F(f2, "risk", "high", FALSE), F(f2, "risk", "info", TRUE),
   [F(f2, "risk", "medium", FALSE) EXCEPT
      !.evidence = {[repo |-> billing, file |-> "missing", line |-> "none"]},
      !.external = TRUE, !.searched = TRUE]}

C(id, scope, status, fids) ==
  [id |-> id, scope |-> scope, status |-> status, finding_ids |-> fids,
   finding_id |-> NoId, evidence |-> TRUE, reason |-> TRUE]

MCRecords ==
  {C(c1, {x}, "clean", <<>>), C(c1, {y}, "not-assessed", <<>>), C(c1, {x, y}, "not-assessed", <<>>),
   C(c2, {}, "not-assessed", <<>>), C(c2, {x}, "risk", <<f1>>),
   [C(c2, {y}, "open-question", <<>>) EXCEPT !.finding_id = f2], C(stray, {x}, "clean", <<>>)}

Low == F(f1, "risk", "low", FALSE)

FewFindings == {Low, F(f2, "open-question", "high", FALSE)}

MCDrafts ==
  {<<<<Low>>, Absent>>,
   <<<<Low>>, <<C(c1, {x}, "clean", <<>>), C(c2, {}, "not-assessed", <<>>)>>>>}

\* The reviews that are followed further.
CheckedReviewsVaryLittle == checks # Absent => Range(findings) \subseteq FewFindings
===========================================================================
