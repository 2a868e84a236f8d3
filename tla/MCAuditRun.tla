---------------------------- MODULE MCAuditRun ----------------------------
(***************************************************************************)
(* One finding, good or bad, three checks in two dimensions of which a     *)
(* library and a cli-tool are exempt from one each, and up to three        *)
(* records over them: split by scope, not assessed, of an id the gate's    *)
(* manifest does not have, or missing.  The report finds that manifest, a  *)
(* newer one with another check and other overrides, or none.              *)
(***************************************************************************)
EXTENDS AuditRun

CONSTANTS f1, c1, c2, c3, stray, x, y

MCFindingId == {f1}
MCCheckId   == {c1, c2, c3, stray}
MCTarget    == {x, y}
MCDimension == {"scalability", "observability"}
MCManifest  == [d \in MCDimension |-> IF d = "scalability" THEN {c1, c3} ELSE {c2}]
MCOverrides ==
  [t \in {"library", "cli-tool"} |->
     IF t = "library" THEN [d \in {"observability"} |-> "informational"]
     ELSE [d \in MCDimension |-> IF d = "scalability" THEN "not-applicable" ELSE "mandatory"]]

Newer ==
  [checks    |-> [MCManifest EXCEPT !["observability"] = @ \cup {stray}],
   overrides |-> [t \in {"library"} |-> [d \in {"scalability"} |-> "informational"]]]

MCInstalled == {Rubric, Newer}

F ==
  [id |-> f1, classification |-> "risk", dimension |-> "known", severity |-> "low",
   texts |-> TRUE, recommendation |-> FALSE,
   evidence |-> {[file |-> "present", line |-> "positive"]},
   external |-> FALSE, searched |-> FALSE]

C(id, scope, status, fids) ==
  [id |-> id, scope |-> scope, status |-> status, finding_ids |-> fids,
   finding_id |-> NoId, evidence |-> TRUE, reason |-> TRUE]

MCRecords ==
  {C(c1, {x}, st, <<>>) : st \in {"clean", "not-assessed", "other"}}
  \cup {C(c1, {y}, "not-assessed", <<>>), C(c1, {y}, "clean", <<>>), C(c1, {x, y}, "risk", <<f1>>)}
  \cup {C(id, {}, st, <<>>) : id \in {c2, c3}, st \in {"clean", "not-applicable", "not-assessed"}}
  \cup {C(stray, {}, "clean", <<>>)}

MCFindingLists == {<<F>>, <<[F EXCEPT !.evidence = {}]>>}

MCDrafts ==
  MCFindingLists \X {<<>>, <<C(c1, {x}, "other", <<>>), C(c1, {x, y}, "risk", <<f1>>)>>, Absent}
                 \X ({Absent, [system_type |-> Absent, keys |-> FALSE]}
                     \cup [system_type : {"library", "cli-tool", "unknown", Absent},
                           keys : {TRUE}])
===========================================================================
