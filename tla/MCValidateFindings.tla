------------------------ MODULE MCValidateFindings ------------------------
(***************************************************************************)
(* Instances of ValidateFindings: three families of documents.  Findings   *)
(* with one defect each, alone and in pairs; up to three check records     *)
(* that split two targets and two findings between two ids; and records of *)
(* every status under every kind of context.                               *)
(***************************************************************************)
EXTENDS ValidateFindings

CONSTANTS f1, f2, ghost, c1, c2, stray, x, y

MCFindingId == {f1, f2, ghost}
MCCheckId   == {c1, c2, stray}
MCTarget    == {x, y}
MCDimension == {"scalability", "observability"}
MCManifest  == [d \in MCDimension |-> IF d = "scalability" THEN {c1} ELSE {c2}]
MCOverrides == [t \in {"production-service", "library", "prototype"} |->
                  IF t = "production-service" THEN <<>>
                  ELSE IF t = "library" THEN [d \in {"observability"} |-> "informational"]
                  ELSE [d \in MCDimension |-> IF d = "observability" THEN "mandatory"
                                                                    ELSE "not-applicable"]]

UpTo(k, S) == UNION {[1 .. m -> S] : m \in 0 .. k}

Cited == [file |-> "present", line |-> "positive"]

GoodF(id) ==
  [id |-> id, classification |-> "risk", dimension |-> "known", severity |-> "high",
   texts |-> TRUE, recommendation |-> TRUE, evidence |-> {Cited},
   external |-> FALSE, searched |-> FALSE]

\* f1 with a field that is wrong, or unusual and right.
Variants ==
  LET f == GoodF(f1) IN
    {[f EXCEPT !.classification = "null"],
     [f EXCEPT !.classification = "confirmed", !.recommendation = FALSE],
     [f EXCEPT !.dimension = "other"], [f EXCEPT !.dimension = "null"],
     [f EXCEPT !.severity = "other"], [f EXCEPT !.severity = "critical"],
     [f EXCEPT !.severity = "null", !.recommendation = FALSE],
     [f EXCEPT !.texts = FALSE], [f EXCEPT !.recommendation = FALSE],
     [f EXCEPT !.evidence = {}]}
    \cup {[f EXCEPT !.evidence = {Cited, [file |-> fi, line |-> li]},
                    !.external = ex, !.searched = se] :
            fi \in {"none", "present", "missing"}, li \in {"none", "positive", "invalid"},
            ex \in BOOLEAN, se \in BOOLEAN}

Ordinary == {GoodF(f1), GoodF(f2), GoodF(NoId)}

C(id, scope, status, fids) ==
  [id |-> id, scope |-> scope, status |-> status, finding_ids |-> fids,
   finding_id |-> NoId, evidence |-> TRUE, reason |-> TRUE]

Both == <<GoodF(f1), GoodF(f2)>>

SplitRecords ==
  {C(id, sc, "risk", fs) : id \in {c1, c2}, sc \in SUBSET MCTarget,
                           fs \in {<<f1>>, <<f1, f2>>}}
  \cup {C(id, sc, "clean", <<>>) : id \in {c1, c2}, sc \in SUBSET MCTarget}

StatusRecords ==
  {C(id, {x}, st, fs) : id \in {c1, c2}, st \in CheckStatuses \cup {"null"},
                        fs \in {<<>>, <<f1>>}}
  \cup {[C(c1, {y}, st, Absent) EXCEPT !.evidence = ok, !.reason = ok, !.finding_id = lf] :
          st \in {"risk", "clean", "not-assessed"}, ok \in BOOLEAN, lf \in {NoId, f2, ghost}}
  \cup {C(stray, {}, "clean", <<ghost>>), C(NoId, {}, "risk", <<f1>>),
        C(c2, {}, "strength", <<f2, f2>>)}

Contexts == {Absent} \cup [system_type : DOMAIN MCOverrides \cup {"unknown", Absent}]

MCInputs ==
  ({<<a>> : a \in Variants} \cup {<<a, b>> : a \in Variants, b \in Ordinary} \cup UpTo(3, Ordinary))
     \X {Absent, <<C(c1, {x}, "risk", <<f1>>)>>} \X {Absent}
  \cup {Both} \X UpTo(3, SplitRecords) \X {Absent}
  \cup {Both} \X (UpTo(2, StatusRecords) \cup {Absent}) \X Contexts
===========================================================================
