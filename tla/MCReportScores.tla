-------------------------- MODULE MCReportScores --------------------------
(***************************************************************************)
(* Enough findings of each kind to pass every cap: three high risks in one *)
(* dimension (18 against a cap of 15), six strengths (against 5), a second *)
(* dimension that can be charged, a risk that is credited as a strength,   *)
(* and findings with missing fields.  The first review finds nothing, or   *)
(* as much as can be charged in six dimensions more, which takes both      *)
(* indexes to the clamp at 0, and 199 claims that are as documented, with  *)
(* which one wrong claim is one in two hundred.                            *)
(***************************************************************************)
EXTENDS ReportScores, TLC

K(cls, dim, sev, tagged, conf) ==
  [classification |-> cls, dimension |-> dim, severity |-> sev,
   tagged |-> tagged, confidence |-> conf]

HighRisks(dims) == {K("risk", d, "high", FALSE, "high") : d \in dims}

Crowded == HighRisks({"extensibility", "maintainability", "data-architecture",
                      "change-safety", "security-boundaries", "vision-alignment"})
Claim   == K("confirmed", "scale-requirements", "info", FALSE, "high")

MCStanding == Crowded \cup {Claim}

MCLimit ==
  K("risk", "scalability", "high", FALSE, "high")        :> 3 @@
  K("gap", "scalability", "medium", FALSE, "medium")     :> 1 @@
  K("risk", "observability", "medium", FALSE, "null")    :> 3 @@
  K("misaligned", "null", "high", FALSE, "high")         :> 1 @@
  K("misaligned", "correctness", "low", FALSE, "null")   :> 1 @@
  K("confirmed", "correctness", "info", FALSE, "high")   :> 1 @@
  K("confirmed", "scalability", "null", TRUE, "medium")  :> 1 @@
  K("risk", "observability", "low", TRUE, "medium")      :> 1 @@
  K("strength", "scalability", "info", FALSE, "null")    :> 6 @@
  Claim :> 199 @@ [k \in Crowded |-> 3]

MCKind == DOMAIN MCLimit

MCOpening ==
  {[k \in MCKind |-> IF k \in kinds THEN MCLimit[k] ELSE 0] : kinds \in {{}, MCStanding}}
===========================================================================
