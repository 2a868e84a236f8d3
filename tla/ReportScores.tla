--------------------------- MODULE ReportScores ---------------------------
(***************************************************************************)
(* The four figures generate_report.py computes from the findings alone:   *)
(* the debt index, the architecture risk, the documentation fidelity and   *)
(* the evidence confidence.  They depend on how many findings there are of *)
(* each kind and not on their order, so a list of findings is modelled as  *)
(* a count for each kind.  A repository is reviewed again and again, and   *)
(* between two reports the agent finds, fixes or regrades one finding.     *)
(*                                                                         *)
(* A definition marked "variant" is what the one below it would be with a  *)
(* plausible mistake in the code; no action uses it.                       *)
(***************************************************************************)
EXTENDS Rounding, FiniteSetsExt

CONSTANTS
  Kind,      \* the kinds of findings
  Limit,     \* bound: [Kind -> Nat], how many there may be of each
  Standing,  \* bound: the kinds no later review adds to or takes from
  Opening,   \* what the first review may find, a set of [Kind -> Nat]
  Absent     \* an indicator shown as a dash

\* The keys of DIMENSION_LABEL.
Dimensions ==
  {"correctness", "scale-requirements", "extensibility-requirements", "scalability",
   "extensibility", "maintainability", "performance-cost", "data-architecture",
   "observability", "reliability-resilience", "change-safety", "security-boundaries",
   "vision-alignment"}

\* What the figures look at; "null" is a missing field.
Finding == [classification : {"confirmed", "misaligned", "gap", "risk", "strength"},
            dimension      : Dimensions \cup {"null"},
            severity       : {"high", "medium", "low", "info", "null"},
            tagged         : BOOLEAN,   \* finding_type = "architecture-strength"
            confidence     : {"high", "medium", "null"}]

ASSUME KindAssumption ==
  /\ Kind \subseteq Finding /\ Standing \subseteq Kind /\ Limit \in [Kind -> Nat]
ASSUME OpeningAssumption ==
  \A fs \in Opening : fs \in [Kind -> Nat] /\ \A k \in Kind : fs[k] <= Limit[k]

VARIABLES
  findings,  \* [Kind -> Nat], the findings under review
  report     \* the figures on the last report

vars == <<findings, report>>

---------------------------------------------------------------------------
(* The arithmetic. *)

Dim(k) == IF k.dimension = "null" THEN "correctness" ELSE k.dimension

\* SCORE_WEIGHTS, with a missing severity as info.
Weight(k) ==
  CASE k.severity = "high"   -> 6
    [] k.severity = "medium" -> 3
    [] k.severity = "low"    -> 1
    [] OTHER                 -> 0

IsStrength(k) == k.classification = "strength" \/ k.tagged

Total(f, S) == MapThenSumSet(LAMBDA x : f[x], S)

Many(fs, kinds) == Total(fs, kinds)

Charge(fs, kinds) == Total([k \in kinds |-> fs[k] * Weight(k)], kinds)

\* _capped_penalty
UncappedPenalty(fs, kinds) == Charge(fs, kinds)                       \* variant
MeanPenalty(fs, kinds) ==                                             \* variant
  IF Many(fs, kinds) = 0 THEN 0 ELSE (10 * Charge(fs, kinds)) \div Many(fs, kinds)
CappedPenalty(fs, kinds) ==
  LET capped == [d \in {Dim(k) : k \in kinds} |->
                   Min({15, Charge(fs, {k \in kinds : Dim(k) = d})})]
  IN  Total(capped, DOMAIN capped)

UncappedBonus(fs, kinds) == Many(fs, {k \in kinds : IsStrength(k)})    \* variant
Bonus(fs, kinds) == Min({5, Many(fs, {k \in kinds : IsStrength(k)})})

OpenIndex(penalty, bonus) == Min({100, (100 + bonus) - penalty})      \* variant
Index(penalty, bonus) ==
  IF penalty > 100 + bonus THEN 0 ELSE Min({100, (100 + bonus) - penalty})

Concerns == {k \in Kind : k.classification \in {"risk", "misaligned", "gap"}}

\* compute_score: what is wrong anywhere against what is sound anywhere.
Score(fs) ==
  LET index == Index(CappedPenalty(fs, Concerns), Bonus(fs, Kind))
  IN  [score |-> index,
       label |-> CASE index >= 80 -> "Strong"
                   [] index \in 60 .. 79 -> "Solid"
                   [] index \in 40 .. 59 -> "Notable debt"
                   [] index \in 20 .. 39 -> "Significant debt"
                   [] OTHER       -> "Critical"]

\* compute_architecture_risk: the same over the evaluation's dimensions only,
\* where only risks are charged.
Evaluated == {k \in Kind : Dim(k) # "correctness"}
Risks     == {k \in Evaluated : k.classification = "risk"}

ArchitectureRisk(fs) ==
  IF Many(fs, Evaluated) = 0 THEN Absent
  ELSE LET index == Index(CappedPenalty(fs, Risks), Bonus(fs, Evaluated))
       IN  [score |-> index,
            label |-> CASE index >= 80 -> "Low"
                        [] index \in 55 .. 79 -> "Medium"
                        [] index \in 30 .. 54 -> "High"
                        [] OTHER       -> "Critical"]

ShareOf(fs, kinds, good) ==
  IF Many(fs, kinds) = 0 THEN Absent
  ELSE [percent |-> Percent(Many(fs, good), Many(fs, kinds)), of |-> Many(fs, kinds)]

\* compute_doc_fidelity and compute_evidence_confidence
Reconciled == {k \in Kind : k.classification \in {"confirmed", "misaligned", "gap"}}
FidelityOfAll(fs) ==                                                  \* variant
  ShareOf(fs, Kind, {k \in Kind : k.classification = "confirmed"})
DocFidelity(fs) ==
  ShareOf(fs, Reconciled, {k \in Reconciled : k.classification = "confirmed"})

Rated == {k \in Kind : k.confidence # "null"}
EvidenceConfidence(fs) ==
  ShareOf(fs, Rated, {k \in Rated : k.confidence = "high"})

\* build_score_card and build_indicators_grid
ReportOf(fs) ==
  [debt |-> Score(fs), risk |-> ArchitectureRisk(fs),
   fidelity |-> DocFidelity(fs), confidence |-> EvidenceConfidence(fs)]

---------------------------------------------------------------------------
Without(fs, k) == [fs EXCEPT ![k] = @ - 1]
With(fs, k)    == [fs EXCEPT ![k] = @ + 1]

\* One finding fewer, one more, or one judged anew.
Edited(fs) ==
  LET open == Kind \ Standing
      less == {Without(fs, k) : k \in {j \in open : fs[j] > 0}}
  IN  less \cup {With(gs, k) : gs \in less \cup {fs}, k \in open}

Init ==
  /\ findings \in Opening
  /\ report = ReportOf(findings)

\* Another review, and the report generated from it.
Review ==
  /\ \E fs \in Edited(findings) :
       /\ \A k \in Kind : fs[k] <= Limit[k]
       /\ findings' = fs
  /\ report' = ReportOf(findings')

Next == Review

Spec == Init /\ [][Next]_vars

---------------------------------------------------------------------------
(* Properties. *)

Share == [percent : 0 .. 100, of : Nat]

TypeOK ==
  /\ findings \in [Kind -> Nat]
  /\ report.debt.score \in 0 .. 100
  /\ report.risk = Absent \/ report.risk.score \in 0 .. 100
  /\ report.fidelity \in Share \cup {Absent}
  /\ report.confidence \in Share \cup {Absent}

\* Going from fs to gs fixes one concern: a concern that is not credited as a
\* strength is gone, judged less severe, or found to be as documented.
Fixes(fs, gs) ==
  \E k \in Concerns :
    /\ ~k.tagged
    /\ fs[k] > 0
    /\ \/ gs = Without(fs, k)
       \/ \E j \in Kind :
            /\ gs = With(Without(fs, k), j)
            /\ Dim(j) = Dim(k)
            /\ \/ j.classification = "confirmed"
               \/ j.classification = k.classification /\ Weight(j) <= Weight(k)

NotWorse(before, after) == before = Absent \/ after = Absent \/ after >= before

FieldOf(r, name) == IF r = Absent THEN Absent ELSE r[name]

\* "Tracking one repo's trend over time as findings get fixed": fixing one
\* concern never lowers the debt index, the risk index or the documentation
\* fidelity, whatever cap is in force.
FixesNeverHurt ==
  [][Fixes(findings, findings') =>
       /\ report'.debt.score >= report.debt.score
       /\ NotWorse(FieldOf(report.risk, "score"), FieldOf(report'.risk, "score"))
       /\ NotWorse(FieldOf(report.fidelity, "percent"),
                   FieldOf(report'.fidelity, "percent"))]_vars

\* Strengths do not buy back a high concern: while there is one, however many
\* strengths are credited, the index that charges it stays below 100.
HighConcernShows ==
  \A k \in Concerns :
    (findings[k] > 0 /\ k.severity = "high") =>
      /\ report.debt.score < 100
      /\ k \in Risks => report.risk.score < 100

\* The caps keep one dimension from deciding a report: the best band, of the
\* debt index and of the architecture risk, is left only when at least two
\* dimensions have concerns.
TwoDimensionsDecide ==
  LET Charged(kinds) == {Dim(k) : k \in {j \in kinds : findings[j] > 0 /\ Weight(j) > 0}}
  IN  /\ report.debt.label # "Strong" => Cardinality(Charged(Concerns)) >= 2
      /\ (report.risk # Absent /\ report.risk.label # "Low")
           => Cardinality(Charged(Risks)) >= 2

\* The fidelity reads 100% exactly when at most one claim in two hundred was
\* found wrong or missing, whatever else was found: with fewer claims than that
\* none was.
FaithfulMeansFaithful ==
  report.fidelity # Absent =>
    (report.fidelity.percent = 100 <=>
       200 * Many(findings, {k \in Reconciled : k.classification # "confirmed"})
         <= report.fidelity.of)
===========================================================================
