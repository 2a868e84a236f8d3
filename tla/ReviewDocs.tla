---------------------------- MODULE ReviewDocs ----------------------------
(***************************************************************************)
(* The documents a review run leaves in its run directory, as the gate     *)
(* scripts/validate_findings.py reads them: findings.json, checks.json     *)
(* (optional) and context.json (optional), with the rubric manifest that   *)
(* ships beside the script.  Texts are abstracted to whether they are      *)
(* non-empty, files to whether they exist under the repository root.       *)
(*                                                                         *)
(* The second half states what a run must look like to deserve a report.   *)
(* It is written over the whole documents, with no loop and no order, and  *)
(* is what the gate, which reads the records one by one, is held to.       *)
(***************************************************************************)
EXTENDS Naturals, Sequences

CONSTANTS
  FindingId,     \* every finding id, used or only referred to
  CheckId,       \* every check id, in the manifest or not
  Target,        \* what a scoped check instance may cover
  NoId,          \* an id that is missing, null or empty
  Absent,        \* a document or a field that is not there
  Dimension,     \* the dimensions of the rubric manifest
  ManifestOf,    \* [Dimension -> SUBSET CheckId], the checks of each one
  Overrides      \* its system_type_overrides: for some system types and some
                 \* dimensions, a member of Applicability

ASSUME NoIdAssumption == NoId \notin FindingId \cup CheckId

ASSUME AbsentAssumption == Absent \notin Seq(FindingId)

\* What an override may say.  The scripts test for it in two ways, which agree
\* on these values and on no other.
Applicability == {"mandatory", "informational", "not-applicable"}

OverridesTyped(overrides) ==
  \A t \in DOMAIN overrides :
    \A d \in DOMAIN overrides[t] : d \in Dimension /\ overrides[t][d] \in Applicability

ASSUME ManifestAssumption ==
  /\ ManifestOf \in [Dimension -> SUBSET CheckId]
  /\ OverridesTyped(Overrides)

Classifications == {"confirmed", "misaligned", "gap", "risk", "strength"}
Severities      == {"info", "low", "medium", "high"}
CheckStatuses   == {"risk", "strength", "clean", "not-applicable", "not-assessed"}

\* One evidence entry: its file is not given, exists or does not; its line is
\* not given, a positive integer, or anything else.
Evidence == [file : {"none", "present", "missing"},
             line : {"none", "positive", "invalid"}]

\* "null" stands for a missing field, "other" for a value no text knows, and
\* "critical" is a severity two texts know and SEVERITIES does not; a dimension
\* is abstracted to its membership in DIMENSIONS.
Finding == [id             : FindingId \cup {NoId},
            classification : Classifications \cup {"null", "other"},
            dimension      : {"known", "null", "other"},
            severity       : Severities \cup {"critical", "null", "other"},
            texts          : BOOLEAN,  \* claim, doc_source, doc_location given
            recommendation : BOOLEAN,
            evidence       : SUBSET Evidence,
            external       : BOOLEAN,  \* evidence_type names an external kind
            searched       : BOOLEAN]  \* searches_performed is not empty

Check == [id          : CheckId \cup {NoId},
          scope       : SUBSET Target,
          status      : CheckStatuses \cup {"null", "other"},
          finding_ids : Seq(FindingId) \cup {Absent},
          finding_id  : FindingId \cup {NoId},
          evidence    : BOOLEAN,
          reason      : BOOLEAN]

\* The finding ids a check record lists: the array when there is one, else the
\* legacy single field as a one-element list.
FidsOf(c) ==
  IF c.finding_ids # Absent THEN c.finding_ids
  ELSE IF c.finding_id # NoId THEN <<c.finding_id>> ELSE <<>>

Lists(c, fid) == \E k \in DOMAIN FidsOf(c) : FidsOf(c)[k] = fid

ManifestIds == UNION {ManifestOf[d] : d \in Dimension}

\* context.json with no system_type counts as a production service; a system
\* type without an override entry has every dimension mandatory.
SystemTypeOf(context) ==
  IF context.system_type = Absent THEN "production-service" ELSE context.system_type

\* The manifest says something of dimension d for this kind of system.
HasOverride(overrides, type, d) == type \in DOMAIN overrides /\ d \in DOMAIN overrides[type]

\* The ids of a manifest that are mandatory for this kind of system: all but
\* those of the dimensions it exempts.
MandatoryOf(checksOf, overrides, type) ==
  UNION {checksOf[d] : d \in {e \in Dimension :
           HasOverride(overrides, type, e) =>
             overrides[type][e] \notin {"informational", "not-applicable"}}}

MandatoryIds(context) == MandatoryOf(ManifestOf, Overrides, SystemTypeOf(context))

\* Two scopes of the same check id that may not stand side by side.
Clash(scope, other) == scope = other \/ scope \cap other # {}

---------------------------------------------------------------------------
(* What a run must look like to deserve a report. *)

GoodEvidence(f) ==
  /\ f.evidence # {}
  /\ \A e \in f.evidence :
       /\ e.line # "invalid"
       /\ e.file = "missing" => f.external
       /\ (e.file = "none" \/ e.line = "none") => f.searched

GoodFinding(f) ==
  /\ f.id # NoId
  /\ f.classification \in Classifications
  /\ f.dimension # "other"
  /\ f.severity \in Severities \cup {"null"}
  /\ f.texts
  /\ (f.classification = "risk" /\ f.severity \in {"medium", "high"})
       => f.recommendation
  /\ GoodEvidence(f)

GoodFindings(findings) ==
  /\ \A i \in DOMAIN findings : GoodFinding(findings[i])
  /\ \A i, j \in DOMAIN findings : findings[i].id = findings[j].id => i = j

GoodCheck(c) ==
  /\ c.id # NoId
  /\ ManifestIds # {} => c.id \in ManifestIds
  /\ c.status \in CheckStatuses
  /\ c.status \in {"risk", "strength"} => FidsOf(c) # <<>>
  /\ c.status = "clean" => c.evidence
  /\ c.status \in {"not-applicable", "not-assessed"} => c.reason

References(c, findings) ==
  c.status \in {"risk", "strength"} =>
    \A fid \in FindingId :
      Lists(c, fid) => \E i \in DOMAIN findings : findings[i].id = fid

DisjointScopes(checks) ==
  \A i, j \in DOMAIN checks :
    (checks[i].id = checks[j].id /\ Clash(checks[i].scope, checks[j].scope)) => i = j

OneOwner(checks) ==
  \A i, j \in DOMAIN checks :
    \A k \in DOMAIN FidsOf(checks[i]), l \in DOMAIN FidsOf(checks[j]) :
      FidsOf(checks[i])[k] = FidsOf(checks[j])[l] => i = j /\ k = l

Covered(checks, context) ==
  \A cid \in MandatoryIds(context) :
    \E i \in DOMAIN checks : checks[i].id = cid

WellFormed(findings, checks, context) ==
  /\ GoodFindings(findings)
  /\ checks # Absent =>
       /\ \A i \in DOMAIN checks :
            GoodCheck(checks[i]) /\ References(checks[i], findings)
       /\ DisjointScopes(checks)
       /\ OneOwner(checks)
       /\ context # Absent => Covered(checks, context)
===========================================================================
