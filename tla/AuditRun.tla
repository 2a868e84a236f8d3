----------------------------- MODULE AuditRun -----------------------------
(***************************************************************************)
(* An audit from its documents to its report (SKILL.md, steps 6 to 8): the *)
(* agent writes the documents, the gate accepts them or sends them back,   *)
(* and scripts/generate_report.py computes the two accounts of coverage of *)
(* the report: the audit-coverage indicator, by check id, and the coverage *)
(* panel, by scoped instance.  The gate is taken at its word, the          *)
(* well-formedness that ValidateFindings is shown to decide.  The report   *)
(* looks for the rubric manifest in a directory of its own, where a given  *)
(* machine has the gate's, another version of it, or none.                 *)
(*                                                                         *)
(* A definition marked "variant" is what the one below it would be with a  *)
(* plausible mistake in the code; no action uses it.                       *)
(***************************************************************************)
EXTENDS ReviewDocs, Rounding, SequencesExt

CONSTANTS
  Drafts,        \* the triples <<findings, checks, context>> first written
  FindingLists,  \* what findings.json may become when it is fixed
  Records,       \* what a check record may become when it is fixed
  MaxRecords,    \* bound: check records
  Installed      \* what may be where the report looks for the manifest

\* The gate's manifest, beside the script.
Rubric == [checks |-> ManifestOf, overrides |-> Overrides]

IdsOf(m) == UNION {m.checks[d] : d \in Dimension}

\* Check ids are unique in rubric_manifest.json, and there are 36 of them; what
\* is installed is a version of it.
ASSUME InstalledAssumption ==
  /\ Absent \notin Installed
  /\ \A m \in Installed :
       /\ m.checks \in [Dimension -> SUBSET CheckId]
       /\ OverridesTyped(m.overrides)
       /\ IsFiniteSet(IdsOf(m))
       /\ Cardinality(IdsOf(m)) < 200
       /\ \A d, e \in Dimension : d # e => m.checks[d] \cap m.checks[e] = {}

ASSUME DocumentsAssumption ==
  /\ Records \subseteq Check
  /\ \A d \in Drafts : d[2] \in Seq(Records) \cup {Absent}

\* A panel that is left out is not one that is shown.
ASSUME PanelAssumption == Absent \notin [count : [CheckStatuses -> Nat], mandatory : Nat]

VARIABLES
  docs,           \* the documents in the run directory
  phase,          \* "written", "rejected", "validated" or "reported"
  manifest,       \* what generate_report.py loads, or Absent for None
  coverage,       \* the audit-coverage indicator, or Absent for a dash
  panel           \* the coverage panel, or Absent when it is left out

vars == <<docs, phase, manifest, coverage, panel>>

checks  == docs[2]
context == docs[3]

---------------------------------------------------------------------------
(* The report's arithmetic. *)

InstancesOf(cid) == {i \in DOMAIN checks : checks[i].id = cid}

\* The mandatory ids with an instance that was assessed.
RecordedIds(ids) ==                                                   \* variant
  {cid \in ids : \E i \in InstancesOf(cid) : checks[i].status # "null"}
CompletedIds(ids) ==
  {cid \in ids : \E i \in InstancesOf(cid) : checks[i].status \notin {"null", "not-assessed"}}

\* Instances that were assessed, each counted.
AssessedInstances(ids) ==                                             \* variant
  Cardinality({i \in DOMAIN checks : /\ checks[i].id \in ids
                                     /\ checks[i].status # "not-assessed"})
Completed(ids) == Cardinality(CompletedIds(ids))

\* An object without a key is a context to the gate and none to the indicator.
NoContext == context = Absent \/ ~context.keys

\* compute_audit_coverage, over the manifest that was loaded.
IndicatorIds == MandatoryOf(manifest.checks, manifest.overrides, SystemTypeOf(context))

AuditCoverage ==
  IF checks = Absent \/ NoContext \/ manifest = Absent THEN Absent
  ELSE IF IndicatorIds = {} THEN Absent
  ELSE [percent   |-> Percent(Completed(IndicatorIds), Cardinality(IndicatorIds)),
        completed |-> Completed(IndicatorIds),
        total     |-> Cardinality(IndicatorIds)]

\* build_check_coverage: an absent context reads as a production service.
PanelType == IF context = Absent THEN "production-service" ELSE SystemTypeOf(context)

\* The panel's test for a mandatory dimension, which is not the indicator's.
NotInformational(d) ==                                                \* variant
  HasOverride(manifest.overrides, PanelType, d) =>
    manifest.overrides[PanelType][d] # "informational"
PanelMandatory(d) ==
  HasOverride(manifest.overrides, PanelType, d) =>
    manifest.overrides[PanelType][d] = "mandatory"

\* The records the panel counts, and the ids it counts as not assessed because
\* nobody recorded them.
Listed == {i \in DOMAIN checks : checks[i].id \in IdsOf(manifest)}
Unrecorded == {cid \in IdsOf(manifest) : InstancesOf(cid) = {}}

CoveragePanel ==
  IF checks = Absent \/ manifest = Absent THEN Absent
  ELSE [count     |-> [st \in CheckStatuses |->
                         Cardinality({i \in Listed : checks[i].status = st})
                         + IF st = "not-assessed" THEN Cardinality(Unrecorded) ELSE 0],
        mandatory |-> Cardinality(UNION {manifest.checks[d] :
                                          d \in {e \in Dimension : PanelMandatory(e)}})]

---------------------------------------------------------------------------
Init ==
  /\ docs \in Drafts
  /\ phase = "written"
  /\ manifest \in Installed \cup {Absent}
  /\ coverage = Absent
  /\ panel = Absent

\* Step 7: the gate, decided at once.
Validate ==
  /\ phase = "written"
  /\ phase' = IF WellFormed(docs[1], checks, context) THEN "validated" ELSE "rejected"
  /\ UNCHANGED <<docs, manifest, coverage, panel>>

\* The agent, told what is wrong, rewrites the findings or adds, replaces or
\* drops a check record.
Fixed ==
  {<<fs, checks, context>> : fs \in FindingLists}
  \cup IF checks = Absent THEN {}
       ELSE {<<docs[1], [checks EXCEPT ![i] = c], context>> : i \in DOMAIN checks, c \in Records}
            \cup {<<docs[1], Append(checks, c), context>> :
                    c \in {r \in Records : Len(checks) < MaxRecords}}
            \cup {<<docs[1], RemoveAt(checks, i), context>> : i \in DOMAIN checks}

Revise ==
  /\ phase = "rejected"
  /\ docs' \in Fixed
  /\ phase' = "written"
  /\ UNCHANGED <<manifest, coverage, panel>>

\* Step 8: the report of what the gate accepted.
Generate ==
  /\ phase = "validated"
  /\ coverage' = AuditCoverage
  /\ panel' = CoveragePanel
  /\ phase' = "reported"
  /\ UNCHANGED <<docs, manifest>>

\* The report is written once for a run directory.
Finished == phase = "reported" /\ UNCHANGED vars

Next == Validate \/ Revise \/ Generate \/ Finished

Spec == Init /\ [][Next]_vars

---------------------------------------------------------------------------
(* Properties. *)

TypeOK ==
  /\ phase \in {"written", "rejected", "validated", "reported"}
  /\ manifest \in Installed \cup {Absent}
  /\ \/ coverage = Absent
     \/ coverage \in [percent : 0 .. 100, completed : Nat, total : Nat]
  /\ \/ panel = Absent
     \/ panel \in [count : [CheckStatuses -> Nat], mandatory : Nat]

\* The indicator reads 100% exactly when every check that is mandatory for
\* this kind of system was assessed on some target: rounding never completes
\* an audit, and a reason for not assessing never counts as an assessment.
FullMeansFull ==
  (phase = "reported" /\ coverage # Absent) =>
    (coverage.percent = 100 <=>
       \A cid \in IndicatorIds :
         \E i \in DOMAIN checks : /\ checks[i].id = cid
                                  /\ checks[i].status # "not-assessed")

\* The two accounts agree, once the gate has let the documents through: both
\* take as many checks for mandatory, though they test for it in two ways; the
\* panel counts every record of a check it knows once and every check nobody
\* recorded once; a panel with nothing left to assess comes with an indicator
\* at 100%; and if the manifest is the gate's, the panel leaves no record out
\* and the checks nobody recorded are ones this kind of system is exempt from.
AccountsAgree ==
  (phase = "reported" /\ coverage # Absent) =>
    /\ panel # Absent
    /\ coverage.total = panel.mandatory
    /\ panel.count["risk"] + panel.count["strength"] + panel.count["clean"]
         + panel.count["not-applicable"] + panel.count["not-assessed"]
         = Cardinality(Listed) + Cardinality(Unrecorded)
    /\ panel.count["not-assessed"] = 0 => coverage.completed = coverage.total
    /\ manifest = Rubric =>
         /\ Cardinality(Listed) = Len(checks)
         /\ Unrecorded \cap MandatoryIds(context) = {}

---------------------------------------------------------------------------
(* What a text of the repository says of the report. *)

\* generate_report.py's docstring: --checks drives the audit-coverage
\* indicator, --context is what it needs alongside, and it degrades to "not
\* run" when they are absent.
CoverageShown ==
  (phase = "reported" /\ checks # Absent /\ ~NoContext /\ MandatoryIds(context) # {})
    => coverage # Absent
===========================================================================
