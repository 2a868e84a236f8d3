--------------------------- MODULE DesignReview ---------------------------
(***************************************************************************)
(* A design review, from its documents to its verdict: the gate            *)
(* scripts/validate_design_review.py and the report generator              *)
(* scripts/generate_design_review_report.py.  The agent writes findings    *)
(* and check records, the gate accepts them or sends them back, the        *)
(* generator computes the verdict, the key findings and the coverage; the  *)
(* proposal is then revised, its findings with it, and reported again.     *)
(* Each script is one action: it reads the documents once, from start to   *)
(* end, and nothing else runs meanwhile.                                   *)
(*                                                                         *)
(* A definition marked "variant" is what the one below it would be with a  *)
(* plausible mistake in the code; no action uses it.                       *)
(***************************************************************************)
EXTENDS Rounding, FiniteSets, SequencesExt

CONSTANTS
  FindingId,     \* every finding id, used or only referred to
  CheckId,       \* every check id, in the manifest or not
  ManifestIds,   \* the checks of design_review_rubric_manifest.json
  Target,        \* what a scoped check instance may cover
  Label,         \* what an evidence entry may name as its repository
  Primary,       \* the repository the review runs in
  NoId,          \* an id that is missing, null or empty
  Absent,        \* a document, a field or a report that is not there
  Drafts,        \* the pairs <<findings, checks>> first written
  Findings,      \* what a finding may become when the agent edits it
  Records,       \* what a check record may become
  MaxFindings,   \* bound: findings
  MaxRecords,    \* bound: check records
  KeyLimit       \* how many findings the key panel shows

Severities == {"info", "low", "medium", "high"}
Statuses   == {"risk", "strength", "open-question", "clean", "not-applicable", "not-assessed"}

\* The root of an evidence entry is its repository's, the primary's if it
\* names none; "present" is said of the file under that root.
Evidence == [repo : Label,
             file : {"none", "present", "missing"},
             line : {"none", "positive", "invalid"}]

\* "null" stands for a missing field, "other" for a value no text knows.
Finding == [id             : FindingId \cup {NoId},
            classification : {"risk", "strength", "open-question", "other"},
            dimension      : {"known", "other"},
            severity       : Severities \cup {"null", "other"},
            blocking       : BOOLEAN,
            texts          : BOOLEAN,  \* claim, doc_source, doc_location given
            recommendation : BOOLEAN,
            question       : BOOLEAN,
            evidence       : SUBSET Evidence,
            external       : BOOLEAN,  \* evidence_type names an external kind
            searched       : BOOLEAN]  \* searches_performed is not empty

Check == [id          : CheckId \cup {NoId},
          scope       : SUBSET Target,
          status      : Statuses \cup {"null", "other"},
          finding_ids : Seq(FindingId),     \* empty for a missing array too
          finding_id  : FindingId \cup {NoId},
          evidence    : BOOLEAN,
          reason      : BOOLEAN]

ASSUME NoIdAssumption == NoId \notin FindingId \cup CheckId
ASSUME AbsentAssumption == Absent \notin Seq(Check)
ASSUME FindingsAssumption == Findings \subseteq Finding /\ Records \subseteq Check
ASSUME DraftsAssumption == Drafts \subseteq Seq(Findings) \X (Seq(Records) \cup {Absent})
ASSUME PrimaryAssumption == Primary \in Label
\* The manifest has 22 checks.
ASSUME ManifestAssumption ==
  /\ ManifestIds \subseteq CheckId
  /\ IsFiniteSet(ManifestIds)
  /\ Cardinality(ManifestIds) \in 1 .. 199
ASSUME LimitAssumption == KeyLimit \in Nat \ {0}

VARIABLES
  docs,      \* findings.json and checks.json
  roots,     \* the labels repos.json gives a dest for, the primary's with them
  phase,     \* "written", "rejected", "validated" or "reported"
  report     \* the last report, with the findings it shows, or Absent

vars == <<docs, roots, phase, report>>

findings == docs[1]
checks   == docs[2]

---------------------------------------------------------------------------
(* The gate. *)

BlockingStrength(f) == f.blocking /\ f.classification = "strength"       \* variant
BlockingMisused(f) == f.blocking /\ f.classification # "risk"

\* A rule finding i breaks.
FaultyFinding(fs, i) ==
  LET f == fs[i] IN
  \/ f.id = NoId
  \/ \E j \in 1 .. i - 1 : fs[j].id = f.id
  \/ f.classification = "other"
  \/ f.dimension = "other"
  \/ f.severity = "other"
  \/ BlockingMisused(f)
  \/ ~f.texts
  \/ f.classification = "risk" /\ f.severity \in {"medium", "high"} /\ ~f.recommendation
  \/ f.classification = "open-question" /\ ~f.question
  \/ f.classification # "open-question" /\ f.evidence = {}
  \/ \E e \in f.evidence :
       \/ e.line = "invalid"
       \/ e.file # "none" /\ e.repo \notin roots
       \/ e.file = "missing" /\ e.repo \in roots /\ ~f.external
       \/ (e.file = "none" \/ e.line = "none") /\ ~f.searched

\* A non-empty array of finding ids, else the legacy single one.
FidsOf(c) == IF c.finding_ids # <<>> THEN c.finding_ids
             ELSE IF c.finding_id # NoId THEN <<c.finding_id>> ELSE <<>>

ClashSameScope(c, d) == c.id = d.id /\ c.scope = d.scope                \* variant
Clash(c, d) == c.id = d.id /\ (c.scope = d.scope \/ c.scope \cap d.scope # {})

\* The records kept for comparison: one that clashes with one of them is not.
StoredBefore(cs) ==
  LET stored[i \in 1 .. Len(cs) + 1] ==
        IF i = 1 THEN {}
        ELSE IF \E j \in stored[i - 1] : Clash(cs[i - 1], cs[j]) THEN stored[i - 1]
        ELSE stored[i - 1] \cup {i - 1}
  IN stored

\* Finding ids record i may not list: an earlier entry of any record has them.
Owned(cs, i, k) ==
  \/ \E j \in 1 .. i - 1 : \E l \in DOMAIN FidsOf(cs[j]) : FidsOf(cs[j])[l] = FidsOf(cs[i])[k]
  \/ \E l \in 1 .. k - 1 : FidsOf(cs[i])[l] = FidsOf(cs[i])[k]

\* A rule check record i breaks.
FaultyCheck(fs, cs, i) ==
  LET c == cs[i] IN
  \/ c.id = NoId
  \/ c.id # NoId /\ \E j \in StoredBefore(cs)[i] : Clash(c, cs[j])
  \/ c.id # NoId /\ c.id \notin ManifestIds
  \/ c.status \notin Statuses
  \/ c.status \in {"risk", "strength", "open-question"} /\ FidsOf(c) = <<>>
  \/ c.status \in {"risk", "strength", "open-question"}
       /\ \E k \in DOMAIN FidsOf(c) : \A i2 \in DOMAIN fs : fs[i2].id # FidsOf(c)[k]
  \/ c.status = "clean" /\ ~c.evidence
  \/ c.status \in {"not-applicable", "not-assessed"} /\ ~c.reason
  \/ \E k \in DOMAIN FidsOf(c) : Owned(cs, i, k)

Uncovered(cs) == ManifestIds \ {cs[i].id : i \in {j \in DOMAIN cs : cs[j].status # "null"}}

Accepts ==
  /\ \A i \in DOMAIN findings : ~FaultyFinding(findings, i)
  /\ checks # Absent =>
       /\ \A i \in DOMAIN checks : ~FaultyCheck(findings, checks, i)
       /\ Uncovered(checks) = {}

---------------------------------------------------------------------------
(* The report. *)

SeverityRank == [high |-> 3, medium |-> 2, low |-> 1, info |-> 0, null |-> 0]

Risk(f) == f.classification = "risk"
Blocking(f) == Risk(f) /\ f.blocking
HighRisk(f) == Risk(f) /\ f.severity = "high" /\ ~f.blocking
MediumRisk(f) == Risk(f) /\ f.severity = "medium"
OpenQuestion(f) == f.classification = "open-question"

\* compute_verdict
VerdictLatest(fs) ==                                                    \* variant
  LET f == fs[Len(fs)] IN
  CASE fs = <<>> -> "recommend"
    [] fs # <<>> /\ Blocking(f) -> "do-not-recommend"
    [] fs # <<>> /\ HighRisk(f) -> "recommend-with-changes"
    [] fs # <<>> /\ (MediumRisk(f) \/ OpenQuestion(f)) -> "needs-more-info"
    [] OTHER -> "recommend"
Verdict(fs) ==
  IF \E i \in DOMAIN fs : Blocking(fs[i]) THEN "do-not-recommend"
  ELSE IF \E i \in DOMAIN fs : HighRisk(fs[i]) THEN "recommend-with-changes"
  ELSE IF \E i \in DOMAIN fs : MediumRisk(fs[i]) \/ OpenQuestion(fs[i]) THEN "needs-more-info"
  ELSE "recommend"

\* build_key_findings: what is flagged blocking first, then by severity.
Pressing(fs) == {i \in DOMAIN fs : Risk(fs[i]) \/ OpenQuestion(fs[i])}

BeforeBySeverity(fs, i, j) ==                                           \* variant
  \/ SeverityRank[fs[i].severity] > SeverityRank[fs[j].severity]
  \/ SeverityRank[fs[i].severity] = SeverityRank[fs[j].severity] /\ i < j
Before(fs, i, j) ==
  LET ri == SeverityRank[fs[i].severity]
      rj == SeverityRank[fs[j].severity]
  IN  IF fs[i].blocking # fs[j].blocking THEN fs[i].blocking
      ELSE ri > rj \/ (ri = rj /\ i < j)

KeyUncapped(fs) == Pressing(fs)                                         \* variant
KeyFindings(fs) ==
  {i \in Pressing(fs) : Cardinality({j \in Pressing(fs) : Before(fs, j, i)}) < KeyLimit}

\* The rows that carry the BLOCKING badge.
Badges(fs) == {i \in DOMAIN fs : fs[i].blocking}

\* build_check_coverage: not-assessed instances, and checks without a record.
UnrecordedOnly(cs) == Cardinality({c \in ManifestIds : \A i \in DOMAIN cs : cs[i].id # c})  \* variant
NotAssessed(cs) ==
  Cardinality({i \in DOMAIN cs : cs[i].id \in ManifestIds /\ cs[i].status = "not-assessed"})
  + Cardinality({c \in ManifestIds : \A i \in DOMAIN cs : cs[i].id # c})

Coverage(cs) ==
  IF cs = Absent THEN Absent
  ELSE Percent(Cardinality(ManifestIds) - NotAssessed(cs), Cardinality(ManifestIds))

ReportOf(fs, cs) ==
  [of       |-> fs,
   verdict  |-> Verdict(fs),
   key      |-> KeyFindings(fs),
   badges   |-> Badges(fs),
   coverage |-> Coverage(cs)]

---------------------------------------------------------------------------
Init ==
  /\ docs \in Drafts
  /\ roots \in {r \in SUBSET Label : Primary \in r}
  /\ phase = "written"
  /\ report = Absent

Validate ==
  /\ phase = "written"
  /\ phase' = IF Accepts THEN "validated" ELSE "rejected"
  /\ UNCHANGED <<docs, roots, report>>

Generate ==
  /\ phase = "validated"
  /\ report' = ReportOf(findings, checks)
  /\ phase' = "reported"
  /\ UNCHANGED <<docs, roots>>

\* What a list becomes when one entry is replaced, added or dropped.
Edits(s, S, max) ==
  {[s EXCEPT ![i] = e] : i \in DOMAIN s, e \in S}
  \cup {Append(s, e) : e \in {d \in S : Len(s) < max}}
  \cup {RemoveAt(s, i) : i \in DOMAIN s}

\* The agent fixes what the gate rejected, or reviews a revised proposal.
Revise ==
  /\ phase \in {"rejected", "reported"}
  /\ \/ docs' \in {<<fs, checks>> : fs \in Edits(findings, Findings, MaxFindings)}
     \/ checks # Absent
          /\ docs' \in {<<findings, cs>> : cs \in Edits(checks, Records, MaxRecords)}
  /\ phase' = "written"
  /\ UNCHANGED <<roots, report>>

Next == Validate \/ Generate \/ Revise

Spec == Init /\ [][Next]_vars

---------------------------------------------------------------------------
(* Properties. *)

Verdicts == <<"do-not-recommend", "recommend-with-changes", "needs-more-info", "recommend">>

Report == [of       : Seq(Finding),
           verdict  : {Verdicts[k] : k \in DOMAIN Verdicts},
           key      : SUBSET Nat,
           badges   : SUBSET Nat,
           coverage : Int \cup {Absent}]

TypeOK ==
  /\ docs \in Seq(Finding) \X (Seq(Check) \cup {Absent})
  /\ roots \subseteq Label
  /\ phase \in {"written", "rejected", "validated", "reported"}
  /\ report # Absent =>
       /\ report \in Report
       /\ report.key \cup report.badges \subseteq DOMAIN report.of
       /\ Cardinality(report.key) \in 0 .. KeyLimit
       /\ report.coverage # Absent => report.coverage <= 100

\* A check record in an accepted review judges targets no other record of the
\* same check judges, every check of the manifest has one, and no finding is
\* credited twice, although the gate forgets every record that clashed.
JudgedOnce ==
  (phase \in {"validated", "reported"} /\ checks # Absent) =>
    /\ \A c \in ManifestIds : \E i \in DOMAIN checks : checks[i].id = c
    /\ \A i, j \in DOMAIN checks :
         i # j =>
           /\ checks[i].id = checks[j].id =>
                /\ checks[i].scope # checks[j].scope
                /\ checks[i].scope \cap checks[j].scope = {}
           /\ \A k \in DOMAIN FidsOf(checks[i]), l \in DOMAIN FidsOf(checks[j]) :
                FidsOf(checks[i])[k] # FidsOf(checks[j])[l]

\* A row of the report carries the BLOCKING badge exactly when the verdict is
\* against the proposal: the badge follows the flag alone and the verdict only
\* the risks that have it, so the two agree because of the gate.
BadgeMeansBlocked ==
  report # Absent => (report.badges # {} <=> report.verdict = "do-not-recommend")

\* The key panel leaves out no blocking risk for the sake of anything else, and
\* names one whenever the verdict is against the proposal.
BlockersFirst ==
  report # Absent =>
    /\ (\E j \in DOMAIN report.of : Blocking(report.of[j]) /\ j \notin report.key)
         => \A i \in report.key : Blocking(report.of[i])
    /\ report.verdict = "do-not-recommend" => \E i \in report.key : Blocking(report.of[i])

VerdictRank(v) == CHOOSE k \in DOMAIN Verdicts : Verdicts[k] = v

Concern(f) == Blocking(f) \/ HighRisk(f) \/ MediumRisk(f) \/ OpenQuestion(f)
Concerns(fs) == {fs[i] : i \in {j \in DOMAIN fs : Concern(fs[j])}}

\* The verdict is never talked up: from one report to the next it improves only
\* if a concern of the earlier one is gone, whatever strengths, low risks or
\* check records came, went or changed order.
NeverTalkedUp ==
  [][(report # Absent /\ Concerns(report.of) \subseteq Concerns(report'.of))
       => VerdictRank(report'.verdict) <= VerdictRank(report.verdict)]_report

\* The checks of the manifest that were assessed on some target.
AssessedIds(cs) ==
  {c \in ManifestIds : \E i \in DOMAIN cs : cs[i].id = c /\ cs[i].status # "not-assessed"}

AssessedShare(cs) == Percent(Cardinality(AssessedIds(cs)), Cardinality(ManifestIds))

\* The coverage, computed from instances, never overstates the review: it is at
\* most the share of the checks that were assessed on some target, and it reads
\* 100% only if every check has a record and none of them is not-assessed.
CoverageNotOverstated ==
  (phase = "reported" /\ report.coverage # Absent) =>
    /\ report.coverage <= AssessedShare(checks)
    /\ report.coverage = 100 =>
         \A c \in ManifestIds :
           /\ \E i \in DOMAIN checks : checks[i].id = c
           /\ \A i \in DOMAIN checks : checks[i].id = c => checks[i].status # "not-assessed"

---------------------------------------------------------------------------
(* What a text of the repository says of the report. *)

\* report-schema.md, whose shape of checks.json design-review.md takes over,
\* counts an id as covered if any one of its instances was assessed.
CoverageById ==
  (phase = "reported" /\ report.coverage # Absent) => report.coverage = AssessedShare(checks)
===========================================================================
