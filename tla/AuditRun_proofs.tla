--------------------------- MODULE AuditRun_proofs ---------------------------
(***************************************************************************)
(* The two accounts of coverage, for any rubric of fewer than 200 checks   *)
(* and any documents: they are typed, they agree, and 100% means that      *)
(* nothing mandatory was left out.  Rounding is why the rubric's size      *)
(* matters: 199 checks of 200 would read as 100%.                          *)
(***************************************************************************)
EXTENDS AuditRun, FiniteSetTheorems, SequenceTheorems, TLAPS

---------------------------------------------------------------------------
(* Numbers and sets. *)

\* A percentage below 200 parts reads 100 for the whole only.
LEMMA PercentOfWhole ==
  ASSUME NEW part \in Nat, NEW whole \in 1 .. 199, part <= whole
  PROVE  /\ Percent(part, whole) \in 0 .. 100
         /\ Percent(part, whole) = 100 <=> part = whole
<1> DEFINE q == (100 * part) \div whole
           r == (100 * part) % whole
<1>1. q \in Int /\ r \in Int /\ 0 <= r /\ r < whole /\ 100 * part = whole * q + r
  OBVIOUS
<1>2. Percent(part, whole) = IF 2 * r < whole \/ (2 * r = whole /\ q % 2 = 0) THEN q ELSE q + 1
  BY DEF Percent
<1> HIDE DEF q, r
<1>3. 0 <= q
  <2>1. q <= -1 => whole * q <= whole * (-1)
    BY <1>1
  <2> QED
    BY <1>1, <2>1
<1>4. CASE q >= 100
  <2>1. whole * q >= whole * 100
    BY <1>1, <1>4
  <2>2. part = whole /\ r = 0 /\ whole * q = whole * 100
    BY <1>1, <2>1
  <2>3. q = 100
    <3>1. q >= 101 => whole * q >= whole * 101
      BY <1>1
    <3> QED
      BY <1>1, <1>4, <2>2, <3>1
  <2> QED
    BY <1>2, <2>2, <2>3
<1>5. CASE q = 99
  <2>1. part # whole
    BY <1>1, <1>5
  <2>2. r <= whole - 100
    BY <1>1, <1>5, <2>1
  <2> QED
    BY <1>1, <1>2, <1>5, <2>1, <2>2
<1>6. CASE q < 99
  <2>1. part # whole
    <3>1. whole * q <= whole * 98
      BY <1>1, <1>6
    <3> QED
      BY <1>1, <3>1
  <2> QED
    BY <1>1, <1>2, <1>3, <1>6, <2>1
<1> QED
  BY <1>1, <1>4, <1>5, <1>6

\* Two sets with nothing in common count for as many as their union.
LEMMA DisjointUnion ==
  ASSUME NEW S, NEW T, IsFiniteSet(S), IsFiniteSet(T), S \cap T = {}
  PROVE  /\ IsFiniteSet(S \cup T)
         /\ Cardinality(S \cup T) = Cardinality(S) + Cardinality(T)
<1>1. Cardinality(S) \in Nat /\ Cardinality(T) \in Nat
  BY FS_CardinalityType
<1> QED
  BY <1>1, FS_Union, FS_EmptySet

\* The manifest that was loaded, where one was.
LEMMA ManifestTyped ==
  ASSUME manifest \in Installed
  PROVE  /\ manifest # Absent
         /\ IndicatorIds \subseteq IdsOf(manifest)
         /\ IsFiniteSet(IdsOf(manifest)) /\ Cardinality(IdsOf(manifest)) < 200
         /\ IsFiniteSet(IndicatorIds)
         /\ Cardinality(IndicatorIds) \in Nat /\ Cardinality(IndicatorIds) < 200
<1>1. IndicatorIds \subseteq IdsOf(manifest)
  BY DEF IndicatorIds, MandatoryOf, IdsOf
<1>2. /\ manifest # Absent
      /\ IsFiniteSet(IdsOf(manifest)) /\ Cardinality(IdsOf(manifest)) < 200
  BY InstalledAssumption
<1>3. Cardinality(IdsOf(manifest)) \in Nat
  BY <1>2, FS_CardinalityType
<1>4. IsFiniteSet(IndicatorIds) /\ Cardinality(IndicatorIds) <= Cardinality(IdsOf(manifest))
  BY <1>1, <1>2, FS_Subset
<1> QED
  BY <1>1, <1>2, <1>3, <1>4, FS_CardinalityType

\* The two tests for a mandatory dimension agree on what an override may say.
LEMMA SameMandatory ==
  ASSUME manifest \in Installed, context # Absent
  PROVE  IndicatorIds = UNION {manifest.checks[d] :
                                 d \in {e \in Dimension : PanelMandatory(e)}}
<1>1. PanelType = SystemTypeOf(context)
  BY DEF PanelType
<1>2. ASSUME NEW d \in Dimension
      PROVE  PanelMandatory(d) <=>
               (HasOverride(manifest.overrides, PanelType, d) =>
                  manifest.overrides[PanelType][d] \notin {"informational", "not-applicable"})
  <2>1. HasOverride(manifest.overrides, PanelType, d) =>
          manifest.overrides[PanelType][d] \in Applicability
    BY InstalledAssumption DEF OverridesTyped, HasOverride
  <2> QED
    BY <2>1 DEF PanelMandatory, Applicability
<1> QED
  BY <1>1, <1>2 DEF IndicatorIds, MandatoryOf

\* The completed ids are all of the mandatory ones exactly when they are as many.
LEMMA CompletedAll ==
  ASSUME NEW ids, IsFiniteSet(ids)
  PROVE  /\ Completed(ids) \in Nat
         /\ Completed(ids) <= Cardinality(ids)
         /\ Completed(ids) = Cardinality(ids) <=> CompletedIds(ids) = ids
<1>1. CompletedIds(ids) \subseteq ids
  BY DEF CompletedIds
<1> QED
  BY <1>1, FS_Subset, FS_CardinalityType DEF Completed

---------------------------------------------------------------------------
(* The inductive invariant: the documents are typed, what the gate let     *)
(* through is well formed, and the report's figures are those of the       *)
(* documents as they stand.                                                *)

ReportOfDocs ==
  IF phase = "reported"
  THEN coverage = AuditCoverage /\ panel = CoveragePanel
  ELSE coverage = Absent /\ panel = Absent

Reviewed ==
  /\ checks \in Seq(Records) \cup {Absent}
  /\ phase \in {"written", "rejected", "validated", "reported"}
  /\ manifest \in Installed \cup {Absent}
  /\ phase \in {"validated", "reported"} => WellFormed(docs[1], checks, context)
  /\ ReportOfDocs

LEMMA InitReviewed == Init => Reviewed
  BY DocumentsAssumption DEF Init, Reviewed, ReportOfDocs, checks

\* The figures depend on the documents and the manifest only.
LEMMA SameDocs ==
  ASSUME UNCHANGED <<docs, manifest>>
  PROVE  AuditCoverage' = AuditCoverage /\ CoveragePanel' = CoveragePanel
<1>1. checks' = checks /\ context' = context /\ manifest' = manifest
  BY DEF checks, context
<1>2. \A cid : InstancesOf(cid)' = InstancesOf(cid)
  BY <1>1 DEF InstancesOf
<1>3. /\ Unrecorded' = Unrecorded /\ Listed' = Listed
      /\ IndicatorIds' = IndicatorIds /\ NoContext' = NoContext
  BY <1>1, <1>2 DEF Unrecorded, Listed, IndicatorIds, NoContext
<1>4. \A d : PanelMandatory(d)' = PanelMandatory(d)
  BY <1>1 DEF PanelMandatory, PanelType
<1>5. AuditCoverage' = AuditCoverage
  BY <1>1, <1>2, <1>3 DEF AuditCoverage, Completed, CompletedIds
<1>6. CoveragePanel' = CoveragePanel
  BY <1>1, <1>3, <1>4 DEF CoveragePanel
<1> QED
  BY <1>5, <1>6

\* The agent's fixes leave a list of check records one.
LEMMA FixedTyped ==
  ASSUME checks \in Seq(Records) \cup {Absent}, NEW d \in Fixed
  PROVE  d[2] \in Seq(Records) \cup {Absent}
<1>1. CASE checks = Absent \/ \E fs \in FindingLists : d = <<fs, checks, context>>
  BY <1>1 DEF Fixed
<1>2. CASE checks # Absent /\ \E i \in DOMAIN checks, c \in Records :
             d = <<docs[1], [checks EXCEPT ![i] = c], context>>
  BY <1>2
<1>3. CASE checks # Absent /\ \E c \in Records : d = <<docs[1], Append(checks, c), context>>
  BY <1>3
<1>4. CASE checks # Absent /\ \E i \in DOMAIN checks :
             d = <<docs[1], RemoveAt(checks, i), context>>
  <2>1. PICK i \in 1 .. Len(checks) : d[2] = RemoveAt(checks, i)
    BY <1>4
  <2>2. SubSeq(checks, 1, i - 1) \in Seq(Records)
    BY <1>4, SubSeqProperties
  <2>3. SubSeq(checks, i + 1, Len(checks)) \in Seq(Records)
    BY <1>4, SubSeqProperties
  <2> QED
    BY <2>1, <2>2, <2>3, ConcatProperties DEF RemoveAt
<1> QED
  BY <1>1, <1>2, <1>3, <1>4 DEF Fixed

LEMMA StepReviewed ==
  ASSUME Reviewed, [Next]_vars
  PROVE  Reviewed'
<1>1. CASE Validate
  BY <1>1 DEF Validate, Reviewed, ReportOfDocs, checks, context
<1>2. CASE Revise
  <2>1. docs'[2] \in Seq(Records) \cup {Absent}
    BY <1>2, FixedTyped DEF Revise, Reviewed
  <2> QED
    BY <1>2, <2>1 DEF Revise, Reviewed, ReportOfDocs, checks
<1>3. CASE Generate
  BY <1>3, SameDocs DEF Generate, Reviewed, ReportOfDocs, checks, context
<1>4. CASE Finished \/ UNCHANGED vars
  BY <1>4, SameDocs DEF Finished, vars, Reviewed, ReportOfDocs, checks, context
<1> QED
  BY <1>1, <1>2, <1>3, <1>4 DEF Next

THEOREM ReviewedAlways == Spec => []Reviewed
  BY InitReviewed, StepReviewed, PTL DEF Spec

---------------------------------------------------------------------------
(* What a report that shows the indicator says. *)

LEMMA Shown ==
  ASSUME Reviewed, coverage # Absent
  PROVE  LET ids == IndicatorIds IN
         /\ phase = "reported" /\ manifest \in Installed /\ checks \in Seq(Records)
         /\ checks # Absent /\ context # Absent
         /\ WellFormed(docs[1], checks, context)
         /\ coverage = [percent   |-> Percent(Completed(ids), Cardinality(ids)),
                        completed |-> Completed(ids),
                        total     |-> Cardinality(ids)]
         /\ ids # {} /\ Cardinality(ids) \in 1 .. 199
         /\ Completed(ids) \in 0 .. Cardinality(ids)
         /\ Completed(ids) = Cardinality(ids) <=> CompletedIds(ids) = ids
<1> DEFINE ids == IndicatorIds
<1>1. phase = "reported" /\ coverage = AuditCoverage
  BY DEF Reviewed, ReportOfDocs
<1>2. /\ checks # Absent /\ context # Absent /\ manifest # Absent /\ ids # {}
      /\ coverage = [percent   |-> Percent(Completed(ids), Cardinality(ids)),
                     completed |-> Completed(ids),
                     total     |-> Cardinality(ids)]
  BY <1>1 DEF AuditCoverage, NoContext
<1>3. manifest \in Installed
  BY <1>2 DEF Reviewed
<1>4. IsFiniteSet(ids) /\ Cardinality(ids) \in 1 .. 199
  BY <1>2, <1>3, ManifestTyped, FS_EmptySet
<1>5. /\ Completed(ids) \in 0 .. Cardinality(ids)
      /\ Completed(ids) = Cardinality(ids) <=> CompletedIds(ids) = ids
  BY <1>4, CompletedAll
<1> QED
  BY <1>1, <1>2, <1>3, <1>4, <1>5 DEF Reviewed

\* The instances the panel counts that have one status.
With(st) == {i \in Listed : checks[i].status = st}

LEMMA PanelCounts ==
  ASSUME checks \in Seq(Records), manifest \in Installed
  PROVE  /\ IsFiniteSet(Listed) /\ Cardinality(Listed) \in Nat
         /\ \A st : IsFiniteSet(With(st)) /\ Cardinality(With(st)) \in Nat
         /\ IsFiniteSet(Unrecorded) /\ Cardinality(Unrecorded) \in Nat
<1>1. IsFiniteSet(DOMAIN checks)
  BY FS_Interval
<1>2. Listed \subseteq DOMAIN checks /\ \A st : With(st) \subseteq DOMAIN checks
  BY DEF With, Listed
<1>3. Unrecorded \subseteq IdsOf(manifest)
  BY DEF Unrecorded
<1> QED
  BY <1>1, <1>2, <1>3, ManifestTyped, FS_Subset, FS_CardinalityType

LEMMA PanelShown ==
  ASSUME checks # Absent, manifest \in Installed
  PROVE  CoveragePanel =
           [count     |-> [st \in CheckStatuses |->
                             Cardinality(With(st))
                             + IF st = "not-assessed" THEN Cardinality(Unrecorded) ELSE 0],
            mandatory |-> Cardinality(UNION {manifest.checks[d] :
                                             d \in {e \in Dimension : PanelMandatory(e)}})]
BY ManifestTyped DEF CoveragePanel, With

LEMMA PanelTyped ==
  ASSUME checks \in Seq(Records), checks # Absent, manifest \in Installed
  PROVE  CoveragePanel \in [count : [CheckStatuses -> Nat], mandatory : Nat]
<1> DEFINE mandatory == UNION {manifest.checks[d] :
                               d \in {e \in Dimension : PanelMandatory(e)}}
<1>1. mandatory \subseteq IdsOf(manifest)
  BY DEF IdsOf
<1>2. Cardinality(mandatory) \in Nat
  BY <1>1, ManifestTyped, FS_Subset, FS_CardinalityType
<1> HIDE DEF mandatory
<1>3. \A st \in CheckStatuses :
        Cardinality(With(st))
        + (IF st = "not-assessed" THEN Cardinality(Unrecorded) ELSE 0) \in Nat
  BY PanelCounts
<1> QED
  BY <1>2, <1>3, PanelShown DEF mandatory

LEMMA ReviewedTypeOK == Reviewed => TypeOK
<1> SUFFICES ASSUME Reviewed PROVE TypeOK
  OBVIOUS
<1>1. ASSUME coverage # Absent
      PROVE  coverage \in [percent : 0 .. 100, completed : Nat, total : Nat]
  <2> DEFINE part == Completed(IndicatorIds)
             whole == Cardinality(IndicatorIds)
  <2>1. /\ coverage = [percent |-> Percent(part, whole), completed |-> part, total |-> whole]
        /\ part \in Nat /\ whole \in 1 .. 199 /\ part <= whole
    BY <1>1, Shown
  <2> HIDE DEF part, whole
  <2>2. /\ Percent(part, whole) \in 0 .. 100
        /\ Percent(part, whole) = 100 <=> part = whole
    BY <2>1, PercentOfWhole
  <2> QED
    BY <2>1, <2>2
<1>2. ASSUME panel # Absent
      PROVE  panel \in [count : [CheckStatuses -> Nat], mandatory : Nat]
  <2>1. panel = CoveragePanel
    BY <1>2 DEF Reviewed, ReportOfDocs
  <2>2. checks # Absent /\ manifest \in Installed /\ checks \in Seq(Records)
    BY <1>2, <2>1 DEF CoveragePanel, Reviewed
  <2> QED
    BY <2>1, <2>2, PanelTyped
<1> QED
  BY <1>1, <1>2 DEF Reviewed, TypeOK

\* Every figure of the report is of its type: no percentage above 100.
THEOREM AuditTypes == Spec => []TypeOK
  BY ReviewedAlways, ReviewedTypeOK, PTL

LEMMA ReviewedFull == Reviewed => FullMeansFull
<1> SUFFICES ASSUME Reviewed, phase = "reported", coverage # Absent
             PROVE  coverage.percent = 100 <=>
                      \A cid \in IndicatorIds :
                        \E i \in DOMAIN checks : /\ checks[i].id = cid
                                                 /\ checks[i].status # "not-assessed"
  BY DEF FullMeansFull
<1> DEFINE ids == IndicatorIds
<1>1. /\ checks # Absent /\ WellFormed(docs[1], checks, context)
      /\ coverage.percent = Percent(Completed(ids), Cardinality(ids))
      /\ Cardinality(ids) \in 1 .. 199
      /\ Completed(ids) \in 0 .. Cardinality(ids)
      /\ Completed(ids) = Cardinality(ids) <=> CompletedIds(ids) = ids
  BY Shown
<1>2. \A i \in DOMAIN checks : checks[i].status # "null"
  BY <1>1 DEF WellFormed, GoodCheck, CheckStatuses
<1>3. CompletedIds(ids) = ids <=>
        \A cid \in ids : \E i \in DOMAIN checks : /\ checks[i].id = cid
                                                  /\ checks[i].status # "not-assessed"
  BY <1>2 DEF CompletedIds, InstancesOf
<1>4. coverage.percent = 100 <=> CompletedIds(ids) = ids
  <2> DEFINE part == Completed(ids)
             whole == Cardinality(ids)
  <2>1. part \in Nat /\ whole \in 1 .. 199 /\ part <= whole
    BY <1>1
  <2>2. /\ coverage.percent = Percent(part, whole)
        /\ part = whole <=> CompletedIds(ids) = ids
    BY <1>1
  <2> HIDE DEF part, whole
  <2>3. Percent(part, whole) = 100 <=> part = whole
    BY <2>1, PercentOfWhole
  <2> QED
    BY <2>2, <2>3
<1> QED
  BY <1>3, <1>4

\* The indicator reads 100% exactly when every mandatory check was assessed on
\* some target.
THEOREM FullCoverage == Spec => []FullMeansFull
  BY ReviewedAlways, ReviewedFull, PTL

---------------------------------------------------------------------------
(* The two accounts. *)

\* The five statuses part the records the panel counts.
LEMMA StatusesPart ==
  ASSUME checks \in Seq(Records), manifest \in Installed,
         \A i \in DOMAIN checks : checks[i].status \in CheckStatuses
  PROVE  Cardinality(With("risk")) + Cardinality(With("strength")) + Cardinality(With("clean"))
           + Cardinality(With("not-applicable")) + Cardinality(With("not-assessed"))
         = Cardinality(Listed)
<1> DEFINE A == With("risk") \cup With("strength")
           B == A \cup With("clean")
           C == B \cup With("not-applicable")
           D == C \cup With("not-assessed")
<1>1. /\ \A st : IsFiniteSet(With(st)) /\ Cardinality(With(st)) \in Nat
      /\ \A st, u : st # u => With(st) \cap With(u) = {}
  BY PanelCounts DEF With
<1>2. /\ IsFiniteSet(A)
      /\ Cardinality(A) = Cardinality(With("risk")) + Cardinality(With("strength"))
  BY <1>1, DisjointUnion
<1>3. IsFiniteSet(B) /\ Cardinality(B) = Cardinality(A) + Cardinality(With("clean"))
  <2>1. A \cap With("clean") = {}
    BY <1>1
  <2> HIDE DEF A
  <2> QED
    BY <1>1, <1>2, <2>1, DisjointUnion
<1>4. IsFiniteSet(C) /\ Cardinality(C) = Cardinality(B) + Cardinality(With("not-applicable"))
  <2>1. B \cap With("not-applicable") = {}
    BY <1>1
  <2> HIDE DEF B
  <2> QED
    BY <1>1, <1>3, <2>1, DisjointUnion
<1>5. Cardinality(D) = Cardinality(C) + Cardinality(With("not-assessed"))
  <2>1. C \cap With("not-assessed") = {}
    BY <1>1
  <2> HIDE DEF C
  <2> QED
    BY <1>1, <1>4, <2>1, DisjointUnion
<1>6. D = Listed
  BY DEF With, Listed, CheckStatuses
<1> HIDE DEF A, B, C, D
<1> QED
  BY <1>1, <1>2, <1>3, <1>4, <1>5, <1>6

LEMMA ReviewedAgree == Reviewed => AccountsAgree
<1> SUFFICES ASSUME Reviewed, phase = "reported", coverage # Absent
             PROVE  /\ panel # Absent
                    /\ coverage.total = panel.mandatory
                    /\ panel.count["risk"] + panel.count["strength"] + panel.count["clean"]
                         + panel.count["not-applicable"] + panel.count["not-assessed"]
                         = Cardinality(Listed) + Cardinality(Unrecorded)
                    /\ panel.count["not-assessed"] = 0 => coverage.completed = coverage.total
                    /\ manifest = Rubric =>
                         /\ Cardinality(Listed) = Len(checks)
                         /\ Unrecorded \cap MandatoryIds(context) = {}
  BY DEF AccountsAgree
<1> DEFINE ids == IndicatorIds
<1>1. /\ checks \in Seq(Records) /\ checks # Absent /\ context # Absent
      /\ manifest \in Installed /\ ids # {}
      /\ WellFormed(docs[1], checks, context)
      /\ coverage.completed = Completed(ids) /\ coverage.total = Cardinality(ids)
      /\ Completed(ids) = Cardinality(ids) <=> CompletedIds(ids) = ids
  BY Shown
<1>2. /\ panel \in [count : [CheckStatuses -> Nat], mandatory : Nat]
      /\ \A st \in CheckStatuses :
           panel.count[st] = Cardinality(With(st))
                             + IF st = "not-assessed" THEN Cardinality(Unrecorded) ELSE 0
      /\ panel.mandatory = Cardinality(UNION {manifest.checks[d] :
                                              d \in {e \in Dimension : PanelMandatory(e)}})
  BY <1>1, PanelTyped, PanelShown DEF Reviewed, ReportOfDocs
<1>3. panel # Absent
  BY <1>2, PanelAssumption
<1>4. coverage.total = panel.mandatory
  BY <1>1, <1>2, SameMandatory
<1>5. \A i \in DOMAIN checks : checks[i].status \in CheckStatuses
  BY <1>1 DEF WellFormed, GoodCheck
<1>6. panel.count["risk"] + panel.count["strength"] + panel.count["clean"]
        + panel.count["not-applicable"] + panel.count["not-assessed"]
        = Cardinality(Listed) + Cardinality(Unrecorded)
  <2>1. /\ panel.count["risk"] = Cardinality(With("risk"))
        /\ panel.count["strength"] = Cardinality(With("strength"))
        /\ panel.count["clean"] = Cardinality(With("clean"))
        /\ panel.count["not-applicable"] = Cardinality(With("not-applicable"))
        /\ panel.count["not-assessed"] = Cardinality(With("not-assessed"))
                                         + Cardinality(Unrecorded)
    BY <1>1, <1>2, PanelCounts DEF CheckStatuses
  <2>2. Cardinality(With("risk")) + Cardinality(With("strength")) + Cardinality(With("clean"))
          + Cardinality(With("not-applicable")) + Cardinality(With("not-assessed"))
        = Cardinality(Listed)
    BY <1>1, <1>5, StatusesPart
  <2> QED
    BY <1>1, <2>1, <2>2, PanelCounts
<1>7. ASSUME panel.count["not-assessed"] = 0
      PROVE  coverage.completed = coverage.total
  <2>1. Cardinality(With("not-assessed")) = 0 /\ Cardinality(Unrecorded) = 0
    BY <1>1, <1>2, <1>7, PanelCounts DEF CheckStatuses
  <2>2. With("not-assessed") = {} /\ Unrecorded = {}
    BY <1>1, <2>1, PanelCounts, FS_EmptySet
  <2>3. \A i \in Listed : checks[i].status \notin {"null", "not-assessed"}
    BY <1>5, <2>2 DEF With, Listed, CheckStatuses
  <2>4. \A cid \in ids : InstancesOf(cid) # {} /\ InstancesOf(cid) \subseteq Listed
    BY <1>1, <2>2, ManifestTyped DEF Unrecorded, InstancesOf, Listed
  <2>5. CompletedIds(ids) = ids
    BY <2>3, <2>4 DEF CompletedIds
  <2> QED
    BY <1>1, <2>5
\* With the manifest the gate had, its rules say what the panel leaves out.
<1>8. ASSUME manifest = Rubric
      PROVE  Cardinality(Listed) = Len(checks) /\ Unrecorded \cap MandatoryIds(context) = {}
  <2>1. IdsOf(manifest) = ManifestIds /\ ids = MandatoryIds(context)
    BY <1>8 DEF Rubric, IdsOf, ManifestIds, IndicatorIds, MandatoryIds
  <2>2. ManifestIds # {}
    BY <1>1, <2>1, ManifestTyped
  <2>3. Listed = DOMAIN checks
    BY <1>1, <2>1, <2>2 DEF Listed, WellFormed, GoodCheck
  <2>4. Cardinality(DOMAIN checks) = Len(checks)
    <3> DEFINE len == Len(checks)
    <3>1. DOMAIN checks = 1 .. len /\ len \in Nat
      BY <1>1
    <3> HIDE DEF len
    <3>2. Cardinality(1 .. len) = len
      BY <3>1, FS_Interval
    <3> QED
      BY <3>1, <3>2, Zenon DEF len
  <2>5. \A cid \in MandatoryIds(context) : InstancesOf(cid) # {}
    BY <1>1 DEF WellFormed, Covered, InstancesOf
  <2> QED
    BY <2>3, <2>4, <2>5 DEF Unrecorded
<1> QED
  BY <1>3, <1>4, <1>6, <1>7, <1>8

\* The indicator and the panel never contradict each other, nor the documents
\* the gate let through, whatever version of the manifest the report finds.
THEOREM AccountsNeverDisagree == Spec => []AccountsAgree
  BY ReviewedAlways, ReviewedAgree, PTL
===========================================================================
