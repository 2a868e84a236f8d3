------------------------ MODULE DesignReview_proofs ------------------------
(***************************************************************************)
(* Every property of a design review, for every set of findings, check     *)
(* records and repositories.  One inductive invariant, IInv, carries them  *)
(* all: the documents are typed, what the gate let through is what it      *)
(* accepts, and the report on disk is that of sound findings.  The rest    *)
(* are facts about the functions of the two scripts.                       *)
(***************************************************************************)
EXTENDS DesignReview, FiniteSetTheorems, SequenceTheorems, WellFoundedInduction, TLAPS

---------------------------------------------------------------------------
(* Naturals and percentages. *)

\* A set of naturals that is not empty has a least element.
LEMMA LeastExists ==
  ASSUME NEW S \in SUBSET Nat, S # {}
  PROVE  \E low \in S : \A k \in S : low <= k
<1>1. PICK low \in S : \A k \in S : ~(<<k, low>> \in OpToRel(<, Nat))
  BY WFMin, NatLessThanWellFounded
<1>2. \A k \in S : k \in Nat /\ ~(k < low)
  BY <1>1 DEF OpToRel
<1> QED
  BY <1>2

\* Induction, for a predicate given as the set of the naturals that satisfy it.
LEMMA SetInduction ==
  ASSUME NEW S, 0 \in S, \A m \in Nat : m \in S => m + 1 \in S
  PROVE  Nat \subseteq S
<1> DEFINE T == Nat \ S
<1> SUFFICES ASSUME T # {} PROVE FALSE
  OBVIOUS
<1>1. PICK low \in T : \A k \in T : low <= k
  BY LeastExists
<1>2. low \in Nat /\ low \notin S /\ low # 0
  OBVIOUS
<1>3. low - 1 \in Nat /\ ~(low <= low - 1) /\ (low - 1) + 1 = low
  BY <1>2
<1>4. low - 1 \in S
  BY <1>1, <1>3
<1> QED
  BY <1>2, <1>3, <1>4

\* Percentages of fewer than 200 parts, where the part may be negative.
LEMMA PercentOfWhole ==
  ASSUME NEW part \in Int, NEW whole \in 1 .. 199, part <= whole
  PROVE  /\ Percent(part, whole) \in Int
         /\ Percent(part, whole) <= 100
         /\ Percent(part, whole) = 100 <=> part = whole
<1> DEFINE q == (100 * part) \div whole
           r == (100 * part) % whole
<1>1. q \in Int /\ r \in Int /\ 0 <= r /\ r < whole /\ 100 * part = whole * q + r
  OBVIOUS
<1>2. Percent(part, whole) = IF 2 * r < whole \/ (2 * r = whole /\ q % 2 = 0) THEN q ELSE q + 1
  BY DEF Percent
<1> HIDE DEF q, r
<1>3. CASE q >= 100
  <2>1. whole * q >= whole * 100
    BY <1>1, <1>3
  <2>2. part = whole /\ r = 0 /\ whole * q = whole * 100
    BY <1>1, <2>1
  <2>3. q = 100
    <3>1. q >= 101 => whole * q >= whole * 101
      BY <1>1
    <3> QED
      BY <1>1, <1>3, <2>2, <3>1
  <2> QED
    BY <1>2, <2>2, <2>3
<1>4. CASE q = 99
  <2>1. part # whole
    BY <1>1, <1>4
  <2>2. r <= whole - 100
    BY <1>1, <1>4, <2>1
  <2> QED
    BY <1>1, <1>2, <1>4, <2>1, <2>2
<1>5. CASE q < 99
  <2>1. part # whole
    <3>1. whole * q <= whole * 98
      BY <1>1, <1>5
    <3> QED
      BY <1>1, <3>1
  <2> QED
    BY <1>1, <1>2, <1>5, <2>1
<1> QED
  BY <1>1, <1>3, <1>4, <1>5

---------------------------------------------------------------------------
(* The verdict improves only when a concern goes away. *)

\* The order of VERDICTS is the order of the ranks.
LEMMA Ranks ==
  /\ VerdictRank("do-not-recommend") = 1
  /\ VerdictRank("recommend-with-changes") = 2
  /\ VerdictRank("needs-more-info") = 3
  /\ VerdictRank("recommend") = 4
<1>1. /\ DOMAIN Verdicts = {1, 2, 3, 4}
      /\ Verdicts[1] = "do-not-recommend"
      /\ Verdicts[2] = "recommend-with-changes"
      /\ Verdicts[3] = "needs-more-info"
      /\ Verdicts[4] = "recommend"
  BY DEF Verdicts
<1>2. ASSUME NEW v,
             NEW r \in DOMAIN Verdicts, Verdicts[r] = v,
             \A k \in DOMAIN Verdicts : Verdicts[k] = v => k = r
      PROVE  VerdictRank(v) = r
  BY <1>2 DEF VerdictRank
<1>3. VerdictRank("do-not-recommend") = 1
  BY <1>1, <1>2
<1>4. VerdictRank("recommend-with-changes") = 2
  BY <1>1, <1>2
<1>5. VerdictRank("needs-more-info") = 3
  BY <1>1, <1>2
<1>6. VerdictRank("recommend") = 4
  BY <1>1, <1>2
<1> QED
  BY <1>3, <1>4, <1>5, <1>6

\* A concern kept is a concern of the later findings, of the same kind.
LEMMA KeptConcern ==
  ASSUME NEW old, NEW new, Concerns(old) \subseteq Concerns(new),
         NEW i \in DOMAIN old, Concern(old[i])
  PROVE  \E j \in DOMAIN new : new[j] = old[i]
BY DEF Concerns

\* Findings that keep every concern get no better verdict.
LEMMA VerdictMonotone ==
  ASSUME NEW old, NEW new, Concerns(old) \subseteq Concerns(new)
  PROVE  VerdictRank(Verdict(new)) <= VerdictRank(Verdict(old))
<1>1. CASE \E i \in DOMAIN old : Blocking(old[i])
  <2>1. PICK i \in DOMAIN old : Blocking(old[i])
    BY <1>1
  <2>2. \E j \in DOMAIN new : Blocking(new[j])
    BY <2>1, KeptConcern DEF Concern
  <2> QED
    BY <1>1, <2>2, Ranks DEF Verdict
<1>2. CASE /\ ~ \E i \in DOMAIN old : Blocking(old[i])
           /\ \E i \in DOMAIN old : HighRisk(old[i])
  <2>1. PICK i \in DOMAIN old : HighRisk(old[i])
    BY <1>2
  <2>2. \E j \in DOMAIN new : HighRisk(new[j])
    BY <2>1, KeptConcern DEF Concern
  <2> QED
    BY <1>2, <2>2, Ranks DEF Verdict
<1>3. CASE /\ ~ \E i \in DOMAIN old : Blocking(old[i])
           /\ ~ \E i \in DOMAIN old : HighRisk(old[i])
           /\ \E i \in DOMAIN old : MediumRisk(old[i]) \/ OpenQuestion(old[i])
  <2>1. PICK i \in DOMAIN old : MediumRisk(old[i]) \/ OpenQuestion(old[i])
    BY <1>3
  <2>2. \E j \in DOMAIN new : MediumRisk(new[j]) \/ OpenQuestion(new[j])
    BY <2>1, KeptConcern DEF Concern
  <2> QED
    BY <1>3, <2>2, Ranks DEF Verdict
<1>4. CASE /\ ~ \E i \in DOMAIN old : Blocking(old[i])
           /\ ~ \E i \in DOMAIN old : HighRisk(old[i])
           /\ ~ \E i \in DOMAIN old : MediumRisk(old[i]) \/ OpenQuestion(old[i])
  BY <1>4, Ranks DEF Verdict
<1> QED
  BY <1>1, <1>2, <1>3, <1>4

---------------------------------------------------------------------------
(* The key panel. *)

\* Findings as the gate lets them through, as far as the report cares.
Sound(fs) ==
  \A i \in DOMAIN fs : /\ fs[i].severity # "other"
                       /\ fs[i].blocking => Risk(fs[i])

\* The findings the key panel places ahead of finding i.
Ahead(fs, i) == {j \in Pressing(fs) : Before(fs, j, i)}

\* The sort key of build_key_findings orders sound findings strictly and totally.
LEMMA BeforeOrders ==
  ASSUME NEW fs \in Seq(Finding), Sound(fs)
  PROVE  /\ \A i \in DOMAIN fs : ~Before(fs, i, i)
         /\ \A i, j \in DOMAIN fs : i # j => Before(fs, i, j) \/ Before(fs, j, i)
         /\ \A i, j, k \in DOMAIN fs : Before(fs, i, j) /\ Before(fs, j, k) => Before(fs, i, k)
<1> DEFINE rank(i) == SeverityRank[fs[i].severity]
<1>1. \A i \in DOMAIN fs : i \in Int /\ fs[i] \in Finding
  BY LenProperties
<1>2. \A i \in DOMAIN fs : rank(i) \in Int
  BY <1>1 DEF Sound, SeverityRank, Finding, Severities
<1>3. \A i \in DOMAIN fs : fs[i].blocking \in BOOLEAN
  BY <1>1 DEF Finding
<1>4. \A i, j : Before(fs, i, j) <=>
        IF fs[i].blocking # fs[j].blocking THEN fs[i].blocking
        ELSE rank(i) > rank(j) \/ (rank(i) = rank(j) /\ i < j)
  BY DEF Before
<1> HIDE DEF rank
<1>5. \A i \in DOMAIN fs : ~Before(fs, i, i)
  BY <1>1, <1>2, <1>4
<1>6. \A i, j \in DOMAIN fs : i # j => Before(fs, i, j) \/ Before(fs, j, i)
  BY <1>1, <1>2, <1>3, <1>4
<1>7. \A i, j, k \in DOMAIN fs : Before(fs, i, j) /\ Before(fs, j, k) => Before(fs, i, k)
  BY <1>1, <1>2, <1>3, <1>4
<1> QED
  BY <1>5, <1>6, <1>7

\* Finitely many findings are ahead of another, fewer of one that is ahead.
LEMMA AheadCounts ==
  ASSUME NEW fs \in Seq(Finding), Sound(fs), NEW i \in Pressing(fs)
  PROVE  /\ IsFiniteSet(Ahead(fs, i))
         /\ Cardinality(Ahead(fs, i)) \in Nat
         /\ \A j \in Ahead(fs, i) : Cardinality(Ahead(fs, j)) < Cardinality(Ahead(fs, i))
<1>1. IsFiniteSet(Pressing(fs)) /\ Pressing(fs) \subseteq DOMAIN fs
  <2>1. IsFiniteSet(DOMAIN fs)
    BY LenProperties, FS_Interval
  <2> QED
    BY <2>1, FS_Subset DEF Pressing
<1>2. \A k : Ahead(fs, k) \subseteq Pressing(fs)
  BY DEF Ahead
<1>3. \A k : IsFiniteSet(Ahead(fs, k)) /\ Cardinality(Ahead(fs, k)) \in Nat
  BY <1>1, <1>2, FS_Subset, FS_CardinalityType
<1>4. ASSUME NEW j \in Ahead(fs, i)
      PROVE  Cardinality(Ahead(fs, j)) < Cardinality(Ahead(fs, i))
  <2>1. j \in DOMAIN fs /\ i \in DOMAIN fs /\ Before(fs, j, i)
    BY <1>1 DEF Ahead
  <2>2. j \notin Ahead(fs, j)
    BY <2>1, BeforeOrders DEF Ahead
  <2>3. Ahead(fs, j) \subseteq Ahead(fs, i)
    BY <1>1, <2>1, BeforeOrders DEF Ahead
  <2>4. Ahead(fs, j) # Ahead(fs, i)
    BY <2>2
  <2> QED
    BY <1>3, <2>3, <2>4, FS_Subset
<1> QED
  BY <1>3, <1>4

\* The places of the key findings differ, so there are no more than places.
LEMMA KeyIsShort ==
  ASSUME NEW fs \in Seq(Finding), Sound(fs)
  PROVE  /\ KeyFindings(fs) \subseteq DOMAIN fs
         /\ Cardinality(KeyFindings(fs)) \in 0 .. KeyLimit
<1> DEFINE key == KeyFindings(fs)
           place == [i \in key |-> Cardinality(Ahead(fs, i))]
<1>1. key \subseteq Pressing(fs) /\ Pressing(fs) \subseteq DOMAIN fs
  BY DEF KeyFindings, Pressing
<1>2. \A i \in key : Cardinality(Ahead(fs, i)) \in Nat /\ Cardinality(Ahead(fs, i)) < KeyLimit
  BY <1>1, AheadCounts DEF KeyFindings, Ahead
<1>3. KeyLimit \in Nat /\ KeyLimit # 0
  BY LimitAssumption
<1>4. place \in [key -> 0 .. KeyLimit - 1]
  BY <1>2, <1>3
<1>5. \A i, j \in key : place[i] = place[j] => i = j
  <2> SUFFICES ASSUME NEW i \in key, NEW j \in key, i # j
               PROVE  place[i] # place[j]
    OBVIOUS
  <2>1. i \in Ahead(fs, j) \/ j \in Ahead(fs, i)
    BY <1>1, BeforeOrders DEF Ahead
  <2>2. \/ Cardinality(Ahead(fs, i)) < Cardinality(Ahead(fs, j))
        \/ Cardinality(Ahead(fs, j)) < Cardinality(Ahead(fs, i))
    BY <1>1, <2>1, AheadCounts
  <2> QED
    BY <1>2, <2>2
<1>6. IsFiniteSet(key) /\ Cardinality(key) \in Nat
  <2>1. IsFiniteSet(DOMAIN fs)
    BY LenProperties, FS_Interval
  <2> QED
    BY <1>1, <2>1, FS_Subset, FS_CardinalityType
<1>7. IsFiniteSet(0 .. KeyLimit - 1) /\ Cardinality(0 .. KeyLimit - 1) = KeyLimit
  BY <1>3, FS_Interval
<1>8. ~(Cardinality(0 .. KeyLimit - 1) < Cardinality(key))
  <2> SUFFICES ASSUME Cardinality(0 .. KeyLimit - 1) < Cardinality(key) PROVE FALSE
    OBVIOUS
  <2> HIDE DEF place, key
  <2>1. \E i, j \in key : i # j /\ place[i] = place[j]
    BY <1>4, <1>6, <1>7, FS_PigeonHole
  <2> QED
    BY <1>5, <2>1
<1> QED
  BY <1>1, <1>3, <1>6, <1>7, <1>8

\* What is flagged is ahead of what is not, and some flagged one of all.
LEMMA KeyFlagged ==
  ASSUME NEW fs \in Seq(Finding), Sound(fs)
  PROVE  /\ (\E j \in DOMAIN fs : Blocking(fs[j]) /\ j \notin KeyFindings(fs))
              => \A i \in KeyFindings(fs) : Blocking(fs[i])
         /\ (\E j \in DOMAIN fs : Blocking(fs[j])) => \E i \in KeyFindings(fs) : Blocking(fs[i])
<1>1. \A i \in DOMAIN fs : /\ fs[i].blocking \in BOOLEAN
                           /\ Blocking(fs[i]) <=> fs[i].blocking
                           /\ Blocking(fs[i]) => i \in Pressing(fs)
  <2>1. \A i \in DOMAIN fs : fs[i] \in Finding
    BY LenProperties
  <2> QED
    BY <2>1 DEF Sound, Blocking, Pressing, Finding
<1>2. ASSUME NEW j \in DOMAIN fs, Blocking(fs[j]), NEW k \in Ahead(fs, j)
      PROVE  k \in DOMAIN fs /\ Blocking(fs[k])
  BY <1>1, <1>2 DEF Ahead, Before, Pressing
<1>3. ASSUME NEW j \in DOMAIN fs, Blocking(fs[j]), j \notin KeyFindings(fs),
             NEW i \in KeyFindings(fs), ~Blocking(fs[i])
      PROVE  FALSE
  <2>1. i \in Pressing(fs) /\ i \in DOMAIN fs /\ j \in Pressing(fs)
    BY <1>1, <1>3 DEF KeyFindings, Pressing
  <2>2. Before(fs, j, i)
    BY <1>1, <1>3, <2>1 DEF Before
  <2>3. j \in Ahead(fs, i)
    BY <2>1, <2>2 DEF Ahead
  <2>4. Cardinality(Ahead(fs, j)) < Cardinality(Ahead(fs, i))
    BY <2>1, <2>3, AheadCounts
  <2>5. Cardinality(Ahead(fs, i)) < KeyLimit /\ ~(Cardinality(Ahead(fs, j)) < KeyLimit)
    BY <1>3, <2>1 DEF KeyFindings, Ahead
  <2> QED
    BY <2>1, <2>4, <2>5, AheadCounts, LimitAssumption
<1>4. ASSUME NEW b \in DOMAIN fs, Blocking(fs[b])
      PROVE  \E i \in KeyFindings(fs) : Blocking(fs[i])
  <2> DEFINE Flagged == {i \in DOMAIN fs : Blocking(fs[i])}
             S == {Cardinality(Ahead(fs, i)) : i \in Flagged}
  <2>1. \A i \in Flagged : Cardinality(Ahead(fs, i)) \in Nat
    BY <1>1, AheadCounts
  <2>2. S \in SUBSET Nat /\ S # {}
    BY <1>4, <2>1
  <2> HIDE DEF S
  <2>3. PICK low \in S : \A k \in S : low <= k
    BY <2>2, LeastExists
  <2>4. PICK i \in Flagged : low = Cardinality(Ahead(fs, i))
    BY DEF S
  <2>5. Ahead(fs, i) = {}
    <3> SUFFICES ASSUME NEW k \in Ahead(fs, i) PROVE FALSE
      OBVIOUS
    <3>1. k \in Flagged
      BY <1>2
    <3>2. Cardinality(Ahead(fs, k)) \in S
      BY <3>1 DEF S
    <3>3. Cardinality(Ahead(fs, k)) < Cardinality(Ahead(fs, i))
      BY <1>1, AheadCounts
    <3> QED
      BY <2>1, <2>3, <2>4, <3>1, <3>2, <3>3
  <2>6. Cardinality(Ahead(fs, i)) < KeyLimit
    BY <2>5, FS_EmptySet, LimitAssumption
  <2> QED
    BY <1>1, <2>6 DEF KeyFindings, Ahead
<1> QED
  BY <1>3, <1>4

---------------------------------------------------------------------------
(* The coverage. *)

\* Rounding keeps the order of what it rounds.
LEMMA PercentMonotone ==
  ASSUME NEW part \in Int, NEW more \in Int, part <= more, NEW whole \in 1 .. 199
  PROVE  Percent(part, whole) <= Percent(more, whole)
<1> DEFINE q == (100 * part) \div whole
           r == (100 * part) % whole
           Q == (100 * more) \div whole
           R == (100 * more) % whole
<1>1. /\ q \in Int /\ r \in Int /\ 0 <= r /\ r < whole /\ 100 * part = whole * q + r
      /\ Q \in Int /\ R \in Int /\ 0 <= R /\ R < whole /\ 100 * more = whole * Q + R
  OBVIOUS
<1>2. /\ Percent(part, whole) = IF 2 * r < whole \/ (2 * r = whole /\ q % 2 = 0) THEN q ELSE q + 1
      /\ Percent(more, whole) = IF 2 * R < whole \/ (2 * R = whole /\ Q % 2 = 0) THEN Q ELSE Q + 1
  BY DEF Percent
<1> HIDE DEF q, r, Q, R
<1>3. q <= Q
  <2>1. Q + 1 <= q => whole * (Q + 1) <= whole * q
    BY <1>1
  <2>2. whole * (Q + 1) = whole * Q + whole
    BY <1>1
  <2> QED
    BY <1>1, <2>1, <2>2
<1>4. q = Q => r <= R
  BY <1>1
<1> QED
  BY <1>1, <1>2, <1>3, <1>4

\* A union has at most as many elements as its parts together.
LEMMA UnionAtMost ==
  ASSUME NEW S, NEW T, IsFiniteSet(S), IsFiniteSet(T)
  PROVE  /\ IsFiniteSet(S \cup T)
         /\ Cardinality(S \cup T) <= Cardinality(S) + Cardinality(T)
<1>1. IsFiniteSet(S \cap T)
  BY FS_Subset
<1>2. /\ Cardinality(S) \in Nat /\ Cardinality(T) \in Nat
      /\ Cardinality(S \cap T) \in Nat
  BY <1>1, FS_CardinalityType
<1>3. /\ IsFiniteSet(S \cup T)
      /\ Cardinality(S \cup T) = Cardinality(S) + Cardinality(T) - Cardinality(S \cap T)
  BY FS_Union
<1> QED
  BY <1>2, <1>3

\* The coverage is a percentage, no more than the share of the checks that were
\* assessed, and full only when nothing is left to assess.
LEMMA CoverageFull ==
  ASSUME NEW cs \in Seq(Check)
  PROVE  /\ Coverage(cs) \in Int
         /\ Coverage(cs) <= 100
         /\ Coverage(cs) <= AssessedShare(cs)
         /\ Coverage(cs) = 100 =>
              \A c \in ManifestIds :
                /\ \E i \in DOMAIN cs : cs[i].id = c
                /\ \A i \in DOMAIN cs : cs[i].id = c => cs[i].status # "not-assessed"
<1> DEFINE Skipped == {i \in DOMAIN cs : cs[i].id \in ManifestIds /\ cs[i].status = "not-assessed"}
           Missing == {c \in ManifestIds : \A i \in DOMAIN cs : cs[i].id # c}
           whole == Cardinality(ManifestIds)
<1>1. /\ IsFiniteSet(Skipped) /\ Cardinality(Skipped) \in Nat
      /\ Cardinality(Skipped) = 0 <=> Skipped = {}
  <2>1. IsFiniteSet(DOMAIN cs)
    BY LenProperties, FS_Interval
  <2> QED
    BY <2>1, FS_Subset, FS_CardinalityType, FS_EmptySet
<1>2. /\ IsFiniteSet(Missing) /\ Cardinality(Missing) \in Nat
      /\ Cardinality(Missing) = 0 <=> Missing = {}
  BY ManifestAssumption, FS_Subset, FS_CardinalityType, FS_EmptySet
<1>3. whole \in 1 .. 199
  BY ManifestAssumption
<1>4. cs # Absent
  BY AbsentAssumption
<1>5. NotAssessed(cs) = Cardinality(Skipped) + Cardinality(Missing)
  BY DEF NotAssessed
<1>6. Coverage(cs) = Percent(whole - NotAssessed(cs), whole)
  BY <1>4 DEF Coverage
<1>7. (\A c \in ManifestIds :
         /\ \E i \in DOMAIN cs : cs[i].id = c
         /\ \A i \in DOMAIN cs : cs[i].id = c => cs[i].status # "not-assessed")
        <=> Skipped = {} /\ Missing = {}
  OBVIOUS
<1> HIDE DEF Skipped, Missing, whole
<1>8. /\ whole - NotAssessed(cs) \in Int
      /\ whole - NotAssessed(cs) <= whole
      /\ whole - NotAssessed(cs) = whole <=> Skipped = {} /\ Missing = {}
  BY <1>1, <1>2, <1>3, <1>5
<1> DEFINE part == whole - NotAssessed(cs)
<1> HIDE DEF part
<1>9. /\ Percent(part, whole) \in Int
      /\ Percent(part, whole) <= 100
      /\ Percent(part, whole) = 100 <=> part = whole
  BY <1>3, <1>8, PercentOfWhole DEF part
\* Every check that was not assessed costs at least one instance: its record
\* that says so, or the one it is counted for.
<1>10. part <= Cardinality(AssessedIds(cs)) /\ Cardinality(AssessedIds(cs)) \in Nat
  <2> DEFINE ids == {cs[i].id : i \in Skipped}
             assessed == AssessedIds(cs)
  <2>1. IsFiniteSet(ids) /\ Cardinality(ids) <= Cardinality(Skipped) /\ Cardinality(ids) \in Nat
    <3> DEFINE idOf == [i \in Skipped |-> cs[i].id]
    <3>1. idOf \in Surjection(Skipped, ids)
      BY DEF Surjection
    <3>2. IsFiniteSet(ids) /\ Cardinality(ids) <= Cardinality(Skipped)
      BY <1>1, <3>1, FS_Surjection
    <3> QED
      BY <3>2, FS_CardinalityType
  <2>2. assessed \subseteq ManifestIds /\ IsFiniteSet(assessed) /\ Cardinality(assessed) \in Nat
    BY ManifestAssumption, FS_Subset, FS_CardinalityType DEF AssessedIds
  <2>3. ManifestIds \subseteq (assessed \cup ids) \cup Missing
    <3> SUFFICES ASSUME NEW c \in ManifestIds, c \notin assessed, c \notin Missing
                 PROVE  c \in ids
      OBVIOUS
    <3>1. PICK i \in DOMAIN cs : cs[i].id = c
      BY DEF Missing
    <3>2. i \in Skipped
      BY <3>1 DEF AssessedIds, Skipped
    <3> QED
      BY <3>1, <3>2
  <2> HIDE DEF ids, assessed
  <2>4. /\ IsFiniteSet(assessed \cup ids)
        /\ Cardinality(assessed \cup ids) <= Cardinality(assessed) + Cardinality(ids)
    BY <2>1, <2>2, UnionAtMost
  <2>5. Cardinality(assessed \cup ids) \in Nat
    BY <2>4, FS_CardinalityType
  <2>6. /\ IsFiniteSet((assessed \cup ids) \cup Missing)
        /\ Cardinality((assessed \cup ids) \cup Missing)
             <= Cardinality(assessed \cup ids) + Cardinality(Missing)
    BY <1>2, <2>4, UnionAtMost
  <2>7. /\ Cardinality((assessed \cup ids) \cup Missing) \in Nat
        /\ whole <= Cardinality((assessed \cup ids) \cup Missing)
    BY <2>3, <2>6, FS_Subset, FS_CardinalityType DEF whole
  <2>8. Cardinality(assessed) \in Nat /\ part <= Cardinality(assessed)
    BY <1>1, <1>2, <1>3, <1>5, <2>1, <2>2, <2>4, <2>5, <2>6, <2>7 DEF part
  <2> QED
    BY <2>8 DEF assessed
<1>11. Percent(part, whole) <= AssessedShare(cs)
  <2> DEFINE more == Cardinality(AssessedIds(cs))
  <2>1. part \in Int /\ more \in Int /\ part <= more
    BY <1>8, <1>10 DEF part
  <2> HIDE DEF more
  <2>2. Percent(part, whole) <= Percent(more, whole)
    BY <1>3, <2>1, PercentMonotone
  <2> QED
    BY <2>2 DEF AssessedShare, more, whole
<1> QED
  BY <1>6, <1>7, <1>8, <1>9, <1>11 DEF part

---------------------------------------------------------------------------
(* The loop of the gate that keeps records for comparison. *)

\* What is stored before record i, given what is stored before record i - 1.
StoredNext(cs, prev, i) ==
  IF i = 1 THEN {}
  ELSE IF \E j \in prev : Clash(cs[i - 1], cs[j]) THEN prev
  ELSE prev \cup {i - 1}

\* f says what is stored before each of the first n records.
StoredUpTo(cs, f, n) == f = [i \in 1 .. n |-> StoredNext(cs, f[i - 1], i)]

\* The loop is defined for every number of records.
LEMMA StoredExists ==
  ASSUME NEW cs, NEW n \in Nat
  PROVE  \E f : StoredUpTo(cs, f, n)
<1> DEFINE S == {m \in Nat : \E f : StoredUpTo(cs, f, m)}
<1>1. 0 \in S
  <2>1. StoredUpTo(cs, [i \in 1 .. 0 |-> {}], 0)
    BY DEF StoredUpTo
  <2> QED
    BY <2>1
<1>2. ASSUME NEW m \in Nat, m \in S
      PROVE  m + 1 \in S
  <2>1. PICK f : StoredUpTo(cs, f, m)
    BY <1>2
  <2> DEFINE g == [i \in 1 .. m + 1 |-> IF i = m + 1 THEN StoredNext(cs, f[m], m + 1) ELSE f[i]]
  <2>2. ASSUME NEW i \in 1 .. m + 1
        PROVE  g[i] = StoredNext(cs, g[i - 1], i)
    <3>1. CASE i = 1
      <4>1. m # 0 => f[1] = {}
        BY <2>1 DEF StoredUpTo, StoredNext
      <4> QED
        BY <3>1, <4>1 DEF StoredNext
    <3>2. CASE i # 1 /\ i # m + 1
      <4>1. i \in 1 .. m /\ i - 1 \in 1 .. m + 1 /\ i - 1 # m + 1
        BY <3>2
      <4>2. g[i] = f[i] /\ g[i - 1] = f[i - 1]
        BY <3>2, <4>1
      <4>3. f[i] = StoredNext(cs, f[i - 1], i)
        BY <2>1, <4>1 DEF StoredUpTo
      <4> QED
        BY <4>2, <4>3
    <3>3. CASE i # 1 /\ i = m + 1
      <4>1. m \in 1 .. m + 1 /\ m # m + 1 /\ i - 1 = m
        BY <3>3
      <4> QED
        BY <3>3, <4>1
    <3> QED
      BY <3>1, <3>2, <3>3
  <2>3. g = [i \in 1 .. m + 1 |-> g[i]]
    OBVIOUS
  <2>7. StoredUpTo(cs, g, m + 1)
    <3> HIDE DEF g
    <3> QED
      BY <2>2, <2>3 DEF StoredUpTo
  <2> QED
    BY <2>7
<1> HIDE DEF S
<1>3. Nat \subseteq S
  BY <1>1, <1>2, SetInduction
<1> QED
  BY <1>3 DEF S

\* The recursive definition of StoredBefore describes its value.
LEMMA StoredUnfolds ==
  ASSUME NEW cs, Len(cs) \in Nat
  PROVE  StoredUpTo(cs, StoredBefore(cs), Len(cs) + 1)
<1>1. StoredBefore(cs) = CHOOSE f : StoredUpTo(cs, f, Len(cs) + 1)
  BY DEF StoredBefore, StoredUpTo, StoredNext
<1>2. \E f : StoredUpTo(cs, f, Len(cs) + 1)
  BY StoredExists
<1> QED
  BY <1>1, <1>2

\* Where no record clashes with a stored one, every record is stored.
LEMMA AllStored ==
  ASSUME NEW cs, Len(cs) \in Nat,
         \A i \in 1 .. Len(cs) : ~ \E j \in StoredBefore(cs)[i] : Clash(cs[i], cs[j])
  PROVE  \A i \in 1 .. Len(cs) : StoredBefore(cs)[i] = 1 .. i - 1
<1> DEFINE st == StoredBefore(cs)
           S == {m \in Nat : m + 1 \in 1 .. Len(cs) => st[m + 1] = 1 .. m}
<1>1. \A i \in 1 .. Len(cs) : st[i] = StoredNext(cs, st[i - 1], i)
  <2>1. \A i \in 1 .. Len(cs) : i \in 1 .. Len(cs) + 1
    OBVIOUS
  <2>2. st = [i \in 1 .. Len(cs) + 1 |-> StoredNext(cs, st[i - 1], i)]
    BY StoredUnfolds DEF StoredUpTo
  <2> HIDE DEF st
  <2> QED
    BY <2>1, <2>2
<1> HIDE DEF st
<1>2. 0 \in S
  <2>1. 1 \in 1 .. Len(cs) => st[1] = {}
    BY <1>1 DEF StoredNext
  <2> QED
    BY <2>1
<1>3. ASSUME NEW m \in Nat, m \in S
      PROVE  m + 1 \in S
  <2> SUFFICES ASSUME m + 2 \in 1 .. Len(cs)
               PROVE  st[m + 2] = 1 .. m + 1
    OBVIOUS
  <2>1. m + 1 \in 1 .. Len(cs) /\ st[m + 1] = 1 .. m
    BY <1>3
  <2>2. ~ \E j \in st[m + 1] : Clash(cs[m + 1], cs[j])
    BY <2>1 DEF st
  <2>3. st[m + 2] = StoredNext(cs, st[m + 1], m + 2)
    BY <1>1
  <2>4. st[m + 2] = st[m + 1] \cup {m + 1}
    BY <2>2, <2>3 DEF StoredNext
  <2> QED
    BY <2>1, <2>4
<1> HIDE DEF S
<1>4. Nat \subseteq S
  BY <1>2, <1>3, SetInduction
<1>5. ASSUME NEW i \in 1 .. Len(cs)
      PROVE  st[i] = 1 .. i - 1
  <2>1. i - 1 \in S /\ (i - 1) + 1 = i
    BY <1>4
  <2> QED
    BY <2>1 DEF S
<1> QED
  BY <1>5 DEF st

\* No record of an accepted review clashes with another one, stored or not.
LEMMA NoClash ==
  ASSUME NEW fs, NEW cs \in Seq(Check),
         \A i \in DOMAIN cs : ~FaultyCheck(fs, cs, i)
  PROVE  \A i, j \in DOMAIN cs : i # j => ~Clash(cs[i], cs[j])
<1>1. DOMAIN cs = 1 .. Len(cs) /\ Len(cs) \in Nat
  BY LenProperties
<1>2. \A i \in 1 .. Len(cs) : ~ \E j \in StoredBefore(cs)[i] : Clash(cs[i], cs[j])
  BY <1>1, Zenon DEF FaultyCheck
<1>3. \A i \in 1 .. Len(cs) : StoredBefore(cs)[i] = 1 .. i - 1
  BY <1>1, <1>2, AllStored
<1>4. \A i, j \in 1 .. Len(cs) : j < i => ~Clash(cs[i], cs[j])
  <2> SUFFICES ASSUME NEW i \in 1 .. Len(cs), NEW j \in 1 .. Len(cs), j < i
               PROVE  ~Clash(cs[i], cs[j])
    OBVIOUS
  <2>1. j \in 1 .. i - 1
    OBVIOUS
  <2> QED
    BY <1>2, <1>3, <2>1
<1>5. \A c, d : Clash(c, d) <=> Clash(d, c)
  BY DEF Clash
<1>6. \A i, j \in 1 .. Len(cs) : i # j => j < i \/ i < j
  BY <1>1
<1> QED
  BY <1>1, <1>4, <1>5, <1>6

---------------------------------------------------------------------------
(* The inductive invariant. *)

\* An edited list is a list of the same things.
LEMMA EditsTyped ==
  ASSUME NEW S, NEW E \in SUBSET S, NEW s \in Seq(S), NEW max, NEW t \in Edits(s, E, max)
  PROVE  t \in Seq(S)
<1>1. ASSUME NEW i \in DOMAIN s, NEW e \in E
      PROVE  [s EXCEPT ![i] = e] \in Seq(S)
  BY ExceptSeq, LenProperties
<1>2. ASSUME NEW e \in E
      PROVE  Append(s, e) \in Seq(S)
  BY AppendProperties
<1>3. ASSUME NEW i \in DOMAIN s
      PROVE  RemoveAt(s, i) \in Seq(S)
  <2>1. i \in 1 .. Len(s) /\ Len(s) \in Nat
    BY LenProperties
  <2>2. SubSeq(s, 1, i - 1) \in Seq(S) /\ SubSeq(s, i + 1, Len(s)) \in Seq(S)
    BY <2>1
  <2> QED
    BY <2>2, ConcatProperties DEF RemoveAt
<1>4. CASE t \in {[s EXCEPT ![i] = e] : i \in DOMAIN s, e \in E}
  BY <1>1, <1>4
<1>5. CASE t \in {Append(s, e) : e \in {d \in E : Len(s) < max}}
  BY <1>2, <1>5
<1>6. CASE t \in {RemoveAt(s, i) : i \in DOMAIN s}
  BY <1>3, <1>6
<1>7. \/ t \in {[s EXCEPT ![i] = e] : i \in DOMAIN s, e \in E}
      \/ t \in {Append(s, e) : e \in {d \in E : Len(s) < max}}
      \/ t \in {RemoveAt(s, i) : i \in DOMAIN s}
  <2>1. t \in Edits(s, E, max)
    OBVIOUS
  <2> QED
    BY <2>1 DEF Edits
<1> QED
  BY <1>4, <1>5, <1>6, <1>7

DocsTyped == docs \in Seq(Finding) \X (Seq(Check) \cup {Absent})

LEMMA InitDocs == Init => DocsTyped
<1> SUFFICES ASSUME Init PROVE DocsTyped
  OBVIOUS
<1>1. docs \in Seq(Findings) \X (Seq(Records) \cup {Absent})
  BY DraftsAssumption DEF Init
<1>2. docs[1] \in Seq(Finding)
  BY <1>1, FindingsAssumption, SeqMonotonic
<1>3. docs[2] \in Seq(Check) \cup {Absent}
  BY <1>1, FindingsAssumption, SeqMonotonic
<1> QED
  BY <1>1, <1>2, <1>3 DEF DocsTyped

LEMMA StepDocs == DocsTyped /\ [Next]_vars => DocsTyped'
<1> SUFFICES ASSUME DocsTyped, [Next]_vars PROVE DocsTyped'
  OBVIOUS
<1>1. CASE UNCHANGED docs
  BY <1>1 DEF DocsTyped
<1>2. CASE Revise
  <2>1. findings \in Seq(Finding) /\ checks \in Seq(Check) \cup {Absent}
    BY DEF DocsTyped, findings, checks
  <2>2. ASSUME NEW fs \in Edits(findings, Findings, MaxFindings)
        PROVE  fs \in Seq(Finding)
    BY <2>1, FindingsAssumption, EditsTyped
  <2>3. ASSUME checks # Absent, NEW cs \in Edits(checks, Records, MaxRecords)
        PROVE  cs \in Seq(Check)
    BY <2>1, <2>3, FindingsAssumption, EditsTyped
  <2> QED
    BY <1>2, <2>1, <2>2, <2>3 DEF Revise, DocsTyped
<1> QED
  BY <1>1, <1>2 DEF Next, Validate, Generate, vars

\* What was validated is what the gate accepts: nobody touches the documents
\* or repos.json before they are reported.
GateHeld == phase \in {"validated", "reported"} => Accepts

\* The report on disk, whichever review it is from: the findings it lists had
\* passed the gate, and its figures are those of these findings.
ReportSound ==
  report # Absent =>
    /\ report \in Report
    /\ Sound(report.of)
    /\ report.verdict = Verdict(report.of)
    /\ report.key = KeyFindings(report.of)
    /\ report.badges = Badges(report.of)
    /\ report.coverage # Absent => report.coverage <= 100

\* Until the next revision its coverage is that of the records on disk.
CoverageCurrent == phase = "reported" => report.coverage = Coverage(checks)

IInv ==
  /\ DocsTyped
  /\ roots \subseteq Label
  /\ phase \in {"written", "rejected", "validated", "reported"}
  /\ GateHeld
  /\ ReportSound
  /\ CoverageCurrent

LEMMA InitIInv == Init => IInv
BY InitDocs DEF Init, IInv, GateHeld, ReportSound, CoverageCurrent

\* Two of the gate's rules are what the report relies on.
LEMMA AcceptedSound ==
  ASSUME DocsTyped, Accepts
  PROVE  Sound(findings)
<1>1. \A i \in DOMAIN findings : ~FaultyFinding(findings, i)
  BY DEF Accepts
<1> QED
  BY <1>1 DEF FaultyFinding, BlockingMisused, Sound, Risk

\* A report written for an accepted review is one the invariant describes.
LEMMA NewReport ==
  ASSUME DocsTyped, Accepts, Generate
  PROVE  ReportSound' /\ CoverageCurrent'
<1>1. findings \in Seq(Finding) /\ checks \in Seq(Check) \cup {Absent}
  BY DEF DocsTyped, findings, checks
<1>2. Sound(findings)
  BY AcceptedSound
<1>3. /\ report' = ReportOf(findings, checks)
      /\ checks' = checks
  BY DEF Generate, checks
<1>4. report' = [of       |-> findings,
                 verdict  |-> Verdict(findings),
                 key      |-> KeyFindings(findings),
                 badges   |-> Badges(findings),
                 coverage |-> Coverage(checks)]
  BY <1>3 DEF ReportOf
<1>5. /\ Coverage(checks) \in Int \cup {Absent}
      /\ Coverage(checks) # Absent => Coverage(checks) <= 100
  <2>1. CASE checks = Absent
    BY <2>1 DEF Coverage
  <2>2. CASE checks \in Seq(Check)
    BY <2>2, CoverageFull
  <2> QED
    BY <1>1, <2>1, <2>2
<1>6. Verdict(findings) \in {Verdicts[k] : k \in DOMAIN Verdicts}
  <2>1. 1 \in DOMAIN Verdicts /\ 2 \in DOMAIN Verdicts /\ 3 \in DOMAIN Verdicts /\ 4 \in DOMAIN Verdicts
    BY DEF Verdicts
  <2>2. Verdict(findings) \in {Verdicts[1], Verdicts[2], Verdicts[3], Verdicts[4]}
    BY DEF Verdict, Verdicts
  <2> QED
    BY <2>1, <2>2
<1>7. DOMAIN findings \subseteq Nat
  BY <1>1, LenProperties
<1>8. KeyFindings(findings) \in SUBSET Nat /\ Badges(findings) \in SUBSET Nat
  BY <1>7 DEF KeyFindings, Pressing, Badges
<1>9. report' \in Report
  BY <1>1, <1>4, <1>5, <1>6, <1>8 DEF Report
<1> QED
  BY <1>2, <1>3, <1>4, <1>5, <1>9 DEF ReportSound, CoverageCurrent

LEMMA StepIInv == IInv /\ [Next]_vars => IInv'
<1> SUFFICES ASSUME IInv, [Next]_vars PROVE IInv'
  OBVIOUS
<1>1. DocsTyped'
  BY StepDocs DEF IInv
<1>2. CASE Validate
  <2>1. UNCHANGED <<docs, roots, report>> /\ phase' = IF Accepts THEN "validated" ELSE "rejected"
    BY <1>2 DEF Validate
  <2>2. Accepts' = Accepts
    BY <2>1 DEF Accepts, findings, checks, FaultyFinding
  <2> QED
    BY <1>1, <2>1, <2>2 DEF IInv, GateHeld, ReportSound, CoverageCurrent
<1>3. CASE Generate
  <2>1. UNCHANGED <<docs, roots>> /\ phase' = "reported" /\ phase = "validated"
    BY <1>3 DEF Generate
  <2>2. Accepts' = Accepts
    BY <2>1 DEF Accepts, findings, checks, FaultyFinding
  <2>3. Accepts
    BY <2>1 DEF IInv, GateHeld
  <2> QED
    BY <1>1, <1>3, <2>1, <2>2, <2>3, NewReport DEF IInv, GateHeld
<1>4. CASE Revise
  <2>1. UNCHANGED <<roots, report>> /\ phase' = "written"
    BY <1>4 DEF Revise
  <2> QED
    BY <1>1, <2>1 DEF IInv, GateHeld, ReportSound, CoverageCurrent
<1>5. CASE UNCHANGED vars
  <2>1. UNCHANGED <<docs, roots, phase, report>>
    BY <1>5 DEF vars
  <2>2. Accepts' = Accepts
    BY <2>1 DEF Accepts, findings, checks, FaultyFinding
  <2> QED
    BY <1>1, <2>1, <2>2 DEF IInv, GateHeld, ReportSound, CoverageCurrent, checks
<1> QED
  BY <1>2, <1>3, <1>4, <1>5 DEF Next

LEMMA Invariance == Spec => []IInv
  BY InitIInv, StepIInv, PTL DEF Spec

---------------------------------------------------------------------------
(* The theorems. *)

\* Documents, phase and report are well typed; the report points only at rows
\* it has, the key panel of build_key_findings keeps to its limit although ties
\* are common, and no coverage exceeds 100%.
THEOREM ReviewTypes == Spec => []TypeOK
<1>1. IInv => TypeOK
  <2> SUFFICES ASSUME IInv PROVE TypeOK
    OBVIOUS
  <2>1. ASSUME report # Absent
        PROVE  /\ report \in Report
               /\ report.key \cup report.badges \subseteq DOMAIN report.of
               /\ Cardinality(report.key) \in 0 .. KeyLimit
               /\ report.coverage # Absent => report.coverage <= 100
    <3>1. report \in Report /\ Sound(report.of) /\ report.of \in Seq(Finding)
      BY <2>1 DEF IInv, ReportSound, Report
    <3>2. /\ KeyFindings(report.of) \subseteq DOMAIN report.of
          /\ Cardinality(KeyFindings(report.of)) \in 0 .. KeyLimit
      BY <3>1, KeyIsShort
    <3> QED
      BY <2>1, <3>1, <3>2 DEF IInv, ReportSound, Badges
  <2> QED
    BY <2>1 DEF IInv, DocsTyped, TypeOK
<1> QED
  BY <1>1, Invariance, PTL

\* The key panel leaves no blocking risk out for the sake of anything else, and
\* shows one whenever compute_verdict is against the proposal: what is flagged
\* sorts first, and the gate lets only risks be flagged.
THEOREM BlockersShown == Spec => []BlockersFirst
<1>1. IInv => BlockersFirst
  <2> SUFFICES ASSUME IInv, report # Absent
               PROVE  /\ (\E j \in DOMAIN report.of : Blocking(report.of[j]) /\ j \notin report.key)
                           => \A i \in report.key : Blocking(report.of[i])
                      /\ report.verdict = "do-not-recommend"
                           => \E i \in report.key : Blocking(report.of[i])
    BY DEF BlockersFirst
  <2>1. /\ report.of \in Seq(Finding) /\ Sound(report.of)
        /\ report.key = KeyFindings(report.of) /\ report.verdict = Verdict(report.of)
    BY DEF IInv, ReportSound, Report
  <2>2. report.verdict = "do-not-recommend" => \E j \in DOMAIN report.of : Blocking(report.of[j])
    BY <2>1 DEF Verdict
  <2> QED
    BY <2>1, <2>2, KeyFlagged
<1> QED
  BY <1>1, Invariance, PTL

\* The coverage of build_check_coverage, which subtracts instances from checks,
\* is never above the share of the checks that were assessed on some target,
\* and reads 100% only if no record is not-assessed and every check has one:
\* rounding completes no review of a manifest of fewer than 200 checks.
THEOREM CoverageNeverOverstated == Spec => []CoverageNotOverstated
<1>1. IInv => CoverageNotOverstated
  <2> SUFFICES ASSUME IInv, phase = "reported", report.coverage # Absent
               PROVE  /\ report.coverage <= AssessedShare(checks)
                      /\ report.coverage = 100 =>
                           \A c \in ManifestIds :
                             /\ \E i \in DOMAIN checks : checks[i].id = c
                             /\ \A i \in DOMAIN checks :
                                  checks[i].id = c => checks[i].status # "not-assessed"
    BY DEF CoverageNotOverstated
  <2>1. report.coverage = Coverage(checks) /\ checks \in Seq(Check) \cup {Absent}
    BY DEF IInv, CoverageCurrent, DocsTyped, checks
  <2>2. checks \in Seq(Check)
    BY <2>1 DEF Coverage
  <2> QED
    BY <2>1, <2>2, CoverageFull
<1> QED
  BY <1>1, Invariance, PTL

\* No target is judged twice under the same check and no finding is credited
\* twice in a review the gate accepted, although its loop compares a record
\* only with those it has stored and forgets every one that clashed.
THEOREM TargetsJudgedOnce == Spec => []JudgedOnce
<1>1. IInv => JudgedOnce
  <2> SUFFICES ASSUME IInv, phase \in {"validated", "reported"}, checks # Absent
               PROVE  /\ \A c \in ManifestIds : \E i \in DOMAIN checks : checks[i].id = c
                      /\ \A i, j \in DOMAIN checks :
                           i # j =>
                             /\ checks[i].id = checks[j].id =>
                                  /\ checks[i].scope # checks[j].scope
                                  /\ checks[i].scope \cap checks[j].scope = {}
                             /\ \A k \in DOMAIN FidsOf(checks[i]), l \in DOMAIN FidsOf(checks[j]) :
                                  FidsOf(checks[i])[k] # FidsOf(checks[j])[l]
    BY DEF JudgedOnce
  <2>1. checks \in Seq(Check) /\ Accepts
    BY DEF IInv, DocsTyped, checks, GateHeld
  <2>2. /\ \A i \in DOMAIN checks : ~FaultyCheck(findings, checks, i)
        /\ Uncovered(checks) = {}
    BY <2>1 DEF Accepts
  <2>3. \A c \in ManifestIds : \E i \in DOMAIN checks : checks[i].id = c
    BY <2>2 DEF Uncovered
  <2>4. \A i, j \in DOMAIN checks : i # j => ~Clash(checks[i], checks[j])
    BY <2>1, <2>2, NoClash
  <2>5. \A i \in DOMAIN checks : \A k \in DOMAIN FidsOf(checks[i]) : ~Owned(checks, i, k)
    BY <2>2, Zenon DEF FaultyCheck
  <2>6. ASSUME NEW i \in DOMAIN checks, NEW j \in DOMAIN checks, j < i,
               NEW k \in DOMAIN FidsOf(checks[i]), NEW l \in DOMAIN FidsOf(checks[j])
        PROVE  FidsOf(checks[i])[k] # FidsOf(checks[j])[l]
    <3>1. j \in 1 .. i - 1
      BY <2>1, <2>6, LenProperties
    <3> QED
      BY <2>5, <3>1, Zenon DEF Owned
  <2>7. \A i, j \in DOMAIN checks : i # j => j < i \/ i < j
    BY <2>1, LenProperties
  <2> QED
    BY <2>3, <2>4, <2>6, <2>7 DEF Clash
<1> QED
  BY <1>1, Invariance, PTL

\* From one report to the next the verdict of compute_verdict improves only if
\* a concern of the earlier report is gone.
THEOREM VerdictNotTalkedUp == Spec => NeverTalkedUp
<1> DEFINE Kept == (report # Absent /\ Concerns(report.of) \subseteq Concerns(report'.of))
                     => VerdictRank(report'.verdict) <= VerdictRank(report.verdict)
<1>1. IInv /\ IInv' /\ [Next]_vars => [Kept]_report
  <2> SUFFICES ASSUME IInv, IInv', [Next]_vars, report' # report,
                      report # Absent, Concerns(report.of) \subseteq Concerns(report'.of)
               PROVE  VerdictRank(report'.verdict) <= VerdictRank(report.verdict)
    OBVIOUS
  <2>1. Generate
    BY DEF Next, Validate, Revise, vars
  <2>2. report' = ReportOf(findings, checks)
    BY <2>1 DEF Generate
  <2>3. report'.verdict = Verdict(report'.of)
    BY <2>2 DEF ReportOf
  <2>4. report.verdict = Verdict(report.of)
    BY DEF IInv, ReportSound
  <2> QED
    BY <2>3, <2>4, VerdictMonotone
<1> QED
  BY <1>1, Invariance, PTL DEF Spec, NeverTalkedUp

\* A report shows a BLOCKING badge exactly when its verdict is against the
\* proposal, although the badge and compute_verdict read different fields.
THEOREM BadgesAgree == Spec => []BadgeMeansBlocked
<1>1. IInv => BadgeMeansBlocked
  <2> SUFFICES ASSUME IInv, report # Absent
               PROVE  report.badges # {} <=> report.verdict = "do-not-recommend"
    BY DEF BadgeMeansBlocked
  <2>1. /\ Sound(report.of)
        /\ report.badges = Badges(report.of) /\ report.verdict = Verdict(report.of)
    BY DEF IInv, ReportSound
  <2>2. Badges(report.of) # {} <=> \E i \in DOMAIN report.of : Blocking(report.of[i])
    BY <2>1 DEF Badges, Sound, Blocking
  <2>3. Verdict(report.of) = "do-not-recommend" <=> \E i \in DOMAIN report.of : Blocking(report.of[i])
    BY DEF Verdict
  <2> QED
    BY <2>1, <2>2, <2>3
<1> QED
  BY <1>1, Invariance, PTL
============================================================================
