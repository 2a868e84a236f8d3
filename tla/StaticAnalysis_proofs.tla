----------------------- MODULE StaticAnalysis_proofs -----------------------
(***************************************************************************)
(* What the static-analysis panel says of people and commits, for every    *)
(* history and every tree: PeopleAreReal and NoHotspotMissed.              *)
(***************************************************************************)
EXTENDS StaticAnalysis, FiniteSetTheorems, SequenceTheorems, WellFoundedInduction, TLAPS

---------------------------------------------------------------------------
(* The tree holds sources and the history is a sequence of commits,        *)
(* whatever the repository does.                                           *)

Dotted == Seq(Name)

CodeOK == code \in [Path -> Source \cup {Gone}]

CommitRecord == [author : Author, files : SUBSET Path, changed : SUBSET Dotted,
                 left : SUBSET Dotted, came : SUBSET Dotted]

HistoryOK == history \in Seq(CommitRecord)

THEOREM Trees == Spec => []CodeOK
<1>1. RepoInit => CodeOK
  BY DEF RepoInit, CodeOK
<1>2. CodeOK /\ [RepoNext]_vars => CodeOK'
  BY DEF CodeOK, RepoNext, Edit, Write, Delete, Rename, Slide, Present, vars
<1> QED
  BY <1>1, <1>2, PTL DEF Spec

\* A file of a package, in the words of the repository and of the script.
LEMMA InPackage ==
  ASSUME NEW f \in Path, NEW p, p # NoPackage
  PROVE  f \in FilesOf(p) <=> p \in PackageOf(code[f])
BY DEF FilesOf, FilePackage, PackageOf, NoPackage

LEMMA InPackageNext ==
  ASSUME NEW f \in Path, NEW p, p # NoPackage
  PROVE  f \in FilesOf(p)' <=> p \in PackageOf(code'[f])
BY DEF FilesOf, FilePackage, PackageOf, NoPackage

LEMMA PackageType ==
  ASSUME NEW s \in Source \cup {Gone}
  PROVE  PackageOf(s) \in SUBSET Dotted
BY SourceAssumption DEF PackageOf, Dotted

LEMMA CommitKeepsHistory ==
  ASSUME HistoryOK, NEW a \in Author, NEW fs \in SUBSET Path, NEW changed \in SUBSET Dotted,
         NEW left \in SUBSET Dotted, NEW came \in SUBSET Dotted,
         Commit(a, fs, changed, left, came)
  PROVE  HistoryOK'
BY DEF HistoryOK, CommitRecord, Commit

---------------------------------------------------------------------------
(* A commit whose package has since lost no file names a file that is in   *)
(* it now; one that names such a file changed the package, unless a named  *)
(* file has come to it since.                                              *)

NamesFileOf(c, p) == history[c].files \cap FilesOf(p) # {}

PastKept ==
  \A c \in DOMAIN history : \A p : p # NoPackage =>
    /\ (\A d \in DOMAIN history : d >= c => p \notin history[d].left)
         => (p \in history[c].changed => NamesFileOf(c, p))
    /\ (\A d \in DOMAIN history : d >= c => p \notin history[d].came)
         => (NamesFileOf(c, p) => p \in history[c].changed)

LEMMA CommitKeepsPast ==
  ASSUME HistoryOK, PastKept,
         NEW a \in Author, NEW fs \in SUBSET Path, NEW changed \in SUBSET Dotted,
         NEW left \in SUBSET Dotted, NEW came \in SUBSET Dotted,
         Commit(a, fs, changed, left, came),
         \A p : p # NoPackage /\ p \in changed /\ p \notin left => fs \cap FilesOf(p)' # {},
         \A p : p # NoPackage /\ fs \cap FilesOf(p)' # {} /\ p \notin came => p \in changed,
         \A f \in Path : \A p : p # NoPackage /\ Named(f) =>
           /\ f \in FilesOf(p) /\ f \notin FilesOf(p)' => p \in left
           /\ f \notin FilesOf(p) /\ f \in FilesOf(p)' => p \in came
  PROVE  PastKept'
<1> DEFINE new == [author |-> a, files |-> fs, changed |-> changed,
                   left |-> left, came |-> came]
           n   == Len(history)
<1>1. /\ history' = Append(history, new) /\ new \in CommitRecord /\ n \in Nat
      /\ DOMAIN history = 1 .. n /\ DOMAIN history' = 1 .. n + 1
      /\ \A c \in 1 .. n : history'[c] = history[c] /\ history[c] \in CommitRecord
      /\ history'[n + 1] = new
  <2>1. history' = Append(history, new) /\ new \in CommitRecord
    BY DEF CommitRecord, Commit
  <2> HIDE DEF new
  <2> QED
    BY <2>1 DEF HistoryOK
<1> SUFFICES ASSUME NEW c \in 1 .. n + 1, NEW p, p # NoPackage
             PROVE  /\ (\A d \in 1 .. n + 1 : d >= c => p \notin history'[d].left)
                         => (p \in history'[c].changed => history'[c].files \cap FilesOf(p)' # {})
                    /\ (\A d \in 1 .. n + 1 : d >= c => p \notin history'[d].came)
                         => (history'[c].files \cap FilesOf(p)' # {} => p \in history'[c].changed)
  BY <1>1 DEF PastKept, NamesFileOf
<1>2. CASE c = n + 1
  BY <1>1, <1>2
<1>3. CASE c \in 1 .. n
  <2>1. /\ history'[c] = history[c] /\ history[c].files \subseteq Path
        /\ \A f \in history[c].files : Named(f)
    BY <1>1, <1>3 DEF CommitRecord, Named
  <2>2. /\ (\A d \in 1 .. n : d >= c => p \notin history[d].left)
             => (p \in history[c].changed => history[c].files \cap FilesOf(p) # {})
        /\ (\A d \in 1 .. n : d >= c => p \notin history[d].came)
             => (history[c].files \cap FilesOf(p) # {} => p \in history[c].changed)
    BY <1>1, <1>3 DEF PastKept, NamesFileOf
  <2>3. ASSUME \A d \in 1 .. n + 1 : d >= c => p \notin history'[d].left,
               p \in history[c].changed
        PROVE  history[c].files \cap FilesOf(p)' # {}
    <3>1. p \notin left
      BY <1>1, <1>3, <2>3
    <3>2. \A d \in 1 .. n : d >= c => p \notin history[d].left
      BY <1>1, <2>3
    <3>3. PICK f \in history[c].files : f \in FilesOf(p)
      BY <2>2, <2>3, <3>2
    <3> QED
      BY <2>1, <3>1, <3>3
  <2>4. ASSUME \A d \in 1 .. n + 1 : d >= c => p \notin history'[d].came,
               history[c].files \cap FilesOf(p)' # {}
        PROVE  p \in history[c].changed
    <3>1. p \notin came
      BY <1>1, <1>3, <2>4
    <3>2. \A d \in 1 .. n : d >= c => p \notin history[d].came
      BY <1>1, <2>4
    <3>3. PICK f \in history[c].files : f \in FilesOf(p)'
      BY <2>4
    <3>4. f \in FilesOf(p)
      BY <2>1, <3>1, <3>3
    <3> QED
      BY <2>2, <3>2, <3>3, <3>4
  <2> QED
    BY <2>1, <2>3, <2>4
<1> QED
  BY <1>1, <1>2, <1>3

RepoInv == CodeOK /\ HistoryOK /\ PastKept

LEMMA EditKeeps ==
  ASSUME RepoInv, NEW a \in Author, NEW fs \in SUBSET Present, Edit(a, fs)
  PROVE  RepoInv'
<1> DEFINE changed == UNION {PackageOf(code[f]) : f \in fs}
<1>1. fs \in SUBSET Path /\ changed \in SUBSET Dotted /\ {} \in SUBSET Dotted
  BY PackageType DEF RepoInv, CodeOK, Present
<1>2. Commit(a, fs, changed, {}, {}) /\ code' = code
  BY DEF Edit
<1>3. \A p : FilesOf(p)' = FilesOf(p)
  BY <1>2 DEF FilesOf, FilePackage
<1>4. \A p : p # NoPackage => (p \in changed <=> fs \cap FilesOf(p) # {})
  BY <1>1, InPackage
<1>5. HistoryOK'
  BY <1>1, <1>2, CommitKeepsHistory DEF RepoInv
<1>6. PastKept'
  <2> HIDE DEF changed
  <2> QED
    BY <1>1, <1>2, <1>3, <1>4, CommitKeepsPast DEF RepoInv
<1> QED
  BY <1>2, <1>5, <1>6 DEF RepoInv, CodeOK

LEMMA WriteKeeps ==
  ASSUME RepoInv, NEW a \in Author, NEW f \in Path, NEW s \in Source, Write(a, f, s)
  PROVE  RepoInv'
<1> DEFINE old  == PackageOf(code[f])
           new  == PackageOf(s)
           came == IF Named(f) THEN new \ old ELSE {}
<1>1. Commit(a, {f}, old \cup new, old \ new, came) /\ code' = [code EXCEPT ![f] = s]
  BY DEF Write
<1>2. old \in SUBSET Dotted /\ new \in SUBSET Dotted
  BY PackageType DEF RepoInv, CodeOK
<1>3. CodeOK' /\ \A g \in Path : code'[g] = IF g = f THEN s ELSE code[g]
  BY <1>1 DEF RepoInv, CodeOK
<1>4. \A g \in Path : \A p : p # NoPackage =>
        /\ g \in FilesOf(p)' <=> p \in PackageOf(code'[g])
        /\ g \in FilesOf(p) <=> p \in PackageOf(code[g])
  BY InPackage, InPackageNext
<1>5. /\ {f} \in SUBSET Path /\ old \cup new \in SUBSET Dotted /\ old \ new \in SUBSET Dotted
      /\ came \in SUBSET Dotted
  BY <1>2
<1>6. HistoryOK'
  BY <1>1, <1>5, CommitKeepsHistory DEF RepoInv
<1>7. PastKept'
  <2>1. \A p : p # NoPackage => ({f} \cap FilesOf(p)' # {} <=> p \in new)
    BY <1>3, <1>4
  <2>2. \A g \in Path : \A p : p # NoPackage /\ Named(g) =>
          /\ g \in FilesOf(p) /\ g \notin FilesOf(p)' => p \in old \ new
          /\ g \notin FilesOf(p) /\ g \in FilesOf(p)' => p \in came
    BY <1>3, <1>4
  <2> HIDE DEF old, new, came
  <2> QED
    BY <1>1, <1>5, <2>1, <2>2, CommitKeepsPast DEF RepoInv
<1> QED
  BY <1>3, <1>6, <1>7 DEF RepoInv

LEMMA DeleteKeeps ==
  ASSUME RepoInv, NEW a \in Author, NEW f \in Present, Delete(a, f)
  PROVE  RepoInv'
<1> DEFINE old == PackageOf(code[f])
<1>1. Commit(a, {f}, old, old, {}) /\ code' = [code EXCEPT ![f] = Gone]
  BY DEF Delete
<1>2. f \in Path /\ old \in SUBSET Dotted /\ {} \in SUBSET Dotted /\ {f} \in SUBSET Path
  BY PackageType DEF RepoInv, CodeOK, Present
<1>3. CodeOK' /\ \A g \in Path : code'[g] = IF g = f THEN Gone ELSE code[g]
  BY <1>1, <1>2 DEF RepoInv, CodeOK
<1>4. \A g \in Path : \A p : p # NoPackage =>
        /\ g \in FilesOf(p)' <=> p \in PackageOf(code'[g])
        /\ g \in FilesOf(p) <=> p \in PackageOf(code[g])
  BY InPackage, InPackageNext
<1>5. PackageOf(Gone) = {}
  BY DEF PackageOf
<1>6. HistoryOK'
  BY <1>1, <1>2, CommitKeepsHistory DEF RepoInv
<1>7. PastKept'
  <2>1. \A p : p # NoPackage => {f} \cap FilesOf(p)' = {}
    BY <1>2, <1>3, <1>4, <1>5
  <2>2. \A g \in Path : \A p : p # NoPackage /\ Named(g) =>
          /\ g \in FilesOf(p) /\ g \notin FilesOf(p)' => p \in old
          /\ g \notin FilesOf(p) /\ g \in FilesOf(p)' => p \in {}
    BY <1>3, <1>4, <1>5
  <2> HIDE DEF old
  <2> QED
    BY <1>1, <1>2, <2>1, <2>2, CommitKeepsPast DEF RepoInv
<1> QED
  BY <1>3, <1>6, <1>7 DEF RepoInv

LEMMA RenameKeeps ==
  ASSUME RepoInv, NEW a \in Author, NEW f \in Present, NEW g \in Path \ Present,
         NEW s \in Source, Rename(a, f, g, s)
  PROVE  RepoInv'
<1> DEFINE old  == PackageOf(code[f])
           new  == PackageOf(s)
           came == IF Named(g) THEN new ELSE {}
<1>1. /\ Commit(a, {g}, old \cup new, old, came)
      /\ code' = [code EXCEPT ![f] = Gone, ![g] = s]
  BY DEF Rename
<1>2. /\ f \in Path /\ {g} \in SUBSET Path /\ code[g] = Gone /\ f # g
      /\ old \in SUBSET Dotted /\ new \in SUBSET Dotted
  BY PackageType DEF RepoInv, CodeOK, Present
<1>3. CodeOK' /\ \A h \in Path : code'[h] = IF h = g THEN s ELSE IF h = f THEN Gone ELSE code[h]
  BY <1>1, <1>2 DEF RepoInv, CodeOK
<1>4. \A h \in Path : \A p : p # NoPackage =>
        /\ h \in FilesOf(p)' <=> p \in PackageOf(code'[h])
        /\ h \in FilesOf(p) <=> p \in PackageOf(code[h])
  BY InPackage, InPackageNext
<1>5. PackageOf(Gone) = {}
  BY DEF PackageOf
<1>6. old \cup new \in SUBSET Dotted /\ came \in SUBSET Dotted
  BY <1>2
<1>7. HistoryOK'
  BY <1>1, <1>2, <1>6, CommitKeepsHistory DEF RepoInv
<1>8. PastKept'
  <2>1. \A p : p # NoPackage => ({g} \cap FilesOf(p)' # {} <=> p \in new)
    BY <1>3, <1>4
  <2>2. \A h \in Path : \A p : p # NoPackage /\ Named(h) =>
          /\ h \in FilesOf(p) /\ h \notin FilesOf(p)' => p \in old
          /\ h \notin FilesOf(p) /\ h \in FilesOf(p)' => p \in came
    BY <1>2, <1>3, <1>4, <1>5
  <2> HIDE DEF old, new, came
  <2> QED
    BY <1>1, <1>2, <1>6, <2>1, <2>2, CommitKeepsPast DEF RepoInv
<1> QED
  BY <1>3, <1>7, <1>8 DEF RepoInv

\* What is left in the window has the same commits after it.
LEMMA SlideKeeps ==
  ASSUME RepoInv, Slide
  PROVE  RepoInv'
<1> DEFINE n == Len(history)
<1>1. /\ history' = Tail(history) /\ code' = code /\ history' \in Seq(CommitRecord)
      /\ n \in Nat /\ n > 0 /\ DOMAIN history = 1 .. n /\ DOMAIN history' = 1 .. n - 1
      /\ \A c \in 1 .. n - 1 : history'[c] = history[c + 1]
  BY DEF RepoInv, HistoryOK, Slide
<1>2. \A p : FilesOf(p)' = FilesOf(p)
  BY <1>1 DEF FilesOf, FilePackage
<1>3. PastKept'
  <2> SUFFICES ASSUME NEW c \in 1 .. n - 1, NEW p, p # NoPackage
               PROVE  /\ (\A d \in 1 .. n - 1 : d >= c => p \notin history[d + 1].left)
                           => (p \in history[c + 1].changed => NamesFileOf(c + 1, p))
                      /\ (\A d \in 1 .. n - 1 : d >= c => p \notin history[d + 1].came)
                           => (NamesFileOf(c + 1, p) => p \in history[c + 1].changed)
    <3> DEFINE Kept(c, p) ==
          /\ (\A d \in 1 .. n - 1 : d >= c => p \notin history[d + 1].left)
               => (p \in history[c + 1].changed => NamesFileOf(c + 1, p))
          /\ (\A d \in 1 .. n - 1 : d >= c => p \notin history[d + 1].came)
               => (NamesFileOf(c + 1, p) => p \in history[c + 1].changed)
    <3>1. \A c \in 1 .. n - 1 : \A p : (history'[c].files \cap FilesOf(p)' # {}) = NamesFileOf(c + 1, p)
      BY <1>1, <1>2 DEF NamesFileOf
    <3>2. ASSUME \A c \in 1 .. n - 1 : \A p : p # NoPackage => Kept(c, p)
          PROVE  PastKept'
      <4> SUFFICES ASSUME NEW c \in 1 .. n - 1, NEW p, p # NoPackage
                   PROVE  /\ (\A d \in 1 .. n - 1 : d >= c => p \notin history'[d].left)
                               => (p \in history'[c].changed => history'[c].files \cap FilesOf(p)' # {})
                          /\ (\A d \in 1 .. n - 1 : d >= c => p \notin history'[d].came)
                               => (history'[c].files \cap FilesOf(p)' # {} => p \in history'[c].changed)
        BY <1>1 DEF PastKept, NamesFileOf
      <4>1. \A d \in 1 .. n - 1 : history'[d] = history[d + 1]
        BY <1>1
      <4>2. Kept(c, p)
        BY <3>2
      <4> QED
        BY <3>1, <4>1, <4>2
    <3> QED
      BY <3>2
  <2>1. c + 1 \in 1 .. n /\ \A d \in 1 .. n : d >= c + 1 =>
                               d - 1 \in 1 .. n - 1 /\ d - 1 >= c /\ d = (d - 1) + 1
    BY <1>1
  <2>2. ASSUME \A d \in 1 .. n - 1 : d >= c => p \notin history[d + 1].left
        PROVE  \A d \in 1 .. n : d >= c + 1 => p \notin history[d].left
    BY <2>1, <2>2
  <2>3. ASSUME \A d \in 1 .. n - 1 : d >= c => p \notin history[d + 1].came
        PROVE  \A d \in 1 .. n : d >= c + 1 => p \notin history[d].came
    BY <2>1, <2>3
  <2> QED
    BY <1>1, <2>1, <2>2, <2>3 DEF RepoInv, PastKept
<1> QED
  BY <1>1, <1>3 DEF RepoInv, CodeOK, HistoryOK

THEOREM Histories == Spec => []RepoInv
<1>1. RepoInit => RepoInv
  BY DEF RepoInit, RepoInv, CodeOK, HistoryOK, PastKept
<1>2. RepoInv /\ [RepoNext]_vars => RepoInv'
  <2> SUFFICES ASSUME RepoInv, [RepoNext]_vars
               PROVE  RepoInv'
    OBVIOUS
  <2>1. ASSUME NEW a \in Author, NEW fs \in SUBSET Present, Edit(a, fs)
        PROVE  RepoInv'
    BY <2>1, EditKeeps
  <2>2. ASSUME NEW a \in Author, NEW f \in Path, NEW s \in Source, Write(a, f, s)
        PROVE  RepoInv'
    BY <2>2, WriteKeeps
  <2>3. ASSUME NEW a \in Author, NEW f \in Present, Delete(a, f)
        PROVE  RepoInv'
    BY <2>3, DeleteKeeps
  <2>4. ASSUME NEW a \in Author, NEW f \in Present, NEW g \in Path \ Present,
               NEW s \in Source, Rename(a, f, g, s)
        PROVE  RepoInv'
    BY <2>4, RenameKeeps
  <2>5. CASE Slide
    BY <2>5, SlideKeeps
  <2>6. CASE UNCHANGED vars
    BY <2>6 DEF vars, RepoInv, CodeOK, HistoryOK, PastKept, NamesFileOf, FilesOf, FilePackage
  <2> QED
    BY <2>1, <2>2, <2>3, <2>4, <2>5, <2>6 DEF RepoNext
<1> QED
  BY <1>1, <1>2, PTL DEF Spec

---------------------------------------------------------------------------
(* Counting by file and counting by commit. *)

\* The commits that name a file of today's package, which is how the script
\* finds them, and their authors, whom it collects file by file.
Naming(p) == {c \in DOMAIN history : NamesFileOf(c, p)}

LEMMA PeopleByFile ==
  ASSUME NEW p
  PROVE  PackageAuthors(p) = {history[c].author : c \in Naming(p)}
BY DEF Naming, NamesFileOf, PackageAuthors, FileAuthors, CommitsOf, FilesOf

\* Where no file left, whoever changed the package is collected; where none
\* came, whoever is collected changed it.
LEMMA PeopleByDay ==
  ASSUME RepoInv, NEW p, p # NoPackage
  PROVE  /\ NothingLeft(p) => /\ Touching(p) \subseteq Naming(p)
                              /\ People(p) \subseteq PackageAuthors(p)
         /\ NothingCame(p) => /\ Naming(p) \subseteq Touching(p)
                              /\ PackageAuthors(p) \subseteq People(p)
<1>1. NothingLeft(p) => Touching(p) \subseteq Naming(p)
  BY DEF RepoInv, PastKept, NothingLeft, Touching, Naming
<1>2. NothingCame(p) => Naming(p) \subseteq Touching(p)
  BY DEF RepoInv, PastKept, NothingCame, Touching, Naming
<1> QED
  BY <1>1, <1>2, PeopleByFile DEF People

LEMMA FinitelyManyCommits ==
  ASSUME HistoryOK
  PROVE  IsFiniteSet(DOMAIN history)
<1>1. DOMAIN history = 1 .. Len(history) /\ Len(history) \in Int
  BY DEF HistoryOK
<1> QED
  BY <1>1, FS_Interval

\* The authors of any of the commits are finitely many.
LEMMA FinitelyManyAuthors ==
  ASSUME HistoryOK, NEW C \in SUBSET DOMAIN history
  PROVE  IsFiniteSet({history[c].author : c \in C})
<1> DEFINE Wrote == [c \in C |-> history[c].author]
           All   == {history[c].author : c \in C}
<1>1. IsFiniteSet(C)
  BY FinitelyManyCommits, FS_Subset
<1>2. Wrote \in Surjection(C, All)
  BY DEF Surjection
<1> QED
  BY <1>1, <1>2, FS_Surjection

LEMMA FinitelyManyPeople ==
  ASSUME HistoryOK, NEW p
  PROVE  IsFiniteSet(PackageAuthors(p)) /\ IsFiniteSet(People(p))
BY PeopleByFile, FinitelyManyAuthors DEF Naming, People, Touching

\* A commit that names a file of the package is counted at least once.
LEMMA CommitsCounted ==
  ASSUME HistoryOK, NEW p
  PROVE  /\ Cardinality(Naming(p)) \in Nat
         /\ PackageCommits(p) \in Nat
         /\ Cardinality(Naming(p)) <= PackageCommits(p)
<1> DEFINE Pairs == {fc \in FilesOf(p) \X DOMAIN history : fc[2] \in CommitsOf(fc[1])}
           Which == [fc \in Pairs |-> fc[2]]
<1>1. IsFiniteSet(FilesOf(p) \X DOMAIN history)
  <2>1. FilesOf(p) \in SUBSET Path
    BY DEF FilesOf
  <2>2. IsFiniteSet(FilesOf(p))
    BY <2>1, PathAssumption, FS_Subset
  <2> QED
    BY <2>2, FinitelyManyCommits, FS_Product
<1>2. IsFiniteSet(Pairs)
  BY <1>1, FS_Subset
<1>3. Which \in Surjection(Pairs, Naming(p))
  <2>1. \A fc \in Pairs : fc[2] \in Naming(p)
    BY DEF Naming, NamesFileOf, CommitsOf
  <2>2. ASSUME NEW c \in Naming(p)
        PROVE  \E fc \in Pairs : Which[fc] = c
    <3>1. PICK f \in history[c].files : f \in FilesOf(p)
      BY <2>2 DEF Naming, NamesFileOf
    <3>2. <<f, c>> \in Pairs
      BY <3>1 DEF Naming, NamesFileOf, CommitsOf
    <3> QED
      BY <3>2
  <2> QED
    BY <2>1, <2>2 DEF Surjection
<1>4. IsFiniteSet(Naming(p)) /\ Cardinality(Naming(p)) <= Cardinality(Pairs)
  BY <1>2, <1>3, FS_Surjection
<1>5. Cardinality(Naming(p)) \in Nat /\ Cardinality(Pairs) \in Nat
  BY <1>2, <1>4, FS_CardinalityType
<1> QED
  BY <1>4, <1>5 DEF PackageCommits

---------------------------------------------------------------------------
(* Lists that are cut short. *)

\* A list holds members of what it lists, all of them or as many as fit.
LEMMA ListHolds ==
  ASSUME NEW S, IsFiniteSet(S), NEW w, NEW n \in Nat, NEW L \in Lists(S, w, n)
  PROVE  L \subseteq S /\ (L = S \/ Cardinality(L) = n)
<1>1. L \in SUBSET S /\ Cardinality(L) = IF Cardinality(S) < n THEN Cardinality(S) ELSE n
  BY DEF Lists
<1> QED
  BY <1>1, FS_Subset

\* The one author named with a package of one author is that author.
LEMMA OneNamed ==
  ASSUME HistoryOK, NEW p, Cardinality(PackageAuthors(p)) = 1, NEW N \in NamedAuthors(p, 1)
  PROVE  N = PackageAuthors(p)
<1>1. IsFiniteSet(PackageAuthors(p))
  BY FinitelyManyPeople
<1>2. N \in SUBSET PackageAuthors(p) /\ Cardinality(N) = 1
  BY DEF NamedAuthors, Lists
<1> QED
  BY <1>1, <1>2, FS_Subset

\* What churn.json counts is declared by a file that is there.
LEMMA ChurnedAreNodes == Churned \subseteq Nodes
<1> SUFFICES ASSUME NEW f \in Path, CommitsOf(f) # {}, FilePackage(f) # NoPackage
             PROVE  FilePackage(f) \in Nodes
  BY DEF Churned
<1>1. code[f] # Gone /\ FilePackage(f) = code[f].package
  BY DEF FilePackage
<1>2. f \in Parsed
  BY <1>1 DEF Parsed, Present, NoPackage
<1> QED
  BY <1>1, <1>2 DEF Nodes

LEMMA ListedIsCounted ==
  ASSUME NEW p \in BusFactor \cup Diverse
  PROVE  p # NoPackage
BY DEF BusFactor, Diverse, Eligible, Churned

LEMMA PeopleReal == RepoInv => PeopleAreReal
<1> SUFFICES ASSUME RepoInv
             PROVE  PeopleAreReal
  OBVIOUS
<1>1. ASSUME NEW L \in LoneLists, NEW p \in L, NEW N \in NamedAuthors(p, 1)
      PROVE  /\ NothingLeft(p) => People(p) \subseteq N
             /\ NothingCame(p) => N \subseteq People(p)
  <2>1. p \in BusFactor
    BY <1>1 DEF LoneLists, Lists
  <2>2. N = PackageAuthors(p)
    BY <2>1, OneNamed DEF BusFactor, RepoInv
  <2> QED
    BY <2>1, <2>2, PeopleByDay, ListedIsCounted
<1>2. ASSUME NEW L \in DiverseLists, NEW p \in L, NothingCame(p)
      PROVE  /\ Cardinality(People(p)) >= 3
             /\ \A N \in NamedAuthors(p, NameLimit) : N \subseteq People(p)
  <2>1. p \in Diverse
    BY <1>2 DEF DiverseLists, Lists
  <2>2. \A N \in NamedAuthors(p, NameLimit) : N \subseteq PackageAuthors(p)
    BY DEF NamedAuthors, Lists
  <2>3. PackageAuthors(p) \subseteq People(p)
    BY <1>2, <2>1, PeopleByDay, ListedIsCounted
  <2>4. IsFiniteSet(People(p)) /\ IsFiniteSet(PackageAuthors(p))
    BY FinitelyManyPeople DEF RepoInv
  <2>5. /\ Cardinality(PackageAuthors(p)) <= Cardinality(People(p))
        /\ Cardinality(PackageAuthors(p)) \in Nat /\ Cardinality(People(p)) \in Nat
    BY <2>3, <2>4, FS_Subset, FS_CardinalityType
  <2>6. Cardinality(PackageAuthors(p)) >= 3
    BY <2>1 DEF Diverse
  <2> QED
    BY <2>2, <2>3, <2>5, <2>6
<1> QED
  BY <1>1, <1>2, ChurnedAreNodes DEF PeopleAreReal

\* What the panel says of people is true of the commits, by the packages of the
\* day, wherever no file has left or come to the package with a past.
THEOREM RealPeople == Spec => []PeopleAreReal
BY Histories, PeopleReal, PTL

---------------------------------------------------------------------------
(* No hotspot is missed. *)

LEMMA NodeIsEligible ==
  ASSUME RepoInv, NEW p \in Nodes, Cardinality(Touching(p)) >= MinCommits,
         NothingLeft(p), People(p) # {}
  PROVE  p \in Eligible
<1>1. p # NoPackage
  BY DEF Nodes, Parsed, NoPackage
<1>2. Touching(p) \subseteq Naming(p)
  BY <1>1, PeopleByDay
<1>3. PICK c \in Naming(p) : TRUE
  BY <1>2 DEF People
<1>4. PICK f \in history[c].files : f \in FilesOf(p)
  BY <1>3 DEF Naming, NamesFileOf
<1>5. p \in Churned
  BY <1>1, <1>3, <1>4 DEF Naming, CommitsOf, FilesOf, Churned
<1>6. PackageCommits(p) >= MinCommits
  <2>1. IsFiniteSet(Naming(p))
    BY FinitelyManyCommits, FS_Subset DEF Naming, RepoInv
  <2>2. /\ Cardinality(Touching(p)) <= Cardinality(Naming(p))
        /\ Cardinality(Touching(p)) \in Nat
    BY <1>2, <2>1, FS_Subset, FS_CardinalityType
  <2> QED
    BY <2>2, CommitsCounted, MinAssumption DEF RepoInv
<1> QED
  BY <1>5, <1>6 DEF Eligible

LEMMA FinitelyManyPackages == IsFiniteSet(BusFactor) /\ IsFiniteSet(Diverse)
<1> DEFINE Declared == [f \in Path |-> FilePackage(f)]
           All      == {FilePackage(f) : f \in Path}
<1>1. Declared \in Surjection(Path, All)
  BY DEF Surjection
<1>2. IsFiniteSet(All)
  BY <1>1, PathAssumption, FS_Surjection
<1>3. BusFactor \in SUBSET All /\ Diverse \in SUBSET All
  BY DEF BusFactor, Diverse, Eligible, Churned
<1> QED
  BY <1>2, <1>3, FS_Subset

LEMMA NoneMissed == RepoInv => NoHotspotMissed
<1> SUFFICES ASSUME RepoInv, NEW p \in Nodes,
                    Cardinality(Touching(p)) >= MinCommits, NothingLeft(p)
             PROVE  /\ Cardinality(People(p)) = 1 /\ NothingCame(p) =>
                         \A L \in LoneLists : p \in L \/ Cardinality(L) = ListLimit
                    /\ Cardinality(People(p)) >= 3 =>
                         \A L \in DiverseLists : p \in L \/ Cardinality(L) = ListLimit
  BY DEF NoHotspotMissed
<1>1. p # NoPackage /\ People(p) \subseteq PackageAuthors(p)
  BY PeopleByDay DEF Nodes, Parsed, NoPackage
<1>2. Cardinality({}) = 0
  BY FS_EmptySet
<1>3. ASSUME Cardinality(People(p)) = 1, NothingCame(p), NEW L \in LoneLists
      PROVE  p \in L \/ Cardinality(L) = ListLimit
  <2>1. People(p) = PackageAuthors(p)
    BY <1>1, <1>3, PeopleByDay
  <2>2. p \in BusFactor
    BY <1>2, <1>3, <2>1, NodeIsEligible DEF BusFactor
  <2>3. L = BusFactor \/ Cardinality(L) = ListLimit
    BY FinitelyManyPackages, ListHolds, LimitAssumption DEF LoneLists
  <2> QED
    BY <2>2, <2>3
<1>4. ASSUME Cardinality(People(p)) >= 3, NEW L \in DiverseLists
      PROVE  p \in L \/ Cardinality(L) = ListLimit
  <2>1. /\ Cardinality(People(p)) <= Cardinality(PackageAuthors(p))
        /\ Cardinality(PackageAuthors(p)) \in Nat /\ Cardinality(People(p)) \in Nat
    BY <1>1, FinitelyManyPeople, FS_Subset, FS_CardinalityType DEF RepoInv
  <2>2. p \in Diverse
    BY <1>2, <1>4, <2>1, NodeIsEligible DEF Diverse
  <2>3. L = Diverse \/ Cardinality(L) = ListLimit
    BY FinitelyManyPackages, ListHolds, LimitAssumption DEF DiverseLists
  <2> QED
    BY <2>2, <2>3
<1> QED
  BY <1>3, <1>4

\* A package that enough commits changed and no file left is listed, or the list
\* is full.
THEOREM HotspotsListed == Spec => []NoHotspotMissed
BY Histories, NoneMissed, PTL

---------------------------------------------------------------------------
(* Files and import lines. *)

LEMMA SourceTypes ==
  ASSUME CodeOK, NEW f \in Parsed
  PROVE  /\ f \in Path /\ code[f].package \in Dotted
         /\ IsFiniteSet(code[f].imports) /\ code[f].imports \subseteq Imports
BY SourceAssumption DEF CodeOK, Parsed, Present, Dotted

LEMMA LineTypes ==
  ASSUME CodeOK, NEW fi \in ImportLines
  PROVE  /\ fi[1] \in Parsed /\ fi[2] \in Imports
         /\ From(fi) \in Nodes /\ From(fi) \in Dotted
         /\ Captured(fi[2]) \in Dotted
<1>1. fi[1] \in Parsed /\ fi[2] \in code[fi[1]].imports
  BY DEF ImportLines
<1>2. fi[2] \in Imports /\ From(fi) \in Dotted /\ From(fi) \in Nodes
  BY <1>1, SourceTypes DEF From, Nodes
<1>3. /\ fi[2].form \in Forms /\ fi[2].package \in Seq(Name) /\ fi[2].name \in Name
  BY <1>2 DEF Imports
<1>4. <<fi[2].name, Member>> \in Seq(Name)
  BY <1>3, MemberAssumption
<1>5. Captured(fi[2]) \in Dotted
  BY <1>3, <1>4 DEF Captured, Forms, Dotted
<1> QED
  BY <1>1, <1>2, <1>5

LEMMA FinitelyManyLines ==
  ASSUME CodeOK
  PROVE  IsFiniteSet(ImportLines)
<1> DEFINE Of(f) == {f} \X code[f].imports
           All   == {Of(f) : f \in Parsed}
           Which == [f \in Parsed |-> Of(f)]
<1>1. IsFiniteSet(Parsed)
  BY PathAssumption, FS_Subset DEF Parsed, Present
<1>2. Which \in Surjection(Parsed, All)
  BY DEF Surjection
<1>3. IsFiniteSet(All)
  BY <1>1, <1>2, FS_Surjection
<1>4. ASSUME NEW f \in Parsed
      PROVE  IsFiniteSet(Of(f))
  <2>1. IsFiniteSet(code[f].imports) /\ IsFiniteSet({f})
    BY SourceTypes, FS_Singleton
  <2> QED
    BY <2>1, FS_Product
<1> QED
  BY <1>3, <1>4, FS_UNION DEF ImportLines

---------------------------------------------------------------------------
(* Prefixes. *)

LEMMA PrefixByPlace ==
  ASSUME NEW p \in Dotted, NEW t \in Dotted
  PROVE  IsPrefix(p, t) <=> Len(p) <= Len(t) /\ \A k \in 1 .. Len(p) : p[k] = t[k]
<1>1. Len(p) \in Nat /\ Len(t) \in Nat
  BY DEF Dotted
<1>2. SubSeq(p, 1, Len(p)) = [k \in 1 .. Len(p) |-> p[k]]
  BY <1>1 DEF Dotted
<1>3. Len(p) <= Len(t) => SubSeq(t, 1, Len(p)) = [k \in 1 .. Len(p) |-> t[k]]
  BY <1>1 DEF Dotted
<1> QED
  BY <1>2, <1>3 DEF IsPrefix

\* A proper prefix of a name is a prefix of what stands before its last dot.
LEMMA PrefixOfFront ==
  ASSUME NEW p \in Dotted, NEW t \in Dotted, t # <<>>
  PROVE  Front(t) \in Dotted /\ (IsStrictPrefix(p, t) <=> IsPrefix(p, Front(t)))
<1>1. /\ Front(t) \in Dotted /\ Len(Front(t)) = Len(t) - 1
      /\ Len(t) \in Nat /\ Len(t) > 0 /\ Len(p) \in Nat
      /\ \A k \in 1 .. Len(t) - 1 : Front(t)[k] = t[k]
  <2>1. Len(t) \in Nat /\ Len(t) > 0 /\ Len(p) \in Nat
    BY DEF Dotted
  <2>2. \A k \in 1 .. Len(t) - 1 : t[k] \in Name
    BY DEF Dotted
  <2>3. /\ SubSeq(t, 1, Len(t) - 1) \in Seq(Name)
        /\ Len(SubSeq(t, 1, Len(t) - 1)) = IF 1 <= Len(t) - 1 THEN (Len(t) - 1) - 1 + 1 ELSE 0
        /\ \A k \in 1 .. (Len(t) - 1) - 1 + 1 : SubSeq(t, 1, Len(t) - 1)[k] = t[1 + k - 1]
    BY <2>1, <2>2, SubSeqProperties
  <2>4. Front(t) = SubSeq(t, 1, Len(t) - 1)
    BY DEF Front
  <2> HIDE DEF Dotted
  <2>5. Len(Front(t)) = Len(t) - 1
    <3>1. \A n \in Nat : n > 0 => n - 1 = IF 1 <= n - 1 THEN (n - 1) - 1 + 1 ELSE 0
      OBVIOUS
    <3>2. Len(t) - 1 = IF 1 <= Len(t) - 1 THEN (Len(t) - 1) - 1 + 1 ELSE 0
      BY <2>1, <3>1, Zenon
    <3> QED
      BY <2>3, <2>4, <3>2, Zenon
  <2>6. \A k \in 1 .. Len(t) - 1 : Front(t)[k] = t[k]
    BY <2>1, <2>3, <2>4
  <2> QED
    BY <2>1, <2>3, <2>4, <2>5, <2>6 DEF Dotted
<1>2. IsStrictPrefix(p, t) => IsPrefix(p, Front(t))
  <2> SUFFICES ASSUME IsPrefix(p, t), p # t
               PROVE  IsPrefix(p, Front(t))
    BY DEF IsStrictPrefix
  <2>1. Len(p) <= Len(t) /\ \A k \in 1 .. Len(p) : p[k] = t[k]
    BY PrefixByPlace
  <2>2. Len(p) # Len(t)
    BY <2>1, <1>1, SeqEqual DEF Dotted
  <2> QED
    BY <1>1, <2>1, <2>2, PrefixByPlace
<1>3. IsPrefix(p, Front(t)) => IsStrictPrefix(p, t)
  BY <1>1, PrefixByPlace DEF IsStrictPrefix
<1> QED
  BY <1>1, <1>2, <1>3

LEMMA FrontOfAppend ==
  ASSUME NEW t \in Dotted, NEW n \in Name
  PROVE  Append(t, n) \in Dotted /\ Append(t, n) # <<>> /\ Front(Append(t, n)) = t
BY DEF Front, Dotted

\* The prefix the script infers is a prefix of every package of the tree.
LEMMA PrefixCommon ==
  ASSUME CodeOK, Prefix # <<>>
  PROVE  Prefix \in Dotted /\ \A p \in Nodes : IsPrefix(Prefix, p)
<1> DEFINE Common == CommonPrefixes(Nodes)
           Longest(c) == \A d \in Common : Len(d) <= Len(c)
<1>1. Nodes # {} /\ Prefix = LongestCommonPrefix(Nodes)
  BY DEF Prefix
<1>2. PICK p \in Nodes : TRUE
  BY <1>1
<1>3. Nodes \subseteq Dotted
  BY SourceTypes DEF Nodes
<1>4. \A c \in Common : c \in Dotted /\ \A q \in Nodes : IsPrefix(c, q)
  <2>1. ASSUME NEW q \in Dotted, NEW l \in 0 .. Len(q)
        PROVE  SubSeq(q, 1, l) \in Dotted
    <3>1. \A k \in 1 .. l : q[k] \in Name
      BY DEF Dotted
    <3> QED
      BY <3>1, SubSeqProperties DEF Dotted
  <2>2. \A q \in Nodes : Prefixes(q) \subseteq Dotted
    BY <1>3, <2>1 DEF Prefixes
  <2> QED
    BY <2>2 DEF CommonPrefixes
<1>5. <<>> \in Common
  <2>1. <<>> \in Prefixes(p)
    <3>1. p \in Seq(Name) /\ Len(p) \in Nat
      BY <1>3 DEF Dotted
    <3>2. SubSeq(p, 1, 0) = <<>> /\ 0 \in 0 .. Len(p)
      BY <3>1
    <3> QED
      BY <3>2 DEF Prefixes
  <2>2. \A q \in Nodes : IsPrefix(<<>>, q)
    <3>1. <<>> \in Dotted /\ Len(<<>>) = 0
      BY DEF Dotted
    <3>2. \A q \in Nodes : Len(q) \in Nat
      BY <1>3 DEF Dotted
    <3> QED
      BY <1>3, <3>1, <3>2, PrefixByPlace
  <2> QED
    BY <2>1, <2>2 DEF CommonPrefixes
<1>6. \E c \in Common : Longest(c)
  <2> DEFINE Short == {Len(p) - Len(c) : c \in Common}
  <2>1. \A c \in Common : Len(c) \in Nat /\ Len(p) \in Nat /\ Len(c) <= Len(p)
    BY <1>3, <1>4 DEF Dotted, IsPrefix
  <2> HIDE DEF Common
  <2>2. Short \in SUBSET Nat /\ Short # {}
    BY <1>5, <2>1
  <2>3. PICK m \in Short : \A n \in Short : ~(<<n, m>> \in OpToRel(<, Nat))
    <3> HIDE DEF Short
    <3> QED
      BY <2>2, WFMin, NatLessThanWellFounded
  <2>4. PICK c \in Common : m = Len(p) - Len(c)
    OBVIOUS
  <2>5. ASSUME NEW d \in Common
        PROVE  Len(d) <= Len(c)
    <3>1. Len(p) - Len(d) \in Short /\ Len(p) - Len(c) \in Short
      OBVIOUS
    <3>2. ~(Len(p) - Len(d) < Len(p) - Len(c))
      <4> HIDE DEF Short
      <4> QED
        BY <2>2, <2>3, <2>4, <3>1 DEF OpToRel
    <3> QED
      BY <2>1, <3>2
  <2> QED
    BY <2>5
<1>7. Prefix \in Common
  BY <1>1, <1>6 DEF LongestCommonPrefix
<1> QED
  BY <1>4, <1>7

---------------------------------------------------------------------------
(* Edges and import lines. *)

LEMMA EdgeLineFacts ==
  ASSUME CodeOK, Prefix # <<>>, NEW fi \in EdgeLines
  PROVE  /\ fi \in ImportLines /\ From(fi) # Target(fi)
         /\ IsPrefix(Prefix, Target(fi))
<1>1. /\ fi \in ImportLines /\ Target(fi) # From(fi)
      /\ IsStrictPrefix(Prefix, Captured(fi[2]))
  BY DEF EdgeLines, InProject
<1>2. Captured(fi[2]) \in Dotted /\ Prefix \in Dotted
  BY <1>1, LineTypes, PrefixCommon
<1>3. Captured(fi[2]) # <<>>
  <2>1. Len(Prefix) <= Len(Captured(fi[2]))
    BY <1>1 DEF IsStrictPrefix, IsPrefix
  <2> QED
    BY <1>2, <2>1 DEF Dotted
<1> QED
  BY <1>1, <1>2, <1>3, PrefixOfFront DEF Target

\* The line that imports a class counts for the package it names.
LEMMA PlainLine ==
  ASSUME CodeOK, Prefix # <<>>, NEW fi \in ImportLines, fi[2].form = "class"
  PROVE  /\ Target(fi) = fi[2].package
         /\ fi \in EdgeLines <=> /\ IsPrefix(Prefix, fi[2].package)
                                 /\ From(fi) # fi[2].package
<1>1. fi[2].package \in Dotted /\ fi[2].name \in Name
  BY LineTypes DEF Imports, Dotted
<1>2. Captured(fi[2]) = Append(fi[2].package, fi[2].name)
  BY DEF Captured
<1>3. /\ Captured(fi[2]) \in Dotted /\ Captured(fi[2]) # <<>>
      /\ Front(Captured(fi[2])) = fi[2].package
  BY <1>1, <1>2, FrontOfAppend
<1>4. IsStrictPrefix(Prefix, Captured(fi[2])) <=> IsPrefix(Prefix, fi[2].package)
  BY <1>3, PrefixCommon, PrefixOfFront
<1> QED
  BY <1>3, <1>4 DEF Target, EdgeLines, InProject

Between(p, q) == {fi \in EdgeLines : From(fi) = p /\ Target(fi) = q}

LEMMA FinitelyManyBetween ==
  ASSUME CodeOK
  PROVE  /\ IsFiniteSet(EdgeLines) /\ IsFiniteSet(Edges)
         /\ \A S \in SUBSET EdgeLines : IsFiniteSet(S) /\ Cardinality(S) \in Nat
<1> DEFINE Ends == [fi \in EdgeLines |-> <<From(fi), Target(fi)>>]
<1>1. EdgeLines \in SUBSET ImportLines
  BY DEF EdgeLines
<1>2. IsFiniteSet(EdgeLines)
  BY <1>1, FinitelyManyLines, FS_Subset
<1>3. Ends \in Surjection(EdgeLines, Edges)
  BY DEF Surjection, Edges
<1> QED
  BY <1>2, <1>3, FS_Surjection, FS_Subset, FS_CardinalityType

LEMMA EdgesFollow ==
  ASSUME CodeOK, Prefix # <<>>
  PROVE  EdgesAreImports
<1>1. ASSUME NEW p \in Nodes, NEW q \in Nodes, p # q
      PROVE  Weight(p, q) >= Cardinality(PlainImports(p, q))
  <2>1. PlainImports(p, q) \subseteq Between(p, q)
    BY <1>1, PlainLine, PrefixCommon DEF PlainImports, Between
  <2>2. IsFiniteSet(Between(p, q))
    BY FinitelyManyBetween DEF Between
  <2>3. Cardinality(PlainImports(p, q)) <= Cardinality(Between(p, q))
    BY <2>1, <2>2, FS_Subset
  <2>4. Cardinality(PlainImports(p, q)) \in Nat /\ Cardinality(Between(p, q)) \in Nat
    BY <2>1, <2>2, FS_Subset, FS_CardinalityType
  <2> QED
    BY <2>3, <2>4 DEF Weight, Between
<1>2. ASSUME NEW pq \in Edges
      PROVE  IsPrefix(Prefix, pq[2])
  BY EdgeLineFacts DEF Edges
<1>3. ASSUME NEW pq \in Edges, PlainPackage(pq[1])
      PROVE  Weight(pq[1], pq[2]) = Cardinality(PlainImports(pq[1], pq[2]))
  <2>1. ASSUME NEW fi \in EdgeLines, From(fi) = pq[1], Target(fi) = pq[2]
        PROVE  fi \in PlainImports(pq[1], pq[2])
    BY <1>3, <2>1, PlainLine, EdgeLineFacts DEF PlainPackage, PlainImports
  <2>2. ASSUME NEW fi \in PlainImports(pq[1], pq[2])
        PROVE  fi \in EdgeLines /\ From(fi) = pq[1] /\ Target(fi) = pq[2]
    <3>1. /\ fi \in ImportLines /\ From(fi) = pq[1] /\ fi[2].package = pq[2]
          /\ fi[2].form = "class"
      BY DEF PlainImports
    <3>2. pq[1] # pq[2] /\ IsPrefix(Prefix, pq[2])
      BY EdgeLineFacts DEF Edges
    <3> QED
      BY <3>1, <3>2, PlainLine
  <2>3. PlainImports(pq[1], pq[2]) \subseteq EdgeLines
    BY <2>2
  <2>4. {fi \in EdgeLines : From(fi) = pq[1] /\ Target(fi) = pq[2]}
          = PlainImports(pq[1], pq[2])
    BY <2>1, <2>2
  <2> QED
    BY <2>4 DEF Weight
<1> QED
  BY <1>1, <1>2, <1>3 DEF EdgesAreImports

---------------------------------------------------------------------------
(* The sum of the weights of some edges is the number of their lines.  The *)
(* fold of MapThenSumSet is a choice of a function that satisfies its      *)
(* recursive equation: counting the lines of every set of edges is one,    *)
(* and all of them agree, by induction on subsets.                         *)

\* What holds of a subset whenever it holds of the smaller ones holds of all;
\* a predicate is the set of the subsets that satisfy it.
LEMMA EdgeInduction ==
  ASSUME NEW S, IsFiniteSet(S), NEW Good,
         \A T \in SUBSET S : (\A U \in SUBSET T : U # T => U \in Good) => T \in Good
  PROVE  SUBSET S \subseteq Good
<1> DEFINE Bad == (SUBSET S) \ Good
<1> SUFFICES ASSUME Bad # {} PROVE FALSE
  OBVIOUS
<1>1. Bad \subseteq FiniteSubsetsOf(S)
  BY FS_Subset DEF FiniteSubsetsOf
<1>2. PICK T \in Bad : \A U \in Bad : ~(<<U, T>> \in StrictSubsetOrdering(S))
  <2> HIDE DEF Bad
  <2> QED
    BY <1>1, FS_StrictSubsetOrderingWellFounded, WFMin
<1>3. \A U \in SUBSET T : U # T => U \in Good
  BY <1>2 DEF StrictSubsetOrdering
<1> QED
  BY <1>3

FirstEdge(S) == CHOOSE pq \in S : TRUE

Summed(S, g) ==
  g = [s \in SUBSET S |-> IF s = {} THEN 0
                          ELSE LET pq == FirstEdge(s)
                               IN  Weight(pq[1], pq[2]) + g[s \ {pq}]]

SumOfWeights(S) == MapThenSumSet(LAMBDA pq : Weight(pq[1], pq[2]), S)

LEMMA SumIsFold == ASSUME NEW S PROVE SumOfWeights(S) = (CHOOSE g : Summed(S, g))[S]
BY DEF SumOfWeights, MapThenSumSet, MapThenFoldSet, Summed, FirstEdge

LinesOf(S) == {fi \in EdgeLines : <<From(fi), Target(fi)>> \in S}

LEMMA OneEdgeLess ==
  ASSUME CodeOK, NEW s \in SUBSET Edges, NEW pq \in s
  PROVE  Cardinality(LinesOf(s)) = Weight(pq[1], pq[2]) + Cardinality(LinesOf(s \ {pq}))
<1> DEFINE A == LinesOf({pq})
           B == LinesOf(s \ {pq})
<1>1. LinesOf(s) = A \cup B /\ A \cap B = {}
  BY DEF LinesOf
<1>2. A \in SUBSET EdgeLines /\ B \in SUBSET EdgeLines
  BY DEF LinesOf
<1>3. /\ IsFiniteSet(A) /\ IsFiniteSet(B)
      /\ Cardinality(A) \in Nat /\ Cardinality(B) \in Nat
  BY <1>2, FinitelyManyBetween
<1>4. A = {fi \in EdgeLines : From(fi) = pq[1] /\ Target(fi) = pq[2]}
  BY DEF LinesOf, Edges
<1>5. Cardinality(A) = Weight(pq[1], pq[2])
  BY <1>4 DEF Weight
<1>6. Cardinality(A \cup B) = Cardinality(A) + Cardinality(B)
  <2> HIDE DEF A, B
  <2>1. Cardinality(A \cup B) = Cardinality(A) + Cardinality(B) - Cardinality(A \cap B)
    BY <1>3, FS_Union
  <2>2. Cardinality(A \cap B) = 0
    BY <1>1, FS_EmptySet
  <2> QED
    BY <1>3, <2>1, <2>2
<1> QED
  BY <1>1, <1>5, <1>6

LEMMA SumCountsLines ==
  ASSUME CodeOK, NEW S \in SUBSET Edges
  PROVE  SumOfWeights(S) = Cardinality(LinesOf(S))
<1> DEFINE count == [s \in SUBSET S |-> Cardinality(LinesOf(s))]
           sum   == CHOOSE g : Summed(S, g)
           Good  == {s \in SUBSET S : sum[s] = count[s]}
<1>1. \A s \in SUBSET S : s # {} => FirstEdge(s) \in s
  BY DEF FirstEdge
<1>2. count[{}] = 0
  <2>1. LinesOf({}) = {}
    BY DEF LinesOf
  <2> QED
    BY <2>1, FS_EmptySet
<1>3. ASSUME NEW s \in SUBSET S, s # {}
      PROVE  LET pq == FirstEdge(s)
             IN  count[s] = Weight(pq[1], pq[2]) + count[s \ {pq}]
  BY <1>1, <1>3, OneEdgeLess
<1>4. Summed(S, count)
  BY <1>2, <1>3 DEF Summed
<1>5. Summed(S, sum)
  BY <1>4
<1> HIDE DEF count, sum
<1>6. ASSUME NEW s \in SUBSET S
      PROVE  sum[s] = IF s = {} THEN 0
                      ELSE LET pq == FirstEdge(s)
                           IN  Weight(pq[1], pq[2]) + sum[s \ {pq}]
  BY <1>5 DEF Summed
<1>7. ASSUME NEW s \in SUBSET S, \A u \in SUBSET s : u # s => u \in Good
      PROVE  s \in Good
  <2>1. CASE s = {}
    BY <1>2, <1>6, <2>1
  <2>2. CASE s # {}
    <3> DEFINE pq == FirstEdge(s)
    <3>1. s \ {pq} \in Good
      BY <1>1, <1>7, <2>2
    <3>2. sum[s] = Weight(pq[1], pq[2]) + sum[s \ {pq}]
      BY <1>6, <2>2
    <3>3. count[s] = Weight(pq[1], pq[2]) + count[s \ {pq}]
      BY <1>3, <2>2
    <3> QED
      BY <3>1, <3>2, <3>3
  <2> QED
    BY <2>1, <2>2
<1>8. IsFiniteSet(S)
  BY FinitelyManyBetween, FS_Subset
<1>9. SUBSET S \subseteq Good
  <2> HIDE DEF Good
  <2> QED
    BY <1>7, <1>8, EdgeInduction
<1>10. sum[S] = count[S] /\ count[S] = Cardinality(LinesOf(S))
  BY <1>9 DEF count
<1> QED
  BY <1>10, SumIsFold DEF sum

---------------------------------------------------------------------------
(* The most coupled packages. *)

\* The import lines at a package, as MostCoupledListed counts them.
LinesAt(p) ==
  {fi \in ImportLines : /\ IsPrefix(Prefix, fi[2].package)
                        /\ From(fi) # fi[2].package
                        /\ p \in {From(fi), fi[2].package}}

LEMMA FanCountsLines ==
  ASSUME CodeOK, Prefix # <<>>, \A p \in Nodes : PlainPackage(p), NEW p
  PROVE  Fan(p) = Cardinality(LinesAt(p)) /\ Cardinality(LinesAt(p)) \in Nat
<1> DEFINE At == {pq \in Edges : p \in {pq[1], pq[2]}}
<1>1. Fan(p) = SumOfWeights(At)
  BY DEF Fan, SumOfWeights
<1>2. \A fi \in ImportLines : fi[2].form = "class"
  BY LineTypes DEF PlainPackage
<1>3. ASSUME NEW fi \in ImportLines
      PROVE  fi \in LinesOf(At) <=> fi \in LinesAt(p)
  <2>1. Target(fi) = fi[2].package
    BY <1>2, PlainLine
  <2>2. fi \in EdgeLines <=> IsPrefix(Prefix, fi[2].package) /\ From(fi) # fi[2].package
    BY <1>2, PlainLine
  <2>3. fi \in LinesOf(At) <=> fi \in EdgeLines /\ p \in {From(fi), Target(fi)}
    BY DEF LinesOf, Edges
  <2> QED
    BY <2>1, <2>2, <2>3 DEF LinesAt
<1>4. LinesOf(At) \subseteq ImportLines /\ LinesAt(p) \subseteq ImportLines
  BY DEF LinesOf, LinesAt, EdgeLines
<1>5. LinesOf(At) = LinesAt(p)
  BY <1>3, <1>4
<1>6. LinesOf(At) \in SUBSET EdgeLines
  BY DEF LinesOf
<1> QED
  BY <1>1, <1>5, <1>6, SumCountsLines, FinitelyManyBetween

LEMMA CoupledRanked ==
  ASSUME CodeOK, Prefix # <<>>
  PROVE  MostCoupledListed
<1> SUFFICES ASSUME \A p \in Nodes : PlainPackage(p),
                    NEW L \in CoupledLists, NEW p \in L, NEW q \in Nodes \ L
             PROVE  Cardinality(LinesAt(p)) >= Cardinality(LinesAt(q))
  BY DEF MostCoupledListed, LinesAt
<1>1. L \subseteq Coupled /\ \A x \in L, y \in Coupled \ L : Fan(x) >= Fan(y)
  BY DEF CoupledLists, Lists
<1>2. /\ Fan(p) = Cardinality(LinesAt(p)) /\ Cardinality(LinesAt(p)) \in Nat
      /\ Fan(q) = Cardinality(LinesAt(q)) /\ Cardinality(LinesAt(q)) \in Nat
  BY FanCountsLines
<1>3. CASE q \in Coupled
  BY <1>1, <1>2, <1>3
<1>4. CASE q \notin Coupled
  <2>1. LinesAt(q) = {}
    <3> SUFFICES ASSUME NEW fi \in LinesAt(q)
                 PROVE  FALSE
      OBVIOUS
    <3>1. /\ fi \in ImportLines /\ fi[2].form = "class"
          /\ q \in {From(fi), fi[2].package}
      BY LineTypes DEF LinesAt, PlainPackage
    <3>2. fi \in EdgeLines /\ Target(fi) = fi[2].package
      BY <3>1, PlainLine DEF LinesAt
    <3>3. <<From(fi), Target(fi)>> \in Edges
      BY <3>2 DEF Edges
    <3>4. {From(fi), Target(fi)} \subseteq Coupled
      BY <3>3 DEF Coupled
    <3> QED
      BY <1>4, <3>1, <3>2, <3>4
  <2> QED
    BY <1>2, <2>1, FS_EmptySet
<1> QED
  BY <1>3, <1>4

\* Once the packages of the tree have a prefix in common, the graph is that of
\* the import lines and the panel ranks the packages by them.
THEOREM GraphIsImports == Spec => []GraphFollowsImports
<1>1. CodeOK => GraphFollowsImports
  BY EdgesFollow, CoupledRanked DEF GraphFollowsImports
<1> QED
  BY <1>1, Trees, PTL
===========================================================================
