--------------------------- MODULE StaticAnalysis ---------------------------
(***************************************************************************)
(* The static-analysis panel of the audit's report: build_static_analysis  *)
(* of generate_report.py over what compute_churn.py and                    *)
(* extract_dep_graph.py find.  The scripts run over a repository that      *)
(* stands still, so the panel is a function of the repository, up to the   *)
(* order of ties in a list that is cut short: Python sets and dicts decide *)
(* it, and any order is taken to be possible.  The properties speak of     *)
(* every panel that may be printed in every state of the repository.       *)
(*                                                                         *)
(* A definition marked "variant" is what the one below it would be with a  *)
(* plausible mistake in the code; no action uses it.                       *)
(***************************************************************************)
EXTENDS Churn, DepGraph

CONSTANTS
  ListLimit,   \* how many packages a list of the panel shows
  NameLimit    \* how many authors it names for a diverse package

ASSUME LimitAssumption == ListLimit \in Nat /\ NameLimit \in Nat \ {0}

vars == <<history, code>>

Spec == RepoInit /\ [][RepoNext]_vars

---------------------------------------------------------------------------
(* What a list of S cut to n items may hold, the heaviest first. *)

Lists(S, weight, n) ==
  {T \in SUBSET S :
     /\ Cardinality(T) = IF Cardinality(S) < n THEN Cardinality(S) ELSE n
     /\ \A x \in T, y \in S \ T : weight[x] >= weight[y]}

LoneLists    == Lists(BusFactor, [p \in BusFactor |-> PackageCommits(p)], ListLimit)
DiverseLists == Lists(Diverse, [p \in Diverse |-> Cardinality(PackageAuthors(p))], ListLimit)

\* The authors named with a package: author_of and top3.
NamedAuthors(p, n) ==
  Lists(PackageAuthors(p), [a \in PackageAuthors(p) |-> AuthorCommits(p, a)], n)

Coupled == UNION {{pq[1], pq[2]} : pq \in Edges}

\* fan-in and fan-out together
Fan(p) == MapThenSumSet(LAMBDA pq : Weight(pq[1], pq[2]),
                        {pq \in Edges : p \in {pq[1], pq[2]}})

CoupledLists == Lists(Coupled, [p \in Coupled |-> Fan(p)], ListLimit)

---------------------------------------------------------------------------
(* Properties. *)

\* The commits that changed the package, judged by the package each file was in
\* when it was committed, and who made them.
Touching(p) == {c \in DOMAIN history : p \in history[c].changed}
People(p)   == {history[c].author : c \in Touching(p)}

NothingLeft(p) == \A c \in DOMAIN history : p \notin history[c].left
NothingCame(p) == \A c \in DOMAIN history : p \notin history[c].came

\* What the panel says of people is true of the commits.  Nobody but the person
\* named with a lone package changed it, unless a file left it; that person did,
\* and so did three people at least and all those named with a diverse package,
\* unless a file came to it with a past of its own.  The script goes by file and
\* by today's packages, the property by commit and by the packages of its day.
PeopleAreReal ==
  /\ Churned \subseteq Nodes
  /\ \A L \in LoneLists : \A p \in L : \A N \in NamedAuthors(p, 1) :
       /\ NothingLeft(p) => People(p) \subseteq N
       /\ NothingCame(p) => N \subseteq People(p)
  /\ \A L \in DiverseLists : \A p \in L : NothingCame(p) =>
       /\ Cardinality(People(p)) >= 3
       /\ \A N \in NamedAuthors(p, NameLimit) : N \subseteq People(p)

\* A package that enough commits changed and no file left is on the list it
\* belongs to, or the list is full, however the commits are spread over files.
NoHotspotMissed ==
  \A p \in {q \in Nodes : Cardinality(Touching(q)) >= MinCommits /\ NothingLeft(q)} :
    LET Listed(lists) == \A L \in lists : p \in L \/ Cardinality(L) = ListLimit
    IN  /\ Cardinality(People(p)) = 1 /\ NothingCame(p) => Listed(LoneLists)
        /\ Cardinality(People(p)) >= 3 => Listed(DiverseLists)

PlainImports(p, q) ==
  {fi \in ImportLines : From(fi) = p /\ fi[2].package = q /\ fi[2].form = "class"}

PlainPackage(p) == \A fi \in ImportLines : From(fi) = p => fi[2].form = "class"

\* No import of a class from one package to another is lost and no library gets
\* in; where every import is of a class an edge counts these and nothing else.
EdgesAreImports ==
  /\ \A p, q \in Nodes : p # q => Weight(p, q) >= Cardinality(PlainImports(p, q))
  /\ \A pq \in Edges :
       /\ IsPrefix(Prefix, pq[2])
       /\ PlainPackage(pq[1]) => Weight(pq[1], pq[2]) = Cardinality(PlainImports(pq[1], pq[2]))

\* Nothing outranks a package listed as most coupled: in a project of plain
\* imports no package left out has more import lines to or from another one.
MostCoupledListed ==
  LET Ends(p) == {fi \in ImportLines :
                    /\ IsPrefix(Prefix, fi[2].package)
                    /\ From(fi) # fi[2].package
                    /\ p \in {From(fi), fi[2].package}}
  IN  (\A p \in Nodes : PlainPackage(p)) =>
        \A L \in CoupledLists : \A p \in L, q \in Nodes \ L :
          Cardinality(Ends(p)) >= Cardinality(Ends(q))

\* Once the packages of the tree have a prefix in common, the graph is that of
\* the import lines and the panel ranks the packages by them.
GraphFollowsImports == Prefix # <<>> => EdgesAreImports /\ MostCoupledListed
=============================================================================
