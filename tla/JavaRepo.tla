------------------------------ MODULE JavaRepo ------------------------------
(***************************************************************************)
(* The repository two scripts look at before an audit: what git log tells  *)
(* of the commits inside the --since window, and the Java files of the     *)
(* working tree.  A commit is its author and the files it names; a package *)
(* is the sequence of its name's components.                               *)
(***************************************************************************)
EXTENDS Integers, Sequences, FiniteSets

CONSTANTS
  Author,      \* the names git log prints
  Path,        \* the .java files, those that are gone included
  Name,        \* the components of dotted names
  Source,      \* the contents a file may have
  Gone,        \* no such file in the working tree
  MaxCommits,  \* bound: commits inside the window
  MaxMoves     \* bound: those among them that take a file from its package

\* The three ways an import line can be written: of a class, of something in
\* a class (a static member or a nested class), of a whole package.
Forms == {"class", "member", "package"}

Imports == [form : Forms, package : Seq(Name), name : Name]

ASSUME SourceAssumption ==
  /\ Source \subseteq [package : Seq(Name), imports : SUBSET Imports]
  /\ \A s \in Source : IsFiniteSet(s.imports)
ASSUME GoneAssumption == Gone \notin Source
ASSUME PathAssumption == IsFiniteSet(Path)
ASSUME BoundAssumption == MaxCommits \in Nat /\ MaxMoves \in Nat

VARIABLES
  history,   \* the commits inside the window, oldest first
  code       \* [Path -> Source \cup {Gone}]

Present == {f \in Path : code[f] # Gone}

\* The package of a file with this content: none if it is gone or declares none.
PackageOf(s) == IF s = Gone THEN {} ELSE {s.package} \ {<<>>}

\* A commit inside the window names the path.
Named(f) == \E c \in DOMAIN history : f \in history[c].files

\* git log prints the author and the files.  The rest is a history of what no
\* script sees: the packages the commit changed, those a file left, and those a
\* path came to that earlier commits name.
Commit(a, fs, changed, left, came) ==
  /\ Len(history) < MaxCommits
  /\ left # {} => Cardinality({c \in DOMAIN history : history[c].left # {}}) < MaxMoves
  /\ history' = Append(history, [author |-> a, files |-> fs, changed |-> changed,
                                 left |-> left, came |-> came])

\* Changes that leave packages and imports alone; a merge names no file.
Edit(a, fs) ==
  /\ Commit(a, fs, UNION {PackageOf(code[f]) : f \in fs}, {}, {})
  /\ UNCHANGED code

\* A new file, or a new package or other imports in an old one.
Write(a, f, s) ==
  LET old == PackageOf(code[f])
      new == PackageOf(s)
  IN  /\ Commit(a, {f}, old \cup new, old \ new, IF Named(f) THEN new \ old ELSE {})
      /\ code' = [code EXCEPT ![f] = s]

Delete(a, f) ==
  /\ Commit(a, {f}, PackageOf(code[f]), PackageOf(code[f]), {})
  /\ code' = [code EXCEPT ![f] = Gone]

\* git log finds the rename and names only the new path.
Rename(a, f, g, s) ==
  LET old == PackageOf(code[f])
      new == PackageOf(s)
  IN  /\ Commit(a, {g}, old \cup new, old, IF Named(g) THEN new ELSE {})
      /\ code' = [code EXCEPT ![f] = Gone, ![g] = s]

\* Time passes and the oldest commit leaves the window.
Slide ==
  /\ history # <<>>
  /\ history' = Tail(history)
  /\ UNCHANGED code

RepoInit ==
  /\ history = <<>>
  /\ code = [f \in Path |-> Gone]

RepoNext ==
  \/ \E a \in Author :
       \/ \E fs \in SUBSET Present : Edit(a, fs)
       \/ \E f \in Path, s \in Source : Write(a, f, s)
       \/ \E f \in Present : Delete(a, f)
       \/ \E f \in Present, g \in Path \ Present, s \in Source : Rename(a, f, g, s)
  \/ Slide
=============================================================================
