------------------------------- MODULE Churn -------------------------------
(***************************************************************************)
(* compute_churn.py: how often and by whom the files and packages of the   *)
(* repository were changed.  A file counts for the package it declares in  *)
(* the working tree, whatever it declared when it was committed.           *)
(***************************************************************************)
EXTENDS JavaRepo

CONSTANT MinCommits   \* --hotspot-min-commits

ASSUME MinAssumption == MinCommits \in Int

\* file_commits and file_authors
CommitsOf(f) == {c \in DOMAIN history : f \in history[c].files}
LastAuthor(f) ==                                                      \* variant
  {history[c].author : c \in {d \in CommitsOf(f) : \A e \in CommitsOf(f) : e <= d}}
FileAuthors(f) == {history[c].author : c \in CommitsOf(f)}

NoPackage == <<>>

\* file_package
FilePackage(f) == IF code[f] = Gone THEN NoPackage ELSE code[f].package

FilesOf(p) == {f \in Path : FilePackage(f) = p}

Churned == {FilePackage(f) : f \in {g \in Path : CommitsOf(g) # {}}} \ {NoPackage}

\* A commit counts once for each file of the package it names, and so does
\* everybody who ever changed the file.
BusiestFile(p) ==                                                     \* variant
  LET n == {Cardinality(CommitsOf(f)) : f \in FilesOf(p)}
  IN  CHOOSE m \in n : \A k \in n : k <= m
PackageCommits(p) ==
  Cardinality({fc \in FilesOf(p) \X DOMAIN history : fc[2] \in CommitsOf(fc[1])})
PackageAuthors(p) == UNION {FileAuthors(f) : f \in FilesOf(p)}
AuthorCommits(p, a) ==
  Cardinality({fc \in FilesOf(p) \X DOMAIN history :
                 fc[2] \in CommitsOf(fc[1]) /\ a \in FileAuthors(fc[1])})

Eligible  == {p \in Churned : PackageCommits(p) >= MinCommits}
BusFactor == {p \in Eligible : Cardinality(PackageAuthors(p)) = 1}
Diverse   == {p \in Eligible : Cardinality(PackageAuthors(p)) >= 3}
=============================================================================
