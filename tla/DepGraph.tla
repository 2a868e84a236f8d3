------------------------------ MODULE DepGraph ------------------------------
(***************************************************************************)
(* extract_dep_graph.py: the packages of the tree and which imports which. *)
(* The script sees an import as the dotted name in front of the semicolon  *)
(* or of ".*", and takes everything before its last dot for a package.     *)
(***************************************************************************)
EXTENDS JavaRepo, SequencesExt

CONSTANT Member   \* the last component of what is imported from a class

ASSUME MemberAssumption == Member \in Name

\* parse_file: a file without a package declaration is left out.
Parsed == {f \in Present : code[f].package # <<>>}

\* The name IMPORT_RE captures.
Captured(i) ==
  CASE i.form = "class"   -> Append(i.package, i.name)
    [] i.form = "member"  -> i.package \o <<i.name, Member>>
    [] i.form = "package" -> i.package

Nodes == {code[f].package : f \in Parsed}

\* infer_prefix; no --prefix is given.
Prefix == IF Nodes = {} THEN <<>> ELSE LongestCommonPrefix(Nodes)

\* "imported.startswith(prefix + '.')": nothing starts with a lone dot.
PackageInProject(prefix, name) ==                                     \* variant
  prefix # <<>> /\ IsStrictPrefix(prefix, Front(name))
InProject(prefix, name) == prefix # <<>> /\ IsStrictPrefix(prefix, name)

From(fi)   == code[fi[1]].package
Target(fi) == Front(Captured(fi[2]))

\* The import lines, each with its file, and those that make an edge.
ImportLines == UNION {{f} \X code[f].imports : f \in Parsed}
EdgeLines ==
  LET prefix == Prefix
  IN  {fi \in ImportLines : InProject(prefix, Captured(fi[2])) /\ Target(fi) # From(fi)}

Edges == {<<From(fi), Target(fi)>> : fi \in EdgeLines}

Weight(p, q) == Cardinality({fi \in EdgeLines : From(fi) = p /\ Target(fi) = q})
=============================================================================
