-------------------------- MODULE MCStaticAnalysis --------------------------
(***************************************************************************)
(* Three files, three people and three commits at a time, one of which may *)
(* take a file away from its package.  The contents put a file in the      *)
(* project's root package, in one of two packages below it, or in none,    *)
(* with imports of every form, of classes of the project and of a library. *)
(***************************************************************************)
EXTENDS StaticAnalysis

CONSTANTS a1, a2, a3, p1, p2, p3, shop, cart, mail, lib, A, B

MCAuthor == {a1, a2, a3}
MCPath   == {p1, p2, p3}
MCName   == {shop, cart, mail, lib, A, B, Member}

Import(form, package, name) == [form |-> form, package |-> package, name |-> name]

Of(package, imports) == [package |-> package, imports |-> imports]

MCSource ==
  {Of(<<shop, cart>>, {Import("class", <<shop>>, A), Import("class", <<shop, mail>>, A),
                       Import("class", <<lib>>, A)}),
   Of(<<shop, mail>>, {Import("class", <<shop, cart>>, A), Import("class", <<shop, cart>>, B)}),
   Of(<<shop>>, {Import("member", <<shop, mail>>, A), Import("package", <<shop, cart>>, A)}),
   Of(<<>>, {Import("class", <<shop>>, A)})}

Symmetric == Permutations(MCAuthor) \cup Permutations(MCPath)
=============================================================================
