-------------------------- MODULE MCDiscoverRepos --------------------------
(***************************************************************************)
(* Three repositories, one of them with a dot in its name that is read as  *)
(* the name of another, and two whose directories coincide; proposals of   *)
(* up to two mentions, and two runs.                                       *)
(***************************************************************************)
EXTENDS DiscoverRepos

CONSTANTS next, nextjs, other, nextStop, nextjsStop, otherStop, d1, d2, d3

MCRepo == {next, nextjs, other}
MCName == MCRepo \cup {nextStop, nextjsStop, otherStop}
MCCut  == [r \in MCRepo |-> IF r = nextjs THEN next ELSE r]
MCStop == [r \in MCRepo |-> IF r = next THEN nextStop
                            ELSE IF r = nextjs THEN nextjsStop ELSE otherStop]
MCDest == {d1, d2, d3}
MCDestOf == [m \in MCName |-> IF m \in {next, other} THEN d1
                              ELSE IF m = nextjs THEN d2 ELSE d3]
MCReachable == {next, nextjs}

M(r, form, after) == [repo |-> r, form |-> form, after |-> after]

MCMentions ==
  {M(nextjs, "https", "space"), M(next, "https", "space"), M(nextjs, "git@", "space"),
   M(nextjs, "git@", "period"), M(other, "git@", "comma"), M(other, "https", "space")}

MCProposals == UNION {[1 .. k -> MCMentions] : k \in 0 .. 2}
===========================================================================
