---------------------------- MODULE ReviewGate ----------------------------
(***************************************************************************)
(* What the gate promises, in one step: the documents it is given are      *)
(* accepted exactly when they are well formed.  Nothing is said of the     *)
(* order in which records are read or of what is remembered meanwhile.     *)
(***************************************************************************)
EXTENDS ReviewDocs

CONSTANT Inputs    \* the triples <<findings, checks, context>> it may be given

VARIABLES docs, verdict

Init == docs \in Inputs /\ verdict = "pending"

Decide ==
  /\ verdict = "pending"
  /\ verdict' = IF WellFormed(docs[1], docs[2], docs[3]) THEN "accepted" ELSE "rejected"
  /\ UNCHANGED docs

Spec == Init /\ [][Decide]_<<docs, verdict>>
===========================================================================
