------------------------- MODULE ValidateFindings -------------------------
(***************************************************************************)
(* scripts/validate_findings.py: the gate between the agent that writes    *)
(* findings.json, checks.json and context.json and the report generator.   *)
(* One pass over the findings, then one over the check records, then the   *)
(* mandatory-coverage rule, then the exit code.  Each loop body is one     *)
(* action.  What the script remembers between records is the state:        *)
(* seen_finding_ids, seen_instances, finding_id_owners and errors, whose   *)
(* entries are kept apart by the loop that adds them.  A record that       *)
(* breaks a rule is not always remembered like a good one: a clashing      *)
(* check instance is never stored and so never compared with again.        *)
(*                                                                         *)
(* A definition marked "variant" is what the one below it would be with a  *)
(* plausible mistake in the script; no action uses it.                     *)
(***************************************************************************)
EXTENDS ReviewDocs

CONSTANTS
  Inputs,        \* the triples <<findings, checks, context>> to be validated
  NoOwner        \* finding_id_owners has no entry

ASSUME InputsAssumption ==
  \A in \in Inputs :
    in \in Seq(Finding) \X (Seq(Check) \cup {Absent}) \X
            ([system_type : DOMAIN Overrides \cup {"unknown", Absent}] \cup {Absent})

ASSUME NoOwnerAssumption == NoOwner \notin CheckId \cup {NoId}

ASSUME NotSupplied == Absent \notin Seq(Check)

VARIABLES
  docs,            \* the parsed arguments, read only
  pc,              \* the loop the script is in
  n,               \* how many records that loop has finished
  seenFindingIds,  \* keys of seen_finding_ids
  seenInstances,   \* seen_instances: the scopes stored for each check id
  owners,          \* finding_id_owners
  findingErrors,   \* errors of the findings loop, as <<position, rule>>
  checkErrors,     \* errors of the checks loop, as <<position, rule>>
  uncovered,       \* mandatory ids reported as missing
  exitCode

vars == <<docs, pc, n, seenFindingIds, seenInstances, owners,
          findingErrors, checkErrors, uncovered, exitCode>>

findings == docs[1]
checks   == docs[2]
context  == docs[3]

---------------------------------------------------------------------------
(* The rules of one record. *)

FindingRule == {"id", "duplicate", "classification", "dimension", "severity", "text",
                "recommendation", "evidence", "line", "file", "searches"}

CheckRule == {"id", "scope", "manifest", "status", "finding_ids", "dangling",
              "evidence", "reason", "owned"}

\* The rules finding f breaks, when the ids in seen came before it.
FindingBreaks(f, seen) ==
  {r \in FindingRule :
    \/ r = "id"             /\ f.id = NoId
    \/ r = "duplicate"      /\ f.id \in seen
    \/ r = "classification" /\ f.classification \notin Classifications
    \/ r = "dimension"      /\ f.dimension = "other"
    \/ r = "severity"       /\ f.severity \notin Severities \cup {"null"}
    \/ r = "text"           /\ ~f.texts
    \/ r = "recommendation" /\ f.classification = "risk"
                            /\ f.severity \in {"medium", "high"}
                            /\ ~f.recommendation
    \/ r = "evidence"       /\ f.evidence = {}
    \/ r = "line"           /\ \E e \in f.evidence : e.line = "invalid"
    \/ r = "file"           /\ ~f.external
                            /\ \E e \in f.evidence : e.file = "missing"
    \/ r = "searches"       /\ ~f.searched
                            /\ \E e \in f.evidence : e.file = "none" \/ e.line = "none"}

\* The instance loop with its for/else: a clash with a stored instance.
SameScopeStored(c) == c.id # NoId /\ c.scope \in seenInstances[c.id]    \* variant
Clashes(c) == c.id # NoId /\ \E other \in seenInstances[c.id] : Clash(c.scope, other)

\* The owner loop: an id already owned, or listed twice by this record.
OwnedByOtherCheck(c) ==                                                \* variant
  \E k \in DOMAIN FidsOf(c) : owners[FidsOf(c)[k]] \notin {NoOwner, c.id}
OwnedByAnother(c) == \E k \in DOMAIN FidsOf(c) : owners[FidsOf(c)[k]] # NoOwner  \* variant
AlreadyOwned(c) ==
  \E k \in DOMAIN FidsOf(c) :
    \/ owners[FidsOf(c)[k]] # NoOwner
    \/ \E l \in 1 .. k - 1 : FidsOf(c)[l] = FidsOf(c)[k]

\* The rules check record c breaks in the current state.
CheckBreaks(c) ==
  {r \in CheckRule :
    \/ r = "id"          /\ c.id = NoId
    \/ r = "scope"       /\ Clashes(c)
    \/ r = "manifest"    /\ ManifestIds # {} /\ c.id # NoId /\ c.id \notin ManifestIds
    \/ r = "status"      /\ c.status \notin CheckStatuses
    \/ r = "finding_ids" /\ c.status \in {"risk", "strength"} /\ FidsOf(c) = <<>>
    \/ r = "dangling"    /\ c.status \in {"risk", "strength"}
                         /\ \E fid \in FindingId : Lists(c, fid) /\ fid \notin seenFindingIds
    \/ r = "evidence"    /\ c.status = "clean" /\ ~c.evidence
    \/ r = "reason"      /\ c.status \in {"not-applicable", "not-assessed"} /\ ~c.reason
    \/ r = "owned"       /\ AlreadyOwned(c)}

\* What is remembered of a record for the ones that follow.
RememberEveryId(f) == seenFindingIds \cup {f.id}    \* variant
RememberId(f) == seenFindingIds \cup ({f.id} \ {NoId})

RememberEveryScope(c) ==                             \* variant
  [cid \in CheckId |->
     IF cid = c.id THEN seenInstances[cid] \cup {c.scope} ELSE seenInstances[cid]]
RememberScope(c) ==
  [cid \in CheckId |->
     IF cid = c.id /\ ~Clashes(c) THEN seenInstances[cid] \cup {c.scope}
     ELSE seenInstances[cid]]

RememberOwner(c) ==
  [fid \in FindingId |->
     IF owners[fid] = NoOwner /\ Lists(c, fid) THEN c.id ELSE owners[fid]]

\* by_id keeps the last record of an id; it must be there and have a status.
LastIs(cid, i) ==
  /\ checks[i].id = cid
  /\ \A j \in DOMAIN checks : j > i => checks[j].id # cid

HasRecord(cid) ==
  \E i \in DOMAIN checks : LastIs(cid, i) /\ checks[i].status # "null"

---------------------------------------------------------------------------
Init ==
  /\ docs \in Inputs
  /\ pc = "findings"
  /\ n = 0
  /\ seenFindingIds = {}
  /\ seenInstances = [cid \in CheckId |-> {}]
  /\ owners = [fid \in FindingId |-> NoOwner]
  /\ findingErrors = {}
  /\ checkErrors = {}
  /\ uncovered = {}
  /\ exitCode = Absent

\* One turn of the findings loop.
ReadFinding ==
  /\ pc = "findings"
  /\ n < Len(findings)
  /\ LET f == findings[n + 1] IN
       /\ findingErrors' = findingErrors \cup {n + 1} \X FindingBreaks(f, seenFindingIds)
       /\ seenFindingIds' = RememberId(f)
  /\ n' = n + 1
  /\ UNCHANGED <<docs, pc, seenInstances, owners, checkErrors, uncovered, exitCode>>

\* Without checks.json the rest is skipped, whatever the context.
EndFindings ==
  /\ pc = "findings"
  /\ n = Len(findings)
  /\ pc' = IF checks = Absent THEN "exit" ELSE "checks"
  /\ n' = 0
  /\ UNCHANGED <<docs, seenFindingIds, seenInstances, owners,
                 findingErrors, checkErrors, uncovered, exitCode>>

\* One turn of the checks loop.
ReadCheck ==
  /\ pc = "checks"
  /\ n < Len(checks)
  /\ LET c == checks[n + 1] IN
       /\ checkErrors' = checkErrors \cup {n + 1} \X CheckBreaks(c)
       /\ seenInstances' = RememberScope(c)
       /\ owners' = RememberOwner(c)
  /\ n' = n + 1
  /\ UNCHANGED <<docs, pc, seenFindingIds, findingErrors, uncovered, exitCode>>

\* The mandatory-coverage rule, for a run that has a context.
EndChecks ==
  /\ pc = "checks"
  /\ n = Len(checks)
  /\ uncovered' = IF context = Absent THEN {}
                  ELSE {cid \in MandatoryIds(context) : ~HasRecord(cid)}
  /\ pc' = "exit"
  /\ UNCHANGED <<docs, n, seenFindingIds, seenInstances, owners,
                 findingErrors, checkErrors, exitCode>>

NoErrors == findingErrors = {} /\ checkErrors = {} /\ uncovered = {}

Exit ==
  /\ pc = "exit"
  /\ exitCode' = IF NoErrors THEN 0 ELSE 1
  /\ pc' = "done"
  /\ UNCHANGED <<docs, n, seenFindingIds, seenInstances, owners,
                 findingErrors, checkErrors, uncovered>>

\* The process has ended.
Ended == pc = "done" /\ UNCHANGED vars

Next == ReadFinding \/ EndFindings \/ ReadCheck \/ EndChecks \/ Exit \/ Ended

Spec == Init /\ [][Next]_vars

---------------------------------------------------------------------------
(* Properties. *)

TypeOK ==
  /\ pc \in {"findings", "checks", "exit", "done"}
  /\ n \in Nat
  /\ seenFindingIds \subseteq FindingId
  /\ seenInstances \in [CheckId -> SUBSET SUBSET Target]
  /\ owners \in [FindingId -> CheckId \cup {NoId, NoOwner}]
  /\ findingErrors \subseteq Nat \X FindingRule
  /\ checkErrors \subseteq Nat \X CheckRule
  /\ uncovered \subseteq CheckId
  /\ exitCode \in {Absent, 0, 1}

\* How many check records the script has been through.
ChecksRead == IF pc = "findings" \/ checks = Absent THEN {}
              ELSE IF pc = "checks" THEN 1 .. n ELSE DOMAIN checks

\* Of two instances of one check id whose scopes clash, at least one is named
\* in the errors, although an instance that clashed is never stored and later
\* ones are not compared with it: without the named records, the instances of
\* every id cover disjoint targets.
ClashesNamed ==
  \A i, j \in ChecksRead :
    (/\ i # j
     /\ checks[i].id = checks[j].id
     /\ checks[i].id # NoId
     /\ Clash(checks[i].scope, checks[j].scope))
    => <<i, "scope">> \in checkErrors \/ <<j, "scope">> \in checkErrors

\* A record is named for its scope only because of an earlier record of the
\* same id that is not itself named: the author can keep that one.
ClashesReal ==
  \A j \in ChecksRead :
    <<j, "scope">> \in checkErrors =>
      \E i \in 1 .. j - 1 :
        /\ checks[i].id = checks[j].id
        /\ Clash(checks[i].scope, checks[j].scope)
        /\ <<i, "scope">> \notin checkErrors

\* A finding is credited to the earliest record that lists it, and every later
\* record that lists it is named, one with the same check id and another scope
\* too, whatever else is wrong with either.
FirstClaimOwns ==
  \A fid \in FindingId, i \in ChecksRead :
    Lists(checks[i], fid) =>
      \E first \in 1 .. i :
        /\ Lists(checks[first], fid)
        /\ \A j \in 1 .. first - 1 : ~Lists(checks[j], fid)
        /\ owners[fid] = checks[first].id
        /\ first # i => <<i, "owned">> \in checkErrors

\* The gate, one record at a time, decides what ReviewGate decides at once.
Verdict == IF pc # "done" THEN "pending"
           ELSE IF exitCode = 0 THEN "accepted" ELSE "rejected"

Gate == INSTANCE ReviewGate WITH verdict <- Verdict

\* The loops accept a run exactly when its documents are well formed: no order
\* of the records, and no record left out of what is remembered, hides a fault
\* or invents one.
GateSpec == Gate!Spec
===========================================================================
