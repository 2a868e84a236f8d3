---------------------- MODULE ValidateFindings_proofs ----------------------
(***************************************************************************)
(* Proofs about ValidateFindings, for every set of inputs, every manifest  *)
(* and documents of every length.  The inductive invariant says what each  *)
(* accumulator holds after n turns of a loop in terms of the first n       *)
(* records of the document; the properties follow from it.                 *)
(***************************************************************************)
EXTENDS ValidateFindings, WellFoundedInduction, TLAPS

---------------------------------------------------------------------------
(* The inductive invariant. *)

\* Where the loops can be, and what is still untouched before they begin.
Progress ==
  /\ docs \in Inputs
  /\ pc = "findings" => n <= Len(findings)
  /\ pc = "checks" => checks # Absent /\ n <= Len(checks)
  /\ pc = "findings" \/ checks = Absent =>
       /\ checkErrors = {}
       /\ \A cid \in CheckId : seenInstances[cid] = {}
       /\ \A fid \in FindingId : owners[fid] = NoOwner
  /\ pc \in {"findings", "checks"} \/ checks = Absent => uncovered = {}

FindingsRead == IF pc = "findings" THEN 1 .. n ELSE DOMAIN findings

\* seen_finding_ids holds the ids of the findings read.
SeenExact ==
  seenFindingIds = {findings[i].id : i \in FindingsRead} \ {NoId}

ErrorsOfRead ==
  /\ \A e \in findingErrors : e[1] \in FindingsRead
  /\ \A e \in checkErrors : e[1] \in ChecksRead

\* seen_instances holds exactly the scopes of the records not named for theirs.
InstancesExact ==
  /\ \A cid \in CheckId : \A scope \in seenInstances[cid] :
       \E i \in ChecksRead : /\ checks[i].id = cid
                             /\ checks[i].scope = scope
                             /\ <<i, "scope">> \notin checkErrors
  /\ \A i \in ChecksRead :
       checks[i].id # NoId =>
         \/ checks[i].scope \in seenInstances[checks[i].id]
         \/ <<i, "scope">> \in checkErrors

\* finding_id_owners has an entry only for an id some record listed.
OwnersReal ==
  \A fid \in FindingId :
    owners[fid] # NoOwner => \E i \in ChecksRead : Lists(checks[i], fid)

IInv ==
  /\ TypeOK
  /\ Progress
  /\ SeenExact
  /\ ErrorsOfRead
  /\ InstancesExact
  /\ OwnersReal
  /\ ClashesNamed
  /\ ClashesReal
  /\ FirstClaimOwns

---------------------------------------------------------------------------
(* Facts about the documents. *)

LEMMA InputTypes ==
  ASSUME docs \in Inputs
  PROVE  /\ findings \in Seq(Finding)
         /\ checks \in Seq(Check) \cup {Absent}
         /\ checks # Absent => checks \in Seq(Check)
<1>1. docs \in Seq(Finding) \X (Seq(Check) \cup {Absent}) \X
              ([system_type : DOMAIN Overrides \cup {"unknown", Absent}] \cup {Absent})
  BY InputsAssumption
<1> QED
  BY <1>1 DEF findings, checks

LEMMA FindingIds ==
  ASSUME docs \in Inputs, NEW i \in 1 .. Len(findings)
  PROVE  i \in DOMAIN findings /\ findings[i] \in Finding
                               /\ findings[i].id \in FindingId \cup {NoId}
<1>1. findings \in Seq(Finding)
  BY InputTypes
<1>2. findings[i] \in Finding /\ i \in DOMAIN findings
  BY <1>1
<1> QED
  BY <1>2 DEF Finding

LEMMA FidsType ==
  ASSUME NEW c \in Check
  PROVE  FidsOf(c) \in Seq(FindingId)
<1>1. c.finding_ids \in Seq(FindingId) \cup {Absent} /\ c.finding_id \in FindingId \cup {NoId}
  BY DEF Check
<1> QED
  BY <1>1 DEF FidsOf

LEMMA CheckTypes ==
  ASSUME docs \in Inputs, checks # Absent, NEW i \in 1 .. Len(checks)
  PROVE  /\ i \in DOMAIN checks
         /\ checks[i] \in Check
         /\ checks[i].id \in CheckId \cup {NoId}
         /\ checks[i].scope \in SUBSET Target
         /\ FidsOf(checks[i]) \in Seq(FindingId)
<1>1. checks \in Seq(Check)
  BY InputTypes
<1>2. checks[i] \in Check /\ i \in DOMAIN checks
  BY <1>1
<1> QED
  BY <1>2, FidsType DEF Check

LEMMA BreaksTypes ==
  /\ \A f, seen : FindingBreaks(f, seen) \subseteq FindingRule
  /\ \A c : CheckBreaks(c) \subseteq CheckRule
  BY DEF FindingBreaks, CheckBreaks

---------------------------------------------------------------------------
(* Type correctness. *)

LEMMA InitTypes == Init => TypeOK /\ docs \in Inputs
  BY DEF Init, TypeOK

LEMMA StepTypes ==
  ASSUME TypeOK, Progress, [Next]_vars
  PROVE  TypeOK'
<1> USE DEF TypeOK
<1>1. CASE ReadFinding
  <2>1. n + 1 \in 1 .. Len(findings) /\ findings[n + 1].id \in FindingId \cup {NoId}
    <3>1. n + 1 \in 1 .. Len(findings)
      BY <1>1, InputTypes DEF ReadFinding, RememberId, Progress
    <3> QED
      BY <3>1, FindingIds DEF Progress
  <2>2. findingErrors' \subseteq Nat \X FindingRule
    BY <1>1, BreaksTypes DEF ReadFinding, RememberId
  <2>3. seenFindingIds' \subseteq FindingId
    BY <1>1, <2>1 DEF ReadFinding, RememberId
  <2> QED
    BY <1>1, <2>2, <2>3 DEF ReadFinding, RememberId
<1>2. CASE EndFindings
  BY <1>2 DEF EndFindings
<1>3. CASE ReadCheck
  <2>1. checks[n + 1] \in Check /\ checks[n + 1].id \in CheckId \cup {NoId}
        /\ checks[n + 1].scope \in SUBSET Target
    <3>1. n + 1 \in 1 .. Len(checks) /\ checks # Absent
      BY <1>3, InputTypes DEF ReadCheck, RememberScope, RememberOwner, Progress
    <3> QED
      BY <3>1, CheckTypes DEF Progress
  <2>2. checkErrors' \subseteq Nat \X CheckRule
    BY <1>3, BreaksTypes DEF ReadCheck, RememberScope, RememberOwner
  <2>3. seenInstances' \in [CheckId -> SUBSET SUBSET Target]
    BY <1>3, <2>1 DEF ReadCheck, RememberScope, RememberOwner
  <2>4. owners' \in [FindingId -> CheckId \cup {NoId, NoOwner}]
    BY <1>3, <2>1 DEF ReadCheck, RememberScope, RememberOwner
  <2> QED
    BY <1>3, <2>2, <2>3, <2>4 DEF ReadCheck, RememberScope, RememberOwner
<1>4. CASE EndChecks
  <2>1. \A c : MandatoryIds(c) \subseteq CheckId
    BY ManifestAssumption DEF MandatoryIds, MandatoryOf
  <2> QED
    BY <1>4, <2>1 DEF EndChecks
<1>5. CASE Exit
  BY <1>5 DEF Exit
<1>6. CASE UNCHANGED vars
  BY <1>6 DEF vars
<1> QED
  BY <1>1, <1>2, <1>3, <1>4, <1>5, <1>6 DEF Next, Ended

LEMMA StepProgress ==
  ASSUME TypeOK, Progress, [Next]_vars
  PROVE  Progress'
<1> USE DEF TypeOK, Progress, findings, checks
<1>1. CASE ReadFinding
  BY <1>1, InputTypes DEF ReadFinding, RememberId
<1>2. CASE EndFindings
  BY <1>2, InputTypes DEF EndFindings
<1>3. CASE ReadCheck
  BY <1>3, InputTypes DEF ReadCheck, RememberScope, RememberOwner
<1>4. CASE EndChecks
  BY <1>4 DEF EndChecks
<1>5. CASE Exit
  BY <1>5 DEF Exit
<1>6. CASE UNCHANGED vars
  BY <1>6 DEF vars
<1> QED
  BY <1>1, <1>2, <1>3, <1>4, <1>5, <1>6 DEF Next, Ended

\* The variables keep their types in every state.
THEOREM TypeCorrect == Spec => []TypeOK
<1>1. Init => TypeOK /\ Progress
  BY InitTypes, InputTypes DEF Init, Progress
<1>2. TypeOK /\ Progress /\ [Next]_vars => (TypeOK /\ Progress)'
  BY StepTypes, StepProgress
<1> QED
  BY <1>1, <1>2, PTL DEF Spec

---------------------------------------------------------------------------
(* The accumulators are exact. *)

LEMMA InitIInv == Init => IInv
<1> SUFFICES ASSUME Init PROVE IInv
  OBVIOUS
<1>1. TypeOK /\ docs \in Inputs
  BY InitTypes
<1>2. Progress
  BY <1>1, InputTypes DEF Init, Progress
<1>3. ChecksRead = {} /\ FindingsRead = {}
  BY DEF Init, ChecksRead, FindingsRead
<1> QED
  BY <1>1, <1>2, <1>3 DEF Init, IInv, SeenExact, ErrorsOfRead, InstancesExact, OwnersReal,
     ClashesNamed, ClashesReal, FirstClaimOwns

\* The records read so far, before and after each step.
LEMMA ReadSets ==
  ASSUME TypeOK, Progress
  PROVE  /\ ReadFinding => /\ FindingsRead' = FindingsRead \cup {n + 1}
                            /\ FindingsRead = 1 .. n
                            /\ n + 1 \in 1 .. Len(findings)
         /\ EndFindings => FindingsRead' = FindingsRead /\ ChecksRead' = {} /\ ChecksRead = {}
         /\ ReadCheck => /\ ChecksRead' = ChecksRead \cup {n + 1}
                         /\ ChecksRead = 1 .. n
                         /\ n + 1 \in 1 .. Len(checks)
                         /\ checks # Absent
         /\ EndChecks => ChecksRead' = ChecksRead
         /\ checks # Absent => ChecksRead \subseteq 1 .. Len(checks)
         /\ checks = Absent => ChecksRead = {}
<1> USE DEF TypeOK, Progress, ChecksRead, FindingsRead, findings, checks
<1>1. findings \in Seq(Finding) /\ (checks # Absent => checks \in Seq(Check))
  BY InputTypes
<1>2. ReadFinding => /\ FindingsRead' = FindingsRead \cup {n + 1}
                     /\ FindingsRead = 1 .. n
                     /\ n + 1 \in 1 .. Len(findings)
  BY <1>1 DEF ReadFinding, RememberId
<1>3. EndFindings => FindingsRead' = FindingsRead /\ ChecksRead' = {} /\ ChecksRead = {}
  BY <1>1 DEF EndFindings
<1>4. ReadCheck => /\ ChecksRead' = ChecksRead \cup {n + 1}
                   /\ ChecksRead = 1 .. n
                   /\ n + 1 \in 1 .. Len(checks)
                   /\ checks # Absent
  BY <1>1 DEF ReadCheck, RememberScope, RememberOwner
<1>5. EndChecks => ChecksRead' = ChecksRead
  BY <1>1 DEF EndChecks
<1>6. checks # Absent => ChecksRead \subseteq 1 .. Len(checks)
  BY <1>1
<1> QED
  BY <1>2, <1>3, <1>4, <1>5, <1>6

\* A step that reads no check record and is not one of the two others leaves
\* what the checks loop remembers alone.
LEMMA ChecksUntouched ==
  ASSUME TypeOK, Progress, [Next]_vars, ~ReadCheck
  PROVE  /\ ChecksRead' = ChecksRead
         /\ checks' = checks
         /\ UNCHANGED <<seenInstances, owners, checkErrors>>
<1> USE DEF TypeOK, Progress, ChecksRead, checks, vars
<1>1. CASE ReadFinding
  BY <1>1 DEF ReadFinding, RememberId
<1>2. CASE EndFindings
  BY <1>2, ReadSets DEF EndFindings
<1>3. CASE EndChecks
  BY <1>3, ReadSets DEF EndChecks
<1>4. CASE Exit
  BY <1>4 DEF Exit
<1>5. CASE UNCHANGED vars
  BY <1>5
<1> QED
  BY <1>1, <1>2, <1>3, <1>4, <1>5 DEF Next, Ended

LEMMA StepSeen ==
  ASSUME TypeOK, Progress, SeenExact, [Next]_vars
  PROVE  SeenExact'
<1> USE DEF TypeOK, SeenExact
<1>1. CASE ReadFinding
  <2>1. /\ FindingsRead' = FindingsRead \cup {n + 1}
        /\ seenFindingIds' = seenFindingIds \cup ({findings[n + 1].id} \ {NoId})
        /\ findings' = findings
    BY <1>1, ReadSets DEF ReadFinding, RememberId, findings
  <2> QED
    BY <2>1
<1>2. CASE ~ReadFinding
  <2>1. FindingsRead' = FindingsRead /\ findings' = findings
    BY <1>2, InputTypes DEF Next, EndFindings, ReadCheck, RememberScope, RememberOwner, EndChecks, Exit, Ended, vars,
       FindingsRead, findings, Progress
  <2>2. seenFindingIds' = seenFindingIds
    BY <1>2 DEF Next, EndFindings, ReadCheck, RememberScope, RememberOwner, EndChecks, Exit, Ended, vars
  <2> QED
    BY <2>1, <2>2
<1> QED
  BY <1>1, <1>2

LEMMA StepErrors ==
  ASSUME TypeOK, Progress, ErrorsOfRead, [Next]_vars
  PROVE  ErrorsOfRead'
<1> USE DEF ErrorsOfRead
<1>1. \A e \in findingErrors' : e[1] \in FindingsRead'
  <2>1. CASE ReadFinding
    BY <2>1, ReadSets DEF ReadFinding, RememberId
  <2>2. CASE ~ReadFinding
    <3>1. FindingsRead \subseteq FindingsRead'
      BY <2>2, InputTypes DEF Next, EndFindings, ReadCheck, RememberScope, RememberOwner, EndChecks, Exit, Ended, vars,
         FindingsRead, findings, Progress, TypeOK
    <3>2. findingErrors' = findingErrors
      BY <2>2 DEF Next, EndFindings, ReadCheck, RememberScope, RememberOwner, EndChecks, Exit, Ended, vars
    <3> QED
      BY <3>1, <3>2
  <2> QED
    BY <2>1, <2>2
<1>2. \A e \in checkErrors' : e[1] \in ChecksRead'
  <2>1. CASE ReadCheck
    BY <2>1, ReadSets DEF ReadCheck, RememberScope, RememberOwner
  <2>2. CASE ~ReadCheck
    BY <2>2, ChecksUntouched
  <2> QED
    BY <2>1, <2>2
<1> QED
  BY <1>1, <1>2

---------------------------------------------------------------------------
(* One turn of the checks loop. *)

\* What the turn that reads record c = checks[n + 1] does.
LEMMA Turn ==
  ASSUME TypeOK, Progress, ErrorsOfRead, ReadCheck, NEW c, c = checks[n + 1]
  PROVE  /\ c \in Check
         /\ c.id \in CheckId \cup {NoId}
         /\ c.scope \in SUBSET Target
         /\ checks' = checks
         /\ ChecksRead = 1 .. n
         /\ ChecksRead' = 1 .. n + 1
         /\ \A i \in 1 .. n, r \in CheckRule : <<i, r>> \in checkErrors' <=> <<i, r>> \in checkErrors
         /\ \A r \in CheckRule : <<n + 1, r>> \in checkErrors' <=> r \in CheckBreaks(c)
         /\ seenInstances' = [cid \in CheckId |->
              IF cid = c.id /\ ~Clashes(c) THEN seenInstances[cid] \cup {c.scope}
              ELSE seenInstances[cid]]
         /\ owners' = [fid \in FindingId |->
              IF owners[fid] = NoOwner /\ Lists(c, fid) THEN c.id ELSE owners[fid]]
<1>1. ChecksRead = 1 .. n /\ ChecksRead' = 1 .. n + 1 /\ n + 1 \in 1 .. Len(checks) /\ checks # Absent
  <2>1. /\ ChecksRead = 1 .. n
        /\ ChecksRead' = ChecksRead \cup {n + 1}
        /\ n + 1 \in 1 .. Len(checks) /\ checks # Absent
    BY ReadSets
  <2>2. (1 .. n) \cup {n + 1} = 1 .. n + 1
    BY DEF TypeOK
  <2> QED
    BY <2>1, <2>2
<1>2. c \in Check /\ c.id \in CheckId \cup {NoId} /\ c.scope \in SUBSET Target
  BY <1>1, CheckTypes DEF Progress
<1>3. checkErrors' = checkErrors \cup {n + 1} \X CheckBreaks(c)
  BY DEF ReadCheck, RememberScope, RememberOwner
<1>4. \A i \in 1 .. n, r \in CheckRule : <<i, r>> \in checkErrors' <=> <<i, r>> \in checkErrors
  BY <1>3 DEF TypeOK
<1>5. \A r \in CheckRule : <<n + 1, r>> \notin checkErrors
  BY <1>1 DEF ErrorsOfRead, TypeOK
<1>6. \A r \in CheckRule : <<n + 1, r>> \in checkErrors' <=> r \in CheckBreaks(c)
  BY <1>3, <1>5
<1>7. checks' = checks
  BY DEF ReadCheck, RememberScope, RememberOwner, checks
<1> QED
  BY <1>1, <1>2, <1>4, <1>6, <1>7 DEF ReadCheck, RememberScope, RememberOwner

LEMMA ScopeRule ==
  ASSUME NEW c
  PROVE  /\ "scope" \in CheckBreaks(c) <=> Clashes(c)
         /\ "owned" \in CheckBreaks(c) <=> AlreadyOwned(c)
  BY DEF CheckBreaks, CheckRule

LEMMA StepInstances ==
  ASSUME TypeOK, Progress, ErrorsOfRead, InstancesExact, [Next]_vars
  PROVE  InstancesExact'
<1>1. CASE ReadCheck
  <2> DEFINE c == checks[n + 1]
  <2>0. n \in Nat /\ "scope" \in CheckRule
    BY DEF TypeOK, CheckRule
  <2>1. <<n + 1, "scope">> \in checkErrors' <=> Clashes(c)
    BY <1>1, <2>0, Turn, ScopeRule
  <2>2. \A i \in 1 .. n : <<i, "scope">> \in checkErrors' <=> <<i, "scope">> \in checkErrors
    BY <1>1, <2>0, Turn
  <2>3. ASSUME NEW cid \in CheckId, NEW scope \in seenInstances'[cid]
        PROVE  \E i \in 1 .. n + 1 : /\ checks[i].id = cid
                                     /\ checks[i].scope = scope
                                     /\ <<i, "scope">> \notin checkErrors'
    <3>1. CASE scope \in seenInstances[cid]
      <4>1. PICK i \in 1 .. n : /\ checks[i].id = cid
                                /\ checks[i].scope = scope
                                /\ <<i, "scope">> \notin checkErrors
        BY <1>1, <3>1, Turn DEF InstancesExact
      <4> QED
        BY <2>0, <2>2, <4>1
    <3>2. CASE scope \notin seenInstances[cid]
      <4>1. cid = c.id /\ ~Clashes(c) /\ scope = c.scope
        BY <1>1, <2>3, <3>2, Turn DEF TypeOK
      <4> QED
        BY <2>0, <2>1, <4>1
    <3> QED
      BY <3>1, <3>2
  <2>4. ASSUME NEW i \in 1 .. n + 1, checks[i].id # NoId
        PROVE  \/ checks[i].scope \in seenInstances'[checks[i].id]
               \/ <<i, "scope">> \in checkErrors'
    <3>1. CASE i \in 1 .. n
      <4>1. checks[i].id \in CheckId
        BY <1>1, <2>4, <3>1, ReadSets, CheckTypes DEF Progress, TypeOK
      <4>2. \/ checks[i].scope \in seenInstances[checks[i].id]
            \/ <<i, "scope">> \in checkErrors
        BY <1>1, <2>4, <3>1, Turn DEF InstancesExact
      <4> QED
        BY <1>1, <2>2, <3>1, <4>1, <4>2, Turn DEF TypeOK
    <3>2. CASE i = n + 1
      <4>1. c.id \in CheckId
        BY <1>1, <2>4, <3>2, Turn
      <4> QED
        BY <1>1, <2>1, <3>2, <4>1, Turn DEF TypeOK
    <3> QED
      BY <2>0, <3>1, <3>2
  <2>5. ChecksRead' = 1 .. n + 1 /\ checks' = checks
    BY <1>1, Turn
  <2> QED
    BY <2>3, <2>4, <2>5 DEF InstancesExact
<1>2. CASE ~ReadCheck
  BY <1>2, ChecksUntouched DEF InstancesExact
<1> QED
  BY <1>1, <1>2

LEMMA StepClashesNamed ==
  ASSUME TypeOK, Progress, ErrorsOfRead, InstancesExact, ClashesNamed, [Next]_vars
  PROVE  ClashesNamed'
<1>1. CASE ReadCheck
  <2> DEFINE c == checks[n + 1]
  <2>0. n \in Nat /\ "scope" \in CheckRule
    BY DEF TypeOK, CheckRule
  <2>1. <<n + 1, "scope">> \in checkErrors' <=> Clashes(c)
    BY <1>1, <2>0, Turn, ScopeRule
  <2>2. \A i \in 1 .. n : <<i, "scope">> \in checkErrors' <=> <<i, "scope">> \in checkErrors
    BY <1>1, <2>0, Turn
  \* An earlier record that is not named is stored, so the new one meets it.
  <2>3. ASSUME NEW i \in 1 .. n, checks[i].id = c.id, c.id # NoId,
               Clash(checks[i].scope, c.scope) \/ Clash(c.scope, checks[i].scope)
        PROVE  <<i, "scope">> \in checkErrors \/ Clashes(c)
    <3>1. <<i, "scope">> \in checkErrors \/ checks[i].scope \in seenInstances[c.id]
      BY <1>1, <2>3, Turn DEF InstancesExact
    <3> QED
      BY <2>3, <3>1 DEF Clashes, Clash
  <2>4. ASSUME NEW i \in 1 .. n + 1, NEW j \in 1 .. n + 1, i # j,
               checks[i].id = checks[j].id, checks[i].id # NoId,
               Clash(checks[i].scope, checks[j].scope)
        PROVE  <<i, "scope">> \in checkErrors' \/ <<j, "scope">> \in checkErrors'
    <3>1. CASE i \in 1 .. n /\ j \in 1 .. n
      BY <1>1, <2>2, <2>4, <3>1, Turn DEF ClashesNamed
    <3>2. CASE i = n + 1 /\ j \in 1 .. n
      BY <2>1, <2>2, <2>3, <2>4, <3>2
    <3>3. CASE i \in 1 .. n /\ j = n + 1
      BY <2>1, <2>2, <2>3, <2>4, <3>3
    <3> QED
      BY <2>0, <2>4, <3>1, <3>2, <3>3
  <2> QED
    BY <1>1, <2>4, Turn DEF ClashesNamed
<1>2. CASE ~ReadCheck
  BY <1>2, ChecksUntouched DEF ClashesNamed
<1> QED
  BY <1>1, <1>2

LEMMA StepClashesReal ==
  ASSUME TypeOK, Progress, ErrorsOfRead, InstancesExact, ClashesReal, [Next]_vars
  PROVE  ClashesReal'
<1>1. CASE ReadCheck
  <2> DEFINE c == checks[n + 1]
  <2>0. n \in Nat /\ "scope" \in CheckRule
    BY DEF TypeOK, CheckRule
  <2>1. <<n + 1, "scope">> \in checkErrors' <=> Clashes(c)
    BY <1>1, <2>0, Turn, ScopeRule
  <2>2. \A i \in 1 .. n : <<i, "scope">> \in checkErrors' <=> <<i, "scope">> \in checkErrors
    BY <1>1, <2>0, Turn
  <2>3. ASSUME NEW j \in 1 .. n + 1, <<j, "scope">> \in checkErrors'
        PROVE  \E i \in 1 .. j - 1 : /\ checks[i].id = checks[j].id
                                     /\ Clash(checks[i].scope, checks[j].scope)
                                     /\ <<i, "scope">> \notin checkErrors'
    <3>1. CASE j \in 1 .. n
      <4>1. PICK i \in 1 .. j - 1 : /\ checks[i].id = checks[j].id
                                    /\ Clash(checks[i].scope, checks[j].scope)
                                    /\ <<i, "scope">> \notin checkErrors
        BY <1>1, <2>2, <2>3, <3>1, Turn DEF ClashesReal
      <4>2. i \in 1 .. n
        BY <2>0, <3>1
      <4> QED
        BY <2>2, <4>1, <4>2
    <3>2. CASE j = n + 1
      <4>1. c.id \in CheckId
        BY <1>1, <2>1, <2>3, <3>2, Turn DEF Clashes
      <4>2. PICK other \in seenInstances[c.id] : Clash(c.scope, other)
        BY <2>1, <2>3, <3>2 DEF Clashes
      <4>3. PICK i \in 1 .. n : /\ checks[i].id = c.id
                                /\ checks[i].scope = other
                                /\ <<i, "scope">> \notin checkErrors
        BY <1>1, <4>1, <4>2, Turn DEF InstancesExact
      <4>4. Clash(checks[i].scope, c.scope)
        BY <4>2, <4>3 DEF Clash
      <4>5. <<i, "scope">> \notin checkErrors'
        BY <2>2, <4>3
      <4>6. i \in 1 .. j - 1
        BY <2>0, <3>2
      <4> QED
        BY <3>2, <4>3, <4>4, <4>5, <4>6
    <3> QED
      BY <2>0, <3>1, <3>2
  <2> QED
    BY <1>1, <2>3, Turn DEF ClashesReal
<1>2. CASE ~ReadCheck
  BY <1>2, ChecksUntouched DEF ClashesReal
<1> QED
  BY <1>1, <1>2

LEMMA StepOwners ==
  ASSUME TypeOK, Progress, ErrorsOfRead, OwnersReal, [Next]_vars
  PROVE  OwnersReal'
<1>1. CASE ReadCheck
  <2> DEFINE c == checks[n + 1]
  <2>1. /\ ChecksRead = 1 .. n /\ ChecksRead' = 1 .. n + 1 /\ checks' = checks
        /\ owners' = [fid \in FindingId |->
             IF owners[fid] = NoOwner /\ Lists(c, fid) THEN c.id ELSE owners[fid]]
    BY <1>1, Turn
  <2>2. ASSUME NEW fid \in FindingId, owners'[fid] # NoOwner
        PROVE  \E i \in 1 .. n + 1 : Lists(checks[i], fid)
    <3>1. CASE owners[fid] # NoOwner
      <4>1. PICK i \in 1 .. n : Lists(checks[i], fid)
        BY <2>1, <3>1 DEF OwnersReal
      <4> QED
        BY <4>1 DEF TypeOK
    <3>2. CASE owners[fid] = NoOwner
      <4>1. Lists(c, fid)
        BY <2>1, <2>2, <3>2
      <4> QED
        BY <4>1 DEF TypeOK
    <3> QED
      BY <3>1, <3>2
  <2> QED
    BY <2>1, <2>2 DEF OwnersReal
<1>2. CASE ~ReadCheck
  BY <1>2, ChecksUntouched DEF OwnersReal
<1> QED
  BY <1>1, <1>2

LEMMA StepFirstClaim ==
  ASSUME TypeOK, Progress, ErrorsOfRead, OwnersReal, FirstClaimOwns, [Next]_vars
  PROVE  FirstClaimOwns'
<1>1. CASE ReadCheck
  <2> DEFINE c == checks[n + 1]
  <2>0. n \in Nat /\ "owned" \in CheckRule
    BY DEF TypeOK, CheckRule
  <2>1. /\ ChecksRead = 1 .. n /\ ChecksRead' = 1 .. n + 1 /\ checks' = checks
        /\ owners' = [fid \in FindingId |->
             IF owners[fid] = NoOwner /\ Lists(c, fid) THEN c.id ELSE owners[fid]]
    BY <1>1, Turn
  <2>2. <<n + 1, "owned">> \in checkErrors' <=> AlreadyOwned(c)
    BY <1>1, <2>0, Turn, ScopeRule
  <2>3. \A i \in 1 .. n : <<i, "owned">> \in checkErrors' <=> <<i, "owned">> \in checkErrors
    BY <1>1, <2>0, Turn
  <2>4. ASSUME NEW i \in 1 .. n, checks[i].id = NoOwner
        PROVE  FALSE
    <3>1. i \in 1 .. Len(checks) /\ checks # Absent
      BY <1>1, <2>0, <2>1, ReadSets
    <3> QED
      BY <2>4, <3>1, CheckTypes, NoOwnerAssumption DEF Progress
  \* A claim of an earlier record.
  <2>5. \A fid \in FindingId : \A i \in 1 .. n : Lists(checks[i], fid) =>
          \E first \in 1 .. i : /\ Lists(checks[first], fid)
                                /\ \A j \in 1 .. first - 1 : ~Lists(checks[j], fid)
                                /\ owners'[fid] = checks[first].id
                                /\ first # i => <<i, "owned">> \in checkErrors'
    <3> SUFFICES ASSUME NEW fid \in FindingId, NEW i \in 1 .. n, Lists(checks[i], fid)
                 PROVE  \E first \in 1 .. i : /\ Lists(checks[first], fid)
                                              /\ \A j \in 1 .. first - 1 : ~Lists(checks[j], fid)
                                              /\ owners'[fid] = checks[first].id
                                              /\ first # i => <<i, "owned">> \in checkErrors'
      OBVIOUS
    <3>1. PICK first \in 1 .. i : /\ Lists(checks[first], fid)
                                  /\ \A j \in 1 .. first - 1 : ~Lists(checks[j], fid)
                                  /\ owners[fid] = checks[first].id
                                  /\ first # i => <<i, "owned">> \in checkErrors
      BY <2>1 DEF FirstClaimOwns
    <3>2. first \in 1 .. n
      BY <2>0
    <3>3. owners[fid] # NoOwner
      BY <2>4, <3>1, <3>2
    <3> QED
      BY <2>1, <2>3, <3>1, <3>3
  \* A claim of the record just read.
  <2>6. ASSUME NEW fid \in FindingId, Lists(c, fid)
        PROVE  \E first \in 1 .. n + 1 : /\ Lists(checks[first], fid)
                                         /\ \A j \in 1 .. first - 1 : ~Lists(checks[j], fid)
                                         /\ owners'[fid] = checks[first].id
                                         /\ first # n + 1 => <<n + 1, "owned">> \in checkErrors'
    <3>1. CASE owners[fid] = NoOwner
      <4>1. \A j \in 1 .. n : ~Lists(checks[j], fid)
        <5> SUFFICES ASSUME NEW j \in 1 .. n, Lists(checks[j], fid) PROVE FALSE
          OBVIOUS
        <5>1. PICK first \in 1 .. j : owners[fid] = checks[first].id
          BY <2>1 DEF FirstClaimOwns
        <5>2. first \in 1 .. n
          BY <2>0
        <5> QED
          BY <2>4, <3>1, <5>1, <5>2
      <4>2. n + 1 \in 1 .. n + 1 /\ (n + 1) - 1 = n
        BY <2>0
      <4> USE <4>2
      <4>3. owners'[fid] = c.id
        BY <2>1, <2>6, <3>1
      <4>4. \A j \in 1 .. (n + 1) - 1 : ~Lists(checks[j], fid)
        BY <4>1, <4>2
      <4> WITNESS n + 1 \in 1 .. n + 1
      <4> QED
        BY <2>6, <4>3, <4>4
    <3>2. CASE owners[fid] # NoOwner
      <4>1. AlreadyOwned(c)
        BY <2>6, <3>2 DEF AlreadyOwned, Lists
      <4>2. PICK i \in 1 .. n : Lists(checks[i], fid)
        BY <2>1, <3>2 DEF OwnersReal
      <4>3. PICK first \in 1 .. i : /\ Lists(checks[first], fid)
                                    /\ \A j \in 1 .. first - 1 : ~Lists(checks[j], fid)
                                    /\ owners'[fid] = checks[first].id
        BY <2>5, <2>6, <4>2
      <4>4. first \in 1 .. n + 1
        BY <2>0
      <4> QED
        BY <2>2, <4>1, <4>3, <4>4
    <3> QED
      BY <3>1, <3>2
  <2>7. \A fid \in FindingId : \A i \in 1 .. n + 1 : Lists(checks[i], fid) =>
          \E first \in 1 .. i : /\ Lists(checks[first], fid)
                                /\ \A j \in 1 .. first - 1 : ~Lists(checks[j], fid)
                                /\ owners'[fid] = checks[first].id
                                /\ first # i => <<i, "owned">> \in checkErrors'
    <3> SUFFICES ASSUME NEW fid \in FindingId, NEW i \in 1 .. n + 1, Lists(checks[i], fid)
                 PROVE  \E first \in 1 .. i : /\ Lists(checks[first], fid)
                                              /\ \A j \in 1 .. first - 1 : ~Lists(checks[j], fid)
                                              /\ owners'[fid] = checks[first].id
                                              /\ first # i => <<i, "owned">> \in checkErrors'
      OBVIOUS
    <3>1. CASE i \in 1 .. n
      BY <2>5, <3>1
    <3>2. CASE i = n + 1
      BY <2>6, <3>2
    <3> QED
      BY <2>0, <3>1, <3>2
  <2>8. ASSUME NEW fid \in FindingId, NEW i \in 1 .. n + 1, Lists(checks'[i], fid)
        PROVE  \E first \in 1 .. i : /\ Lists(checks'[first], fid)
                                     /\ \A j \in 1 .. first - 1 : ~Lists(checks'[j], fid)
                                     /\ owners'[fid] = checks'[first].id
                                     /\ first # i => <<i, "owned">> \in checkErrors'
    BY <2>1, <2>7, <2>8
  <2> QED
    BY <2>1, <2>8 DEF FirstClaimOwns
<1>2. CASE ~ReadCheck
  BY <1>2, ChecksUntouched DEF FirstClaimOwns
<1> QED
  BY <1>1, <1>2

LEMMA StepIInv ==
  ASSUME IInv, [Next]_vars
  PROVE  IInv'
  BY StepTypes, StepProgress, StepSeen, StepErrors, StepInstances, StepOwners,
     StepClashesNamed, StepClashesReal, StepFirstClaim DEF IInv

LEMMA Invariance == Spec => []IInv
  BY InitIInv, StepIInv, PTL DEF Spec

\* Of two clashing instances of one check at least one is named, for scopes of
\* any size and any number of records.
THEOREM NamedClashes == Spec => []ClashesNamed
<1>1. IInv => ClashesNamed
  BY DEF IInv
<1> QED
  BY <1>1, Invariance, PTL

\* A record named for its scope clashes with an earlier one that is not.
THEOREM RealClashes == Spec => []ClashesReal
<1>1. IInv => ClashesReal
  BY DEF IInv
<1> QED
  BY <1>1, Invariance, PTL

\* The earliest record that lists a finding owns it; every later one is named,
\* whatever its check id.
THEOREM FirstClaims == Spec => []FirstClaimOwns
<1>1. IInv => FirstClaimOwns
  BY DEF IInv
<1> QED
  BY <1>1, Invariance, PTL

---------------------------------------------------------------------------
(* The script implements the one-step gate: when it exits, it has found no *)
(* error exactly when the documents are well formed.  The invariant is     *)
(* strengthened to say of every rule, and not only of scopes and owners,   *)
(* which records are named for it.                                         *)

\* The ids of the findings before position i, as the script remembers them.
IdsBefore(i) == {findings[j].id : j \in 1 .. i - 1} \ {NoId}

FindingErrorsExact ==
  \A i \in FindingsRead, r \in FindingRule :
    <<i, r>> \in findingErrors <=> r \in FindingBreaks(findings[i], IdsBefore(i))

\* The rules that depend on no other check record.
OwnRule == CheckRule \ {"scope", "owned"}

CheckErrorsExact ==
  \A i \in ChecksRead, r \in OwnRule :
    <<i, r>> \in checkErrors <=> r \in CheckBreaks(checks[i])

\* A record lists a finding an earlier one, or it itself, already lists.
Reclaims(i) ==
  \E k \in DOMAIN FidsOf(checks[i]) :
    \/ \E j \in 1 .. i - 1 : Lists(checks[j], FidsOf(checks[i])[k])
    \/ \E l \in 1 .. k - 1 : FidsOf(checks[i])[l] = FidsOf(checks[i])[k]

OwnedErrorsExact ==
  \A i \in ChecksRead : <<i, "owned">> \in checkErrors <=> Reclaims(i)

Outcome ==
  /\ pc \in {"exit", "done"} /\ checks # Absent =>
       uncovered = IF context = Absent THEN {}
                   ELSE {cid \in MandatoryIds(context) : ~HasRecord(cid)}
  /\ pc = "done" => exitCode = IF NoErrors THEN 0 ELSE 1

GInv ==
  /\ IInv
  /\ FindingErrorsExact
  /\ CheckErrorsExact
  /\ OwnedErrorsExact
  /\ Outcome

---------------------------------------------------------------------------
LEMMA InitGInv == Init => GInv
<1> SUFFICES ASSUME Init PROVE GInv
  OBVIOUS
<1>1. IInv
  BY InitIInv
<1>2. ChecksRead = {} /\ FindingsRead = {}
  BY DEF Init, ChecksRead, FindingsRead
<1> QED
  BY <1>1, <1>2 DEF Init, GInv, FindingErrorsExact, CheckErrorsExact, OwnedErrorsExact, Outcome

\* Only the findings loop changes what it remembers.
LEMMA FindingsUntouched ==
  ASSUME TypeOK, Progress, [Next]_vars, ~ReadFinding
  PROVE  /\ FindingsRead' = FindingsRead
         /\ findings' = findings
         /\ UNCHANGED <<seenFindingIds, findingErrors>>
<1>1. findings \in Seq(Finding)
  BY InputTypes DEF Progress
<1>2. CASE EndFindings
  BY <1>1, <1>2 DEF EndFindings, FindingsRead, findings, TypeOK
<1>3. CASE ReadCheck \/ EndChecks \/ Exit \/ Ended \/ UNCHANGED vars
  BY <1>3 DEF ReadCheck, RememberScope, RememberOwner, EndChecks, Exit, Ended, vars, FindingsRead, findings
<1> QED
  BY <1>2, <1>3 DEF Next

LEMMA StepFindingErrors ==
  ASSUME TypeOK, Progress, SeenExact, ErrorsOfRead, FindingErrorsExact, [Next]_vars
  PROVE  FindingErrorsExact'
<1>1. CASE ReadFinding
  <2> DEFINE f == findings[n + 1]
  <2>1. /\ FindingsRead = 1 .. n
        /\ FindingsRead' = FindingsRead \cup {n + 1}
        /\ findings' = findings
        /\ findingErrors' = findingErrors \cup {n + 1} \X FindingBreaks(f, seenFindingIds)
    BY <1>1, ReadSets DEF ReadFinding, RememberId, findings
  <2>2. n \in Nat
    BY DEF TypeOK
  <2>3. seenFindingIds = IdsBefore(n + 1)
    <3>1. 1 .. (n + 1) - 1 = 1 .. n
      BY <2>2
    <3> QED
      BY <2>1, <3>1 DEF SeenExact, IdsBefore
  <2>4. \A i : IdsBefore(i)' = IdsBefore(i)
    BY <2>1 DEF IdsBefore
  <2>5. ASSUME NEW i \in 1 .. n, NEW r \in FindingRule
        PROVE  <<i, r>> \in findingErrors' <=> r \in FindingBreaks(findings[i], IdsBefore(i))
    <3>1. <<i, r>> \in findingErrors' <=> <<i, r>> \in findingErrors
      BY <2>1, <2>2
    <3> QED
      BY <2>1, <3>1 DEF FindingErrorsExact
  <2>6. ASSUME NEW r \in FindingRule
        PROVE  <<n + 1, r>> \in findingErrors' <=> r \in FindingBreaks(f, IdsBefore(n + 1))
    <3>1. <<n + 1, r>> \notin findingErrors
      BY <2>1, <2>2 DEF ErrorsOfRead
    <3> QED
      BY <2>1, <2>3, <3>1
  <2> QED
    BY <2>1, <2>4, <2>5, <2>6 DEF FindingErrorsExact
<1>2. CASE ~ReadFinding
  <2>1. \A i : IdsBefore(i)' = IdsBefore(i)
    BY <1>2, FindingsUntouched DEF IdsBefore
  <2> QED
    BY <1>2, <2>1, FindingsUntouched DEF FindingErrorsExact
<1> QED
  BY <1>1, <1>2

\* The rules of a record alone do not change once the findings are read.
LEMMA OwnRulesStable ==
  ASSUME NEW c, NEW r \in OwnRule, seenFindingIds' = seenFindingIds
  PROVE  r \in CheckBreaks(c)' <=> r \in CheckBreaks(c)
  BY DEF OwnRule, CheckRule, CheckBreaks

LEMMA StepCheckErrors ==
  ASSUME TypeOK, Progress, ErrorsOfRead, CheckErrorsExact, [Next]_vars
  PROVE  CheckErrorsExact'
<1> USE DEF CheckErrorsExact
<1>1. CASE ReadCheck
  <2>1. seenFindingIds' = seenFindingIds
    BY <1>1 DEF ReadCheck, RememberScope, RememberOwner
  <2>2. /\ ChecksRead = 1 .. n /\ ChecksRead' = 1 .. n + 1 /\ checks' = checks
        /\ \A i \in 1 .. n, r \in CheckRule : <<i, r>> \in checkErrors' <=> <<i, r>> \in checkErrors
        /\ \A r \in CheckRule : <<n + 1, r>> \in checkErrors' <=> r \in CheckBreaks(checks[n + 1])
    BY <1>1, Turn
  <2>3. ASSUME NEW i \in 1 .. n + 1, NEW r \in OwnRule
        PROVE  <<i, r>> \in checkErrors' <=> r \in CheckBreaks(checks[i])
    <3>1. CASE i \in 1 .. n
      BY <2>2, <3>1 DEF OwnRule
    <3>2. CASE i = n + 1
      BY <2>2, <3>2 DEF OwnRule
    <3> QED
      BY <3>1, <3>2 DEF TypeOK
  <2> QED
    BY <2>1, <2>2, <2>3, OwnRulesStable
<1>2. CASE ~ReadCheck
  <2>1. CASE ReadFinding
    <3>1. ChecksRead' = {}
      BY <1>2, <2>1, ChecksUntouched, ReadSets DEF ReadFinding, RememberId, ChecksRead
    <3> QED
      BY <3>1
  <2>2. CASE ~ReadFinding
    BY <1>2, <2>2, ChecksUntouched, FindingsUntouched, OwnRulesStable
  <2> QED
    BY <2>1, <2>2
<1> QED
  BY <1>1, <1>2

LEMMA StepOwnedErrors ==
  ASSUME IInv, OwnedErrorsExact, [Next]_vars
  PROVE  OwnedErrorsExact'
<1> USE DEF IInv
<1>1. CASE ReadCheck
  <2> DEFINE c == checks[n + 1]
  <2>1. "owned" \in CheckRule /\ n \in Nat
    BY DEF CheckRule, TypeOK
  <2>2. /\ ChecksRead = 1 .. n /\ ChecksRead' = 1 .. n + 1 /\ checks' = checks
        /\ c \in Check
        /\ \A i \in 1 .. n : <<i, "owned">> \in checkErrors' <=> <<i, "owned">> \in checkErrors
        /\ <<n + 1, "owned">> \in checkErrors' <=> AlreadyOwned(c)
    BY <1>1, <2>1, Turn, ScopeRule
  <2>3. \A i : Reclaims(i)' = Reclaims(i)
    BY <2>2 DEF Reclaims
  \* A finding has an owner exactly when an earlier record lists it.
  <2>4. ASSUME NEW fid \in FindingId
        PROVE  owners[fid] # NoOwner <=> \E j \in 1 .. n : Lists(checks[j], fid)
    <3>1. ASSUME NEW j \in 1 .. n, Lists(checks[j], fid)
          PROVE  owners[fid] # NoOwner
      <4>1. PICK first \in 1 .. j : owners[fid] = checks[first].id
        BY <2>2, <2>4, <3>1 DEF FirstClaimOwns
      <4>2. first \in 1 .. Len(checks) /\ checks # Absent
        BY <1>1, <2>1, <2>2, <3>1, ReadSets
      <4> QED
        BY <4>1, <4>2, CheckTypes, NoOwnerAssumption DEF Progress
    <3> QED
      BY <2>2, <2>4, <3>1 DEF OwnersReal
  <2>5. AlreadyOwned(c) <=> Reclaims(n + 1)
    <3>1. FidsOf(c) \in Seq(FindingId)
      BY <2>2, FidsType
    <3>2. \A k \in DOMAIN FidsOf(c) : FidsOf(c)[k] \in FindingId
      BY <3>1
    <3>3. 1 .. (n + 1) - 1 = 1 .. n
      BY <2>1
    <3> QED
      BY <2>4, <3>2, <3>3 DEF AlreadyOwned, Reclaims
  <2>6. ASSUME NEW i \in 1 .. n + 1
        PROVE  <<i, "owned">> \in checkErrors' <=> Reclaims(i)
    <3>1. CASE i \in 1 .. n
      BY <2>2, <3>1 DEF OwnedErrorsExact
    <3>2. CASE i = n + 1
      BY <2>2, <2>5, <3>2
    <3> QED
      BY <2>1, <3>1, <3>2
  <2> QED
    BY <2>2, <2>3, <2>6 DEF OwnedErrorsExact
<1>2. CASE ~ReadCheck
  BY <1>2, ChecksUntouched DEF OwnedErrorsExact, Reclaims
<1> QED
  BY <1>1, <1>2

LEMMA StepOutcome ==
  ASSUME TypeOK, Progress, Outcome, [Next]_vars
  PROVE  Outcome'
<1> USE DEF Outcome, NoErrors, HasRecord, LastIs, checks, context
<1>1. CASE ReadFinding
  BY <1>1 DEF ReadFinding, RememberId
<1>2. CASE EndFindings
  BY <1>2 DEF EndFindings, Progress
<1>3. CASE ReadCheck
  BY <1>3 DEF ReadCheck, RememberScope, RememberOwner
<1>4. CASE EndChecks
  BY <1>4 DEF EndChecks
<1>5. CASE Exit
  BY <1>5 DEF Exit
<1>6. CASE UNCHANGED vars
  BY <1>6 DEF vars
<1> QED
  BY <1>1, <1>2, <1>3, <1>4, <1>5, <1>6 DEF Next, Ended

LEMMA StepGInv ==
  ASSUME GInv, [Next]_vars
  PROVE  GInv'
<1>1. IInv /\ TypeOK /\ Progress /\ SeenExact /\ ErrorsOfRead
  BY DEF GInv, IInv
<1> QED
  BY <1>1, StepIInv, StepFindingErrors, StepCheckErrors, StepOwnedErrors, StepOutcome DEF GInv

---------------------------------------------------------------------------
(* No error is the same as well-formed documents, rule by rule. *)

LEMMA FindingRules ==
  ASSUME NEW f \in Finding, NEW seen
  PROVE  FindingBreaks(f, seen) = {} <=> GoodFinding(f) /\ f.id \notin seen
<1>1. f.evidence \subseteq Evidence
  BY DEF Finding
<1>2. \A e \in f.evidence : e.line \in {"none", "positive", "invalid"}
                            /\ e.file \in {"none", "present", "missing"}
  BY <1>1 DEF Evidence
<1>3. FindingBreaks(f, seen) = {} => GoodFinding(f) /\ f.id \notin seen
  <2> SUFFICES ASSUME FindingBreaks(f, seen) = {}
               PROVE  GoodFinding(f) /\ f.id \notin seen
    OBVIOUS
  <2>1. f.id # NoId /\ f.id \notin seen /\ f.classification \in Classifications
    BY DEF FindingBreaks, FindingRule
  <2>2. f.dimension # "other" /\ f.severity \in Severities \cup {"null"} /\ f.texts
    BY DEF FindingBreaks, FindingRule
  <2>3. f.classification = "risk" /\ f.severity \in {"medium", "high"} => f.recommendation
    BY DEF FindingBreaks, FindingRule
  <2>4. f.evidence # {} /\ \A e \in f.evidence : e.line # "invalid"
    BY DEF FindingBreaks, FindingRule
  <2>5. \A e \in f.evidence : e.file = "missing" => f.external
    BY DEF FindingBreaks, FindingRule
  <2>6. \A e \in f.evidence : (e.file = "none" \/ e.line = "none") => f.searched
    BY DEF FindingBreaks, FindingRule
  <2> QED
    BY <2>1, <2>2, <2>3, <2>4, <2>5, <2>6 DEF GoodFinding, GoodEvidence
<1>4. GoodFinding(f) /\ f.id \notin seen => FindingBreaks(f, seen) = {}
  BY DEF FindingBreaks, GoodFinding, GoodEvidence
<1> QED
  BY <1>3, <1>4

LEMMA FindingVerdict ==
  ASSUME GInv, pc \in {"exit", "done"}
  PROVE  findingErrors = {} <=> GoodFindings(findings)
<1>1. /\ findings \in Seq(Finding)
      /\ DOMAIN findings = 1 .. Len(findings) /\ Len(findings) \in Nat
      /\ FindingsRead = 1 .. Len(findings)
  BY InputTypes DEF GInv, IInv, Progress, FindingsRead
<1>2. findingErrors = {} <=> \A i \in FindingsRead : FindingBreaks(findings[i], IdsBefore(i)) = {}
  <2>1. \A e \in findingErrors : e = <<e[1], e[2]>> /\ e[1] \in FindingsRead /\ e[2] \in FindingRule
    BY DEF GInv, IInv, TypeOK, ErrorsOfRead
  <2>2. \A i : FindingBreaks(findings[i], IdsBefore(i)) \subseteq FindingRule
    BY BreaksTypes
  <2>3. \A i \in FindingsRead, r \in FindingRule :
          <<i, r>> \in findingErrors <=> r \in FindingBreaks(findings[i], IdsBefore(i))
    BY DEF GInv, FindingErrorsExact
  <2>4. ASSUME findingErrors = {}, NEW i \in FindingsRead
        PROVE  FindingBreaks(findings[i], IdsBefore(i)) = {}
    BY <2>2, <2>3, <2>4
  <2>5. ASSUME \A i \in FindingsRead : FindingBreaks(findings[i], IdsBefore(i)) = {},
               NEW e \in findingErrors
        PROVE  FALSE
    <3>1. /\ e = <<e[1], e[2]>>
          /\ e[2] \in FindingBreaks(findings[e[1]], IdsBefore(e[1]))
      BY <2>1, <2>3, <2>5
    <3> QED
      BY <2>1, <2>5, <3>1
  <2> QED
    BY <2>4, <2>5
<1>3. findingErrors = {} <=> /\ \A i \in DOMAIN findings : GoodFinding(findings[i])
                            /\ \A i \in DOMAIN findings : findings[i].id \notin IdsBefore(i)
  <2>1. \A i \in FindingsRead : findings[i] \in Finding
    BY <1>1
  <2>2. \A i \in FindingsRead : FindingBreaks(findings[i], IdsBefore(i)) = {}
                               <=> /\ GoodFinding(findings[i])
                                   /\ findings[i].id \notin IdsBefore(i)
    BY <2>1, FindingRules
  <2> QED
    BY <1>1, <1>2, <2>2
<1>4. ASSUME \A i \in DOMAIN findings : GoodFinding(findings[i])
      PROVE  (\A i \in DOMAIN findings : findings[i].id \notin IdsBefore(i))
             <=> \A i, j \in DOMAIN findings : findings[i].id = findings[j].id => i = j
  <2>1. ASSUME \A i \in DOMAIN findings : findings[i].id \notin IdsBefore(i),
               NEW i \in DOMAIN findings, NEW j \in DOMAIN findings,
               findings[i].id = findings[j].id, i < j
        PROVE  FALSE
    <3>1. i \in 1 .. j - 1 /\ findings[i].id # NoId
      BY <1>1, <1>4, <2>1 DEF GoodFinding
    <3> QED
      BY <2>1, <3>1 DEF IdsBefore
  <2>2. ASSUME \A i, j \in DOMAIN findings : findings[i].id = findings[j].id => i = j,
               NEW i \in DOMAIN findings, findings[i].id \in IdsBefore(i)
        PROVE  FALSE
    <3>1. PICK j \in 1 .. i - 1 : findings[j].id = findings[i].id
      BY <2>2 DEF IdsBefore
    <3>2. j \in DOMAIN findings /\ j # i
      BY <1>1, <2>2
    <3> QED
      BY <2>2, <3>1, <3>2
  <2>3. \A i, j \in DOMAIN findings : i = j \/ i < j \/ j < i
    BY <1>1
  <2> QED
    BY <2>1, <2>2, <2>3
<1> QED
  BY <1>3, <1>4 DEF GoodFindings

LEMMA CheckRules ==
  ASSUME NEW c \in Check
  PROVE  (\A r \in OwnRule : r \notin CheckBreaks(c))
         <=> /\ GoodCheck(c)
             /\ c.status \in {"risk", "strength"} =>
                  \A fid \in FindingId : Lists(c, fid) => fid \in seenFindingIds
<1>1. (\A r \in OwnRule : r \notin CheckBreaks(c))
      => /\ GoodCheck(c)
         /\ c.status \in {"risk", "strength"} =>
              \A fid \in FindingId : Lists(c, fid) => fid \in seenFindingIds
  <2> SUFFICES ASSUME \A r \in OwnRule : r \notin CheckBreaks(c)
               PROVE  /\ GoodCheck(c)
                      /\ c.status \in {"risk", "strength"} =>
                           \A fid \in FindingId : Lists(c, fid) => fid \in seenFindingIds
    OBVIOUS
  <2>1. c.id # NoId /\ (ManifestIds # {} => c.id \in ManifestIds) /\ c.status \in CheckStatuses
    BY DEF CheckBreaks, CheckRule, OwnRule
  <2>2. c.status \in {"risk", "strength"} => FidsOf(c) # <<>>
    BY DEF CheckBreaks, CheckRule, OwnRule
  <2>3. c.status = "clean" => c.evidence
    BY DEF CheckBreaks, CheckRule, OwnRule
  <2>4. c.status \in {"not-applicable", "not-assessed"} => c.reason
    BY DEF CheckBreaks, CheckRule, OwnRule
  <2>5. c.status \in {"risk", "strength"} =>
          \A fid \in FindingId : Lists(c, fid) => fid \in seenFindingIds
    BY DEF CheckBreaks, CheckRule, OwnRule
  <2> QED
    BY <2>1, <2>2, <2>3, <2>4, <2>5 DEF GoodCheck
<1>2. /\ GoodCheck(c)
      /\ c.status \in {"risk", "strength"} =>
           \A fid \in FindingId : Lists(c, fid) => fid \in seenFindingIds
      => \A r \in OwnRule : r \notin CheckBreaks(c)
  BY DEF CheckBreaks, GoodCheck, OwnRule
<1> QED
  BY <1>1, <1>2

LEMMA ReferencesRule ==
  ASSUME GInv, pc \in {"exit", "done"}, NEW c
  PROVE  References(c, findings)
         <=> (c.status \in {"risk", "strength"} =>
                \A fid \in FindingId : Lists(c, fid) => fid \in seenFindingIds)
<1>1. seenFindingIds = {findings[i].id : i \in DOMAIN findings} \ {NoId}
  BY DEF GInv, IInv, SeenExact, FindingsRead
<1>2. \A fid \in FindingId : fid \in seenFindingIds
                             <=> \E i \in DOMAIN findings : findings[i].id = fid
  BY <1>1, NoIdAssumption
<1> QED
  BY <1>2 DEF References

LEMMA ScopeVerdict ==
  ASSUME GInv, pc \in {"exit", "done"}, checks # Absent,
         \A i \in DOMAIN checks : checks[i].id # NoId
  PROVE  (\A i \in ChecksRead : <<i, "scope">> \notin checkErrors) <=> DisjointScopes(checks)
<1>1. ChecksRead = DOMAIN checks /\ DOMAIN checks = 1 .. Len(checks) /\ Len(checks) \in Nat
  BY InputTypes DEF GInv, IInv, Progress, ChecksRead
<1>2. (\A i \in ChecksRead : <<i, "scope">> \notin checkErrors) => DisjointScopes(checks)
  BY <1>1 DEF GInv, IInv, ClashesNamed, DisjointScopes
<1>3. ASSUME DisjointScopes(checks), NEW j \in ChecksRead, <<j, "scope">> \in checkErrors
      PROVE  FALSE
  <2>1. PICK i \in 1 .. j - 1 : checks[i].id = checks[j].id /\ Clash(checks[i].scope, checks[j].scope)
    BY <1>3 DEF GInv, IInv, ClashesReal
  <2>2. i \in DOMAIN checks /\ i # j
    BY <1>1, <1>3
  <2> QED
    BY <1>1, <1>3, <2>1, <2>2 DEF DisjointScopes
<1> QED
  BY <1>2, <1>3

LEMMA OwnerVerdict ==
  ASSUME GInv, pc \in {"exit", "done"}, checks # Absent
  PROVE  (\A i \in ChecksRead : <<i, "owned">> \notin checkErrors) <=> OneOwner(checks)
<1>1. ChecksRead = DOMAIN checks /\ DOMAIN checks = 1 .. Len(checks) /\ Len(checks) \in Nat
  BY InputTypes DEF GInv, IInv, Progress, ChecksRead
<1>2. \A i \in ChecksRead : /\ FidsOf(checks[i]) \in Seq(FindingId)
                            /\ DOMAIN FidsOf(checks[i]) = 1 .. Len(FidsOf(checks[i]))
                            /\ Len(FidsOf(checks[i])) \in Nat
  BY <1>1, CheckTypes DEF GInv, IInv, Progress
<1>3. (\A i \in ChecksRead : ~Reclaims(i)) => OneOwner(checks)
  <2> SUFFICES ASSUME \A i \in ChecksRead : ~Reclaims(i),
                      NEW i \in DOMAIN checks, NEW j \in DOMAIN checks,
                      NEW k \in DOMAIN FidsOf(checks[i]), NEW l \in DOMAIN FidsOf(checks[j]),
                      FidsOf(checks[i])[k] = FidsOf(checks[j])[l]
               PROVE  i = j /\ k = l
    BY DEF OneOwner
  <2>1. ~(i < j) /\ ~(j < i)
    <3>1. ASSUME i < j PROVE FALSE
      <4>1. i \in 1 .. j - 1 /\ Lists(checks[i], FidsOf(checks[j])[l])
        BY <1>1, <3>1 DEF Lists
      <4> QED
        BY <1>1, <4>1 DEF Reclaims
    <3>2. ASSUME j < i PROVE FALSE
      <4>1. j \in 1 .. i - 1 /\ Lists(checks[j], FidsOf(checks[i])[k])
        BY <1>1, <3>2 DEF Lists
      <4> QED
        BY <1>1, <4>1 DEF Reclaims
    <3> QED
      BY <3>1, <3>2
  <2>2. i = j
    BY <1>1, <2>1
  <2>3. k = l
    BY <1>1, <1>2, <2>2 DEF Reclaims
  <2> QED
    BY <2>2, <2>3
<1>4. ASSUME OneOwner(checks), NEW i \in ChecksRead, Reclaims(i)
      PROVE  FALSE
  <2>1. PICK k \in DOMAIN FidsOf(checks[i]) :
          \/ \E j \in 1 .. i - 1 : Lists(checks[j], FidsOf(checks[i])[k])
          \/ \E l \in 1 .. k - 1 : FidsOf(checks[i])[l] = FidsOf(checks[i])[k]
    BY <1>4 DEF Reclaims
  <2>2. CASE \E j \in 1 .. i - 1 : Lists(checks[j], FidsOf(checks[i])[k])
    <3>1. PICK j \in 1 .. i - 1 : Lists(checks[j], FidsOf(checks[i])[k])
      BY <2>2
    <3>2. PICK l \in DOMAIN FidsOf(checks[j]) : FidsOf(checks[j])[l] = FidsOf(checks[i])[k]
      BY <3>1 DEF Lists
    <3>3. j \in DOMAIN checks /\ i \in DOMAIN checks /\ i # j
      BY <1>1, <1>4
    <3> QED
      BY <1>4, <3>2, <3>3 DEF OneOwner
  <2>3. CASE \E l \in 1 .. k - 1 : FidsOf(checks[i])[l] = FidsOf(checks[i])[k]
    <3>1. PICK l \in 1 .. k - 1 : FidsOf(checks[i])[l] = FidsOf(checks[i])[k]
      BY <2>3
    <3>2. l \in DOMAIN FidsOf(checks[i]) /\ l # k /\ i \in DOMAIN checks
      BY <1>1, <1>2, <1>4, <2>1
    <3> QED
      BY <1>4, <2>1, <3>1, <3>2 DEF OneOwner
  <2> QED
    BY <2>1, <2>2, <2>3
<1> QED
  BY <1>3, <1>4 DEF GInv, OwnedErrorsExact

\* A set of positions has a last one.
LEMMA LastExists ==
  ASSUME NEW N \in Nat, NEW S \in SUBSET (1 .. N), S # {}
  PROVE  \E m \in S : \A k \in S : k <= m
<1> DEFINE T == {N - k : k \in S}
<1>1. \A k \in S : k \in Int /\ N - k \in Nat
  OBVIOUS
<1>2. T \subseteq Nat
  BY <1>1
<1>3. T # {}
  OBVIOUS
<1>4. PICK low \in T : \A y \in T : ~(<<y, low>> \in OpToRel(<, Nat))
  BY <1>2, <1>3, WFMin, NatLessThanWellFounded
<1>5. \A y \in T : ~(y < low)
  BY <1>2, <1>4 DEF OpToRel
<1>6. PICK m \in S : low = N - m
  OBVIOUS
<1>7. \A k \in S : ~(N - k < N - m)
  BY <1>5, <1>6
<1> QED
  BY <1>1, <1>7

LEMMA CoverageVerdict ==
  ASSUME GInv, pc \in {"exit", "done"}, checks # Absent, context # Absent,
         \A i \in DOMAIN checks : checks[i].status # "null"
  PROVE  uncovered = {} <=> Covered(checks, context)
<1>1. DOMAIN checks = 1 .. Len(checks) /\ Len(checks) \in Nat
  BY InputTypes DEF GInv, IInv, Progress
<1>2. ASSUME NEW cid
      PROVE  HasRecord(cid) <=> \E i \in DOMAIN checks : checks[i].id = cid
  <2>1. ASSUME NEW i \in DOMAIN checks, checks[i].id = cid
        PROVE  HasRecord(cid)
    <3> DEFINE S == {j \in DOMAIN checks : checks[j].id = cid}
    <3>1. S \in SUBSET (1 .. Len(checks)) /\ S # {}
      BY <1>1, <2>1
    <3> HIDE DEF S
    <3>2. PICK m \in S : \A k \in S : k <= m
      BY <1>1, <3>1, LastExists
    <3> USE DEF S
    <3>3. LastIs(cid, m)
      BY <1>1, <3>2 DEF LastIs
    <3> QED
      BY <3>3 DEF HasRecord
  <2> QED
    BY <2>1 DEF HasRecord, LastIs
<1>3. uncovered = {cid \in MandatoryIds(context) : ~HasRecord(cid)}
  BY DEF GInv, Outcome
<1> QED
  BY <1>2, <1>3 DEF Covered

\* When the script is about to exit, it has met an error exactly when the
\* documents are not well formed.
LEMMA NoErrorsIsWellFormed ==
  ASSUME GInv, pc \in {"exit", "done"}
  PROVE  NoErrors <=> WellFormed(findings, checks, context)
<1>1. findingErrors = {} <=> GoodFindings(findings)
  BY FindingVerdict
<1>2. CASE checks = Absent
  <2>1. checkErrors = {} /\ uncovered = {}
    BY <1>2 DEF GInv, IInv, Progress
  <2> QED
    BY <1>1, <1>2, <2>1 DEF NoErrors, WellFormed
<1>3. CASE checks # Absent
  <2>1. ChecksRead = DOMAIN checks /\ DOMAIN checks = 1 .. Len(checks)
    BY <1>3, InputTypes DEF GInv, IInv, Progress, ChecksRead
  <2>2. CheckRule = OwnRule \cup {"scope", "owned"}
    BY DEF OwnRule, CheckRule
  <2>3. checkErrors = {}
          <=> /\ \A i \in ChecksRead, r \in OwnRule : <<i, r>> \notin checkErrors
              /\ \A i \in ChecksRead : <<i, "scope">> \notin checkErrors
              /\ \A i \in ChecksRead : <<i, "owned">> \notin checkErrors
    <3>1. \A e \in checkErrors : e = <<e[1], e[2]>> /\ e[1] \in ChecksRead /\ e[2] \in CheckRule
      BY DEF GInv, IInv, TypeOK, ErrorsOfRead
    <3> QED
      BY <2>2, <3>1
  <2>4. ASSUME NEW i \in DOMAIN checks
        PROVE  (\A r \in OwnRule : <<i, r>> \notin checkErrors)
               <=> GoodCheck(checks[i]) /\ References(checks[i], findings)
    <3>1. \A r \in OwnRule : <<i, r>> \in checkErrors <=> r \in CheckBreaks(checks[i])
      BY <2>1, <2>4 DEF GInv, CheckErrorsExact
    <3>2. checks[i] \in Check
      BY <1>3, <2>1, <2>4, CheckTypes DEF GInv, IInv, Progress
    <3> QED
      BY <3>1, <3>2, CheckRules, ReferencesRule
  <2>5. ASSUME \A i \in DOMAIN checks : GoodCheck(checks[i])
        PROVE  \A i \in DOMAIN checks : checks[i].id # NoId /\ checks[i].status # "null"
    BY <2>5 DEF GoodCheck, CheckStatuses
  <2>6. checkErrors = {} <=> /\ \A i \in DOMAIN checks :
                                 GoodCheck(checks[i]) /\ References(checks[i], findings)
                            /\ DisjointScopes(checks)
                            /\ OneOwner(checks)
    BY <1>3, <2>1, <2>3, <2>4, <2>5, ScopeVerdict, OwnerVerdict
  <2>7. CASE context = Absent
    <3>1. uncovered = {}
      BY <1>3, <2>7 DEF GInv, Outcome
    <3> QED
      BY <1>1, <1>3, <2>6, <2>7, <3>1 DEF NoErrors, WellFormed
  <2>8. CASE context # Absent
    <3>1. checkErrors = {} => (uncovered = {} <=> Covered(checks, context))
      BY <1>3, <2>5, <2>6, <2>8, CoverageVerdict
    <3> QED
      BY <1>1, <1>3, <2>6, <2>8, <3>1 DEF NoErrors, WellFormed
  <2> QED
    BY <2>7, <2>8
<1> QED
  BY <1>2, <1>3

---------------------------------------------------------------------------
(* Refinement. *)

LEMMA InitRefines == Init => Gate!Init
  BY DEF Init, Gate!Init, Verdict

\* The documents mean the same to both specifications: the instance has its own
\* copy of every operator of ReviewDocs, equal to the one of this module.
LEMMA SameDocuments ==
  ASSUME NEW fs, NEW cs, NEW ctx
  PROVE  WellFormed(fs, cs, ctx) <=> Gate!WellFormed(fs, cs, ctx)
<1>1. ASSUME NEW f
      PROVE  GoodFinding(f) <=> Gate!GoodFinding(f)
  BY DEF GoodFinding, Gate!GoodFinding, GoodEvidence, Gate!GoodEvidence,
         Classifications, Gate!Classifications, Severities, Gate!Severities
<1>2. GoodFindings(fs) <=> Gate!GoodFindings(fs)
  BY <1>1 DEF GoodFindings, Gate!GoodFindings
<1>3. ASSUME NEW c
      PROVE  FidsOf(c) = Gate!FidsOf(c)
  BY DEF FidsOf, Gate!FidsOf
<1>4. ASSUME NEW c
      PROVE  References(c, fs) <=> Gate!References(c, fs)
  BY <1>3 DEF References, Gate!References, Lists, Gate!Lists
<1>5. ASSUME NEW c
      PROVE  GoodCheck(c) <=> Gate!GoodCheck(c)
  BY <1>3 DEF GoodCheck, Gate!GoodCheck, ManifestIds, Gate!ManifestIds,
              CheckStatuses, Gate!CheckStatuses
<1>6. DisjointScopes(cs) <=> Gate!DisjointScopes(cs)
  BY DEF DisjointScopes, Gate!DisjointScopes, Clash, Gate!Clash
<1>7. OneOwner(cs) <=> Gate!OneOwner(cs)
  BY <1>3 DEF OneOwner, Gate!OneOwner
<1>8. Covered(cs, ctx) <=> Gate!Covered(cs, ctx)
  BY DEF Covered, Gate!Covered, MandatoryIds, Gate!MandatoryIds, MandatoryOf, Gate!MandatoryOf,
         HasOverride, Gate!HasOverride, SystemTypeOf, Gate!SystemTypeOf
<1> QED
  BY <1>2, <1>4, <1>5, <1>6, <1>7, <1>8 DEF WellFormed, Gate!WellFormed

LEMMA StepRefines ==
  ASSUME GInv, [Next]_vars
  PROVE  [Gate!Decide]_<<docs, Verdict>>
<1> USE DEF Verdict
<1>1. CASE ReadFinding
  BY <1>1 DEF ReadFinding, RememberId
<1>2. CASE EndFindings
  BY <1>2 DEF EndFindings
<1>3. CASE ReadCheck
  BY <1>3 DEF ReadCheck, RememberScope, RememberOwner
<1>4. CASE EndChecks
  BY <1>4 DEF EndChecks
<1>5. CASE Exit
  <2>1. NoErrors <=> WellFormed(findings, checks, context)
    BY <1>5, NoErrorsIsWellFormed DEF Exit
  <2>2. WellFormed(findings, checks, context) <=> Gate!WellFormed(docs[1], docs[2], docs[3])
    BY SameDocuments DEF findings, checks, context
  <2> QED
    BY <1>5, <2>1, <2>2 DEF Exit, Gate!Decide
<1>6. CASE UNCHANGED vars
  BY <1>6 DEF vars
<1> QED
  BY <1>1, <1>2, <1>3, <1>4, <1>5, <1>6 DEF Next, Ended

\* The gate that reads record by record implements the gate that decides at
\* once: it accepts exactly the well-formed runs, whatever their length.
THEOREM GateImplemented == Spec => GateSpec
<1>1. Spec => []GInv
  BY InitGInv, StepGInv, PTL DEF Spec
<1>2. GInv /\ [Next]_vars => [Gate!Decide]_<<docs, Verdict>>
  BY StepRefines
<1> QED
  BY <1>1, <1>2, InitRefines, PTL DEF Spec, GateSpec, Gate!Spec
===========================================================================
