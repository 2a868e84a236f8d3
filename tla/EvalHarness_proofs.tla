------------------------ MODULE EvalHarness_proofs ------------------------
(***************************************************************************)
(* What a verdict of the evaluation harness rests on, for every agent,     *)
(* every set of cases and every number of runs.                            *)
(***************************************************************************)
EXTENDS EvalHarness, TLAPS

DirIsFunction == dir = [d \in Documents |-> dir[d]]

\* What lies in the run directory was put there in this run.
OwnDocuments == \A d \in Documents : dir[d] # Absent => d \in wrote

\* A run is inspected, judged or has a verdict only if the agent reported no
\* error and left findings.
Usable ==
  (phase \in {"inspected", "accepted"} \/ outcome \in {"pass", "fail"}) =>
    ~isError /\ dir["findings"] # Absent

\* Where git can tell, a changed fixture is warned about before the gate runs.
DirtIsWarned == (phase \in {"inspected", "accepted"} /\ inGit /\ dirty /\ ~altered) => warned

AcceptedByGate == phase = "accepted" => GateAccepts

OutcomeAtEnd == phase # "idle" => outcome = "none"

IInv ==
  /\ DirIsFunction
  /\ OwnDocuments
  /\ Usable
  /\ DirtIsWarned
  /\ AcceptedByGate
  /\ OutcomeAtEnd
  /\ PassIsEarned

\* Nothing is there before the first run.
LEMMA InitEstablishes == Init => IInv
BY DEF Init, IInv, DirIsFunction, OwnDocuments, Usable, DirtIsWarned, AcceptedByGate,
       OutcomeAtEnd, PassIsEarned, EmptyDir, Documents

\* The grading of documents the gate accepted earns a pass.
LEMMA GradingEarns ==
  GateAccepts /\ GradeCase(case, dir["findings"], dir["checks"]) => PassIsEarned
<1>. SUFFICES ASSUME GateAccepts, GradeCase(case, dir["findings"], dir["checks"])
              PROVE  PassIsEarned
  OBVIOUS
<1> DEFINE fs     == dir["findings"]
           checks == dir["checks"]
<1>1. WellFormed(fs, checks, dir["context"])
  BY DEF GateAccepts
<1>2. \A s \in case.must_find : \E i \in DOMAIN fs :
        /\ s.match \in Says[fs[i].id]
        /\ s.classification # Absent => fs[i].classification = s.classification
        /\ s.dimension # Absent =>
             fs[i].dimension = "known" /\ About[fs[i].id] = s.dimension
  BY DEF GradeCase, SpecMatches, OfDimension
<1>3. \A s \in case.must_not_find, i \in DOMAIN fs :
        ~ /\ s.match \in Says[fs[i].id]
          /\ s.classification # Absent => fs[i].classification = s.classification
          /\ s.dimension # Absent =>
               fs[i].dimension = "known" /\ About[fs[i].id] = s.dimension
  BY DEF GradeCase, SpecMatches, OfDimension
<1>4. ASSUME checks # Absent, NEW cid \in case.expected_not_applicable
      PROVE  /\ \E i \in DOMAIN checks : checks[i].id = cid
             /\ \A i \in DOMAIN checks :
                  checks[i].id = cid => checks[i].status = "not-applicable"
  <2>1. {checks[i].status : i \in {j \in DOMAIN checks : checks[j].id = cid}}
          = {"not-applicable"}
    BY <1>4 DEF GradeCase
  <2>2. PICK i \in DOMAIN checks : checks[i].id = cid
    BY <2>1
  <2>. QED BY <2>1, <2>2
<1>. QED BY <1>1, <1>2, <1>3, <1>4 DEF PassIsEarned

\* Every step keeps it.
LEMMA StepKeeps == IInv /\ [Next]_vars => IInv'
<1>. SUFFICES ASSUME IInv, [Next]_vars PROVE IInv'
  OBVIOUS
<1> USE DEF IInv
<1>1. CASE Start
  <2>1. dir' = EmptyDir /\ phase' \in {"agent", "idle"} /\ outcome' \in {"none", "raised"}
        /\ (phase' # "idle" => outcome' = "none")
    BY <1>1 DEF Start, NewRunDir, FirstOutcome
  <2>. QED BY <2>1 DEF DirIsFunction, OwnDocuments, Usable, DirtIsWarned, AcceptedByGate,
                       OutcomeAtEnd, PassIsEarned, EmptyDir, Documents
<1>2. CASE AgentWrites
  <2>1. phase = "agent" /\ phase' = "agent" /\ outcome' = outcome /\ outcome = "none"
    BY <1>2 DEF AgentWrites, OutcomeAtEnd
  <2>2. PICK d \in Documents : \E content \in Written[d] :
          dir' = [dir EXCEPT ![d] = content] /\ wrote' = wrote \cup {d}
    BY <1>2 DEF AgentWrites
  <2>3. DirIsFunction' /\ OwnDocuments'
    BY <2>2 DEF DirIsFunction, OwnDocuments
  <2>. QED BY <2>1, <2>3 DEF Usable, DirtIsWarned, AcceptedByGate, OutcomeAtEnd, PassIsEarned
<1>3. CASE AgentChangesFixture
  BY <1>3 DEF AgentChangesFixture, DirIsFunction, OwnDocuments, Usable, DirtIsWarned,
              AcceptedByGate, OutcomeAtEnd, PassIsEarned
<1>4. CASE AgentEnds
  BY <1>4 DEF AgentEnds, LeavesBehind, DirIsFunction, OwnDocuments, Usable, DirtIsWarned,
              AcceptedByGate, OutcomeAtEnd, PassIsEarned
<1>5. CASE AgentFails
  BY <1>5 DEF AgentFails, DirIsFunction, OwnDocuments, Usable, DirtIsWarned,
              AcceptedByGate, OutcomeAtEnd, PassIsEarned
<1>6. CASE Timeout
  BY <1>6 DEF Timeout, DirIsFunction, OwnDocuments, Usable, DirtIsWarned,
              AcceptedByGate, OutcomeAtEnd, PassIsEarned
<1>7. CASE Inspect
  BY <1>7 DEF Inspect, FixtureDiff, DirIsFunction, OwnDocuments, Usable, DirtIsWarned,
              AcceptedByGate, OutcomeAtEnd, PassIsEarned
<1>8. CASE Gate
  <2>1. phase = "inspected" /\ phase' \in {"accepted", "idle"}
        /\ (phase' = "accepted" => GateAccepts /\ outcome' = "none")
        /\ (phase' = "idle" => outcome' = "fail")
    BY <1>8 DEF Gate, OutcomeAtEnd
  <2>2. UNCHANGED <<case, dir, wrote, isError, dirty, stray, altered, inGit, warned>>
    BY <1>8 DEF Gate
  <2>3. GateAccepts' = GateAccepts
    BY <2>2 DEF GateAccepts
  <2>. QED BY <2>1, <2>2, <2>3 DEF DirIsFunction, OwnDocuments, Usable, DirtIsWarned,
                                   AcceptedByGate, OutcomeAtEnd, PassIsEarned
<1>9. CASE Grade
  <2>1. phase = "accepted" /\ phase' = "idle" /\ outcome' \in {"pass", "fail"}
        /\ (outcome' = "pass" => GradeCase(case, dir["findings"], dir["checks"]))
    BY <1>9 DEF Grade
  <2>2. UNCHANGED <<case, dir, wrote, isError, dirty, stray, altered, inGit, warned>>
    BY <1>9 DEF Grade
  <2>3. PassIsEarned'
    <3>1. CASE outcome' = "pass"
      <4>1. GateAccepts'
        BY <2>1, <2>2 DEF AcceptedByGate, GateAccepts
      <4>2. GradeCase(case, dir["findings"], dir["checks"])'
        BY <2>1, <2>2, <3>1
      <4>. QED BY <4>1, <4>2, GradingEarns, PTL
    <3>. QED BY <3>1 DEF PassIsEarned
  <2>. QED BY <2>1, <2>2, <2>3 DEF DirIsFunction, OwnDocuments, Usable, DirtIsWarned,
                                   AcceptedByGate, OutcomeAtEnd
<1>10. CASE RestoreFixture
  BY <1>10 DEF RestoreFixture, DirIsFunction, OwnDocuments, Usable, DirtIsWarned,
               AcceptedByGate, OutcomeAtEnd, PassIsEarned
<1>11. CASE Stray
  <2>1. UNCHANGED <<case, phase, dir, wrote, isError, inGit, warned, outcome>>
    BY <1>11 DEF Stray, StrayChangesFixture, StrayEnds
  <2>2. GateAccepts' = GateAccepts
    BY <2>1 DEF GateAccepts
  <2>3. DirtIsWarned'
    BY <1>11 DEF Stray, StrayChangesFixture, StrayEnds, DirtIsWarned
  <2>. QED BY <2>1, <2>2, <2>3 DEF DirIsFunction, OwnDocuments, Usable, AcceptedByGate,
                                   OutcomeAtEnd, PassIsEarned
<1>12. CASE UNCHANGED vars
  <2>1. GateAccepts' = GateAccepts
    BY <1>12 DEF vars, GateAccepts
  <2>. QED BY <1>12, <2>1 DEF vars, DirIsFunction, OwnDocuments, Usable, DirtIsWarned,
                              AcceptedByGate, OutcomeAtEnd, PassIsEarned
<1>. QED BY <1>1, <1>2, <1>3, <1>4, <1>5, <1>6, <1>7, <1>8, <1>9, <1>10, <1>11, <1>12
         DEF Next, Agent, Harness

LEMMA Inductive == Spec => []IInv
BY InitEstablishes, StepKeeps, PTL DEF Spec

\* Every step leaves the harness well typed, with an outcome only between runs.
LEMMA StepTypes == IInv /\ TypeOK /\ [Next]_vars => TypeOK'
<1>. SUFFICES ASSUME IInv, TypeOK, [Next]_vars PROVE TypeOK'
  OBVIOUS
<1> USE DEF TypeOK
<1>1. CASE Start
  <2>1. /\ case' \in Cases /\ wrote' = {} /\ isError' = FALSE /\ warned' = FALSE
        /\ altered' = FALSE /\ UNCHANGED <<dirty, stray, inGit>>
        /\ \A d \in Documents : dir'[d] = Absent
    BY <1>1 DEF Start, NewRunDir, EmptyDir
  <2>2. /\ phase' \in {"idle", "agent"}
        /\ outcome' \in IF phase' = "idle" THEN {"none", "pass", "fail", "unusable", "raised"} ELSE {"none"}
    BY <1>1 DEF Start, FirstOutcome
  <2>. QED BY <2>1, <2>2
<1>2. CASE AgentWrites
  <2>1. PICK d \in Documents : \E content \in Written[d] :
          dir' = [dir EXCEPT ![d] = content] /\ wrote' = wrote \cup {d}
    BY <1>2 DEF AgentWrites
  <2>2. UNCHANGED <<case, phase, isError, dirty, stray, altered, inGit, warned, outcome>>
    BY <1>2 DEF AgentWrites
  <2>3. \A e \in Documents : dir'[e] \in Written[e] \cup {Absent}
    BY <2>1 DEF IInv, DirIsFunction
  <2>. QED BY <2>1, <2>2, <2>3
<1>3. CASE AgentChangesFixture \/ RestoreFixture
  BY <1>3 DEF AgentChangesFixture, RestoreFixture
<1>4. CASE AgentEnds
  BY <1>4, Zenon DEF AgentEnds, LeavesBehind
<1>5. CASE AgentFails \/ Timeout
  BY <1>5, Zenon DEF AgentFails, Timeout, LeavesBehind
<1>6. CASE Inspect
  <2>1. UNCHANGED <<case, dir, wrote, isError, dirty, stray, altered, inGit>>
    BY <1>6 DEF Inspect
  <2>2. warned' \in BOOLEAN
    BY <1>6, Zenon DEF Inspect, FixtureDiff
  <2>3. /\ phase' \in {"idle", "inspected"}
        /\ outcome' \in IF phase' = "idle" THEN {"none", "pass", "fail", "unusable", "raised"} ELSE {"none"}
    BY <1>6 DEF Inspect
  <2>. QED BY <2>1, <2>2, <2>3, Zenon
<1>7. CASE Gate \/ Grade
  BY <1>7 DEF Gate, Grade
<1>8. CASE Stray
  BY <1>8, Zenon DEF Stray, StrayChangesFixture, StrayEnds
<1>9. CASE UNCHANGED vars
  BY <1>9 DEF vars
<1>. QED BY <1>1, <1>2, <1>3, <1>4, <1>5, <1>6, <1>7, <1>8, <1>9 DEF Next, Agent, Harness

\* Whatever the agent writes and however a run ends, the harness keeps to its
\* phases and has an outcome only when no run is going on (run_e2e_eval.main).
THEOREM HarnessTypes == Spec => []TypeOK
<1>1. Init => TypeOK
  BY InGitAssumption DEF Init, TypeOK, EmptyDir
<1>. QED BY <1>1, StepTypes, Inductive, PTL DEF Spec

\* A pass or a fail is about what this run's agent wrote, after it ended by
\* itself and reported no error (run_claude and main, lines 92 to 107).
THEOREM OwnVerdicts == Spec => []VerdictOnOwnWork
<1>1. IInv => VerdictOnOwnWork
  BY DEF IInv, OwnDocuments, Usable, VerdictOnOwnWork, Documents
<1>. QED BY <1>1, Inductive, PTL

\* A pass is earned by documents that deserve a report and answer the case
\* (grade_case on what validate_findings.py accepted).
THEOREM EarnedPasses == Spec => []PassIsEarned
<1>1. IInv => PassIsEarned
  BY DEF IInv
<1>. QED BY <1>1, Inductive, PTL

\* Where git can tell, a pass without a warning was reached on the committed
\* fixture, whatever earlier runs did to it (fixture_diff before the gate).
THEOREM QuietPasses == Spec => QuietPassIsClean
<1> DEFINE Quiet == (inGit /\ phase = "accepted" /\ outcome' = "pass" /\ ~warned' /\ ~altered')
                      => ~dirty'
<1>1. IInv /\ [Next]_vars => [Quiet]_vars
  <2>. SUFFICES ASSUME IInv, Next, phase = "accepted", outcome' = "pass",
                             inGit, ~warned', ~altered' PROVE ~dirty'
    OBVIOUS
  <2>1. Grade
    BY DEF Next, Start, Agent, AgentWrites, AgentChangesFixture, AgentEnds, AgentFails,
           Timeout, Harness, Inspect, Gate, RestoreFixture, IInv, OutcomeAtEnd,
           Stray, StrayChangesFixture, StrayEnds
  <2>. QED BY <2>1 DEF Grade, IInv, DirtIsWarned
<1>2. Spec => [][Quiet]_vars
  BY <1>1, Inductive, PTL DEF Spec
<1>. QED BY <1>2 DEF QuietPassIsClean
===========================================================================
