--------------------------- MODULE EvalHarness ----------------------------
(***************************************************************************)
(* The evaluation harness, evals/run_e2e_eval.py with the grading of       *)
(* evals/run_evals.py: run the agent on a fixture repository with a time   *)
(* limit, look at what it left, put it through the gate, grade it against  *)
(* a golden case.  The agent may write the documents it was asked for in   *)
(* any order, several times or not at all, and may change the fixture,     *)
(* until it ends, fails or is killed.  What claude started may go on when  *)
(* claude is gone: only claude is waited for or killed.  The harness is    *)
(* run again and again; the fixture outlives a run, and so may such a      *)
(* process.  The gate is taken at its word, the well-formedness that       *)
(* ValidateFindings is shown to decide.                                    *)
(*                                                                         *)
(* A definition marked "variant" is what the one below it would be with a  *)
(* plausible mistake in the code; no action uses it.                       *)
(***************************************************************************)
EXTENDS ReviewDocs

CONSTANTS
  Pattern,      \* the regular expressions of the cases
  Says,         \* [FindingId -> SUBSET Pattern], those a finding's text matches
  About,        \* [FindingId -> Dimension], the dimension it names if it is known
  Cases,        \* cases.json
  Written,      \* [{"findings", "checks", "context"} -> what the agent may write]
  InGit         \* the values of "the fixture is in a git work tree" to consider

\* One expectation: a pattern, perhaps narrowed to a classification, to a
\* dimension, or to both.
Expectation == [match          : Pattern,
                classification : Classifications \cup {Absent},
                dimension      : Dimension \cup {Absent}]

Case == [runnable                : BOOLEAN,  \* has fixture_repo and mode
         must_find               : SUBSET Expectation,
         must_not_find           : SUBSET Expectation,
         expected_not_applicable : SUBSET CheckId]

Documents == {"findings", "checks", "context"}

ASSUME CasesAssumption ==
  /\ Cases \subseteq Case
  /\ Says \in [FindingId -> SUBSET Pattern]
  /\ About \in [FindingId -> Dimension]
ASSUME InGitAssumption == InGit \subseteq BOOLEAN

VARIABLES
  case,     \* the case of the current or last run
  phase,    \* "idle", "agent", "ended", "inspected" or "accepted"
  dir,      \* the run directory: [Documents -> a document or Absent]
  wrote,    \* the documents written in this run (history)
  isError,  \* what claude said of itself when it ended
  dirty,    \* the fixture differs from what is committed
  stray,    \* something claude started in some run is still running
  altered,  \* it changed the fixture since this run looked at it (history)
  inGit,    \* git status can tell
  warned,   \* this run printed the fixture warning
  outcome   \* "none", "pass", "fail", "unusable" (exit 2) or "raised"

vars == <<case, phase, dir, wrote, isError, dirty, stray, altered, inGit, warned, outcome>>

---------------------------------------------------------------------------
(* run_evals.py *)

\* spec_matches
OfDimension(f) == IF f.dimension = "known" THEN {About[f.id]} ELSE {}

SpecMatches(spec, fs) ==
  {i \in DOMAIN fs : /\ spec.match \in Says[fs[i].id]
                     /\ spec.classification \in {Absent, fs[i].classification}
                     /\ spec.dimension \in {Absent} \cup OfDimension(fs[i])}

\* grade_case: what is expected of checks.json is skipped when there is none.
GradeCase(c, fs, checks) ==
  /\ \A spec \in c.must_find : SpecMatches(spec, fs) # {}
  /\ \A spec \in c.must_not_find : SpecMatches(spec, fs) = {}
  /\ checks # Absent =>
       \A cid \in c.expected_not_applicable :
         {checks[i].status : i \in {j \in DOMAIN checks : checks[j].id = cid}}
           = {"not-applicable"}

---------------------------------------------------------------------------
EmptyDir == [d \in Documents |-> Absent]

Init ==
  /\ case \in Cases
  /\ phase = "idle"
  /\ dir = EmptyDir
  /\ wrote = {}
  /\ isError = FALSE
  /\ dirty = FALSE
  /\ stray = FALSE
  /\ altered = FALSE
  /\ inGit \in InGit
  /\ warned = FALSE
  /\ outcome = "none"

\* mkdtemp: a directory of this run's own.
OldRunDir == dir                                                      \* variant
NewRunDir == EmptyDir

\* A case that cannot be run ends the script at once.
KeptOutcome  == IF case'.runnable THEN outcome ELSE "raised"          \* variant
FirstOutcome == IF case'.runnable THEN "none" ELSE "raised"

\* main, up to the call of claude.
Start ==
  /\ phase = "idle"
  /\ case' \in Cases
  /\ phase' = IF case'.runnable THEN "agent" ELSE "idle"
  /\ outcome' = FirstOutcome
  /\ dir' = NewRunDir
  /\ wrote' = {}
  /\ isError' = FALSE
  /\ warned' = FALSE
  /\ altered' = FALSE
  /\ UNCHANGED <<dirty, stray, inGit>>

AgentWrites ==
  /\ phase = "agent"
  /\ \E d \in Documents : \E content \in Written[d] :
       /\ dir' = [dir EXCEPT ![d] = content]
       /\ wrote' = wrote \cup {d}
  /\ UNCHANGED <<case, phase, isError, dirty, stray, altered, inGit, warned, outcome>>

AgentChangesFixture ==
  /\ phase = "agent"
  /\ dirty' = TRUE
  /\ UNCHANGED <<case, phase, dir, wrote, isError, stray, altered, inGit, warned, outcome>>

\* claude is gone; what it started may have ended with it or not.
LeavesBehind == stray' \in {stray, TRUE}

\* claude exits with 0 and prints its result, which may be an error.
AgentEnds ==
  /\ phase = "agent"
  /\ phase' = "ended"
  /\ isError' \in BOOLEAN
  /\ LeavesBehind
  /\ UNCHANGED <<case, dir, wrote, dirty, altered, inGit, warned, outcome>>

\* claude exits with another code or prints something else: RuntimeError.
AgentFails ==
  /\ phase = "agent"
  /\ phase' = "idle"
  /\ outcome' = "raised"
  /\ LeavesBehind
  /\ UNCHANGED <<case, dir, wrote, isError, dirty, altered, inGit, warned>>

\* subprocess.run kills claude and raises TimeoutExpired.
TimeoutOnceWritten ==                                                 \* variant
  /\ phase = "agent"
  /\ wrote # {}
  /\ phase' = "idle"
  /\ outcome' = "raised"
  /\ LeavesBehind
  /\ UNCHANGED <<case, dir, wrote, isError, dirty, altered, inGit, warned>>
Timeout ==
  /\ phase = "agent"
  /\ phase' = "idle"
  /\ outcome' = "raised"
  /\ LeavesBehind
  /\ UNCHANGED <<case, dir, wrote, isError, dirty, altered, inGit, warned>>

\* main, from claude's result to the fixture warning.  fixture_diff reads what
\* git status prints, which is nothing where git cannot tell.
UnreadDiff  == ~inGit /\ dirty                                        \* variant
FixtureDiff == inGit /\ dirty

Inspect ==
  /\ phase = "ended"
  /\ \/ /\ isError \/ dir["findings"] = Absent
        /\ phase' = "idle"
        /\ outcome' = "unusable"
        /\ UNCHANGED warned
     \/ /\ ~isError /\ dir["findings"] # Absent
        /\ warned' = FixtureDiff
        /\ phase' = "inspected"
        /\ UNCHANGED outcome
  /\ UNCHANGED <<case, dir, wrote, isError, dirty, stray, altered, inGit>>

\* validate_findings.py on the documents that are there.
FindingsAccepted == WellFormed(dir["findings"], Absent, Absent)        \* variant
GateAccepts == WellFormed(dir["findings"], dir["checks"], dir["context"])

Gate ==
  /\ phase = "inspected"
  /\ \/ GateAccepts /\ phase' = "accepted" /\ UNCHANGED outcome
     \/ ~GateAccepts /\ phase' = "idle" /\ outcome' = "fail"
  /\ UNCHANGED <<case, dir, wrote, isError, dirty, stray, altered, inGit, warned>>

Grade ==
  /\ phase = "accepted"
  /\ phase' = "idle"
  /\ outcome' = IF GradeCase(case, dir["findings"], dir["checks"]) THEN "pass" ELSE "fail"
  /\ UNCHANGED <<case, dir, wrote, isError, dirty, stray, altered, inGit, warned>>

\* Between runs, somebody undoes the changes to the fixture.
RestoreFixture ==
  /\ phase = "idle"
  /\ dirty
  /\ dirty' = FALSE
  /\ UNCHANGED <<case, phase, dir, wrote, isError, stray, altered, inGit, warned, outcome>>

\* What a claude that is gone started changes the fixture, between the steps of
\* this run or of a later one, or comes to its end.
StrayChangesFixture ==
  /\ stray
  /\ dirty' = TRUE
  /\ altered' = (altered \/ phase \in {"inspected", "accepted"})
  /\ UNCHANGED <<case, phase, dir, wrote, isError, stray, inGit, warned, outcome>>

StrayEnds ==
  /\ stray
  /\ stray' = FALSE
  /\ UNCHANGED <<case, phase, dir, wrote, isError, dirty, altered, inGit, warned, outcome>>

Agent   == AgentWrites \/ AgentChangesFixture \/ AgentEnds \/ AgentFails
Harness == Inspect \/ Gate \/ Grade

Stray   == StrayChangesFixture \/ StrayEnds

Next == Start \/ Agent \/ Timeout \/ Harness \/ RestoreFixture \/ Stray

\* The time limit runs out whatever the agent does, and the script goes on.
Spec == Init /\ [][Next]_vars /\ WF_vars(Timeout) /\ WF_vars(Harness)

---------------------------------------------------------------------------
(* Properties. *)

TypeOK ==
  /\ case \in Cases
  /\ phase \in {"idle", "agent", "ended", "inspected", "accepted"}
  /\ \A d \in Documents : dir[d] \in Written[d] \cup {Absent}
  /\ wrote \subseteq Documents
  /\ isError \in BOOLEAN /\ dirty \in BOOLEAN /\ inGit \in BOOLEAN /\ warned \in BOOLEAN
  /\ stray \in BOOLEAN /\ altered \in BOOLEAN
  /\ outcome \in IF phase = "idle" THEN {"none", "pass", "fail", "unusable", "raised"}
                 ELSE {"none"}

\* A verdict is about this run: the agent ended by itself and did not report an
\* error, and every document the gate and the grading looked at was written by
\* this run's agent.
VerdictOnOwnWork ==
  (phase = "idle" /\ outcome \in {"pass", "fail"}) =>
    /\ ~isError
    /\ "findings" \in wrote
    /\ \A d \in Documents : dir[d] # Absent => d \in wrote

\* A pass is earned, by documents that deserve a report: every planted issue
\* is answered by a finding, no finding is one the case forbids, and the checks
\* expected to be not applicable are recorded so and in no other way, if checks
\* were recorded at all.
PassIsEarned ==
  LET Answers(f, s) ==
        /\ s.match \in Says[f.id]
        /\ s.classification # Absent => f.classification = s.classification
        /\ s.dimension # Absent => f.dimension = "known" /\ About[f.id] = s.dimension
      fs     == dir["findings"]
      checks == dir["checks"]
  IN  (phase = "idle" /\ outcome = "pass") =>
        /\ WellFormed(fs, checks, dir["context"])
        /\ \A s \in case.must_find : \E i \in DOMAIN fs : Answers(fs[i], s)
        /\ \A s \in case.must_not_find, i \in DOMAIN fs : ~Answers(fs[i], s)
        /\ checks # Absent =>
             \A cid \in case.expected_not_applicable :
               /\ \E i \in DOMAIN checks : checks[i].id = cid
               /\ \A i \in DOMAIN checks :
                    checks[i].id = cid => checks[i].status = "not-applicable"

\* Where git can tell, a pass without a warning was reached on the committed
\* fixture, also when an earlier run that was killed or failed changed it and
\* never got to say so, or something it started did.  The one exception is a
\* process that outlived claude and changes it after it was looked at.
QuietPassIsClean ==
  [][(inGit /\ phase = "accepted" /\ outcome' = "pass" /\ ~warned' /\ ~altered')
       => ~dirty']_vars

\* Every run comes to an end.
RunEnds == (phase # "idle") ~> (phase = "idle")
===========================================================================
