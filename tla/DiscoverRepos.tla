--------------------------- MODULE DiscoverRepos ---------------------------
(***************************************************************************)
(* scripts/discover_repos.py: find the repositories a design proposal      *)
(* mentions and clone each one under --dest-root.  One run scans the text  *)
(* twice, https links first and git@ links second, then clones the names   *)
(* it found one after the other and writes repos.json at the very end.     *)
(* git is a process of its own: it may fill its directory, fail, hang or   *)
(* be killed by the timeout, and it may be slow to exit.  The script may   *)
(* be stopped at any moment, git with it, and run again on the same        *)
(* directory; what git left there is all a later run knows of it.          *)
(*                                                                         *)
(* A definition marked "variant" is what the one below it would be with a  *)
(* plausible mistake in the code; no action uses it.                       *)
(***************************************************************************)
EXTENDS Naturals, Sequences

CONSTANTS
  Name,        \* what can be read as host/owner/repo, lower-cased
  Repo,        \* the names of repositories a proposal may mention
  Cut,         \* [Repo -> Name]: the name up to its first dot
  Stop,        \* [Repo -> Name]: the name and the full stop that follows it
  Reachable,   \* the names git can clone with the credentials it has
  Dest,        \* directories under --dest-root
  DestOf,      \* [Name -> Dest]: host__owner__repo
  Proposals,   \* the texts, as sequences of mentions
  MaxRuns,     \* bound: runs of the script
  None         \* no name, no directory

Mention == [repo : Repo, form : {"https", "git@"}, after : {"space", "period", "comma"}]

ASSUME NamesAssumption ==
  /\ Repo \subseteq Name /\ Reachable \subseteq Name
  /\ Cut \in [Repo -> Name] /\ Stop \in [Repo -> Name] /\ DestOf \in [Name -> Dest]
  /\ None \notin Name \cup Dest
ASSUME ProposalsAssumption == Proposals \subseteq Seq(Mention)
ASSUME RunsAssumption == MaxRuns \in Nat

Statuses == {"cloned", "already-present", "failed", "not-attempted"}
Entry == [name : Name, dest : Dest \cup {None}, status : Statuses]

VARIABLES
  text,        \* the proposal
  skipClone,   \* --skip-clone
  gitOnPath,   \* whether there is a git to run
  pc,          \* where the run is: "off", "https", "git@", "clone", "write", "dump"
  n,           \* mentions scanned in this pass
  found,       \* the keys of found, in order
  entries,     \* what repos.json will list after the primary repository
  git,         \* "none", "running", or "done": finished but not yet waited for
  disk,        \* [Dest -> what is in it]: whose clone, and how much of it
  output,      \* repos.json without its primary entry, <<>> while it cannot be read
  written,     \* repos.json was written by the latest run
  runs         \* runs started

vars == <<text, skipClone, gitOnPath, pc, n, found, entries, git, disk, output, written, runs>>
scan == <<text, skipClone, gitOnPath, disk, output, written, runs>>

Empty == [of |-> None, part |-> "nothing"]

---------------------------------------------------------------------------
(* Reading a mention.  In an https link a dot ends the name; in a git@     *)
(* link it is part of it, and a comma makes the whole link unreadable.     *)

NameIn(m) ==
  IF m.form = "https" THEN Cut[m.repo]
  ELSE IF m.after = "space" THEN m.repo
  ELSE IF m.after = "period" THEN Stop[m.repo]
  ELSE None

AppendAny(m) == Append(found, NameIn(m))                                   \* variant
AppendEach(m) == IF NameIn(m) = None THEN found ELSE Append(found, NameIn(m))  \* variant
SetDefault(m) ==
  IF NameIn(m) = None \/ \E k \in DOMAIN found : found[k] = NameIn(m) THEN found
  ELSE Append(found, NameIn(m))

\* One pass of finditer over the text; the pass that follows it is next.
ScanMention(form, next) ==
  /\ pc = form
  /\ IF n < Len(text)
       THEN /\ found' = IF text[n + 1].form = form THEN SetDefault(text[n + 1]) ELSE found
            /\ n' = n + 1
            /\ pc' = form
       ELSE /\ found' = found
            /\ n' = 0
            /\ pc' = next
  /\ UNCHANGED <<entries, git>>
  /\ UNCHANGED scan

---------------------------------------------------------------------------
(* Cloning. *)

Current == found[Len(entries) + 1]
Target == DestOf[Current]

HasCurrent == pc = "clone" /\ Len(entries) < Len(found)

\* What try_clone and main record of the current name: a directory only when
\* the clone is thought to be there.
Record(status) ==
  entries' = Append(entries,
    [name |-> Current,
     dest |-> IF status \in {"cloned", "already-present"} THEN Target ELSE None,
     status |-> status])

\* The name is settled without git: --skip-clone, a directory that is not
\* empty, or no git to run.
Settle ==
  /\ HasCurrent /\ git = "none"
  /\ \/ skipClone /\ Record("not-attempted")
     \/ ~skipClone /\ disk[Target] # Empty /\ Record("already-present")
     \/ ~skipClone /\ disk[Target] = Empty /\ ~gitOnPath /\ Record("failed")
  /\ UNCHANGED <<pc, n, found, git>>
  /\ UNCHANGED scan

\* When git is spawned at all.
WouldSpawnAnyway == ~skipClone /\ gitOnPath                        \* variant
WouldSpawn == ~skipClone /\ gitOnPath /\ disk[Target] = Empty

Spawn ==
  /\ HasCurrent /\ git = "none" /\ WouldSpawn
  /\ git' = "running"
  /\ UNCHANGED <<pc, n, found, entries>>
  /\ UNCHANGED scan

\* git has begun to fill the directory.
GitFetches ==
  /\ git = "running"
  /\ disk' = [disk EXCEPT ![Target] = [of |-> Current, part |-> "some"]]
  /\ UNCHANGED <<text, skipClone, gitOnPath, pc, n, found, entries, git, output, written, runs>>

\* git has written the last file and is about to exit.
GitCompletes ==
  /\ git = "running" /\ disk[Target].part = "some"
  /\ Current \in Reachable
  /\ disk' = [disk EXCEPT ![Target] = [of |-> Current, part |-> "all"]]
  /\ git' = "done"
  /\ UNCHANGED <<text, skipClone, gitOnPath, pc, n, found, entries, output, written, runs>>

\* git exits with an error, having removed what it wrote.
GitFails ==
  /\ git = "running"
  /\ disk' = [disk EXCEPT ![Target] = Empty]
  /\ git' = "none"
  /\ Record("failed")
  /\ UNCHANGED <<text, skipClone, gitOnPath, pc, n, found, output, written, runs>>

\* The script sees git exit with status 0.
Reap ==
  /\ git = "done"
  /\ git' = "none"
  /\ Record("cloned")
  /\ UNCHANGED <<pc, n, found>>
  /\ UNCHANGED scan

\* subprocess.run kills git, which has no time to remove anything.
TimeoutIgnored ==                                                 \* variant
  /\ git # "none"
  /\ git' = "none"
  /\ Record("cloned")
  /\ UNCHANGED <<pc, n, found>>
  /\ UNCHANGED scan
NoTimeout == FALSE /\ UNCHANGED vars                               \* variant
Timeout ==
  /\ git # "none"
  /\ git' = "none"
  /\ Record("failed")
  /\ UNCHANGED <<pc, n, found>>
  /\ UNCHANGED scan

EndClones ==
  /\ pc = "clone" /\ Len(entries) = Len(found)
  /\ pc' = "write"
  /\ UNCHANGED <<n, found, entries, git>>
  /\ UNCHANGED scan

\* Opening the file empties it; until all is written nobody can read it.
Truncate ==
  /\ pc = "write"
  /\ output' = <<>>
  /\ pc' = "dump"
  /\ UNCHANGED <<text, skipClone, gitOnPath, n, found, entries, git, disk, written, runs>>

Write ==
  /\ pc = "dump"
  /\ output' = entries
  /\ written' = TRUE
  /\ pc' = "off"
  /\ UNCHANGED <<text, skipClone, gitOnPath, n, found, entries, git, disk, runs>>

---------------------------------------------------------------------------
Init ==
  /\ text \in Proposals
  /\ skipClone = FALSE
  /\ gitOnPath = TRUE
  /\ pc = "off"
  /\ n = 0
  /\ found = <<>>
  /\ entries = <<>>
  /\ git = "none"
  /\ disk = [d \in Dest |-> Empty]
  /\ output = <<>>
  /\ written = FALSE
  /\ runs = 0

\* The skill runs the script, for the first time or again.
Start ==
  /\ pc = "off" /\ runs < MaxRuns
  /\ pc' = "https"
  /\ n' = 0
  /\ found' = <<>>
  /\ entries' = <<>>
  /\ skipClone' \in BOOLEAN
  /\ gitOnPath' \in BOOLEAN
  /\ written' = FALSE
  /\ runs' = runs + 1
  /\ UNCHANGED <<text, git, disk, output>>

\* The script is stopped, and git with it; the directories stay as they are.
Stopped ==
  /\ pc # "off"
  /\ pc' = "off"
  /\ git' = "none"
  /\ UNCHANGED <<n, found, entries>>
  /\ UNCHANGED scan

\* Nobody runs the script any more.
Idle == pc = "off" /\ runs = MaxRuns /\ UNCHANGED vars

Step ==
  \/ ScanMention("https", "git@")
  \/ ScanMention("git@", "clone")
  \/ Settle
  \/ Spawn
  \/ Reap
  \/ EndClones
  \/ Truncate
  \/ Write

GitStep == GitFetches \/ GitCompletes \/ GitFails

Next == Step \/ GitStep \/ Timeout \/ Start \/ Stopped \/ Idle

\* The script keeps running and its timeout expires; git owes it nothing.
Spec == Init /\ [][Next]_vars /\ WF_vars(Step) /\ WF_vars(Timeout)

---------------------------------------------------------------------------
(* Properties. *)

TypeOK ==
  /\ text \in Seq(Mention)
  /\ skipClone \in BOOLEAN /\ gitOnPath \in BOOLEAN /\ written \in BOOLEAN
  /\ pc \in {"off", "https", "git@", "clone", "write", "dump"}
  /\ n \in Nat
  /\ found \in Seq(Name)
  /\ entries \in Seq(Entry)
  /\ git \in {"none", "running", "done"}
  /\ disk \in [Dest -> [of : Name \cup {None}, part : {"nothing", "some", "all"}]]
  /\ output \in Seq(Entry)
  /\ runs \in 0 .. MaxRuns

\* git only runs for the current name, in a directory that holds no finished
\* clone; once it is done the directory holds the whole of that name.
GitOwnsTarget ==
  /\ git # "none" => HasCurrent
  /\ git = "running" => disk[Target].part # "all"
  /\ git = "done" => disk[Target] = [of |-> Current, part |-> "all"]

\* Whatever repos.json calls cloned is there, whole, in the directory it names,
\* and stays there through later runs that fail, time out or are stopped.
ClonedIsThere ==
  \A es \in {entries, output} : \A k \in DOMAIN es :
    es[k].status = "cloned" =>
      es[k].dest # None /\ disk[es[k].dest] = [of |-> es[k].name, part |-> "all"]

\* A finished clone is never touched again, by any run, whatever it is asked
\* to clone into the same directory.
CloneIsKept ==
  [][\A d \in Dest : disk[d].part = "all" => disk'[d] = disk[d]]_vars

\* A finished run answers every name it read with exactly one entry.
OneAnswerEach ==
  written =>
    /\ \A k \in DOMAIN text :
         NameIn(text[k]) # None => \E j \in DOMAIN output : output[j].name = NameIn(text[k])
    /\ \A j, k \in DOMAIN output : output[j].name = output[k].name => j = k

\* A run ends even when git never does.
RunEnds == pc # "off" ~> pc = "off"

---------------------------------------------------------------------------
(* What texts of the repository say of the script. *)

\* Docstring of discover_repos.py: it never invents access it does not have.
AccessIsReal ==
  \A k \in DOMAIN output :
    output[k].status = "already-present" => disk[output[k].dest].part = "all"
===========================================================================
