------------------------ MODULE DiscoverRepos_proofs ------------------------
(***************************************************************************)
(* Proofs about DiscoverRepos, for any names, directories, proposals and   *)
(* number of runs.  What repos.json calls cloned stays there because git   *)
(* only runs in an empty directory (GitOwnsTarget): that, and not the      *)
(* recorded status, is what protects an earlier clone.                     *)
(***************************************************************************)
EXTENDS DiscoverRepos, TLAPS

LEMMA InitTypes == Init => TypeOK
<1> SUFFICES ASSUME Init
             PROVE  TypeOK
  OBVIOUS
<1>1. skipClone \in BOOLEAN /\ gitOnPath \in BOOLEAN /\ written \in BOOLEAN
  BY Zenon DEF Init
<1>2. /\ text \in Seq(Mention)
      /\ pc \in {"off", "https", "git@", "clone", "write", "dump"}
      /\ n \in Nat /\ found \in Seq(Name) /\ entries \in Seq(Entry)
      /\ git \in {"none", "running", "done"}
      /\ disk \in [Dest -> [of : Name \cup {None}, part : {"nothing", "some", "all"}]]
      /\ output \in Seq(Entry) /\ runs \in 0 .. MaxRuns
  BY NamesAssumption, ProposalsAssumption, RunsAssumption DEF Init, Empty
<1> QED
  BY <1>1, <1>2, Zenon DEF TypeOK

LEMMA NameInTypes ==
  ASSUME NEW m \in Mention
  PROVE  NameIn(m) \in Name \cup {None}
  BY NamesAssumption DEF NameIn, Mention

LEMMA CurrentTypes ==
  ASSUME TypeOK, HasCurrent
  PROVE  Current \in Name /\ Target \in Dest
  BY NamesAssumption DEF TypeOK, HasCurrent, Current, Target

LEMMA RecordTypes ==
  ASSUME TypeOK, HasCurrent, NEW status \in Statuses, Record(status)
  PROVE  entries' \in Seq(Entry)
  BY CurrentTypes DEF TypeOK, Record, Entry

LEMMA StepTypes ==
  ASSUME TypeOK, GitOwnsTarget, [Next]_vars
  PROVE  TypeOK'
<1>1. ASSUME NEW form \in {"https", "git@"}, NEW next \in {"git@", "clone"},
             ScanMention(form, next)
      PROVE  TypeOK'
  <2>1. found' \in Seq(Name)
    <3>1. CASE n < Len(text)
      <4>1. text[n + 1] \in Mention
        BY <3>1 DEF TypeOK
      <4>2. SetDefault(text[n + 1]) \in Seq(Name)
        BY <4>1, NameInTypes DEF SetDefault, TypeOK
      <4> QED
        BY <1>1, <3>1, <4>2 DEF ScanMention, TypeOK
    <3>2. CASE ~(n < Len(text))
      BY <1>1, <3>2 DEF ScanMention, TypeOK
    <3> QED
      BY <3>1, <3>2
  <2>2. n' \in Nat /\ pc' \in {"https", "git@", "clone"}
    BY <1>1 DEF ScanMention, TypeOK
  <2> QED
    BY <1>1, <2>1, <2>2 DEF ScanMention, scan, TypeOK
<1>2. CASE Settle
  BY <1>2, RecordTypes DEF Settle, scan, TypeOK, Statuses
<1>3. CASE Spawn \/ EndClones \/ Stopped \/ Idle
  BY <1>3 DEF Spawn, EndClones, Stopped, Idle, scan, vars, TypeOK
<1>11. CASE Truncate
  BY <1>11 DEF Truncate, TypeOK
<1>12. CASE Write
  <2>1. written' \in BOOLEAN /\ skipClone' \in BOOLEAN /\ gitOnPath' \in BOOLEAN
    BY <1>12, Zenon DEF Write, TypeOK
  <2>2. /\ text' \in Seq(Mention)
        /\ pc' \in {"off", "https", "git@", "clone", "write", "dump"}
        /\ n' \in Nat /\ found' \in Seq(Name) /\ entries' \in Seq(Entry)
        /\ git' \in {"none", "running", "done"}
        /\ disk' \in [Dest -> [of : Name \cup {None}, part : {"nothing", "some", "all"}]]
        /\ output' \in Seq(Entry) /\ runs' \in 0 .. MaxRuns
    BY <1>12 DEF Write, TypeOK
  <2> QED
    BY <2>1, <2>2, Zenon DEF TypeOK
<1>4. CASE GitFetches
  BY <1>4, CurrentTypes DEF GitFetches, GitOwnsTarget, TypeOK
<1>5. CASE GitCompletes
  BY <1>5, CurrentTypes DEF GitCompletes, GitOwnsTarget, TypeOK
<1>6. CASE GitFails
  BY <1>6, RecordTypes, CurrentTypes DEF GitFails, GitOwnsTarget, TypeOK, Statuses, Empty
<1>7. CASE Reap
  BY <1>7, RecordTypes DEF Reap, scan, GitOwnsTarget, TypeOK, Statuses
<1>8. CASE Timeout
  BY <1>8, RecordTypes DEF Timeout, scan, GitOwnsTarget, TypeOK, Statuses
<1>9. CASE Start
  <2>1. skipClone' \in BOOLEAN /\ gitOnPath' \in BOOLEAN /\ written' \in BOOLEAN
    BY <1>9, Zenon DEF Start
  <2>2. /\ text' \in Seq(Mention)
        /\ pc' \in {"off", "https", "git@", "clone", "write", "dump"}
        /\ n' \in Nat /\ found' \in Seq(Name) /\ entries' \in Seq(Entry)
        /\ git' \in {"none", "running", "done"}
        /\ disk' \in [Dest -> [of : Name \cup {None}, part : {"nothing", "some", "all"}]]
        /\ output' \in Seq(Entry) /\ runs' \in 0 .. MaxRuns
    BY <1>9, RunsAssumption DEF Start, TypeOK
  <2> QED
    BY <2>1, <2>2, Zenon DEF TypeOK
<1>10. CASE UNCHANGED vars
  BY <1>10 DEF vars, TypeOK
<1> QED
  BY <1>1, <1>2, <1>3, <1>4, <1>5, <1>6, <1>7, <1>8, <1>9, <1>10, <1>11, <1>12
     DEF Next, Step, GitStep

LEMMA StepGit ==
  ASSUME TypeOK, GitOwnsTarget, [Next]_vars
  PROVE  GitOwnsTarget'
<1> USE DEF GitOwnsTarget
<1>1. CASE git' = "none"
  BY <1>1
<1>2. ASSUME NEW form \in {"https", "git@"}, NEW next, ScanMention(form, next)
      PROVE  git' = "none"
  BY <1>2 DEF ScanMention, TypeOK, HasCurrent
<1>3. CASE Spawn
  BY <1>3 DEF Spawn, WouldSpawn, HasCurrent, Current, Target, Empty, scan
<1>4. CASE GitFetches
  <2>1. UNCHANGED <<pc, found, entries, git>> /\ Current' = Current /\ Target' = Target
    BY <1>4 DEF GitFetches, Current, Target
  <2>2. disk'[Target].part = "some"
    BY <1>4, CurrentTypes DEF GitFetches, TypeOK
  <2> QED
    BY <1>4, <2>1, <2>2 DEF GitFetches, HasCurrent
<1>5. CASE GitCompletes
  <2>1. UNCHANGED <<pc, found, entries>> /\ Current' = Current /\ Target' = Target
    BY <1>5 DEF GitCompletes, Current, Target
  <2>2. disk'[Target] = [of |-> Current, part |-> "all"]
    BY <1>5, CurrentTypes DEF GitCompletes, TypeOK
  <2> QED
    BY <1>5, <2>1, <2>2 DEF GitCompletes, HasCurrent
<1>6. CASE GitFails \/ Reap \/ Timeout \/ Stopped \/ Settle
  BY <1>1, <1>6 DEF GitFails, Reap, Timeout, Stopped, Settle
<1>7. CASE EndClones \/ Truncate \/ Write \/ Start
  <2>1. git = "none"
    BY <1>7 DEF EndClones, Truncate, Write, Start, TypeOK, HasCurrent
  <2> QED
    BY <1>1, <1>7, <2>1 DEF EndClones, Truncate, Write, Start
<1>8. CASE Idle \/ UNCHANGED vars
  BY <1>8 DEF Idle, vars, HasCurrent, Current, Target
<1> QED
  BY <1>1, <1>2, <1>3, <1>4, <1>5, <1>6, <1>7, <1>8 DEF Next, Step, GitStep

\* A directory that holds a whole clone is left as it is by every step.
LEMMA StepKeeps ==
  ASSUME TypeOK, GitOwnsTarget, [Next]_vars,
         NEW d \in Dest, disk[d].part = "all"
  PROVE  disk'[d] = disk[d]
<1>1. CASE GitStep
  <2>1. git = "running" /\ d # Target /\ Target \in Dest
    BY <1>1, CurrentTypes DEF GitStep, GitFetches, GitCompletes, GitFails, GitOwnsTarget
  <2> QED
    BY <1>1, <2>1 DEF GitStep, GitFetches, GitCompletes, GitFails, TypeOK
<1>2. CASE ~GitStep
  <2>1. UNCHANGED disk
    BY <1>2 DEF Next, Step, ScanMention, Settle, Spawn, Reap, EndClones, Truncate, Write, Timeout,
                Start, Stopped, Idle, scan, vars
  <2> QED
    BY <2>1
<1> QED
  BY <1>1, <1>2

LEMMA StepCloned ==
  ASSUME TypeOK, GitOwnsTarget, ClonedIsThere, [Next]_vars
  PROVE  ClonedIsThere'
<1> DEFINE There(e, dk) ==
      e.status = "cloned" => e.dest # None /\ dk[e.dest] = [of |-> e.name, part |-> "all"]
<1>1. ASSUME NEW e \in Entry, There(e, disk)
      PROVE  There(e, disk')
  <2>1. CASE e.status = "cloned"
    <3>1. e.dest \in Dest /\ disk[e.dest].part = "all"
      BY <1>1, <2>1 DEF Entry
    <3> QED
      BY <1>1, <3>1, StepKeeps
  <2> QED
    BY <2>1
<1>2. \A k \in DOMAIN output : output[k] \in Entry /\ There(output[k], disk)
  BY DEF TypeOK, ClonedIsThere
<1>3. \A k \in DOMAIN entries : entries[k] \in Entry /\ There(entries[k], disk)
  BY DEF TypeOK, ClonedIsThere
<1>4. \A k \in DOMAIN output' : There(output'[k], disk')
  <2>1. output' \in {output, entries, <<>>}
    BY DEF Next, Step, GitStep, GitFetches, GitCompletes, GitFails, ScanMention, Settle,
           Spawn, Reap, EndClones, Truncate, Write, Timeout, Start, Stopped, Idle, scan, vars
  <2>2. CASE output' = <<>>
    BY <2>2
  <2> QED
    BY <1>1, <1>2, <1>3, <2>1, <2>2
<1>5. \A k \in DOMAIN entries' : There(entries'[k], disk')
  <2>1. CASE entries' \in {<<>>, entries}
    BY <1>1, <1>3, <2>1
  <2>2. ASSUME HasCurrent, NEW status \in Statuses, Record(status),
               status = "cloned" => disk'[Target] = [of |-> Current, part |-> "all"]
        PROVE  \A k \in DOMAIN entries' : There(entries'[k], disk')
    <3> DEFINE e == [name |-> Current,
                     dest |-> IF status \in {"cloned", "already-present"} THEN Target ELSE None,
                     status |-> status]
    <3>1. There(e, disk')
      BY <2>2, CurrentTypes, NamesAssumption
    <3>2. \A k \in DOMAIN entries' : \/ k \in DOMAIN entries /\ entries'[k] = entries[k]
                                     \/ entries'[k] = e
      BY <2>2 DEF Record, TypeOK
    <3> HIDE DEF e
    <3> QED
      BY <1>1, <1>3, <3>1, <3>2
  <2>3. CASE Settle
    <3>1. PICK status \in Statuses \ {"cloned"} : Record(status)
      BY <2>3 DEF Settle, Statuses
    <3> QED
      BY <2>2, <2>3, <3>1 DEF Settle
  <2>4. CASE GitFails
    BY <2>2, <2>4 DEF GitFails, GitOwnsTarget, Statuses
  <2>5. CASE Timeout
    BY <2>2, <2>5 DEF Timeout, GitOwnsTarget, Statuses
  <2>6. CASE Reap
    BY <2>2, <2>6 DEF Reap, GitOwnsTarget, Statuses, scan
  <2>7. CASE ~(Settle \/ GitFails \/ Timeout \/ Reap)
    BY <2>1, <2>7 DEF Next, Step, GitStep, GitFetches, GitCompletes, ScanMention,
           Spawn, EndClones, Truncate, Write, Start, Stopped, Idle, scan, vars
  <2> QED
    BY <2>3, <2>4, <2>5, <2>6, <2>7
<1> QED
  BY <1>4, <1>5 DEF ClonedIsThere

IInv == TypeOK /\ GitOwnsTarget /\ ClonedIsThere

LEMMA Invariance == Spec => []IInv
<1>1. Init => IInv
  BY InitTypes DEF Init, IInv, GitOwnsTarget, ClonedIsThere
<1>2. IInv /\ [Next]_vars => IInv'
  BY StepTypes, StepGit, StepCloned DEF IInv
<1> QED
  BY <1>1, <1>2, PTL DEF Spec

\* The script's state keeps its types, whatever git does and whenever it stops.
THEOREM ScriptTypes == Spec => []TypeOK
  BY Invariance, PTL DEF IInv

\* What repos.json calls cloned is there, whole, and stays there.
THEOREM ClonesThere == Spec => []ClonedIsThere
  BY Invariance, PTL DEF IInv

\* No run touches a clone that an earlier one finished.
THEOREM ClonesKept == Spec => CloneIsKept
<1> DEFINE Kept == \A d \in Dest : disk[d].part = "all" => disk'[d] = disk[d]
<1>1. IInv /\ [Next]_vars => [Kept]_vars
  BY StepKeeps DEF IInv
<1> QED
  BY <1>1, Invariance, PTL DEF Spec, CloneIsKept

---------------------------------------------------------------------------
(* Every name that was read has one answer. *)

Found(name) == \E j \in DOMAIN found : found[j] = name

\* Whether the scan has come past mention k: https links are read first.
Scanned(k) ==
  \/ pc \in {"clone", "write", "dump"}
  \/ pc = "git@" /\ text[k].form = "https"
  \/ pc \in {"https", "git@"} /\ text[k].form = pc /\ k <= n

\* Every readable name the scan has come past is found, and found once.
NamesFound ==
  /\ \A k \in DOMAIN text : (Scanned(k) /\ NameIn(text[k]) # None) => Found(NameIn(text[k]))
  /\ \A j, k \in DOMAIN found : found[j] = found[k] => j = k

\* The entries answer the names found, in order, and all of them in the end.
Answering ==
  /\ pc \in {"https", "git@"} => entries = <<>>
  /\ pc \in {"clone", "write", "dump"} =>
       /\ Len(entries) <= Len(found)
       /\ \A k \in DOMAIN entries : entries[k].name = found[k]
  /\ pc \in {"write", "dump"} => Len(entries) = Len(found)
  /\ pc # "off" => ~written

AnswerInv == NamesFound /\ Answering /\ OneAnswerEach

\* found.setdefault finds the name of a mention and no name twice.
LEMMA SetDefaultFinds ==
  ASSUME TypeOK, NEW m \in Mention,
         \A j, k \in DOMAIN found : found[j] = found[k] => j = k
  PROVE  LET new == SetDefault(m) IN
         /\ DOMAIN found \subseteq DOMAIN new
         /\ \A k \in DOMAIN found : new[k] = found[k]
         /\ NameIn(m) # None => \E k \in DOMAIN new : new[k] = NameIn(m)
         /\ \A j, k \in DOMAIN new : new[j] = new[k] => j = k
<1>1. found \in Seq(Name)
  BY DEF TypeOK
<1>2. CASE NameIn(m) = None \/ \E k \in DOMAIN found : found[k] = NameIn(m)
  BY <1>2 DEF SetDefault
<1>3. CASE ~(NameIn(m) = None \/ \E k \in DOMAIN found : found[k] = NameIn(m))
  <2> DEFINE new == Append(found, NameIn(m))
  <2>1. SetDefault(m) = new
    BY <1>3 DEF SetDefault
  <2>2. /\ Len(found) \in Nat /\ DOMAIN found = 1 .. Len(found)
        /\ DOMAIN new = 1 .. Len(found) + 1
        /\ \A k \in 1 .. Len(found) : new[k] = found[k]
        /\ new[Len(found) + 1] = NameIn(m)
    BY <1>1
  <2> HIDE DEF new
  <2>3. \A k \in DOMAIN new : k \in DOMAIN found \/ k = Len(found) + 1
    BY <2>2
  <2>4. \A j, k \in DOMAIN new : new[j] = new[k] => j = k
    BY <1>3, <2>2, <2>3
  <2> QED
    BY <2>1, <2>2, <2>4
<1> QED
  BY <1>2, <1>3

\* One step of either scan.
LEMMA ScanFinds ==
  ASSUME TypeOK, NamesFound,
         NEW form \in {"https", "git@"}, NEW next, next = IF form = "https" THEN "git@" ELSE "clone",
         ScanMention(form, next)
  PROVE  NamesFound'
<1>1. /\ pc = form /\ text \in Seq(Mention) /\ n \in Nat /\ UNCHANGED text
      /\ \A k : NameIn(text[k])' = NameIn(text[k])
  BY DEF ScanMention, scan, TypeOK, NameIn
<1>2. CASE n < Len(text)
  <2>1. /\ pc' = form /\ n' = n + 1 /\ n + 1 \in DOMAIN text
        /\ found' = IF text[n + 1].form = form THEN SetDefault(text[n + 1]) ELSE found
    BY <1>1, <1>2 DEF ScanMention
  <2>2. /\ DOMAIN found \subseteq DOMAIN found'
        /\ \A k \in DOMAIN found : found'[k] = found[k]
        /\ (text[n + 1].form = form /\ NameIn(text[n + 1]) # None)
             => \E k \in DOMAIN found' : found'[k] = NameIn(text[n + 1])
        /\ \A j, k \in DOMAIN found' : found'[j] = found'[k] => j = k
    <3>1. text[n + 1] \in Mention
      BY <1>1, <2>1
    <3> QED
      BY <2>1, <3>1, SetDefaultFinds DEF NamesFound
  <2>3. ASSUME NEW k \in DOMAIN text, Scanned(k)', NameIn(text[k]) # None
        PROVE  \E j \in DOMAIN found' : found'[j] = NameIn(text[k])
    <3>1. CASE k = n + 1 /\ text[k].form = form
      BY <2>2, <2>3, <3>1
    <3>2. CASE ~(k = n + 1 /\ text[k].form = form)
      <4>1. k \in Nat
        BY <1>1
      <4>2. Scanned(k)
        BY <1>1, <2>1, <2>3, <3>2, <4>1 DEF Scanned
      <4> QED
        BY <2>2, <2>3, <4>2 DEF NamesFound, Found
    <3> QED
      BY <3>1, <3>2
  <2> QED
    BY <1>1, <2>2, <2>3 DEF NamesFound, Found
<1>3. CASE ~(n < Len(text))
  <2>1. pc' = next /\ n' = 0 /\ found' = found
    BY <1>1, <1>3 DEF ScanMention
  <2>2. ASSUME NEW k \in DOMAIN text, Scanned(k)'
        PROVE  Scanned(k)
    <3>1. k \in 1 .. Len(text) /\ text[k] \in Mention
      BY <1>1
    <3>2. k <= n /\ text[k].form \in {"https", "git@"}
      BY <1>1, <1>3, <3>1 DEF Mention
    <3> QED
      BY <1>1, <2>1, <2>2, <3>1, <3>2 DEF Scanned
  <2> QED
    BY <1>1, <2>1, <2>2 DEF NamesFound, Found
<1> QED
  BY <1>2, <1>3

LEMMA StepAnswers ==
  ASSUME TypeOK, GitOwnsTarget, AnswerInv, [Next]_vars
  PROVE  AnswerInv'
<1> USE DEF AnswerInv
<1>0. UNCHANGED text /\ \A k : NameIn(text[k])' = NameIn(text[k])
  BY DEF Next, Step, GitStep, GitFetches, GitCompletes, GitFails, ScanMention, Settle,
         Spawn, Reap, EndClones, Truncate, Write, Timeout, Start, Stopped, Idle, scan, vars, NameIn
\* Steps that leave the scan, its findings and the answers alone.
<1>1. ASSUME UNCHANGED <<pc, n, found, entries, output, written>>
      PROVE  AnswerInv'
  BY <1>0, <1>1 DEF NamesFound, Answering, OneAnswerEach, Scanned, Found
<1>2. ASSUME UNCHANGED <<output, written>>
      PROVE  OneAnswerEach'
  BY <1>0, <1>2 DEF OneAnswerEach
<1>3. ASSUME NEW form \in {"https", "git@"}, NEW next,
             next = IF form = "https" THEN "git@" ELSE "clone", ScanMention(form, next)
      PROVE  AnswerInv'
  <2>1. NamesFound'
    BY <1>3, ScanFinds
  <2>2. /\ UNCHANGED <<output, written, entries>> /\ entries = <<>>
        /\ pc' \in {"https", "git@", "clone"} /\ found' \in Seq(Name)
    <3>1. found' \in Seq(Name)
      BY <1>3, StepTypes DEF TypeOK
    <3> QED
      BY <1>3, <3>1 DEF ScanMention, scan, Answering
  <2>3. ~written /\ ~written'
    BY <1>3, <2>2 DEF ScanMention, Answering
  <2> QED
    BY <1>2, <2>1, <2>2, <2>3 DEF Answering
\* The current name is answered.
<1>4. ASSUME HasCurrent, NEW status, Record(status), UNCHANGED <<pc, n, found, output, written>>
      PROVE  AnswerInv'
  <2>1. /\ entries \in Seq(Entry) /\ pc = "clone" /\ Len(entries) < Len(found)
        /\ found \in Seq(Name)
    BY <1>4 DEF HasCurrent, TypeOK
  <2>2. /\ Len(entries') = Len(entries) + 1 /\ DOMAIN entries' = 1 .. Len(entries) + 1
        /\ \A k \in 1 .. Len(entries) : entries'[k] = entries[k]
        /\ entries'[Len(entries) + 1].name = found[Len(entries) + 1]
    BY <1>4, <2>1 DEF Record, Current
  <2>3. \A k \in DOMAIN entries' : entries'[k].name = found[k]
    <3>1. \A k \in DOMAIN entries : entries[k].name = found[k]
      BY <2>1 DEF Answering
    <3>2. \A k \in DOMAIN entries' : k \in 1 .. Len(entries) \/ k = Len(entries) + 1
      BY <2>1, <2>2
    <3> QED
      BY <2>1, <2>2, <3>1, <3>2
  <2>4. Answering'
    BY <1>4, <2>1, <2>2, <2>3 DEF Answering
  <2> QED
    BY <1>0, <1>2, <1>4, <2>4 DEF NamesFound, Scanned, Found
<1>5. CASE Settle
  BY <1>4, <1>5 DEF Settle, scan
<1>6. CASE GitFails \/ Reap \/ Timeout
  BY <1>4, <1>6 DEF GitFails, Reap, Timeout, scan, GitOwnsTarget
<1>7. CASE Spawn \/ GitFetches \/ GitCompletes \/ Idle \/ UNCHANGED vars
  BY <1>1, <1>7 DEF Spawn, GitFetches, GitCompletes, Idle, scan, vars
<1>8. CASE EndClones
  <2>1. UNCHANGED <<n, found, entries, output, written>> /\ pc = "clone" /\ pc' = "write"
        /\ Len(entries) = Len(found)
    BY <1>8 DEF EndClones, scan
  <2> QED
    BY <1>0, <1>2, <2>1 DEF NamesFound, Answering, Scanned, Found
<1>12. CASE Truncate
  <2>1. /\ UNCHANGED <<n, found, entries, written>> /\ pc = "write" /\ pc' = "dump"
        /\ Len(entries) = Len(found) /\ ~written
    BY <1>12 DEF Truncate, Answering
  <2> QED
    BY <1>0, <2>1 DEF NamesFound, Answering, OneAnswerEach, Scanned, Found
<1>9. CASE Write
  <2>1. /\ UNCHANGED <<n, found, entries>> /\ pc = "dump" /\ pc' = "off"
        /\ output' = entries /\ written'
    BY <1>9 DEF Write
  <2>2. /\ Len(entries) = Len(found) /\ DOMAIN entries = DOMAIN found
        /\ \A k \in DOMAIN entries : entries[k].name = found[k]
    BY <2>1 DEF Answering, TypeOK
  <2>3. \A k \in DOMAIN text :
          NameIn(text[k]) # None => \E j \in DOMAIN entries : entries[j].name = NameIn(text[k])
    BY <2>1, <2>2 DEF NamesFound, Scanned, Found
  <2>4. \A j, k \in DOMAIN entries : entries[j].name = entries[k].name => j = k
    BY <2>2 DEF NamesFound
  <2>5. OneAnswerEach'
    BY <1>0, <2>1, <2>3, <2>4 DEF OneAnswerEach
  <2> QED
    BY <1>0, <2>1, <2>5 DEF NamesFound, Answering, Scanned, Found
<1>10. CASE Start
  <2>1. /\ pc' = "https" /\ n' = 0 /\ found' = <<>> /\ entries' = <<>> /\ ~written'
    BY <1>10 DEF Start
  <2>2. \A k \in DOMAIN text : ~Scanned(k)'
    <3>1. \A k \in DOMAIN text : k \in Nat /\ ~(k <= 0)
      BY DEF TypeOK
    <3> QED
      BY <2>1, <3>1 DEF Scanned
  <2>3. NamesFound'
    BY <1>0, <2>1, <2>2 DEF NamesFound
  <2>4. Answering' /\ OneAnswerEach'
    BY <2>1 DEF Answering, OneAnswerEach
  <2> QED
    BY <2>3, <2>4
<1>11. CASE Stopped
  <2>1. UNCHANGED <<n, found, entries, output, written>> /\ pc' = "off"
    BY <1>11 DEF Stopped, scan
  <2> QED
    BY <1>0, <1>2, <2>1 DEF NamesFound, Answering, Scanned, Found
<1> QED
  BY <1>3, <1>5, <1>6, <1>7, <1>8, <1>9, <1>10, <1>11, <1>12 DEF Next, Step, GitStep

\* A run that finished answers every name it read, by either kind of link, with
\* exactly one entry, however git fared and however often a name is mentioned.
THEOREM NamesAnsweredOnce == Spec => []OneAnswerEach
<1>1. Init => AnswerInv
  BY DEF Init, AnswerInv, NamesFound, Answering, OneAnswerEach, Scanned
<1>2. IInv /\ AnswerInv /\ [Next]_vars => AnswerInv'
  BY StepAnswers DEF IInv
<1>3. AnswerInv => OneAnswerEach
  BY DEF AnswerInv
<1> QED
  BY <1>1, <1>2, <1>3, Invariance, PTL DEF Spec

---------------------------------------------------------------------------
(* How far a run is from its end.  RunEnds needs fairness, which is left   *)
(* to the model checker; it rests on what is proved here: no step of a run *)
(* leads back, and there is no room for it to go on for ever.              *)

Stage == CASE pc = "https" -> 5 [] pc = "git@" -> 4 [] pc = "clone" -> 3
           [] pc = "write" -> 2 [] pc = "dump" -> 1 [] pc = "off" -> 0

\* What is left of the stage: mentions to scan, or names to settle.  A name
\* takes at most two steps, one that spawns git and one that sees its end.
Left ==
  IF pc \in {"https", "git@"} THEN Len(text) - n
  ELSE IF pc = "clone" THEN 2 * (Len(found) - Len(entries)) + (IF git = "none" THEN 1 ELSE 0)
  ELSE 0

ScanInText == pc \in {"https", "git@"} => n <= Len(text)

LEMMA StepInText ==
  ASSUME TypeOK, ScanInText, [Next]_vars
  PROVE  ScanInText'
<1> USE DEF ScanInText
<1>1. ASSUME NEW form, NEW next, ScanMention(form, next)
      PROVE  ScanInText'
  <2>1. n \in Nat /\ Len(text) \in Nat /\ UNCHANGED text
    BY <1>1 DEF TypeOK, ScanMention, scan
  <2> QED
    BY <1>1, <2>1 DEF ScanMention
<1>2. CASE Start
  <2>1. n' = 0 /\ Len(text') \in Nat
    BY <1>2 DEF Start, TypeOK
  <2> QED
    BY <2>1
<1>3. CASE Settle \/ Spawn \/ Reap \/ GitStep \/ Timeout \/ Idle \/ UNCHANGED vars
  BY <1>3 DEF Settle, Spawn, Reap, GitStep, GitFetches, GitCompletes, GitFails, Timeout,
              Idle, scan, vars
<1>4. CASE EndClones \/ Truncate \/ Write \/ Stopped
  BY <1>4 DEF EndClones, Truncate, Write, Stopped
<1> QED
  BY <1>1, <1>2, <1>3, <1>4 DEF Next, Step

LEMMA LeftBounded ==
  ASSUME TypeOK, AnswerInv, ScanInText
  PROVE  Left \in Nat
<1>1. n \in Nat /\ Len(text) \in Nat /\ Len(found) \in Nat /\ Len(entries) \in Nat
  BY DEF TypeOK
<1>2. pc = "clone" => Len(entries) <= Len(found)
  BY DEF AnswerInv, Answering
<1> QED
  BY <1>1, <1>2 DEF Left, ScanInText

\* The step brings the run nearer to its end.
Nearer == Stage' < Stage \/ (Stage' = Stage /\ Left' < Left)

\* git works on; the script waits for it, with its timeout running.
GitWorksOn ==
  /\ git # "none" /\ git' # "none"
  /\ Stage' = Stage /\ Left' = Left

LEMMA AnsweringIsNearer ==
  ASSUME TypeOK, HasCurrent, NEW status, Record(status),
         git' = "none", UNCHANGED <<pc, n, found, text>>
  PROVE  Nearer
<1>1. /\ Len(entries') = Len(entries) + 1
      /\ Len(entries) \in Nat /\ Len(found) \in Nat
  BY DEF TypeOK, Record
<1>2. pc = "clone" /\ Len(found') = Len(found) /\ Stage' = Stage
  BY DEF HasCurrent, Stage
<1>3. Left' = 2 * (Len(found) - (Len(entries) + 1)) + 1
  BY <1>1, <1>2 DEF Left
<1>4. Left \in {2 * (Len(found) - Len(entries)), 2 * (Len(found) - Len(entries)) + 1}
  BY <1>1, <1>2 DEF Left
<1> QED
  BY <1>1, <1>2, <1>3, <1>4 DEF Nearer

LEMMA StepIsNearer ==
  ASSUME TypeOK, GitOwnsTarget, AnswerInv, ScanInText, Next, pc # "off"
  PROVE  Nearer \/ GitWorksOn
<1>0. n \in Nat /\ Len(text) \in Nat /\ Len(found) \in Nat /\ Len(entries) \in Nat
  BY DEF TypeOK
<1>1. ASSUME NEW form \in {"https", "git@"}, NEW next,
             next = IF form = "https" THEN "git@" ELSE "clone", ScanMention(form, next)
      PROVE  Nearer
  <2>1. UNCHANGED text /\ pc = form
    BY <1>1 DEF ScanMention, scan
  <2>2. CASE n < Len(text)
    <3>1. n' = n + 1 /\ pc' = pc
      BY <1>1, <2>2 DEF ScanMention
    <3> QED
      BY <1>0, <1>1, <2>1, <3>1 DEF Nearer, Stage, Left
  <2>3. CASE ~(n < Len(text))
    <3>1. pc' = next
      BY <1>1, <2>3 DEF ScanMention
    <3> QED
      BY <1>1, <2>1, <3>1 DEF Nearer, Stage
  <2> QED
    BY <2>2, <2>3
<1>2. CASE Settle
  <2>1. /\ HasCurrent /\ git' = "none" /\ UNCHANGED <<pc, n, found, text>>
        /\ \E status \in Statuses : Record(status)
    BY <1>2 DEF Settle, scan, Statuses
  <2> QED
    BY <2>1, AnsweringIsNearer
<1>3. CASE Reap \/ GitFails \/ Timeout
  BY <1>3, AnsweringIsNearer DEF Reap, GitFails, Timeout, scan, GitOwnsTarget
<1>4. CASE Spawn
  <2>1. /\ pc = "clone" /\ UNCHANGED <<pc, found, entries>>
        /\ git = "none" /\ git' = "running"
    BY <1>4 DEF Spawn, HasCurrent
  <2> QED
    BY <1>0, <2>1 DEF Nearer, Stage, Left
<1>5. CASE GitFetches \/ GitCompletes
  <2>1. UNCHANGED <<text, n, pc, found, entries>> /\ git = "running" /\ git' # "none"
    BY <1>5 DEF GitFetches, GitCompletes
  <2> QED
    BY <2>1 DEF GitWorksOn, Stage, Left
<1>6. CASE EndClones \/ Truncate \/ Write \/ Stopped
  <2>1. /\ pc' \in {"write", "dump", "off"} /\ pc # "off"
        /\ (pc' = "write" => pc = "clone") /\ (pc' = "dump" => pc = "write")
    BY <1>6 DEF EndClones, Truncate, Write, Stopped
  <2> QED
    BY <2>1 DEF Nearer, Stage, TypeOK
<1> QED
  BY <1>1, <1>2, <1>3, <1>4, <1>5, <1>6 DEF Next, Step, GitStep, Start, Idle

\* A run never turns back: each of its steps, whatever git does, brings it
\* nearer to its end by a natural number that only falls within a stage, or is
\* a step of a git that is running and that the timeout may kill.
THEOREM RunsNeverTurnBack ==
  Spec => [](Left \in Nat) /\ [][pc # "off" => Nearer \/ GitWorksOn]_vars
<1> DEFINE Inv == IInv /\ AnswerInv /\ ScanInText
<1>1. Init => AnswerInv /\ ScanInText
  BY DEF Init, AnswerInv, NamesFound, Answering, OneAnswerEach, Scanned, ScanInText
<1>2. IInv /\ AnswerInv /\ ScanInText /\ [Next]_vars => (AnswerInv /\ ScanInText)'
  BY StepAnswers, StepInText DEF IInv
<1>3. Inv => Left \in Nat
  BY LeftBounded DEF IInv
<1>4. Inv /\ [Next]_vars => [pc # "off" => Nearer \/ GitWorksOn]_vars
  BY StepIsNearer DEF IInv
<1> QED
  BY <1>1, <1>2, <1>3, <1>4, Invariance, PTL DEF Spec
===========================================================================
