# A TLA+ verification of architecture-debt-visualizer

The repository is a plugin for a coding agent. The agent audits a repository, or reviews a
design proposal, and writes JSON documents; Python scripts check the documents, turn them into
an HTML report, and prepare what the agent reads. The agent is not a program and its judgement is
not modelled. The scripts are, and so is the page they generate, which is a program of its own.

Below, `scripts/` is `skills/architecture-debt-visualizer/scripts/`.

## 1. Inventory

| Part | State it keeps | Operations | Talks to |
|---|---|---|---|
| Audit gate, `validate_findings.py` | `seen_finding_ids`, `seen_instances`, `finding_id_owners`, `errors`, while it reads | one pass over findings, one over check records, the coverage rule, the exit code | reads `findings.json`, `checks.json`, `context.json` and the rubric manifest; the agent fixes what it rejects |
| Audit report, coverage, `generate_report.py` 127-139, 194-214, 367-405 | none beyond its inputs; the manifest it may not find | the coverage indicator and the coverage panel | reads the documents the gate accepted |
| Audit report, page, `generate_report.py` 318-600, 815-893 | filter state, active buttons, selected card, hidden rows, rows lit, pending timers | clicks on two filter bars, stat cards, severity columns, key findings; timers | the reader; numbers come from Python, rows from JavaScript |
| Audit report, scores, `generate_report.py` 158-222 | none | four indices | the same documents |
| Repository discovery, `discover_repos.py` | the names found, the entries so far, a git process, the clone directories, `repos.json` | scan twice, clone one by one, write | git, the file system, the agent that runs it again |
| Design review gate, `validate_design_review.py` | as the audit gate | as the audit gate, with rules of its own | reads `repos.json` too, for the roots of evidence |
| Design review report, `generate_design_review_report.py` | none beyond its inputs; filter state of its page | verdict, key findings, badges, coverage | reads the documents the gate accepted |
| Design review, page, `generate_design_review_report.py` 182-222, 308-364 | filter state, active buttons, hidden rows, rows lit, pending timers | clicks on two filter bars and on key findings; timers | the reader; numbers come from Python, rows from JavaScript |
| Churn, `compute_churn.py` | commits and authors by file, then by package | one pass over `git log`, one over the files it names | git, the Java files of today's tree |
| Dependency graph, `extract_dep_graph.py` | packages, imports, edges | one pass over the Java files | the same tree |
| Audit report, static analysis, `generate_report.py` 408-480 | none beyond its inputs | the panel: hotspots, the people named with them, the most coupled packages | `churn.json`, `dep_graph.json` |
| Slide text, `extract_pptx_text.py` | none | one pass | a zip file |
| Evaluation harness, `evals/*.py` | a run directory; the fixture it leaves behind | run the agent, look at the fixture, run the gate, grade | the agent, git, the gate |
| Workflow, `SKILL.md`, `commands/eval-architecture.md` | the run directory | write, validate, fix, report | everything above |
| Patcher, `architecture-debt-patcher/SKILL.md` | branches and pull requests | instructions for the agent only | `findings.json` |

### What is hard in it

* **What a loop remembers.** Both gates read records one by one and remember good records
  differently from bad ones: a check instance that clashes with an earlier one is not stored, so
  later ones are never compared with it; an owner is recorded whatever else is wrong with the
  record. Whether this hides a fault depends on the order of at least three records.
* **Two computations of one thing.** The mandatory checks (the gate, the indicator and the panel,
  from two copies of the manifest), the coverage (by id in the indicator, by instance in the panel), the number on a card (Python) and the rows behind
  it (JavaScript), the verdict and the BLOCKING badges: nothing in the code ties the two.
* **Handlers that trigger handlers.** The page's handlers call `click()` on buttons whose own
  handlers filter the rows halfway; a severity filter has no button and nothing but another card
  resets it.
* **Timers.** Each flash sets a timer that removes the class a later flash of the same row added.
* **Processes.** git may fail, hang, be slow to exit, or be killed by the timeout or with the
  script, and leaves a directory that the next run interprets.
* **Agents.** The evaluation harness runs an agent that may be killed halfway, report an error,
  write some of its documents, change the fixture that the next run starts from, or leave a process
  behind that does.
* **Two clocks.** Churn joins old commits with the packages of today's files: files move, are
  deleted and change their package, and commits leave the window.
* **Counting by another key.** Commits and authors are collected by file and added up by package;
  imports are collected by line and attributed to whatever stands before the last dot.
* **Boundaries.** Rounding at 100%, caps of penalties and bonuses, key panels cut at eight, where a
  name ends in running text.

There is no persistence beyond files written once, no network protocol and no concurrency inside
a script; the only processes that run side by side are the discovery script and git, and the
evaluation harness, its agent and what the agent started.

### What makes each part correct

| Part | Properties |
|---|---|
| Audit gate | accepts exactly the well-formed documents, in whatever order; names a record of every clash and none without a reason; credits a finding once, to the first claim, and names every later one |
| Coverage | 100% means every mandatory check was assessed; the two accounts agree with each other and with the gate |
| Scores | fixing a concern never hurts; strengths hide no high concern; the caps keep one dimension from deciding; 100% fidelity means faithful |
| Page | the filter in force can be read off the page; every card shows as many rows as it says; a click flashes what the reader should see; flashes end |
| Discovery | a clone that was reported stays whole; every name that was read is answered once; a run ends |
| Design review | the verdict is never talked up, agrees with the badges and names its reason; each target is judged once; the coverage never overstates what was assessed |
| Page of the design review | as the audit page, of which its handlers are a copy in other words |
| Churn, dependency graph, panel | what is said of people is true of the commits, by the packages of their day; no hotspot is missed; the graph is that of the import lines |
| Evaluation harness | a verdict rests on what this run's agent wrote; a pass is earned and, without a warning, on a clean fixture; a run ends |

## 2. Modules

| Module | What it is |
|---|---|
| `ReviewDocs` | The audit's documents as data, the helpers both sides use, and `WellFormed`: what a run must look like to deserve a report, stated over whole documents with no loop and no order |
| `ReviewGate` | The abstract gate: one step that accepts exactly the well-formed documents |
| `ValidateFindings` | The gate as the script runs it: each loop body one action, what is remembered between records as state; `Gate == INSTANCE ReviewGate WITH verdict <- Verdict` |
| `AuditRun` | Documents, gate (taken as `WellFormed`, which `ValidateFindings` is shown to decide), the agent's fixes, and the two accounts of coverage |
| `ReportPage` | The page: the rendered rows and numbers and the page's script |
| `DiscoverRepos` | Repository discovery, with git as a process |
| `DesignReview` | The design review: gate and generator as one action each, and the edits between two reports |
| `DesignPage` | The page of the design review, with its script; `P == INSTANCE ReportPage WITH page <- ...` is the audit page it is a part of |
| `JavaRepo` | The repository the two scans look at, and what people do to it: commits, renames, deletions, the window that moves on |
| `Churn`, `DepGraph` | What each scan computes of a repository |
| `StaticAnalysis` | Both over one repository, and the panel made of them |
| `ReportScores` | The debt index, the architecture risk, the documentation fidelity and the evidence confidence, over a repository that is reviewed again and again |
| `EvalHarness` | The end-to-end harness with its agent, its fixture, the gate (taken as `WellFormed`) and the grading |
| `Rounding` | Python's `round` of a percentage |
| `MC*` | The instances TLC checks, one for each of the above |
| `*_proofs` | Theorems and their proofs, one module for each component; that of the gate also holds the refinement, that of the audit page also the proofs about `DesignPage` |

`AuditRun` is where the gate and the report meet. The gate reads the manifest beside it (`Rubric`),
the report whatever it finds under a fixed path: that version, another (`Installed`), or none. It uses the gate's specification and not its
loops, which is sound because `GateImplemented` (section 5) proves that the loops decide it.
`ReportPage` takes as its reports the lists of findings the gate lets through, which is what step
7 of `SKILL.md` puts in front of the generator; a finding whose severity or classification no
table knows would be rendered under a heading of its own and is outside the model.

### How the models correspond to the code

`PROJECT.json` maps every definition to the lines it stands for. In general:

* A loop body is an action where other state is remembered between turns (`ReadFinding`,
  `ReadCheck`, `ScanMention`); a script that reads its inputs and writes its output with nothing
  in between is one action (`Generate`, the design review's `Validate`).
* A click handler is one action, including the handlers it triggers: JavaScript runs it to the
  end. The order of assignments inside is kept (`SevCol` sets the severity, triggers two buttons,
  sets it again).
* Texts are abstracted to whether they are empty, files to whether they exist, dimensions to
  whether they are known, URLs to where the name in them ends. Error messages are abstracted to
  the position of the record and the rule. Warnings decide nothing and are left out.
* In `ValidateFindings`, `seenInstances` starts as the empty set for every id where the script
  calls `setdefault`; `errors` is split by the loop that appends to it.
* In `DiscoverRepos`, git is modelled by what it can do to its directory and to the script:
  begin, complete, fail having removed what it wrote, or be killed having removed nothing. A git
  that finished but was not yet waited for (`git = "done"`) can still lose to the timeout. When
  the script is stopped its git is taken to die with it, as when a terminal or an agent kills the
  process group; a git that outlived its script is not modelled.
* Opening `repos.json` empties it (`Truncate`) before it is written (`Write`): a script stopped in
  between leaves nothing to read. What part of it is there in the meantime is not told apart.
* In `AuditRun` and `ReviewDocs` an override is one of the three values of `Applicability`, for some
  dimensions of some system types; `MandatoryOf` is the test of the gate and of the indicator,
  `PanelMandatory` that of the panel. They agree on these values and on no other, and
  `AccountsAgree` is what depends on it. A context without a key (`keys = FALSE`) is `{}`: a context
  to the gate and none to the indicator.
* In `ReportScores`, the dimensions are the thirteen of `DIMENSION_LABEL`, and a list of findings is a count for each kind of finding: no figure depends on
  the order, or on a field that `Finding` leaves out. A review is one step, which ends with the
  report generated from it.
* In `StaticAnalysis` the scripts are functions of the repository, which stands still while they
  run (SKILL.md runs one after the other and reuses their output only while the code is
  unchanged); what moves is the repository. A commit is its author and the files git names, a
  rename names the new path only, a merge names none. `changed`, `left` and `came` are history that
  no script reads: the packages the commit changed, those a file left (moved, redeclared or
  deleted), and those a file with earlier commits came to. The properties judge by them, the
  scripts by today's packages. A package is the sequence of its name's
  components, an import one of three forms: of a class (also `import static a.B.*`), of a member of
  a class, of a package. Lists cut short keep the heaviest entries in any order of ties, because
  the order of Python sets and of the dicts filled from them decides it; cutting at ten in the
  script and at five in the panel is cutting once. All files are under `--src`, and file names are
  ASCII (git quotes others, and the script then finds no package).
* In `DesignPage` any risk or open question may have a key link; `KeyFindings` of `DesignReview`
  says which ones do.
* In `EvalHarness`, a text is the set of the cases' patterns it matches. `dirty` is what git calls
  a change; ignored files are not one. `stray` is a process that outlived claude, `altered` (history)
  that it changed the fixture after the harness looked at it. `outcome = "raised"` is an exception nobody catches.
* A definition marked "variant" is what its neighbour would be with a plausible mistake. No
  action uses it; it documents what the properties are able to notice.

## 3. Runs

Passing runs:

| Run | Module, configuration | What it shows |
|---|---|---|
| `gate` | `MCValidateFindings` | Over more than 25,000 sets of documents: what is remembered between records never hides a clash (`ClashesNamed`), never invents one (`ClashesReal`), credits each finding to its first claim and names every later one (`FirstClaimOwns`), and the whole run implements the one-step gate (`GateSpec`) |
| `page` | `MCReportPage` | After any clicks: rows and buttons agree (`FilterReadable`), cards keep their word (`CardsKeepTheirWord`), a click flashes a visible row and a most severe one, and the key panel leaves out nothing more severe than it shows (`FlashesTheWorst`), a lit row goes dark (`FlashEnds`) |
| `audit` | `MCAuditRun` | After any sequence of rejections and fixes, whatever manifest the report finds: 100% means full by that manifest (`FullMeansFull`); the indicator and the panel agree, on what is mandatory too, and if the manifest is the gate's, with what the gate accepted (`AccountsAgree`) |
| `discover` | `MCDiscoverRepos` | Through two runs with any failures and interruptions: what is reported cloned is there and stays (`ClonedIsThere`, `CloneIsKept`), each name is answered once (`OneAnswerEach`), a run ends (`RunEnds`) |
| `design` | `MCDesignReview` | Over all edits of two findings between reports: the verdict improves only when a concern is gone (`NeverTalkedUp`), agrees with the badges (`BadgeMeansBlocked`) and is explained by the key panel (`BlockersFirst`). Over all edits of up to three check records: an accepted review judges each target once (`JudgedOnce`), the coverage is at most the share of checks assessed on some target, and 100% leaves nothing out (`CoverageNotOverstated`) |
| `design_page` | `MCDesignPage` | After any clicks: active buttons, rows and printed numbers agree (`FilterReadable`), and every step is a step of the audit page's handlers (`AuditPageSteps`) |
| `static_analysis` | `MCStaticAnalysis` | Over all histories and trees within the bounds: all who changed a lone package are the one named, unless a file left it; those named did change it, unless a file came to it (`PeopleAreReal`); a package that enough commits changed and no file left is listed or the list is full (`NoHotspotMissed`), edges are the import lines between packages and the most coupled packages are those with most of them (`GraphFollowsImports`) |
| `scores` | `MCReportScores` | Through any sequence of reviews, from an untouched index down to one clamped at 0: fixing a concern never lowers an index or the fidelity (`FixesNeverHurt`), strengths never make up for a high concern (`HighConcernShows`), one dimension never costs the best band (`TwoDimensionsDecide`), a fidelity of 100% means that at most one claim of the docs in two hundred, so none of fewer, was found wrong or missing (`FaithfulMeansFaithful`) |
| `harness` | `MCEvalHarness` | Through repeated runs with any agent, and any process it leaves behind: a verdict rests on this run's documents (`VerdictOnOwnWork`), a pass is earned (`PassIsEarned`) and, without a warning, reached on the committed fixture unless such a process changes it after it was looked at (`QuietPassIsClean`), a run ends (`RunEnds`) |

Runs that show a disagreement between the code and a text of the repository; each checks one
property that states the text, and TLC finds the code breaking it:

| Run | Text | What the code does |
|---|---|---|
| `coverage_shown` | `generate_report.py:29-30`: `--checks` drives the coverage indicator and panel | the manifest is looked up under a hard-coded home directory; elsewhere both are left out |
| `access_is_real` | `discover_repos.py:8-9`: never invents access it doesn't have | the remains of a killed clone are `already-present`, to a later name with the same directory or on the next run |
| `coverage_by_id` | `report-schema.md:111-112`, whose shape `design-review.md:246` shares: an id is covered if any of its instances was assessed | the report subtracts every `not-assessed` instance from the number of checks, so one target that was not assessed costs the check, and several cost more than the check: the percentage may fall below zero |

More disagreements were met while modelling and have no run of their own. The gate rejects the
severity `critical`, which `eval-architecture.md:32-33` calls canonical, and accepts a finding whose
`dimension` or `severity` is null, where `report-schema.md:224` calls both required. An entry of
`repos.json` that failed has a null `dest`, where `design-review.md:89` clones "into the same `dest`
path the script recorded". A low, info or unrated risk leaves the verdict at a plain Recommend,
which `design-review.md:280-281` keeps for a review with no unresolved risk. A strength makes up
for a low concern, where `generate_report.py:94-95` speaks of crediting strengths "without letting
them buy back real debt"; `HighConcernShows` is what holds. A risk that is also tagged
`architecture-strength` counts on both sides of the index, so `FixesNeverHurt` leaves it out:
dropping one that is rated info lowers the index by one. The https pattern of `discover_repos.py:35`
ends a name at its first dot (`next.js` is tried as `next`) and the git@ pattern loses a link before
a comma, where `discover_repos.py:7-8` finds every URL and tries each. `compute_churn.py:91` adds up
the counts of a package's files, so one commit of five files makes a hotspot with "≥5 commits in the
window" (`generate_report.py:468`; `compute_churn.py:56-58` says the same of its option).
`compute_churn.py:92-93` credits every author of a file with all its
commits, where the docstring's `top_authors` gives each a commit count of their own. A package that
a file left loses the commits made under the former path, and one that a file came to gains that
file's past: where `generate_report.py:468` says how many "distinct people have touched" a package, work
of others may then be missing and one author be left, or people be named who never changed it.
`PeopleAreReal` therefore has the premise that no file left or came, for each half the one it needs;
without it the property is false. Imports of static members and nested classes make edges to
packages that do not exist, where `extract_dep_graph.py:5` speaks of importing a class from another
package, and without a common prefix there is no edge at all.

### Bounds, and why they are enough

* `gate`: a finding has one defect at a time, alone or next to another finding, because each rule
  looks at one finding and at the ids before it; three findings where only the ids vary. Up to
  three check records over two ids, all scopes over two targets and two finding ids: three is
  what it takes for a record to clash only with one that was not stored. Every status under every
  kind of context with up to two records. The theorems have no such bound.
* `page`: reports of up to four findings that hold every severity, a strength with another
  classification, missing fields, equal findings, and more pressing findings than the panel
  shows (`KeyLimit = 2` for the code's 8). `MaxTimers = 2` flashes pending at once: two is what
  it takes for a timer to meet a later flash of its row. Further clicks on cards wait until a
  timer ends; filter buttons are never held back.
* `audit`: three checks in two dimensions, one informational for a library, the other not applicable
  for a cli-tool, up to `MaxRecords = 3` records. The report finds the gate's manifest, a newer one
  with one more check and other overrides, or none.
* `discover`: texts of up to two mentions, three repositories of which two share a directory and
  one is read as another, `MaxRuns = 2`: a first run leaves the directories the second finds.
* `design`: up to two findings and a key panel of one; three records over two checks and two
  targets, beside few findings: a state constraint (`CheckedReviewsVaryLittle`) stops a review with
  check records from varying its findings further, which only the verdict depends on. The runs
  start from two drafts; edits reach the rest.
* `design_page`: reports of up to four findings of every type with and without a dimension, and
  `MaxTimers = 3` flashes pending.
* `static_analysis`: three files, three people (it takes three to be diverse) and three commits in
  the window, which moves on, so that older trees and longer histories are reached; `MinCommits = 2`
  for the code's 5, lists of one package (`ListLimit`) naming two people (`NameLimit`), so that lists
  overflow. `MaxMoves = 1`: one commit in the window may take a file from its package, which is
  enough for the premises of the properties to fail, and keeps the run short; the theorems have no
  such bound. Contents put a file in the root package, in two below it or in none, with imports of
  every form and of a library; file paths and people are symmetric.
* `scores`: nine kinds of findings that come and go, enough of each to pass the cap of a dimension
  (15) and of the strengths (5), in three dimensions, with findings whose fields are missing; beside
  nothing else (`Opening`), or beside findings that stay (`Standing`): three high risks in each of six
  more dimensions, which take both indexes to the clamp at 0, and 199 confirmed claims, at which one
  wrong claim in two hundred is rounded away. With all thirteen dimensions at their cap the index is as
  it is with seven, clamped.
* `harness`: four cases, five `findings.json`, three `checks.json` and two `context.json`, good and
  bad at the gate and at the grading; expectations narrowed to a classification, to a dimension, to
  both and to neither. The number of runs is not bounded, that of processes left behind does not
  matter: `stray` says whether there is one.

### Fairness

* `WF(Expire)`: the browser runs a timer that is due, whatever the reader does. Clicks have none.
* `WF(Step)` and `WF(Timeout)`: a script that can go on does, and `subprocess.run` raises
  `TimeoutExpired` when its time is over. git and the person who starts and stops the script owe
  nothing; `RunEnds` holds with a git that never ends.
* `EvalHarness`: `WF(Timeout)`, as `subprocess.run` is called with a timeout, and `WF(Harness)`, a
  script that goes on. The agent owes nothing.
* The other specifications state safety only.

## 4. What the properties are aimed at

`PROJECT.json` lists the hazards with their lines and the properties that would notice them going
wrong. Those that have none say why: no text promises anything about the case, or its part is not
modelled yet.

## 5. What is proved

All theorems hold for every value of the constants under the `ASSUME`s of their modules: ids that
stand for "missing" are not ids, documents have the fields the scripts read, check ids are unique
and fewer than 200 in every version of the rubric (it has 36; from 200 on, rounding could complete an
audit), an override is one of its three values, the
filter value `all` is not a dimension, paths are finitely many, dotted names are sequences of
components and a file has finitely many imports.

| Module | Theorem | States | Argument |
|---|---|---|---|
| `ValidateFindings_proofs` | `TypeCorrect` | `TypeOK` | Inductive with the input assumption |
| | `NamedClashes`, `RealClashes` | `ClashesNamed`, `ClashesReal` | The stored scopes of an id are exactly the scopes of the records read that are not named; each property follows from that and from the previous records |
| | `FirstClaims` | `FirstClaimOwns` | The owner of an id is the check of the first record read that lists it; its first position is the witness, and every later record that lists the id was found owned, whichever check it is of |
| | `GateImplemented` | `GateSpec` | The errors collected so far are exactly the faults of the records read so far, in the terms of `WellFormed`; at the exit all records are read. Every other step is a stutter of `ReviewGate` |
| `ReportPage_proofs` | `PageTypes`, `ReadableFilter`, `CardCounts`, `TimedFlashes` | `TypeOK`, `FilterReadable`, `CardsKeepTheirWord`; and that a lit row has a pending timer (`LitHasTimer`) | Each handler is rewritten to one record; after `ApplyFilters` the hidden rows are those of the filter. Equal sets have equal cardinalities, so the cards need no counting |
| | `WorstFlashes` | `FlashesTheWorst` | A page that is not empty has a topmost row: the least index among the rows of the greatest rank. A finding more severe than a listed one has no more pressing findings above it than that one, so the panel has room for it too |
| | `FlashesAge` | that no click puts off the end of a flash | A timer only moves towards the head of the queue, where its expiry darkens the row; what a click appends is behind it |
| | `DesignPageTypes`, `DesignReadable` | `TypeOK`, `FilterReadable` of `DesignPage` | The whole page is a function of the filter: `DesignShown` is inductive, because each handler, rewritten to one record, ends with `ApplyFilters`. `FilterReadable` alone is not inductive: it speaks of the buttons, and the next press filters by `page.filter` |
| | `DesignSteps` | `AuditPageSteps` of `DesignPage` | The audit page's handlers, on a page in which no severity and no card was ever chosen and rows that have none, are rewritten to the same record; the two match the same rows, as a strength there is one by classification alone |
| `AuditRun_proofs` | `ReviewedAlways` | the inductive invariant `Reviewed` | What is validated or reported is well-formed, and the figures of a report are those of the documents as they stand |
| | `AuditTypes`, `FullCoverage` | `TypeOK`, `FullMeansFull` | Rounding lemma: for `0 <= part <= whole < 200`, the percentage is 100 only if `part = whole`; then a subset of full size is the whole set |
| | `AccountsNeverDisagree` | `AccountsAgree` | The five statuses part the recorded instances: the cardinalities of disjoint sets add up. The two tests for a mandatory dimension agree on the three values an override has. Where nothing is unassessed the indicator has counted every check; where the manifest is the gate's, coverage puts a record at every mandatory check |
| `DiscoverRepos_proofs` | `ScriptTypes`, `ClonesThere`, `ClonesKept` | `TypeOK`, `ClonedIsThere`, `CloneIsKept` | `GitOwnsTarget`: git runs only for the current name in a directory without a finished clone, and a git that is done left a whole one. Without it a running git might overwrite a clone reported under the same directory |
| | `NamesAnsweredOnce` | `OneAnswerEach` | `AnswerInv`: the entries so far answer, in order, the names scanned and handled so far, and no name was scanned twice |
| | `RunsNeverTurnBack` | that each step of a run brings it nearer to its end, or is one of a running git | The measure is the stage and, within it, the mentions to scan or twice the names to settle, less one while git runs. `AnswerInv` keeps it a natural number |
| `DesignReview_proofs` | `ReviewTypes` | `TypeOK` | Follows from `IInv`: documents of their types, accepted between validation and report; a report whose figures are those of the findings it lists, which had passed the gate |
| | `VerdictNotTalkedUp` | `NeverTalkedUp` | The verdict is monotone in the set of concerns; the report on disk always shows the verdict of the findings it lists |
| | `BlockersShown` | `BlockersFirst` | The sort key orders findings strictly and totally, the flagged ones first, so fewer are ahead of a flagged one than of any other; the flagged one with the fewest ahead has none and is shown |
| | `TargetsJudgedOnce`, `CoverageNeverOverstated` | `JudgedOnce`, `CoverageNotOverstated` | `StoredBefore` is shown to be defined and unfolded by induction over the records; where none is rejected all are stored, so each was compared with every earlier one. Every check without an assessed instance is subtracted at least once, as unrecorded or by an instance, so what is left is at most what was assessed, and rounding is monotone; the percentage is 100 only if nothing is subtracted, for a manifest of fewer than 200 checks |
| | `BadgesAgree` | `BadgeMeansBlocked` | What the gate let through is flagged only if it is a risk |
| `StaticAnalysis_proofs` | `RealPeople`, `HotspotsListed` | `PeopleAreReal`, `NoHotspotMissed` | The invariant `RepoInv` ties the past to today's tree (`PastKept`): a commit that changed a package names one of its files of today, unless a file left it since, and the reverse, unless a file came to it since. So people by the packages of their day are, under the premises, the authors by file; every commit that touches a package is counted at least once (a surjection from the counted pairs onto the commits); a subset of full size is the whole list |
| | `GraphIsImports` | `GraphFollowsImports` | The invariant is that the tree holds sources. A longest common prefix exists and is a prefix of every package; a proper prefix of a name is a prefix of what stands before its last dot, so an import line of a class makes an edge exactly when its package is another one inside the project. The weights at a package add up to its import lines |
| `ReportScores_proofs` | `FiguresTypes` | `TypeOK` | A figure is clamped at both ends, or a quotient of naturals; in thirteen dimensions the charge reaches 195, so both ends matter |
| | `HighNeverHidden`, `NoDimensionDecides` | `HighConcernShows`, `TwoDimensionsDecide` | A high concern costs at least 6 and all strengths together give back at most 5; one dimension costs at most 15. A penalty is at least each of its terms, and equal to the only one that is not zero |
| | `FidelityFull` | `FaithfulMeansFaithful` | Python rounds a half to even: `round(100 * (n - k) / n)` is 100 exactly if `200 * k <= n` |
| | `FixingHelps` | `FixesNeverHurt` | Removing a concern takes its weight out of one dimension's charge and nothing else; regrading moves it within its dimension, to a weight that is no larger or to none. Sums, caps and rounding are monotone |
| `EvalHarness_proofs` | `HarnessTypes` | `TypeOK` | With the invariant below: there is an outcome only between runs |
| | `OwnVerdicts`, `EarnedPasses`, `QuietPasses` | `VerdictOnOwnWork`, `PassIsEarned`, `QuietPassIsClean` | What is in the run directory was written in this run; a changed fixture is warned about before the gate runs, or was changed after it was looked at, and the warning stays until the verdict; what is graded is what the gate accepted |

`FaithfulMeansFaithful` says one claim in two hundred and not none because that is what the
rounding gives: the proof of "none" fails at 200 claims of which one is wrong, where the report
does print 100%. The rubric has nothing that bounds the number of claims.

How induction is done. The library's induction theorems take the predicate as an operator, which
the installed provers cannot instantiate. Here the predicate is the set of the elements that
satisfy it: by `WFMin` a well-founded relation has a minimal element in the set of those that do
not, which is then shown to be empty. Over naturals this gives least elements (the first of a
list, the topmost row, the longest prefix), over the subsets of a finite set it gives what is
needed of sums (`SubsetInduction`, `EdgeInduction`). A sum is a fold, which is the choice of a
function that satisfies a recursive equation, so it has first to be shown that one does and that
any two agree: `FoldExists` and `FoldsAgree` build the function for any summand, and
`SumCountsLines` gives it outright, as the number of import lines.

Two theorems are about assumptions that were found missing while proving: that the documents an
agent drafts are made of check records (`DocumentsAssumption`, `PanelAssumption`) and that a
fixture either is in a work tree or is not (`InGitAssumption`). TLC checks them in every run of
their modules.

Only model-checked: `FlashEnds` and both `RunEnds`, as liveness is outside the prover's reach. What
two of them rest on is proved: by `FlashesAge` a flash can only come nearer to its end, and by
`RunsNeverTurnBack` a run of the discovery script too, except while it waits for git. Fairness adds
that a timer which is due expires, that the script goes on and that its timeout fires.

The theorems about `DesignPage` stand in `ReportPage_proofs`, which instantiates it as `Design` with
the audit page's variables: they have the same names and roles, and `DesignSteps` is about both
pages. An instance's `ASSUME` is not available to the prover, so the three theorems have
`Design!PageInput` as hypothesis: the formula that `DesignPage` assumes of its constants and that
TLC evaluates in `design_page`.

## 6. Not modelled

* `extract_pptx_text.py`, the lists of busiest and largest packages, class counts and example lines
  of the dependency graph, page layout: formatting and one-pass I/O, with no state and no order to
  get wrong. Slides and notes are numbered by whatever program wrote the file, which the code takes
  at its word.
* `--path` of the churn script and `--prefix` of the graph script, which the workflow does not use.
* The agent: its analysis, the patcher's procedure, the examples and the validation notes.
* A `checks.json` that is `{}`: for the gate that is a list without records, for the report (195, 368)
  no checks at all, so it leaves the coverage out.
* A process that outlives claude and rewrites the documents of its run between the gate and the
  grading. The harness model lets such a process change the fixture, at any time and in any run, and
  takes the documents to be complete when claude is gone.
* Malformed JSON, documents that change while a script reads them, and paths outside the
  repository root.

## 7. Plan

Done, in this order: the audit gate and its abstract specification, the page, the coverage of an
audit, discovery, the design review, and first theorems for each; the scores and the evaluation
harness, with the theorems of the harness; churn, the dependency graph and the panel made of
them, with their theorems; the page of the design review; then the theorems about every safety
property, the design page's last.

Next, by what a mistake would cost:

1. Discovery composed with the design review's gate: evidence in a repository that was cloned by
   other means, and what the roots in `repos.json` say after a rerun.
2. `EvalHarness` over the loops of the gate and the report's own manifest, so that a pass and the
   coverage a reader sees can be related.
