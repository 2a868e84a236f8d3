----------------------------- MODULE DesignPage -----------------------------
(***************************************************************************)
(* design-review-report.html, the page that                                *)
(* scripts/generate_design_review_report.py writes: rows in the order of   *)
(* the findings, two filter bars, three numbers, key findings that lead to *)
(* their rows.  Its script is a shorter cousin of the audit page's, typed  *)
(* a second time; no code is shared.  The findings are those the gate lets *)
(* through; any risk or open question may be among the key findings.       *)
(*                                                                         *)
(* A definition marked "variant" is what the one below it would be with a  *)
(* plausible mistake in the code; no action uses it.                       *)
(***************************************************************************)
EXTENDS Naturals, Sequences, FiniteSets

CONSTANTS
  Reports,     \* the lists of findings the page may be generated from
  Dimension,   \* the keys of DIMENSION_LABEL
  Fit,         \* the dimension of a finding that names none
  Absent,      \* a dimension that is null
  MaxTimers    \* bound: flashes that have not ended yet

Classes == {"risk", "open-question", "strength"}

Finding == [classification : Classes, dimension : Dimension \cup {Absent}]

PageInput ==
  /\ Reports \subseteq Seq(Finding)
  /\ Fit \in Dimension /\ "all" \notin Dimension
  /\ MaxTimers \in Nat

ASSUME PageAssumption == PageInput

VARIABLES
  findings,   \* the row of findings[i] is row i
  page,       \* the filter, the active buttons of each bar, the hidden rows
  lit,        \* rows with class "flash"
  timers      \* rows whose flash a pending timer will end, oldest first

vars == <<findings, page, lit, timers>>

Rows == DOMAIN findings

Dim(f) == IF f.dimension = Absent THEN Fit ELSE f.dimension

\* n_risk, n_open, n_strength
Count(c) == Cardinality({i \in Rows : findings[i].classification = c})

---------------------------------------------------------------------------
(* The page's script; a filter bar is named by its data-filter-group. *)

Matches(f, filter) ==
  filter.cls \in {"all", f.classification} /\ filter.dim \in {"all", Dim(f)}

ApplyFilters(p) ==
  [p EXCEPT !.hidden = {i \in Rows : ~Matches(findings[i], p.filter)}]

PressAnyBar(p, group, v) ==                                           \* variant
  ApplyFilters([p EXCEPT !.filter[group] = v,
                         !.active = [g \in {"cls", "dim"} |-> IF g = group THEN {v} ELSE {}]])
Press(p, group, v) ==
  ApplyFilters([p EXCEPT !.filter[group] = v, !.active[group] = {v}])

ShowTypeOnly(p) == Press(p, "cls", "all")                             \* variant
ShowAll(p) == Press(Press(p, "cls", "all"), "dim", "all")

Init ==
  /\ findings \in Reports
  /\ page = [filter |-> [cls |-> "all", dim |-> "all"],
             active |-> [cls |-> {"all"}, dim |-> {"all"}], hidden |-> {}]
  /\ lit = {}
  /\ timers = <<>>

ClickFilter(group, v) ==
  /\ page' = Press(page, group, v)
  /\ UNCHANGED <<findings, lit, timers>>

ClickKeyLink(i) ==
  /\ Len(timers) < MaxTimers
  /\ findings[i].classification \in {"risk", "open-question"}
  /\ page' = ShowAll(page)
  /\ lit' = lit \cup {i}
  /\ timers' = Append(timers, i)
  /\ UNCHANGED findings

ToggleFlash(i) == IF i \in lit THEN lit \ {i} ELSE lit \cup {i}       \* variant
EndFlash(i) == lit \ {i}

Expire ==
  /\ timers # <<>>
  /\ lit' = EndFlash(Head(timers))
  /\ timers' = Tail(timers)
  /\ UNCHANGED <<findings, page>>

Next ==
  \/ \E c \in Classes \cup {"all"} : ClickFilter("cls", c)
  \/ \E d \in Dimension \cup {"all"} : ClickFilter("dim", d)
  \/ \E i \in Rows : ClickKeyLink(i)
  \/ Expire

Spec == Init /\ [][Next]_vars

---------------------------------------------------------------------------
(* Properties. *)

TypeOK ==
  /\ findings \in Seq(Finding)
  /\ page \in [filter : [cls : Classes \cup {"all"}, dim : Dimension \cup {"all"}],
               active : [cls : SUBSET (Classes \cup {"all"}),
                         dim : SUBSET (Dimension \cup {"all"})],
               hidden : SUBSET Rows]
  /\ timers \in Seq(Rows)
  /\ lit \subseteq {timers[t] : t \in DOMAIN timers}

\* Whatever was clicked before, the one active button of each bar tells which
\* rows are on screen, and when these are the rows of a type in all dimensions
\* there are as many as the number Python printed above the type.
FilterReadable ==
  \E c \in Classes \cup {"all"}, d \in Dimension \cup {"all"} :
    /\ page.active = [cls |-> {c}, dim |-> {d}]
    /\ page.hidden = {i \in Rows : ~Matches(findings[i], [cls |-> c, dim |-> d])}
    /\ c # "all" /\ d = "all" => Cardinality(Rows \ page.hidden) = Count(c)

\* The page seen as an audit page whose cards and columns nobody clicks.
P == INSTANCE ReportPage WITH
       Reports <- {},
       findings <- [i \in Rows |-> [classification |-> findings[i].classification,
                                    dimension |-> findings[i].dimension,
                                    severity |-> Absent, tagged |-> FALSE]],
       Correctness <- Fit, KeyLimit <- 0,
       page <- [cls |-> page.filter.cls, dim |-> page.filter.dim, sev |-> "all",
                activeCls |-> page.active.cls, activeDim |-> page.active.dim,
                selected |-> <<"none", "none">>, hidden |-> page.hidden]

\* Both pages do the same on the clicks they share: every step of this page is
\* a step of the audit page's handlers, a key link resets all filters although
\* it touches neither a severity nor the row's own visibility, and only a click
\* on one of them or a timer changes the page.
AuditPageSteps ==
  [][\/ \E c \in Classes \cup {"all"} : P!ClickCls(c)
     \/ \E d \in Dimension \cup {"all"} : P!ClickDim(d)
     \/ \E i \in Rows : P!ClickKeyLink(i)
     \/ P!Expire]_vars
=============================================================================
