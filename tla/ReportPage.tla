---------------------------- MODULE ReportPage ----------------------------
(***************************************************************************)
(* report.html, the page scripts/generate_report.py writes: the rows and   *)
(* the numbers Python renders from findings.json, and the script that      *)
(* filters the rows.  A click runs its handler to the end, the handlers it *)
(* triggers with .click() included, so every click is one action; only the *)
(* timers that end a flash run later.  The findings are those the gate of  *)
(* ValidateFindings lets through, which is what the workflow feeds it.     *)
(*                                                                         *)
(* The counts on the cards come from Python and the rows a click shows     *)
(* from JavaScript: nothing in the code ties the two.                      *)
(*                                                                         *)
(* A definition marked "variant" is what the one below it would be with a  *)
(* plausible mistake in the code; no action uses it.                       *)
(***************************************************************************)
EXTENDS Naturals, Sequences, FiniteSets

CONSTANTS
  Reports,        \* the lists of findings the page may be generated from
  Dimension,      \* the keys of DIMENSION_LABEL
  Correctness,    \* the dimension of a finding that names none
  Absent,         \* a field that is null or missing
  KeyLimit,       \* how many findings the key panel shows
  MaxTimers       \* bound: flashes that have not ended yet

Classes    == {"risk", "strength", "confirmed", "gap", "misaligned"}
Severities == {"high", "medium", "low", "info"}

ReportFinding == [classification : Classes,
                  severity  : Severities \cup {Absent},
                  dimension : Dimension \cup {Absent},
                  tagged    : BOOLEAN]   \* finding_type = "architecture-strength"

ASSUME ReportsAssumption == Reports \subseteq Seq(ReportFinding)
ASSUME CorrectnessAssumption == Correctness \in Dimension
ASSUME AllIsNoDimension == "all" \notin Dimension
ASSUME TimersAssumption == MaxTimers \in Nat /\ KeyLimit \in Nat

VARIABLES
  findings,   \* findings.json; the row of findings[i] is row i
  page,       \* the filter state, the buttons, the selected card, the rows
  lit,        \* rows with class "flash"
  timers      \* rows whose flash a pending timer will end, oldest first

vars == <<findings, page, lit, timers>>

---------------------------------------------------------------------------
(* Rendering. *)

Rows == DOMAIN findings

SeverityRank == [high |-> 3, medium |-> 2, low |-> 1, info |-> 0]

Sev(f) == IF f.severity = Absent THEN "info" ELSE f.severity
Dim(f) == IF f.dimension = Absent THEN Correctness ELSE f.dimension
Rank(f) == SeverityRank[Sev(f)]

IsStrength(f) == f.classification = "strength" \/ f.tagged

\* Rows are grouped by severity, in the order of the findings inside a group.
Above(i, j) ==
  \/ Rank(findings[i]) > Rank(findings[j])
  \/ Rank(findings[i]) = Rank(findings[j]) /\ i < j

\* The number on a stat card; a strength may be counted twice.
CountByClass(k) == Cardinality({i \in Rows : findings[i].classification = k})  \* variant
StatCount(k) ==
  Cardinality({i \in Rows : IF k = "strength" THEN IsStrength(findings[i])
                            ELSE findings[i].classification = k})

\* The number on a severity column.
SevCount(sv) == Cardinality({i \in Rows : Sev(findings[i]) = sv})

\* The key panel: the first KeyLimit of the pressing findings, most severe first.
Pressing ==
  {i \in Rows : /\ findings[i].classification \in {"risk", "misaligned", "gap"}
                /\ Rank(findings[i]) >= 2}

KeyFindings ==
  {i \in Pressing : Cardinality({j \in Pressing : Above(j, i)}) < KeyLimit}

---------------------------------------------------------------------------
(* The page's script. *)

NoCard == <<"none", "none">>

MatchCls(f, cls) ==
  \/ cls = "all"
  \/ cls = "strength" /\ (f.classification = "strength" \/ IsStrength(f))
  \/ cls # "strength" /\ f.classification = cls

Matches(f, p) ==
  /\ MatchCls(f, p.cls)
  /\ p.dim \in {"all", Dim(f)}
  /\ p.sev \in {"all", Sev(f)}

ApplyFilters(p) ==
  [p EXCEPT !.hidden = {i \in Rows : ~Matches(findings[i], p)}]

\* The handler of a filter button, run by the user or by another handler.
PressCls(p, c) ==
  ApplyFilters([p EXCEPT !.activeCls = {c}, !.cls = c])
PressDim(p, d) ==
  ApplyFilters([p EXCEPT !.activeDim = {d}, !.dim = d])

PressAll(p) == PressDim(PressCls(p, "all"), "all")

StatCardSetsSev(p, k) ==                                       \* variant
  ApplyFilters(PressDim([p EXCEPT !.selected = <<"cls", k>>, !.cls = "all",
                                  !.sev = k, !.activeCls = {k}], "all"))
StatCard(p, k) ==
  LET q == [p EXCEPT !.selected = <<"cls", k>>, !.sev = "all",
                     !.cls = k, !.activeCls = {k}]
  IN  ApplyFilters(PressDim(q, "all"))

SevCol(p, sv) ==
  LET q == [p EXCEPT !.selected = <<"sev", sv>>, !.cls = "all", !.sev = sv]
  IN  ApplyFilters([PressAll(q) EXCEPT !.sev = sv])

KeyLinkKeepsSev(p, i) ==                                       \* variant
  [PressAll([p EXCEPT !.selected = NoCard]) EXCEPT !.hidden = @ \ {i}]
KeyLink(p, i) ==
  LET q == ApplyFilters([PressAll([p EXCEPT !.selected = NoCard]) EXCEPT !.sev = "all"])
  IN  [q EXCEPT !.hidden = @ \ {i}]

Visible(p) == Rows \ p.hidden

\* The rows scrollToFirstMatch may go to: the topmost visible one, or none.
FirstFound(p) == {i \in Visible(p) : \A j \in Visible(p) : i <= j}   \* variant
FirstMatch(p) == {i \in Visible(p) : \A j \in Visible(p) : ~Above(j, i)}

Flash(S) ==
  /\ lit' = lit \cup S
  /\ \/ S = {} /\ timers' = timers
     \/ \E i \in S : timers' = Append(timers, i)

---------------------------------------------------------------------------
Init ==
  /\ findings \in Reports
  /\ page = [cls |-> "all", dim |-> "all", sev |-> "all", activeCls |-> {"all"},
             activeDim |-> {"all"}, selected |-> NoCard, hidden |-> {}]
  /\ lit = {}
  /\ timers = <<>>

ClickCls(c) ==
  /\ page' = PressCls(page, c)
  /\ UNCHANGED <<findings, lit, timers>>

ClickDim(d) ==
  /\ page' = PressDim(page, d)
  /\ UNCHANGED <<findings, lit, timers>>

ClickStatCard(k) ==
  /\ Len(timers) < MaxTimers
  /\ page' = StatCard(page, k)
  /\ Flash(FirstMatch(page'))
  /\ UNCHANGED findings

ClickSevCol(sv) ==
  /\ Len(timers) < MaxTimers
  /\ page' = SevCol(page, sv)
  /\ Flash(FirstMatch(page'))
  /\ UNCHANGED findings

ClickKeyLink(i) ==
  /\ Len(timers) < MaxTimers
  /\ page' = KeyLink(page, i)
  /\ Flash({i})
  /\ UNCHANGED findings

ToggleFlash(i) == IF i \in lit THEN lit \ {i} ELSE lit \cup {i}    \* variant
EndFlash(i) == lit \ {i}

\* Every timer runs for the same two seconds, so the oldest is the next to end.
Expire ==
  /\ timers # <<>>
  /\ lit' = EndFlash(Head(timers))
  /\ timers' = Tail(timers)
  /\ UNCHANGED <<findings, page>>

Next ==
  \/ \E c \in Classes \cup {"all"} : ClickCls(c)
  \/ \E d \in Dimension \cup {"all"} : ClickDim(d)
  \/ \E k \in Classes : ClickStatCard(k)
  \/ \E sv \in Severities : ClickSevCol(sv)
  \/ \E i \in KeyFindings : ClickKeyLink(i)
  \/ Expire

\* The browser runs a timer that is due; nobody has to click.
Spec == Init /\ [][Next]_vars /\ WF_vars(Expire)

---------------------------------------------------------------------------
(* Properties. *)

Cards == {NoCard} \cup {"cls"} \X Classes \cup {"sev"} \X Severities

Page == [cls : Classes \cup {"all"}, dim : Dimension \cup {"all"},
         sev : Severities \cup {"all"}, activeCls : SUBSET (Classes \cup {"all"}),
         activeDim : SUBSET (Dimension \cup {"all"}),
         selected : Cards, hidden : SUBSET Rows]

TypeOK ==
  /\ findings \in Seq(ReportFinding)
  /\ page \in Page
  /\ lit \subseteq Rows
  /\ timers \in Seq(Rows)

\* Whatever was clicked before, the rows on screen are exactly those of the
\* filter in force, and that filter can be read off the page: the one lit
\* button of each bar, and the selected column for the severity, which no
\* button shows and no button resets.
FilterReadable ==
  /\ page.hidden = {i \in Rows : ~Matches(findings[i], page)}
  /\ page.activeCls = {page.cls}
  /\ page.activeDim = {page.dim}
  /\ \A sv \in Severities : page.sev = sv <=> page.selected = <<"sev", sv>>

\* A card keeps its word from any state of the page: after a click on a stat
\* card or a severity column as many rows are left as the number Python
\* printed on it, double-counted strengths and default severities included.
CardsKeepTheirWord ==
  [][/\ \A k \in Classes :
          ClickStatCard(k) => Cardinality(Visible(page')) = StatCount(k)
     /\ \A sv \in Severities :
          ClickSevCol(sv) => Cardinality(Visible(page')) = SevCount(sv)]_vars

\* A click that flashes a row flashes one the reader can see; after a card no
\* row left on screen is more severe, and a key finding is on screen, with all
\* the others, whatever its link was clicked after, while no finding that the
\* panel has no room for is more severe.
FlashesTheWorst ==
  [][/\ Len(timers') > Len(timers)
          => timers'[Len(timers')] \in lit' \cap Visible(page')
     /\ (\E k \in Classes : ClickStatCard(k)) \/ (\E sv \in Severities : ClickSevCol(sv))
          => \A j \in Visible(page') :
               /\ Len(timers') > Len(timers)
               /\ Rank(findings[timers'[Len(timers')]]) >= Rank(findings[j])
     /\ \A i \in KeyFindings :
          ClickKeyLink(i) =>
            /\ timers'[Len(timers')] = i /\ page'.hidden = {}
            /\ \A j \in Pressing \ KeyFindings : Rank(findings[i]) >= Rank(findings[j])]_vars

\* A flash always ends, however clicks and timers interleave.
FlashEnds == \A i \in UNION {DOMAIN r : r \in Reports} : i \in lit ~> i \notin lit

\* A row is lit only while a timer that will darken it is pending.
LitHasTimer == lit \subseteq {timers[t] : t \in DOMAIN timers}
===========================================================================
