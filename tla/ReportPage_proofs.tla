------------------------- MODULE ReportPage_proofs -------------------------
(***************************************************************************)
(* Proofs about ReportPage, for every list of findings and any number of   *)
(* clicks.  The handlers update the page record field by field and call    *)
(* each other; the first lemmas compute the fields of the page each one    *)
(* leaves, and the rest of the proofs reads those fields only.             *)
(*                                                                         *)
(* The last section is about DesignPage, the shorter cousin: its state is  *)
(* this page's, so what its script does can be compared with what this     *)
(* one's would do.                                                         *)
(***************************************************************************)
EXTENDS ReportPage, FiniteSetTheorems, WellFoundedInduction, TLAPS

\* A record with a page's fields, of any type, and what its filter hides.
Fields(p) ==
  p = [cls |-> p.cls, dim |-> p.dim, sev |-> p.sev, activeCls |-> p.activeCls,
       activeDim |-> p.activeDim, selected |-> p.selected, hidden |-> p.hidden]

Hides(p) == {i \in Rows : ~Matches(findings[i], p)}

LEMMA PageFields ==
  ASSUME TypeOK
  PROVE  Fields(page)
  BY DEF TypeOK, Page, Fields

LEMMA ApplyFiltersPage ==
  ASSUME NEW p, Fields(p)
  PROVE  LET q == ApplyFilters(p) IN
           /\ Fields(q)
           /\ q.cls = p.cls /\ q.dim = p.dim /\ q.sev = p.sev
           /\ q.activeCls = p.activeCls /\ q.activeDim = p.activeDim
           /\ q.selected = p.selected
           /\ q.hidden = Hides(q)
<1> DEFINE q == ApplyFilters(p)
<1>1. q = [p EXCEPT !.hidden = Hides(p)]
  BY DEF ApplyFilters, Hides
<1>2. /\ Fields(q)
      /\ q.cls = p.cls /\ q.dim = p.dim /\ q.sev = p.sev
      /\ q.activeCls = p.activeCls /\ q.activeDim = p.activeDim
      /\ q.selected = p.selected
      /\ q.hidden = Hides(p)
  BY <1>1 DEF Fields
<1>3. Hides(p) = Hides(q)
  BY <1>2 DEF Hides, Matches
<1> QED
  BY <1>2, <1>3

\* What each handler leaves, whatever the page was.
LEMMA PressClsPage ==
  ASSUME NEW p, Fields(p), NEW c
  PROVE  LET q == PressCls(p, c) IN
           /\ Fields(q)
           /\ q.cls = c /\ q.dim = p.dim /\ q.sev = p.sev
           /\ q.activeCls = {c} /\ q.activeDim = p.activeDim
           /\ q.selected = p.selected
           /\ q.hidden = Hides(q)
<1> DEFINE r0 == [p EXCEPT !.activeCls = {c}]
           r == [p EXCEPT !.activeCls = {c}, !.cls = c]
<1>1. /\ Fields(r)
      /\ r.cls = c /\ r.dim = p.dim /\ r.sev = p.sev
      /\ r.activeCls = {c} /\ r.activeDim = p.activeDim /\ r.selected = p.selected
  <2>1. r = [r0 EXCEPT !.cls = c]
    OBVIOUS
  <2>2. /\ Fields(r0)
        /\ r0.dim = p.dim /\ r0.sev = p.sev
        /\ r0.activeCls = {c} /\ r0.activeDim = p.activeDim /\ r0.selected = p.selected
    BY DEF Fields
  <2> HIDE DEF r, r0
  <2> QED
    BY <2>1, <2>2 DEF Fields
<1> HIDE DEF r
<1>2. PressCls(p, c) = ApplyFilters(r)
  BY DEF PressCls, r
<1> QED
  BY <1>1, <1>2, ApplyFiltersPage

LEMMA PressDimPage ==
  ASSUME NEW p, Fields(p), NEW d
  PROVE  LET q == PressDim(p, d) IN
           /\ Fields(q)
           /\ q.cls = p.cls /\ q.dim = d /\ q.sev = p.sev
           /\ q.activeCls = p.activeCls /\ q.activeDim = {d}
           /\ q.selected = p.selected
           /\ q.hidden = Hides(q)
<1> DEFINE r0 == [p EXCEPT !.activeDim = {d}]
           r == [p EXCEPT !.activeDim = {d}, !.dim = d]
<1>1. /\ Fields(r)
      /\ r.cls = p.cls /\ r.dim = d /\ r.sev = p.sev
      /\ r.activeCls = p.activeCls /\ r.activeDim = {d} /\ r.selected = p.selected
  <2>1. r = [r0 EXCEPT !.dim = d]
    OBVIOUS
  <2>2. /\ Fields(r0)
        /\ r0.cls = p.cls /\ r0.sev = p.sev
        /\ r0.activeCls = p.activeCls /\ r0.activeDim = {d} /\ r0.selected = p.selected
    BY DEF Fields
  <2> HIDE DEF r, r0
  <2> QED
    BY <2>1, <2>2 DEF Fields
<1> HIDE DEF r
<1>2. PressDim(p, d) = ApplyFilters(r)
  BY DEF PressDim, r
<1> QED
  BY <1>1, <1>2, ApplyFiltersPage

LEMMA StatCardPage ==
  ASSUME NEW p, Fields(p), NEW k
  PROVE  LET q == StatCard(p, k) IN
           /\ Fields(q)
           /\ q.cls = k /\ q.dim = "all" /\ q.sev = "all"
           /\ q.activeCls = {k} /\ q.activeDim = {"all"}
           /\ q.selected = <<"cls", k>>
           /\ q.hidden = Hides(q)
<1> DEFINE r == [p EXCEPT !.selected = <<"cls", k>>, !.sev = "all",
                          !.cls = k, !.activeCls = {k}]
<1>1. /\ Fields(r)
      /\ r.cls = k /\ r.sev = "all" /\ r.activeCls = {k} /\ r.selected = <<"cls", k>>
  <2> DEFINE r1 == [p EXCEPT !.selected = <<"cls", k>>]
             r2 == [r1 EXCEPT !.sev = "all"]
             r3 == [r2 EXCEPT !.cls = k]
  <2>1. r = [r3 EXCEPT !.activeCls = {k}]
    OBVIOUS
  <2>2. Fields(r1) /\ r1.selected = <<"cls", k>>
    BY DEF Fields
  <2> HIDE DEF r, r1
  <2>3. Fields(r2) /\ r2.selected = <<"cls", k>> /\ r2.sev = "all"
    BY <2>2 DEF Fields
  <2> HIDE DEF r2
  <2>4. Fields(r3) /\ r3.selected = <<"cls", k>> /\ r3.sev = "all" /\ r3.cls = k
    BY <2>3 DEF Fields
  <2> HIDE DEF r3
  <2> QED
    BY <2>1, <2>4 DEF Fields
<1> HIDE DEF r
<1>2. StatCard(p, k) = ApplyFilters(PressDim(r, "all"))
  BY DEF StatCard, r
<1> QED
  BY <1>1, <1>2, PressDimPage, ApplyFiltersPage

LEMMA PressAllPage ==
  ASSUME NEW p, Fields(p)
  PROVE  LET q == PressAll(p) IN
           /\ Fields(q)
           /\ q.cls = "all" /\ q.dim = "all" /\ q.sev = p.sev
           /\ q.activeCls = {"all"} /\ q.activeDim = {"all"}
           /\ q.selected = p.selected
  BY PressClsPage, PressDimPage DEF PressAll

LEMMA SevColPage ==
  ASSUME NEW p, Fields(p), NEW sv
  PROVE  LET q == SevCol(p, sv) IN
           /\ Fields(q)
           /\ q.cls = "all" /\ q.dim = "all" /\ q.sev = sv
           /\ q.activeCls = {"all"} /\ q.activeDim = {"all"}
           /\ q.selected = <<"sev", sv>>
           /\ q.hidden = Hides(q)
<1> DEFINE r == [p EXCEPT !.selected = <<"sev", sv>>, !.cls = "all", !.sev = sv]
           t == [PressAll(r) EXCEPT !.sev = sv]
<1>1. Fields(r) /\ r.selected = <<"sev", sv>>
  <2> DEFINE r1 == [p EXCEPT !.selected = <<"sev", sv>>]
             r2 == [r1 EXCEPT !.cls = "all"]
  <2>1. r = [r2 EXCEPT !.sev = sv]
    OBVIOUS
  <2>2. Fields(r1) /\ r1.selected = <<"sev", sv>>
    BY DEF Fields
  <2> HIDE DEF r, r1
  <2>3. Fields(r2) /\ r2.selected = <<"sev", sv>>
    BY <2>2 DEF Fields
  <2> HIDE DEF r2
  <2> QED
    BY <2>1, <2>3 DEF Fields
<1>2. /\ Fields(PressAll(r)) /\ PressAll(r).selected = <<"sev", sv>>
      /\ PressAll(r).cls = "all" /\ PressAll(r).dim = "all"
      /\ PressAll(r).activeCls = {"all"} /\ PressAll(r).activeDim = {"all"}
  BY <1>1, PressAllPage
<1>3. /\ Fields(t)
      /\ t.cls = "all" /\ t.dim = "all" /\ t.sev = sv
      /\ t.activeCls = {"all"} /\ t.activeDim = {"all"} /\ t.selected = <<"sev", sv>>
  BY <1>2 DEF Fields
<1>4. SevCol(p, sv) = ApplyFilters(t)
  BY DEF SevCol
<1> HIDE DEF t
<1> QED
  BY <1>3, <1>4, ApplyFiltersPage

LEMMA KeyLinkPage ==
  ASSUME NEW p, Fields(p), NEW i
  PROVE  LET q == KeyLink(p, i) IN
           /\ Fields(q)
           /\ q.cls = "all" /\ q.dim = "all" /\ q.sev = "all"
           /\ q.activeCls = {"all"} /\ q.activeDim = {"all"}
           /\ q.selected = NoCard
           /\ q.hidden = {} /\ Hides(q) = {}
<1> DEFINE r == [p EXCEPT !.selected = NoCard]
           t == [PressAll(r) EXCEPT !.sev = "all"]
           u == ApplyFilters(t)
<1>1. Fields(r) /\ r.selected = NoCard
  BY DEF Fields
<1>2. /\ Fields(PressAll(r)) /\ PressAll(r).selected = NoCard
      /\ PressAll(r).cls = "all" /\ PressAll(r).dim = "all"
      /\ PressAll(r).activeCls = {"all"} /\ PressAll(r).activeDim = {"all"}
  BY <1>1, PressAllPage
<1>3. /\ Fields(t)
      /\ t.cls = "all" /\ t.dim = "all" /\ t.sev = "all"
      /\ t.activeCls = {"all"} /\ t.activeDim = {"all"} /\ t.selected = NoCard
  BY <1>2 DEF Fields
<1>4. KeyLink(p, i) = [u EXCEPT !.hidden = u.hidden \ {i}]
  BY DEF KeyLink
<1> HIDE DEF t
<1>5. /\ Fields(u)
      /\ u.cls = "all" /\ u.dim = "all" /\ u.sev = "all"
      /\ u.activeCls = {"all"} /\ u.activeDim = {"all"}
      /\ u.selected = NoCard /\ u.hidden = Hides(u)
  BY <1>3, ApplyFiltersPage
<1> HIDE DEF u
<1>6. ASSUME NEW q, q.cls = "all", q.dim = "all", q.sev = "all"
      PROVE  Hides(q) = {}
  BY <1>6 DEF Hides, Matches, MatchCls
<1>7. u.hidden = {}
  BY <1>5, <1>6
<1>8. LET q == [u EXCEPT !.hidden = u.hidden \ {i}] IN
        /\ Fields(q)
        /\ q.cls = "all" /\ q.dim = "all" /\ q.sev = "all"
        /\ q.activeCls = {"all"} /\ q.activeDim = {"all"}
        /\ q.selected = NoCard /\ q.hidden = {}
  BY <1>5, <1>7 DEF Fields
<1> QED
  BY <1>4, <1>6, <1>8

\* The fields of a page are of their types.
LEMMA FieldTypes ==
  ASSUME TypeOK
  PROVE  /\ page.cls \in Classes \cup {"all"} /\ page.dim \in Dimension \cup {"all"}
         /\ page.sev \in Severities \cup {"all"}
         /\ page.activeCls \in SUBSET (Classes \cup {"all"})
         /\ page.activeDim \in SUBSET (Dimension \cup {"all"})
         /\ page.selected \in Cards /\ page.hidden \in SUBSET Rows
  BY DEF TypeOK, Page

LEMMA TypedPage ==
  ASSUME NEW p, Fields(p),
         p.cls \in Classes \cup {"all"}, p.dim \in Dimension \cup {"all"},
         p.sev \in Severities \cup {"all"},
         p.activeCls \in SUBSET (Classes \cup {"all"}),
         p.activeDim \in SUBSET (Dimension \cup {"all"}),
         p.selected \in Cards, p.hidden = Hides(p) \/ p.hidden = {}
  PROVE  p \in Page
<1>1. p.hidden \in SUBSET Rows
  BY DEF Hides
<1> QED
  BY <1>1 DEF Page, Fields

---------------------------------------------------------------------------
(* Safety. *)

LEMMA InitTypes == Init => TypeOK
  BY ReportsAssumption DEF Init, TypeOK, Page, Cards

LEMMA FlashTypes ==
  ASSUME TypeOK, UNCHANGED findings, NEW S \in SUBSET Rows, Flash(S)
  PROVE  lit' \subseteq Rows' /\ timers' \in Seq(Rows')
<1>1. \A i \in S : Append(timers, i) \in Seq(Rows)
  BY DEF TypeOK
<1>2. lit' \subseteq Rows /\ timers' \in Seq(Rows)
  BY <1>1 DEF TypeOK, Flash
<1> QED
  BY <1>2 DEF Rows

LEMMA StepTypes ==
  ASSUME TypeOK, [Next]_vars
  PROVE  TypeOK'
<1>1. ASSUME NEW c \in Classes \cup {"all"}, ClickCls(c)
      PROVE  TypeOK'
  <2>1. PressCls(page, c) \in Page
    BY PageFields, FieldTypes, PressClsPage, TypedPage
  <2> QED
    BY <1>1, <2>1 DEF ClickCls, TypeOK, Page, Rows
<1>2. ASSUME NEW d \in Dimension \cup {"all"}, ClickDim(d)
      PROVE  TypeOK'
  <2>1. PressDim(page, d) \in Page
    BY PageFields, FieldTypes, PressDimPage, TypedPage
  <2> QED
    BY <1>2, <2>1 DEF ClickDim, TypeOK, Page, Rows
<1>3. \A p : FirstMatch(p) \in SUBSET Rows
  BY DEF FirstMatch, Visible
<1>4. ASSUME NEW k \in Classes, ClickStatCard(k)
      PROVE  TypeOK'
  <2>1. <<"cls", k>> \in Cards
    BY DEF Cards
  <2>2. StatCard(page, k) \in Page
    BY <2>1, PageFields, StatCardPage, TypedPage
  <2> QED
    BY <1>3, <1>4, <2>2, FlashTypes DEF ClickStatCard, TypeOK, Page, Rows
<1>5. ASSUME NEW sv \in Severities, ClickSevCol(sv)
      PROVE  TypeOK'
  <2>1. <<"sev", sv>> \in Cards
    BY DEF Cards
  <2>2. SevCol(page, sv) \in Page
    BY <2>1, PageFields, SevColPage, TypedPage
  <2> QED
    BY <1>3, <1>5, <2>2, FlashTypes DEF ClickSevCol, TypeOK, Page, Rows
<1>6. ASSUME NEW i \in KeyFindings, ClickKeyLink(i)
      PROVE  TypeOK'
  <2>1. NoCard \in Cards /\ {i} \in SUBSET Rows
    BY DEF Cards, KeyFindings, Pressing
  <2>2. KeyLink(page, i) \in Page
    BY <2>1, PageFields, KeyLinkPage, TypedPage
  <2> QED
    BY <1>6, <2>1, <2>2, FlashTypes DEF ClickKeyLink, TypeOK, Page, Rows
<1>7. CASE Expire
  <2>1. Tail(timers) \in Seq(Rows)
    BY <1>7 DEF Expire, TypeOK
  <2> QED
    BY <1>7, <2>1 DEF Expire, EndFlash, TypeOK, Page, Rows
<1>8. CASE UNCHANGED vars
  BY <1>8 DEF vars, TypeOK, Page, Rows
<1> QED
  BY <1>1, <1>2, <1>4, <1>5, <1>6, <1>7, <1>8 DEF Next

\* The page's state keeps its types, for any findings and any clicks.
THEOREM PageTypes == Spec => []TypeOK
  BY InitTypes, StepTypes, PTL DEF Spec

LEMMA InitReadable == Init => FilterReadable
  BY DEF Init, FilterReadable, Matches, MatchCls, NoCard, Severities

LEMMA StepReadable ==
  ASSUME TypeOK, FilterReadable, [Next]_vars
  PROVE  FilterReadable'
<1>1. ASSUME NEW c \in Classes \cup {"all"}, ClickCls(c)
      PROVE  FilterReadable'
  <2>1. LET q == PressCls(page, c) IN
          /\ q.hidden = Hides(q) /\ q.activeCls = {q.cls} /\ q.activeDim = {q.dim}
          /\ q.sev = page.sev /\ q.selected = page.selected
    BY PageFields, PressClsPage DEF FilterReadable
  <2> QED
    BY <1>1, <2>1 DEF ClickCls, FilterReadable, Hides, Rows
<1>2. ASSUME NEW d \in Dimension \cup {"all"}, ClickDim(d)
      PROVE  FilterReadable'
  <2>1. LET q == PressDim(page, d) IN
          /\ q.hidden = Hides(q) /\ q.activeCls = {q.cls} /\ q.activeDim = {q.dim}
          /\ q.sev = page.sev /\ q.selected = page.selected
    BY PageFields, PressDimPage DEF FilterReadable
  <2> QED
    BY <1>2, <2>1 DEF ClickDim, FilterReadable, Hides, Rows
<1>3. ASSUME NEW k \in Classes, ClickStatCard(k)
      PROVE  FilterReadable'
  <2>1. LET q == StatCard(page, k) IN
          /\ q.hidden = Hides(q) /\ q.activeCls = {q.cls} /\ q.activeDim = {q.dim}
          /\ q.sev = "all" /\ q.selected = <<"cls", k>>
    BY PageFields, StatCardPage
  <2> QED
    BY <1>3, <2>1 DEF ClickStatCard, FilterReadable, Hides, Rows, Severities
<1>4. ASSUME NEW sv \in Severities, ClickSevCol(sv)
      PROVE  FilterReadable'
  <2>1. LET q == SevCol(page, sv) IN
          /\ q.hidden = Hides(q) /\ q.activeCls = {q.cls} /\ q.activeDim = {q.dim}
          /\ q.sev = sv /\ q.selected = <<"sev", sv>>
    BY PageFields, SevColPage
  <2> QED
    BY <1>4, <2>1 DEF ClickSevCol, FilterReadable, Hides, Rows
<1>5. ASSUME NEW i \in KeyFindings, ClickKeyLink(i)
      PROVE  FilterReadable'
  <2>1. LET q == KeyLink(page, i) IN
          /\ q.hidden = Hides(q) /\ q.activeCls = {q.cls} /\ q.activeDim = {q.dim}
          /\ q.sev = "all" /\ q.selected = NoCard
    BY PageFields, KeyLinkPage
  <2> QED
    BY <1>5, <2>1 DEF ClickKeyLink, FilterReadable, Hides, Rows, NoCard, Severities
<1>6. CASE Expire
  BY <1>6 DEF Expire, FilterReadable, Rows
<1>7. CASE UNCHANGED vars
  BY <1>7 DEF vars, FilterReadable, Rows
<1> QED
  BY <1>1, <1>2, <1>3, <1>4, <1>5, <1>6, <1>7 DEF Next

\* After any clicks the rows on screen are those of the filter in force, and
\* the buttons and the selected column say which filter that is.
THEOREM ReadableFilter == Spec => []FilterReadable
<1>1. TypeOK /\ FilterReadable /\ [Next]_vars => TypeOK' /\ FilterReadable'
  BY StepTypes, StepReadable
<1> QED
  BY <1>1, InitTypes, InitReadable, PTL DEF Spec

\* The numbers Python prints on the cards are the numbers of rows the page's
\* script leaves when they are clicked, from any state of the page.
THEOREM CardCounts == Spec => CardsKeepTheirWord
<1> DEFINE Kept ==
      /\ \A k \in Classes :
           ClickStatCard(k) => Cardinality(Visible(page')) = StatCount(k)
      /\ \A sv \in Severities :
           ClickSevCol(sv) => Cardinality(Visible(page')) = SevCount(sv)
<1>1. ASSUME TypeOK, NEW k \in Classes, ClickStatCard(k)
      PROVE  Cardinality(Visible(page')) = StatCount(k)
  <2>1. /\ page'.hidden = Hides(page')
        /\ page'.cls = k /\ page'.dim = "all" /\ page'.sev = "all"
    BY <1>1, PageFields, StatCardPage DEF ClickStatCard
  <2>2. Visible(page') = {i \in Rows : IF k = "strength" THEN IsStrength(findings[i])
                                       ELSE findings[i].classification = k}
    BY <2>1 DEF Visible, Hides, Matches, MatchCls, IsStrength, Classes
  <2> QED
    BY <2>2 DEF StatCount
<1>2. ASSUME TypeOK, NEW sv \in Severities, ClickSevCol(sv)
      PROVE  Cardinality(Visible(page')) = SevCount(sv)
  <2>1. /\ page'.hidden = Hides(page')
        /\ page'.cls = "all" /\ page'.dim = "all" /\ page'.sev = sv
    BY <1>2, PageFields, SevColPage DEF ClickSevCol
  <2>2. Visible(page') = {i \in Rows : Sev(findings[i]) = sv}
    BY <2>1 DEF Visible, Hides, Matches, MatchCls, Severities
  <2> QED
    BY <2>2 DEF SevCount
<1>3. TypeOK => Kept
  BY <1>1, <1>2
<1>4. TypeOK => [Kept]_vars
  BY <1>3
<1> QED
  BY <1>4, PageTypes, PTL DEF CardsKeepTheirWord

---------------------------------------------------------------------------
(* The flash. *)

LEMMA StepLit ==
  ASSUME TypeOK, LitHasTimer, [Next]_vars
  PROVE  LitHasTimer'
<1>1. ASSUME NEW S, Flash(S), S = {} \/ \E i \in Rows : S = {i}
      PROVE  LitHasTimer'
  <2>1. CASE S = {}
    BY <1>1, <2>1 DEF Flash, LitHasTimer
  <2>2. CASE S # {}
    <3>1. PICK i \in Rows : S = {i} /\ timers' = Append(timers, i) /\ lit' = lit \cup {i}
      BY <1>1, <2>2 DEF Flash
    <3>2. timers'[Len(timers) + 1] = i /\ Len(timers) + 1 \in DOMAIN timers'
      BY <3>1 DEF TypeOK
    <3>3. \A t \in DOMAIN timers : t \in DOMAIN timers' /\ timers'[t] = timers[t]
      BY <3>1 DEF TypeOK
    <3> QED
      BY <3>1, <3>2, <3>3 DEF LitHasTimer
  <2> QED
    BY <2>1, <2>2
<1>2. ASSUME NEW p
      PROVE  FirstMatch(p) = {} \/ \E i \in Rows : FirstMatch(p) = {i}
  <2>1. \A i \in Rows : findings[i] \in ReportFinding /\ i \in Nat
    BY DEF TypeOK, Rows
  <2>2. \A i \in Rows : Rank(findings[i]) \in Nat /\ i \in Nat
    BY <2>1 DEF Rank, Sev, SeverityRank, Severities, ReportFinding
  <2>3. ASSUME NEW i \in Rows, NEW j \in Rows, ~Above(i, j), ~Above(j, i)
        PROVE  i = j
    BY <2>2, <2>3 DEF Above
  <2> QED
    BY <2>3 DEF FirstMatch, Visible
<1>3. ASSUME NEW k \in Classes, ClickStatCard(k)
      PROVE  LitHasTimer'
  BY <1>1, <1>2, <1>3 DEF ClickStatCard
<1>4. ASSUME NEW sv \in Severities, ClickSevCol(sv)
      PROVE  LitHasTimer'
  BY <1>1, <1>2, <1>4 DEF ClickSevCol
<1>5. ASSUME NEW i \in KeyFindings, ClickKeyLink(i)
      PROVE  LitHasTimer'
  BY <1>1, <1>5 DEF ClickKeyLink, KeyFindings, Pressing
<1>6. CASE Expire
  <2>1. ASSUME NEW r \in lit'
        PROVE  \E t \in DOMAIN timers' : timers'[t] = r
    <3>1. r \in lit /\ r # Head(timers)
      BY <1>6, <2>1 DEF Expire, EndFlash
    <3>2. PICK t \in DOMAIN timers : timers[t] = r
      BY <3>1 DEF LitHasTimer
    <3>3. t # 1 /\ t \in 1 .. Len(timers)
      BY <1>6, <3>1, <3>2 DEF TypeOK, Expire
    <3>4. t - 1 \in DOMAIN timers' /\ timers'[t - 1] = r
      BY <1>6, <3>2, <3>3 DEF TypeOK, Expire
    <3> QED
      BY <3>4
  <2> QED
    BY <2>1 DEF LitHasTimer
<1>7. CASE \/ \E c \in Classes \cup {"all"} : ClickCls(c)
           \/ \E d \in Dimension \cup {"all"} : ClickDim(d)
           \/ UNCHANGED vars
  BY <1>7 DEF ClickCls, ClickDim, vars, LitHasTimer
<1> QED
  BY <1>3, <1>4, <1>5, <1>6, <1>7 DEF Next

\* No row is lit without a timer that will darken it, however many clicks
\* lit it: no order of clicks and timers leaves a row lit for good.
THEOREM TimedFlashes == Spec => []LitHasTimer
<1>1. Init => LitHasTimer
  BY DEF Init, LitHasTimer
<1>2. TypeOK /\ LitHasTimer /\ [Next]_vars => LitHasTimer'
  BY StepLit
<1> QED
  BY <1>1, <1>2, PageTypes, PTL DEF Spec

\* The timer in place t ends the flash of its row after t expiries at most.
Ages(t) ==
  \/ timers[t] \notin lit'
  \/ \E u \in DOMAIN timers' :
       timers'[u] = timers[t] /\ u <= t /\ (Expire => u < t)

\* No click puts off the end of a flash, not even one that lights the same row
\* again: with every expiry a lit row comes nearer to it, by its first timer,
\* and no other step takes that back.  FlashEnds adds that timers expire.
THEOREM FlashesAge == Spec => [][\A t \in DOMAIN timers : Ages(t)]_vars
<1>1. ASSUME TypeOK, Next, NEW t \in DOMAIN timers
      PROVE  Ages(t)
  <2>1. t \in 1 .. Len(timers) /\ Len(timers) \in Nat /\ timers \in Seq(Rows)
    BY <1>1 DEF TypeOK
  <2>2. CASE Expire
    <3>1. timers' = Tail(timers) /\ lit' = lit \ {timers[1]}
      BY <2>1, <2>2 DEF Expire, EndFlash
    <3>2. CASE t = 1
      BY <3>1, <3>2 DEF Ages
    <3>3. CASE t # 1
      <4>1. t - 1 \in DOMAIN timers' /\ timers'[t - 1] = timers[t] /\ t - 1 < t
        BY <2>1, <3>1, <3>3
      <4> QED
        BY <2>1, <4>1 DEF Ages
    <3> QED
      BY <3>2, <3>3
  <2>3. CASE ~Expire
    <3>1. timers' = timers \/ \E i : timers' = Append(timers, i)
      BY <1>1, <2>3 DEF Next, ClickCls, ClickDim, ClickStatCard, ClickSevCol, ClickKeyLink, Flash
    <3>2. t \in DOMAIN timers' /\ timers'[t] = timers[t]
      BY <2>1, <3>1
    <3> QED
      BY <2>1, <2>3, <3>2 DEF Ages
  <2> QED
    BY <2>2, <2>3
<1>2. TypeOK /\ [Next]_vars => [\A t \in DOMAIN timers : Ages(t)]_vars
  BY <1>1
<1> QED
  BY <1>2, PageTypes, PTL DEF Spec

---------------------------------------------------------------------------
(* What is flashed is the worst on screen. *)

\* A set of naturals that is not empty has a least element.
LEMMA LeastRow ==
  ASSUME NEW S \in SUBSET Nat, S # {}
  PROVE  \E m \in S : \A n \in S : m <= n
<1>1. PICK m \in S : \A n \in S : ~(<<n, m>> \in OpToRel(<, Nat))
  BY WFMin, NatLessThanWellFounded
<1>2. \A n \in S : n \in Nat /\ ~(n < m)
  BY <1>1 DEF OpToRel
<1> QED
  BY <1>2

LEMMA RowFacts ==
  ASSUME TypeOK
  PROVE  \A i \in Rows : i \in Nat /\ Rank(findings[i]) \in 0 .. 3
<1>1. \A i \in Rows : findings[i] \in ReportFinding /\ i \in Nat
  BY DEF TypeOK, Rows
<1> QED
  BY <1>1 DEF Rank, Sev, SeverityRank, Severities, ReportFinding

\* Something is topmost among the rows on screen, when there are any.
LEMMA FirstMatchExists ==
  ASSUME TypeOK, NEW p, Visible(p) # {}
  PROVE  FirstMatch(p) # {}
<1> DEFINE Ranks == {Rank(findings[i]) : i \in Visible(p)}
           Below == {3 - r : r \in Ranks}
<1>1. Visible(p) \subseteq Rows
  BY DEF Visible
<1>2. Ranks \subseteq 0 .. 3 /\ Ranks # {}
  BY <1>1, RowFacts
<1>3. PICK r \in Ranks : \A q \in Ranks : q <= r
  <2> HIDE DEF Ranks
  <2>1. \A q \in Ranks : q \in Int /\ 3 - q \in Nat
    BY <1>2
  <2>2. Below \in SUBSET Nat /\ Below # {}
    BY <1>2, <2>1
  <2>3. PICK m \in Below : \A n \in Below : m <= n
    <3> HIDE DEF Below
    <3> QED
      BY <2>2, LeastRow
  <2>4. PICK r \in Ranks : m = 3 - r
    OBVIOUS
  <2>5. ASSUME NEW q \in Ranks
        PROVE  q <= r
    <3>1. m <= 3 - q
      BY <2>3
    <3> QED
      BY <2>1, <2>4, <3>1
  <2> QED
    BY <2>5
<1> DEFINE Worst == {i \in Visible(p) : Rank(findings[i]) = r}
<1>4. Worst \in SUBSET Nat /\ Worst # {}
  BY <1>1, <1>3, RowFacts
<1>5. PICK i \in Worst : \A j \in Worst : i <= j
  <2> HIDE DEF Worst
  <2> QED
    BY <1>4, LeastRow
<1>6. ASSUME NEW j \in Visible(p)
      PROVE  ~Above(j, i)
  <2>1. Rank(findings[j]) \in Nat /\ Rank(findings[i]) = r /\ r \in Nat /\ i \in Nat /\ j \in Nat
    BY <1>1, <1>2, <1>5, RowFacts
  <2>2. Rank(findings[j]) <= r
    BY <1>3
  <2>3. Rank(findings[j]) = r => i <= j
    BY <1>5
  <2> QED
    BY <2>1, <2>2, <2>3 DEF Above
<1> QED
  BY <1>5, <1>6 DEF FirstMatch

\* The row that is flashed is one of those to flash, and is lit.
LEMMA Flashed ==
  ASSUME TypeOK, NEW S \in SUBSET Rows, Flash(S)
  PROVE  /\ Len(timers') > Len(timers) <=> S # {}
         /\ S # {} => timers'[Len(timers')] \in S /\ timers'[Len(timers')] \in lit'
<1>1. timers \in Seq(Rows)
  BY DEF TypeOK
<1>2. \A i \in S : /\ Len(Append(timers, i)) = Len(timers) + 1
                   /\ Append(timers, i)[Len(timers) + 1] = i
  BY <1>1
<1>3. Len(timers) \in Nat
  BY <1>1
<1>4. CASE S = {}
  BY <1>3, <1>4 DEF Flash
<1>5. CASE S # {}
  <2>1. PICK i \in S : timers' = Append(timers, i) /\ lit' = lit \cup S
    BY <1>5 DEF Flash
  <2> QED
    BY <1>2, <1>3, <1>5, <2>1
<1> QED
  BY <1>4, <1>5

\* A card flashes a row on screen that no other there outranks.
LEMMA CardFlashes ==
  ASSUME TypeOK, Flash(FirstMatch(page')), NEW j \in Visible(page')
  PROVE  /\ Len(timers') > Len(timers)
         /\ Rank(findings[timers'[Len(timers')]]) >= Rank(findings[j])
<1>1. FirstMatch(page') # {} /\ FirstMatch(page') \in SUBSET Rows
  BY FirstMatchExists DEF FirstMatch, Visible
<1>2. Len(timers') > Len(timers) /\ timers'[Len(timers')] \in FirstMatch(page')
  BY <1>1, Flashed
<1> DEFINE i == timers'[Len(timers')]
<1>3. i \in Rows /\ j \in Rows /\ ~Above(j, i)
  BY <1>2 DEF FirstMatch, Visible
<1>4. Rank(findings[i]) \in Nat /\ Rank(findings[j]) \in Nat
  BY <1>3, RowFacts
<1> QED
  BY <1>2, <1>3, <1>4 DEF Above

\* What the key panel leaves out is no worse than what it lists.
LEMMA KeyPanel ==
  ASSUME TypeOK, NEW i \in KeyFindings, NEW j \in Pressing \ KeyFindings
  PROVE  Rank(findings[i]) >= Rank(findings[j])
<1> DEFINE Over(k) == {h \in Pressing : Above(h, k)}
<1>1. Pressing \subseteq Rows /\ i \in Pressing
  BY DEF Pressing, KeyFindings
<1>2. IsFiniteSet(Pressing)
  <2>1. Rows = 1 .. Len(findings) /\ Len(findings) \in Int
    BY DEF TypeOK, Rows
  <2>2. IsFiniteSet(Rows)
    BY <2>1, FS_Interval
  <2> QED
    BY <1>1, <2>2, FS_Subset
<1>3. /\ Cardinality(Over(i)) < KeyLimit
      /\ ~(Cardinality(Over(j)) < KeyLimit)
  BY DEF KeyFindings
<1>4. /\ IsFiniteSet(Over(i)) /\ IsFiniteSet(Over(j))
      /\ Cardinality(Over(i)) \in Nat /\ Cardinality(Over(j)) \in Nat
  BY <1>2, FS_Subset, FS_CardinalityType
<1>5. ASSUME Rank(findings[j]) > Rank(findings[i])
      PROVE  Over(j) \in SUBSET Over(i)
  <2>1. \A h \in Pressing : Rank(findings[h]) \in Nat
    BY <1>1, RowFacts
  <2> QED
    BY <1>1, <1>5, <2>1 DEF Above
<1>6. Rank(findings[i]) \in Nat /\ Rank(findings[j]) \in Nat
  BY <1>1, RowFacts
<1>7. Over(j) \in SUBSET Over(i) => Cardinality(Over(j)) <= Cardinality(Over(i))
  <2> HIDE DEF Over
  <2> QED
    BY <1>4, FS_Subset
<1> QED
  <2> HIDE DEF Over
  <2> QED
    BY <1>3, <1>4, <1>5, <1>6, <1>7, TimersAssumption

\* A key link brings every row back.
LEMMA KeyLinkShowsAll ==
  ASSUME TypeOK, NEW i \in KeyFindings, ClickKeyLink(i)
  PROVE  /\ page'.hidden = {}
         /\ timers'[Len(timers')] = i /\ Len(timers') > Len(timers)
         /\ i \in lit' /\ i \in Visible(page')
<1>1. i \in Rows
  BY DEF KeyFindings, Pressing
<1>2. LET q == KeyLink(page, i) IN
        /\ q.cls = "all" /\ q.dim = "all" /\ q.sev = "all" /\ q.hidden = Hides(q)
  BY PageFields, KeyLinkPage
<1>3. page'.hidden = {}
  BY <1>2 DEF ClickKeyLink, Hides, Matches, MatchCls
<1>4. {i} \in SUBSET Rows /\ Flash({i})
  BY <1>1 DEF ClickKeyLink
<1>5. timers'[Len(timers')] = i /\ i \in lit' /\ Len(timers') > Len(timers)
  BY <1>4, Flashed
<1> QED
  BY <1>1, <1>3, <1>5 DEF Visible

\* A click that flashes a row flashes one the reader can see, a card the
\* worst of those left on screen, and the key panel leaves out nothing worse
\* than what it lists, from any state of the page.
THEOREM WorstFlashes == Spec => FlashesTheWorst
<1> DEFINE Worst ==
      /\ Len(timers') > Len(timers)
           => timers'[Len(timers')] \in lit' \cap Visible(page')
      /\ (\E k \in Classes : ClickStatCard(k)) \/ (\E sv \in Severities : ClickSevCol(sv))
           => \A j \in Visible(page') :
                /\ Len(timers') > Len(timers)
                /\ Rank(findings[timers'[Len(timers')]]) >= Rank(findings[j])
      /\ \A i \in KeyFindings :
           ClickKeyLink(i) =>
             /\ timers'[Len(timers')] = i /\ page'.hidden = {}
             /\ \A j \in Pressing \ KeyFindings : Rank(findings[i]) >= Rank(findings[j])
<1>1. ASSUME TypeOK, Flash(FirstMatch(page')), Len(timers') > Len(timers)
      PROVE  timers'[Len(timers')] \in lit' \cap Visible(page')
  <2>1. FirstMatch(page') \in SUBSET Rows /\ FirstMatch(page') \subseteq Visible(page')
    BY DEF FirstMatch, Visible
  <2> QED
    BY <1>1, <2>1, Flashed
<1>2. ASSUME TypeOK, [Next]_vars, Len(timers') > Len(timers)
      PROVE  timers'[Len(timers')] \in lit' \cap Visible(page')
  <2>1. Len(timers) \in Nat /\ timers # <<>> => Len(Tail(timers)) = Len(timers) - 1
    BY <1>2 DEF TypeOK
  <2>2. CASE \/ \E k \in Classes : ClickStatCard(k)
             \/ \E sv \in Severities : ClickSevCol(sv)
    BY <1>1, <1>2, <2>2 DEF ClickStatCard, ClickSevCol
  <2>3. CASE \E i \in KeyFindings : ClickKeyLink(i)
    BY <1>2, <2>3, KeyLinkShowsAll
  <2>4. ASSUME \/ \E c \in Classes \cup {"all"} : ClickCls(c)
               \/ \E d \in Dimension \cup {"all"} : ClickDim(d)
               \/ Expire
               \/ UNCHANGED vars
        PROVE  FALSE
    <3>1. timers' = timers \/ Expire
      BY <2>4 DEF ClickCls, ClickDim, vars
    <3>2. Len(timers) \in Nat /\ (timers # <<>> => Len(Tail(timers)) = Len(timers) - 1)
      BY <1>2 DEF TypeOK
    <3> QED
      BY <1>2, <3>1, <3>2 DEF Expire
  <2> QED
    BY <1>2, <2>2, <2>3, <2>4 DEF Next
<1>3. ASSUME TypeOK,
             (\E k \in Classes : ClickStatCard(k)) \/ (\E sv \in Severities : ClickSevCol(sv)),
             NEW j \in Visible(page')
      PROVE  /\ Len(timers') > Len(timers)
             /\ Rank(findings[timers'[Len(timers')]]) >= Rank(findings[j])
  BY <1>3, CardFlashes DEF ClickStatCard, ClickSevCol
<1>4. ASSUME TypeOK, NEW i \in KeyFindings, ClickKeyLink(i)
      PROVE  /\ timers'[Len(timers')] = i /\ page'.hidden = {}
             /\ \A j \in Pressing \ KeyFindings : Rank(findings[i]) >= Rank(findings[j])
  BY <1>4, KeyLinkShowsAll, KeyPanel
<1>5. TypeOK /\ [Next]_vars => [Worst]_vars
  BY <1>2, <1>3, <1>4
<1> QED
  BY <1>5, PageTypes, PTL DEF Spec, FlashesTheWorst

---------------------------------------------------------------------------
(* The page of the design review.  It has the same state, constants that   *)
(* mean the same, and findings of its own; nothing in its proofs depends   *)
(* on the audit's.                                                         *)

CONSTANT DesignReports   \* the lists of findings it may be generated from

Design == INSTANCE DesignPage WITH Reports <- DesignReports, Fit <- Correctness

\* The rows the filter hides, and a page as its fields.
Unmatched(c, d) == {i \in DOMAIN findings : ~Design!Matches(findings[i], [cls |-> c, dim |-> d])}

PageOf(c, d, bc, bd, h) ==
  [filter |-> [cls |-> c, dim |-> d], active |-> [cls |-> bc, dim |-> bd], hidden |-> h]

LEMMA DesignFields ==
  ASSUME Design!TypeOK
  PROVE  /\ page = PageOf(page.filter.cls, page.filter.dim,
                          page.active.cls, page.active.dim, page.hidden)
         /\ page.filter.cls \in Design!Classes \cup {"all"}
         /\ page.filter.dim \in Dimension \cup {"all"}
         /\ page.active.cls \in SUBSET (Design!Classes \cup {"all"})
         /\ page.active.dim \in SUBSET (Dimension \cup {"all"})
         /\ page.hidden \in SUBSET DOMAIN findings
BY DEF Design!TypeOK, Design!Rows, PageOf

\* What a press of a filter button leaves, whatever the page was.
LEMMA DesignPress ==
  ASSUME NEW c, NEW d, NEW bc, NEW bd, NEW h, NEW v
  PROVE  /\ Design!Press(PageOf(c, d, bc, bd, h), "cls", v)
              = PageOf(v, d, {v}, bd, Unmatched(v, d))
         /\ Design!Press(PageOf(c, d, bc, bd, h), "dim", v)
              = PageOf(c, v, bc, {v}, Unmatched(c, v))
<1>1. [PageOf(c, d, bc, bd, h) EXCEPT !.filter["cls"] = v, !.active["cls"] = {v}]
        = PageOf(v, d, {v}, bd, h)
  <2>1. [PageOf(c, d, bc, bd, h) EXCEPT !.filter["cls"] = v] = PageOf(v, d, bc, bd, h)
    <3>1. [[cls |-> c, dim |-> d] EXCEPT !["cls"] = v] = [cls |-> v, dim |-> d]
      OBVIOUS
    <3> QED
      BY <3>1 DEF PageOf
  <2>2. [PageOf(v, d, bc, bd, h) EXCEPT !.active["cls"] = {v}] = PageOf(v, d, {v}, bd, h)
    <3>1. [[cls |-> bc, dim |-> bd] EXCEPT !["cls"] = {v}] = [cls |-> {v}, dim |-> bd]
      OBVIOUS
    <3> QED
      BY <3>1 DEF PageOf
  <2> QED
    BY <2>1, <2>2
<1>2. [PageOf(c, d, bc, bd, h) EXCEPT !.filter["dim"] = v, !.active["dim"] = {v}]
        = PageOf(c, v, bc, {v}, h)
  <2>1. [PageOf(c, d, bc, bd, h) EXCEPT !.filter["dim"] = v] = PageOf(c, v, bc, bd, h)
    <3>1. [[cls |-> c, dim |-> d] EXCEPT !["dim"] = v] = [cls |-> c, dim |-> v]
      OBVIOUS
    <3> QED
      BY <3>1 DEF PageOf
  <2>2. [PageOf(c, v, bc, bd, h) EXCEPT !.active["dim"] = {v}] = PageOf(c, v, bc, {v}, h)
    <3>1. [[cls |-> bc, dim |-> bd] EXCEPT !["dim"] = {v}] = [cls |-> bc, dim |-> {v}]
      OBVIOUS
    <3> QED
      BY <3>1 DEF PageOf
  <2> QED
    BY <2>1, <2>2
<1>3. ASSUME NEW c2, NEW d2, NEW bc2, NEW bd2
      PROVE  Design!ApplyFilters(PageOf(c2, d2, bc2, bd2, h))
               = PageOf(c2, d2, bc2, bd2, Unmatched(c2, d2))
  <2>1. PageOf(c2, d2, bc2, bd2, h).filter = [cls |-> c2, dim |-> d2]
    BY DEF PageOf
  <2>2. [PageOf(c2, d2, bc2, bd2, h) EXCEPT !.hidden = Unmatched(c2, d2)]
          = PageOf(c2, d2, bc2, bd2, Unmatched(c2, d2))
    BY DEF PageOf
  <2> QED
    BY <2>1, <2>2 DEF Design!ApplyFilters, Design!Rows, Unmatched
<1> QED
  BY <1>1, <1>2, <1>3 DEF Design!Press

LEMMA NoneUnmatched == Unmatched("all", "all") = {}
BY DEF Unmatched, Design!Matches

\* A key link brings every row back.
LEMMA DesignShowAll ==
  ASSUME NEW c, NEW d, NEW bc, NEW bd, NEW h
  PROVE  Design!ShowAll(PageOf(c, d, bc, bd, h)) = PageOf("all", "all", {"all"}, {"all"}, {})
<1>1. Design!Press(PageOf(c, d, bc, bd, h), "cls", "all")
        = PageOf("all", d, {"all"}, bd, Unmatched("all", d))
  BY DesignPress
<1>2. Design!Press(PageOf("all", d, {"all"}, bd, Unmatched("all", d)), "dim", "all")
        = PageOf("all", "all", {"all"}, {"all"}, Unmatched("all", "all"))
  BY DesignPress
<1> QED
  BY <1>1, <1>2, NoneUnmatched DEF Design!ShowAll

\* The buttons and the hidden rows are those of the filter.
DesignShown ==
  /\ page.active = [cls |-> {page.filter.cls}, dim |-> {page.filter.dim}]
  /\ page.hidden = Unmatched(page.filter.cls, page.filter.dim)

DesignInv == Design!TypeOK /\ DesignShown

\* What an action makes of a page in which both hold.
LEMMA DesignPages ==
  ASSUME DesignInv
  PROVE  LET c == page.filter.cls
             d == page.filter.dim
         IN  /\ page = PageOf(c, d, {c}, {d}, Unmatched(c, d))
             /\ c \in Design!Classes \cup {"all"} /\ d \in Dimension \cup {"all"}
             /\ \A v : Design!Press(page, "cls", v) = PageOf(v, d, {v}, {d}, Unmatched(v, d))
             /\ \A v : Design!Press(page, "dim", v) = PageOf(c, v, {c}, {v}, Unmatched(c, v))
             /\ Design!ShowAll(page) = PageOf("all", "all", {"all"}, {"all"}, {})
<1> DEFINE c == page.filter.cls
           d == page.filter.dim
<1>1. page.active.cls = {c} /\ page.active.dim = {d} /\ page.hidden = Unmatched(c, d)
  BY DEF DesignInv, DesignShown
<1>2. /\ page = PageOf(c, d, {c}, {d}, Unmatched(c, d))
      /\ c \in Design!Classes \cup {"all"} /\ d \in Dimension \cup {"all"}
  BY <1>1, DesignFields DEF DesignInv
<1> HIDE DEF c, d
<1>3. ASSUME NEW v
      PROVE  /\ Design!Press(page, "cls", v) = PageOf(v, d, {v}, {d}, Unmatched(v, d))
             /\ Design!Press(page, "dim", v) = PageOf(c, v, {c}, {v}, Unmatched(c, v))
  <2> DEFINE old == PageOf(c, d, {c}, {d}, Unmatched(c, d))
  <2>1. /\ Design!Press(old, "cls", v) = PageOf(v, d, {v}, {d}, Unmatched(v, d))
        /\ Design!Press(old, "dim", v) = PageOf(c, v, {c}, {v}, Unmatched(c, v))
    BY DesignPress
  <2>2. page = old
    BY <1>2
  <2> HIDE DEF old
  <2> QED
    BY <2>1, <2>2
<1>4. Design!ShowAll(page) = PageOf("all", "all", {"all"}, {"all"}, {})
  BY <1>2, DesignShowAll
<1> QED
  BY <1>2, <1>3, <1>4 DEF c, d

LEMMA DesignPageKept ==
  ASSUME UNCHANGED findings,
         NEW c \in Design!Classes \cup {"all"}, NEW d \in Dimension \cup {"all"},
         page' = PageOf(c, d, {c}, {d}, Unmatched(c, d))
  PROVE  /\ DesignShown'
         /\ (page \in [filter : [cls : Design!Classes \cup {"all"}, dim : Dimension \cup {"all"}],
                       active : [cls : SUBSET (Design!Classes \cup {"all"}),
                                 dim : SUBSET (Dimension \cup {"all"})],
                       hidden : SUBSET Design!Rows])'
<1>1. Unmatched(c, d)' = Unmatched(c, d)
  BY DEF Unmatched, Design!Matches, Design!Dim
<1>2. page'.filter.cls = c /\ page'.filter.dim = d
      /\ page'.active = [cls |-> {c}, dim |-> {d}] /\ page'.hidden = Unmatched(c, d)
  BY DEF PageOf
<1>3. DesignShown'
  <2>1. Unmatched(page.filter.cls, page.filter.dim)' = Unmatched(c, d)
    BY <1>2 DEF Unmatched, Design!Matches, Design!Dim
  <2> QED
    BY <1>2, <2>1 DEF DesignShown
<1>4. Unmatched(c, d) \in SUBSET DOMAIN findings
  BY DEF Unmatched
<1> QED
  BY <1>3, <1>4 DEF PageOf, Design!Rows

DesignTimed ==
  /\ timers \in Seq(Design!Rows)
  /\ lit \subseteq {timers[t] : t \in DOMAIN timers}

LEMMA DesignTimers ==
  ASSUME DesignTimed, UNCHANGED findings,
         \/ UNCHANGED <<lit, timers>>
         \/ \E i \in Design!Rows : Design!ClickKeyLink(i)
         \/ Design!Expire
  PROVE  DesignTimed'
<1>1. Design!Rows' = Design!Rows
  BY DEF Design!Rows
<1>2. CASE UNCHANGED <<lit, timers>>
  BY <1>1, <1>2 DEF DesignTimed
<1>3. ASSUME NEW i \in Design!Rows, Design!ClickKeyLink(i)
      PROVE  DesignTimed'
  <2>1. timers' = Append(timers, i) /\ lit' = lit \cup {i}
    BY <1>3 DEF Design!ClickKeyLink
  <2>2. timers' \in Seq(Design!Rows)
    BY <2>1 DEF DesignTimed
  <2>3. timers'[Len(timers) + 1] = i /\ Len(timers) + 1 \in DOMAIN timers'
    BY <2>1 DEF DesignTimed
  <2>4. \A t \in DOMAIN timers : t \in DOMAIN timers' /\ timers'[t] = timers[t]
    BY <2>1 DEF DesignTimed
  <2> QED
    BY <1>1, <2>1, <2>2, <2>3, <2>4 DEF DesignTimed
<1>4. CASE Design!Expire
  <2>1. timers # <<>> /\ timers' = Tail(timers) /\ lit' = lit \ {Head(timers)}
    BY <1>4 DEF Design!Expire, Design!EndFlash
  <2>2. timers' \in Seq(Design!Rows)
    BY <2>1 DEF DesignTimed
  <2>3. ASSUME NEW r \in lit'
        PROVE  \E t \in DOMAIN timers' : timers'[t] = r
    <3>1. PICK t \in DOMAIN timers : timers[t] = r
      BY <2>1 DEF DesignTimed
    <3>2. t # 1 /\ t \in 1 .. Len(timers)
      BY <2>1, <3>1 DEF DesignTimed
    <3>3. t - 1 \in DOMAIN timers' /\ timers'[t - 1] = r
      BY <2>1, <3>1, <3>2 DEF DesignTimed
    <3> QED
      BY <3>3
  <2> QED
    BY <1>1, <2>2, <2>3 DEF DesignTimed
<1> QED
  BY <1>2, <1>3, <1>4

LEMMA DesignInvParts ==
  Design!TypeOK <=>
    /\ findings \in Seq(Design!Finding)
    /\ page \in [filter : [cls : Design!Classes \cup {"all"}, dim : Dimension \cup {"all"}],
                 active : [cls : SUBSET (Design!Classes \cup {"all"}),
                           dim : SUBSET (Dimension \cup {"all"})],
                 hidden : SUBSET Design!Rows]
    /\ DesignTimed
BY DEF Design!TypeOK, DesignTimed

LEMMA DesignInit == Design!PageInput /\ Design!Init => DesignInv
<1> SUFFICES ASSUME Design!PageInput, Design!Init
             PROVE  DesignInv
  OBVIOUS
<1>1. findings \in Seq(Design!Finding)
  BY DEF Design!PageInput, Design!Init
<1>2. /\ page = PageOf("all", "all", {"all"}, {"all"}, {})
      /\ lit = {} /\ timers = <<>>
  BY DEF Design!Init, PageOf
<1>3. page.filter.cls = "all" /\ page.filter.dim = "all" /\ page.hidden = {}
      /\ page.active = [cls |-> {"all"}, dim |-> {"all"}]
  BY <1>2 DEF PageOf
<1>4. DesignShown
  BY <1>3, NoneUnmatched DEF DesignShown
<1> QED
  BY <1>1, <1>2, <1>4, DesignInvParts DEF DesignInv, DesignTimed, PageOf

LEMMA DesignStep == DesignInv /\ [Design!Next]_Design!vars => DesignInv'
<1> SUFFICES ASSUME DesignInv, [Design!Next]_Design!vars
             PROVE  DesignInv'
  OBVIOUS
<1> DEFINE c == page.filter.cls
           d == page.filter.dim
           After(c2, d2) == page' = PageOf(c2, d2, {c2}, {d2}, Unmatched(c2, d2))
<1>1. /\ findings \in Seq(Design!Finding) /\ DesignTimed
      /\ c \in Design!Classes \cup {"all"} /\ d \in Dimension \cup {"all"}
      /\ After(c, d) <=> page' = page
  BY DesignPages, DesignInvParts DEF DesignInv
<1>2. ASSUME UNCHANGED findings, DesignTimed',
             NEW c2 \in Design!Classes \cup {"all"}, NEW d2 \in Dimension \cup {"all"},
             After(c2, d2)
      PROVE  DesignInv'
  <2>1. (findings \in Seq(Design!Finding))'
    BY <1>1, <1>2
  <2>2. /\ DesignShown'
        /\ (page \in [filter : [cls : Design!Classes \cup {"all"}, dim : Dimension \cup {"all"}],
                      active : [cls : SUBSET (Design!Classes \cup {"all"}),
                                dim : SUBSET (Dimension \cup {"all"})],
                      hidden : SUBSET Design!Rows])'
    BY <1>2, DesignPageKept
  <2> QED
    BY <1>2, <2>1, <2>2 DEF DesignInv, Design!TypeOK, DesignTimed
<1>3. ASSUME NEW v \in Design!Classes \cup {"all"}, Design!ClickFilter("cls", v)
      PROVE  DesignInv'
  <2>1. UNCHANGED <<findings, lit, timers>> /\ After(v, d)
    BY <1>3, DesignPages DEF Design!ClickFilter
  <2> QED
    BY <1>1, <1>2, <2>1, DesignTimers
<1>4. ASSUME NEW v \in Dimension \cup {"all"}, Design!ClickFilter("dim", v)
      PROVE  DesignInv'
  <2>1. UNCHANGED <<findings, lit, timers>> /\ After(c, v)
    BY <1>4, DesignPages DEF Design!ClickFilter
  <2> QED
    BY <1>1, <1>2, <2>1, DesignTimers
<1>5. ASSUME NEW i \in Design!Rows, Design!ClickKeyLink(i)
      PROVE  DesignInv'
  <2>1. UNCHANGED findings /\ After("all", "all")
    BY <1>5, DesignPages, NoneUnmatched DEF Design!ClickKeyLink
  <2> QED
    BY <1>1, <1>2, <1>5, <2>1, DesignTimers
<1>6. CASE Design!Expire
  <2>1. UNCHANGED <<findings, page>>
    BY <1>6 DEF Design!Expire
  <2> QED
    BY <1>1, <1>2, <1>6, <2>1, DesignTimers
<1>7. CASE UNCHANGED Design!vars
  <2>1. UNCHANGED <<findings, page, lit, timers>>
    BY <1>7 DEF Design!vars
  <2> QED
    BY <1>1, <1>2, <2>1, DesignTimers
<1> QED
  BY <1>3, <1>4, <1>5, <1>6, <1>7 DEF Design!Next

LEMMA DesignInvariance == Design!PageInput => (Design!Spec => []DesignInv)
<1> SUFFICES ASSUME Design!PageInput
             PROVE  Design!Spec => []DesignInv
  OBVIOUS
<1>1. Design!Init => DesignInv
  BY DesignInit
<1> QED
  BY <1>1, DesignStep, PTL DEF Design!Spec

\* The page of the design review is well typed, and no row of it stays lit
\* without a timer that will darken it.
THEOREM DesignPageTypes == Design!PageInput => (Design!Spec => []Design!TypeOK)
<1>1. DesignInv => Design!TypeOK
  BY DEF DesignInv
<1> QED
  BY <1>1, DesignInvariance, PTL

\* After any clicks the active buttons of the design review's page tell which
\* rows are on screen, as many as the number Python printed above their type.
THEOREM DesignReadable == Design!PageInput => (Design!Spec => []Design!FilterReadable)
<1>1. DesignInv => Design!FilterReadable
  <2> SUFFICES ASSUME DesignInv
               PROVE  Design!FilterReadable
    OBVIOUS
  <2> DEFINE c == page.filter.cls
             d == page.filter.dim
  <2>1. /\ c \in Design!Classes \cup {"all"} /\ d \in Dimension \cup {"all"}
        /\ page.active = [cls |-> {c}, dim |-> {d}] /\ page.hidden = Unmatched(c, d)
    BY DesignFields DEF DesignInv, DesignShown
  <2>2. ASSUME c # "all", d = "all"
        PROVE  Design!Cardinality(Design!Rows \ page.hidden) = Design!Count(c)
    <3>1. Design!Rows \ page.hidden = {i \in Design!Rows : findings[i].classification = c}
      BY <2>1, <2>2 DEF Unmatched, Design!Matches, Design!Rows
    <3> QED
      BY <3>1 DEF Design!Count
  <2>3. c # "all" /\ d = "all" => Design!Cardinality(Design!Rows \ page.hidden) = Design!Count(c)
    BY <2>2
  <2> HIDE DEF c, d
  <2> QED
    BY <2>1, <2>3 DEF Design!FilterReadable, Unmatched, Design!Rows
<1> QED
  BY <1>1, DesignInvariance, PTL

\* The page as a page of the audit, and its rows as rows of the audit.
AuditOf(c, d, bc, bd, h) ==
  [cls |-> c, dim |-> d, sev |-> "all", activeCls |-> bc, activeDim |-> bd,
   selected |-> <<"none", "none">>, hidden |-> h]

AuditRow(f) == [classification |-> f.classification, dimension |-> f.dimension,
                severity |-> Absent, tagged |-> FALSE]

LEMMA SameMatches ==
  ASSUME NEW f, NEW c, NEW d, NEW bc, NEW bd, NEW h
  PROVE  Design!P!Matches(AuditRow(f), AuditOf(c, d, bc, bd, h))
           <=> Design!Matches(f, [cls |-> c, dim |-> d])
<1> DEFINE row == AuditRow(f)
           p == AuditOf(c, d, bc, bd, h)
<1>1. /\ row.classification = f.classification /\ row.dimension = f.dimension
      /\ row.tagged = FALSE
      /\ p.cls = c /\ p.dim = d /\ p.sev = "all"
  BY DEF AuditRow, AuditOf
<1> HIDE DEF row, p
<1>2. Design!P!MatchCls(row, c) <=> c \in {"all", f.classification}
  BY <1>1 DEF Design!P!MatchCls, Design!P!IsStrength
<1>3. Design!P!Dim(row) = Design!Dim(f)
  BY <1>1 DEF Design!P!Dim, Design!Dim
<1>4. Design!P!Matches(row, p) <=> Design!Matches(f, [cls |-> c, dim |-> d])
  BY <1>1, <1>2, <1>3 DEF Design!P!Matches, Design!Matches
<1> QED
  BY <1>4 DEF row, p

LEMMA SameFilters ==
  ASSUME NEW c, NEW d, NEW bc, NEW bd, NEW h
  PROVE  Design!P!ApplyFilters(AuditOf(c, d, bc, bd, h))
           = AuditOf(c, d, bc, bd, Unmatched(c, d))
<1> DEFINE p == AuditOf(c, d, bc, bd, h)
           rows == [i \in Design!Rows |-> AuditRow(findings[i])]
<1>1. DOMAIN rows = DOMAIN findings
      /\ \A i \in DOMAIN findings : rows[i] = AuditRow(findings[i])
  BY DEF Design!Rows
<1>2. {i \in DOMAIN rows : ~Design!P!Matches(rows[i], p)} = Unmatched(c, d)
  BY <1>1, SameMatches DEF Unmatched
<1>3. [p EXCEPT !.hidden = Unmatched(c, d)] = AuditOf(c, d, bc, bd, Unmatched(c, d))
  BY DEF AuditOf
<1>4. Design!P!ApplyFilters(p)
        = [p EXCEPT !.hidden = {i \in DOMAIN rows : ~Design!P!Matches(rows[i], p)}]
  BY DEF Design!P!ApplyFilters, Design!P!Rows, AuditRow
<1> QED
  BY <1>2, <1>3, <1>4

\* What the audit page's handlers make of it.
LEMMA SamePressCls ==
  ASSUME NEW c, NEW d, NEW bc, NEW bd, NEW h, NEW v
  PROVE  Design!P!PressCls(AuditOf(c, d, bc, bd, h), v)
           = AuditOf(v, d, {v}, bd, Unmatched(v, d))
<1>1. [AuditOf(c, d, bc, bd, h) EXCEPT !.activeCls = {v}] = AuditOf(c, d, {v}, bd, h)
  BY DEF AuditOf
<1>2. [AuditOf(c, d, {v}, bd, h) EXCEPT !.cls = v] = AuditOf(v, d, {v}, bd, h)
  BY DEF AuditOf
<1>3. [AuditOf(c, d, bc, bd, h) EXCEPT !.activeCls = {v}, !.cls = v] = AuditOf(v, d, {v}, bd, h)
  BY <1>1, <1>2
<1> QED
  BY <1>3, SameFilters DEF Design!P!PressCls

LEMMA SamePressDim ==
  ASSUME NEW c, NEW d, NEW bc, NEW bd, NEW h, NEW v
  PROVE  Design!P!PressDim(AuditOf(c, d, bc, bd, h), v)
           = AuditOf(c, v, bc, {v}, Unmatched(c, v))
<1>1. [AuditOf(c, d, bc, bd, h) EXCEPT !.activeDim = {v}] = AuditOf(c, d, bc, {v}, h)
  BY DEF AuditOf
<1>2. [AuditOf(c, d, bc, {v}, h) EXCEPT !.dim = v] = AuditOf(c, v, bc, {v}, h)
  BY DEF AuditOf
<1>3. [AuditOf(c, d, bc, bd, h) EXCEPT !.activeDim = {v}, !.dim = v] = AuditOf(c, v, bc, {v}, h)
  BY <1>1, <1>2
<1> QED
  BY <1>3, SameFilters DEF Design!P!PressDim

LEMMA SameKeyLink ==
  ASSUME NEW c, NEW d, NEW bc, NEW bd, NEW h, NEW i
  PROVE  Design!P!KeyLink(AuditOf(c, d, bc, bd, h), i)
           = AuditOf("all", "all", {"all"}, {"all"}, {})
<1> DEFINE all == AuditOf("all", "all", {"all"}, {"all"}, {})
<1>1. [AuditOf(c, d, bc, bd, h) EXCEPT !.selected = Design!P!NoCard] = AuditOf(c, d, bc, bd, h)
  BY DEF AuditOf, Design!P!NoCard
<1>2. Design!P!PressAll(AuditOf(c, d, bc, bd, h)) = all
  <2>1. Design!P!PressCls(AuditOf(c, d, bc, bd, h), "all")
          = AuditOf("all", d, {"all"}, bd, Unmatched("all", d))
    BY SamePressCls
  <2>2. Design!P!PressDim(AuditOf("all", d, {"all"}, bd, Unmatched("all", d)), "all") = all
    BY SamePressDim, NoneUnmatched
  <2> QED
    BY <2>1, <2>2 DEF Design!P!PressAll
<1>3. [all EXCEPT !.sev = "all"] = all /\ [all EXCEPT !.hidden = @ \ {i}] = all
  BY DEF AuditOf
<1>4. Design!P!ApplyFilters(all) = all
  BY SameFilters, NoneUnmatched
<1> HIDE DEF all
<1> QED
  BY <1>1, <1>2, <1>3, <1>4 DEF Design!P!KeyLink, all

\* The page as the audit's script sees it, and what it sees a handler return.
SeenPage ==
  AuditOf(page.filter.cls, page.filter.dim, page.active.cls, page.active.dim, page.hidden)

LEMMA SeenAfter ==
  ASSUME NEW c, NEW d, NEW bc, NEW bd, NEW h, page' = PageOf(c, d, bc, bd, h)
  PROVE  SeenPage' = AuditOf(c, d, bc, bd, h)
<1>1. /\ page'.filter.cls = c /\ page'.filter.dim = d
      /\ page'.active.cls = bc /\ page'.active.dim = bd /\ page'.hidden = h
  BY DEF PageOf
<1> QED
  BY <1>1 DEF SeenPage, AuditOf

LEMMA SeenRows ==
  ASSUME UNCHANGED findings
  PROVE  UNCHANGED [i \in Design!Rows |-> AuditRow(findings[i])]
BY DEF Design!Rows

\* On the clicks they share the two pages' scripts do the same: what a filter
\* button, a key link and a timer do to the page of the design review is what
\* the audit page's handlers do, and nothing else changes it.
THEOREM DesignSteps == Design!PageInput => (Design!Spec => Design!AuditPageSteps)
<1> DEFINE Steps ==
             \/ \E c \in Design!Classes \cup {"all"} : Design!P!ClickCls(c)
             \/ \E d \in Dimension \cup {"all"} : Design!P!ClickDim(d)
             \/ \E i \in Design!Rows : Design!P!ClickKeyLink(i)
             \/ Design!P!Expire
<1>1. DesignInv /\ [Design!Next]_Design!vars => [Steps]_Design!vars
  <2> SUFFICES ASSUME DesignInv, Design!Next
               PROVE  Steps
    BY DEF Design!vars
  <2> DEFINE c == page.filter.cls
             d == page.filter.dim
  <2>0. /\ page.active.cls = {c} /\ page.active.dim = {d}
        /\ page.hidden = Unmatched(c, d)
    BY DEF DesignInv, DesignShown
  <2>1. SeenPage = AuditOf(c, d, {c}, {d}, Unmatched(c, d))
    BY <2>0 DEF SeenPage
  <2> HIDE DEF c, d
  <2>2. ASSUME NEW v \in Design!Classes \cup {"all"}, Design!ClickFilter("cls", v)
        PROVE  Design!P!ClickCls(v)
    <3>1. page' = PageOf(v, d, {v}, {d}, Unmatched(v, d)) /\ UNCHANGED <<findings, lit, timers>>
      BY <2>2, DesignPages DEF Design!ClickFilter, c, d
    <3>2. SeenPage' = Design!P!PressCls(SeenPage, v)
      <4>1. SeenPage' = AuditOf(v, d, {v}, {d}, Unmatched(v, d))
        BY <3>1, SeenAfter
      <4>2. Design!P!PressCls(AuditOf(c, d, {c}, {d}, Unmatched(c, d)), v)
              = AuditOf(v, d, {v}, {d}, Unmatched(v, d))
        BY SamePressCls
      <4> QED
        BY <2>1, <4>1, <4>2
    <3> QED
      BY <3>1, <3>2, SeenRows DEF Design!P!ClickCls, SeenPage, AuditOf, AuditRow
  <2>3. ASSUME NEW v \in Dimension \cup {"all"}, Design!ClickFilter("dim", v)
        PROVE  Design!P!ClickDim(v)
    <3>1. page' = PageOf(c, v, {c}, {v}, Unmatched(c, v)) /\ UNCHANGED <<findings, lit, timers>>
      BY <2>3, DesignPages DEF Design!ClickFilter, c, d
    <3>2. SeenPage' = Design!P!PressDim(SeenPage, v)
      <4>1. SeenPage' = AuditOf(c, v, {c}, {v}, Unmatched(c, v))
        BY <3>1, SeenAfter
      <4>2. Design!P!PressDim(AuditOf(c, d, {c}, {d}, Unmatched(c, d)), v)
              = AuditOf(c, v, {c}, {v}, Unmatched(c, v))
        BY SamePressDim
      <4> QED
        BY <2>1, <4>1, <4>2
    <3> QED
      BY <3>1, <3>2, SeenRows DEF Design!P!ClickDim, SeenPage, AuditOf, AuditRow
  <2>4. ASSUME NEW i \in Design!Rows, Design!ClickKeyLink(i)
        PROVE  Design!P!ClickKeyLink(i)
    <3>1. page' = PageOf("all", "all", {"all"}, {"all"}, {}) /\ UNCHANGED findings
      BY <2>4, DesignPages DEF Design!ClickKeyLink
    <3>2. SeenPage' = Design!P!KeyLink(SeenPage, i)
      BY <2>1, <3>1, SeenAfter, SameKeyLink
    <3>3. Len(timers) < MaxTimers /\ Design!P!Flash({i})
      BY <2>4 DEF Design!ClickKeyLink, Design!P!Flash
    <3> QED
      BY <3>1, <3>2, <3>3, SeenRows DEF Design!P!ClickKeyLink, SeenPage, AuditOf, AuditRow
  <2>5. ASSUME Design!Expire
        PROVE  Design!P!Expire
    <3>1. UNCHANGED <<findings, page>>
      BY <2>5 DEF Design!Expire
    <3>2. UNCHANGED SeenPage
      BY <3>1 DEF SeenPage
    <3> QED
      BY <2>5, <3>1, <3>2, SeenRows
      DEF Design!Expire, Design!EndFlash, Design!P!Expire, Design!P!EndFlash,
          SeenPage, AuditOf, AuditRow
  <2> QED
    BY <2>2, <2>3, <2>4, <2>5 DEF Design!Next
<1> QED
  BY <1>1, DesignInvariance, PTL DEF Design!Spec, Design!AuditPageSteps
===========================================================================
