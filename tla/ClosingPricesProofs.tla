-------------------------- MODULE ClosingPricesProofs --------------------------
(***************************************************************************)
(* Proofs about ClosingPrices: a re-base puts every fetched price in its   *)
(* own day's basis, so prices settle whatever a fetch raced with; and a    *)
(* fetch asks only for days the provider may answer.                       *)
(***************************************************************************)
EXTENDS ClosingPrices, TLAPS

EventSets == [splits : SUBSET Days, date : Days \cup {NoDay}, factor : Factors]

\* A fetch that is storing knows when its figures were observed.
ObsKnown == \A f \in Fetchers : fetch[f].pc = "storing" => fetch[f].obs \in Days

IInv == TypeOK /\ ObsKnown

-----------------------------------------------------------------------------
(* Typing of the rows and events. *)

\* The markers for "no day" and "failed" are not days or figures.
LEMMA DaysFacts == Days \subseteq Nat /\ NoDay \notin Days /\ Failed \notin Figures
  BY ConstantsAssumption DEF Days, NoDay, Failed

\* A stated demerger has a reference day that is a close.
LEMMA DemergerTyped ==
    ASSUME NEW m \in Demergers \cup {NoDemerger}
    PROVE  /\ m.date \in Days \cup {NoDay}
           /\ m # NoDemerger => m.close \in Days
  BY ConstantsAssumption DEF Demergers, NoDemerger

\* The re-basing events of a listing have their type.
LEMMA EventsTyped ==
    ASSUME NEW rows \in [Days -> Rows], NEW dates \in SUBSET Days,
           NEW m \in Demergers \cup {NoDemerger}
    PROVE  EventsOf(rows, dates, m) \in EventSets
<1>1. NoFactor \in Factors
  BY DEF NoFactor, Factors
<1>2. ASSUME m # NoDemerger, IsFetched(rows[m.close])
      PROVE  [ref |-> rows[m.close].figure,
              splits |-> Between(dates, m.close, rows[m.close].obs)] \in Factors
  <2>1. rows[m.close] \in Rows
    BY <1>2, DemergerTyped
  <2>2. rows[m.close].figure \in Figures
    BY <2>1, <1>2 DEF Rows, IsFetched, IsOk, NoRow, ErroredRow
  <2> QED
    BY <2>2 DEF Factors, Between
<1>3. DemergerFactor(rows, dates, m) \in Factors
  BY <1>1, <1>2 DEF DemergerFactor
<1> QED
  BY <1>3, DemergerTyped DEF EventsOf, EventSets

\* A figure carried through the events of its observation is a price.
LEMMA PriceTyped ==
    ASSUME NEW figure \in Figures, NEW events \in EventSets, NEW d \in Days,
           NEW obs \in Days
    PROVE  Contemporaneous(figure, events, d, obs) \in Prices
<1>1. NoFactor \in Factors
  BY DEF NoFactor, Factors
<1>2. /\ events.splits \in SUBSET Days
      /\ events.factor \in Factors
  BY DEF EventSets
<1>3. Between(events.splits, d, obs) \in SUBSET Days
  BY <1>2 DEF Between
<1> QED
  BY <1>1, <1>2, <1>3 DEF Contemporaneous, Prices

\* Every row a writer stores is a row of closing_prices.
LEMMA RowsTyped ==
    /\ NoRow \in Rows
    /\ ErroredRow \in Rows
    /\ \A figure \in Figures, events \in EventSets, d, obs \in Days :
           FetchedRow(figure, events, d, obs) \in Rows
    /\ today \in Days => \A figure \in Figures : ManualRow(figure) \in Rows
<1>1. NoRow \in Rows /\ ErroredRow \in Rows
  BY DEF Rows
<1>2. \A figure \in Figures, events \in EventSets, d, obs \in Days :
          FetchedRow(figure, events, d, obs) \in Rows
  BY PriceTyped DEF FetchedRow, Rows
<1>3. ASSUME today \in Days, NEW figure \in Figures
      PROVE  ManualRow(figure) \in Rows
  <2>1. [NoPrice EXCEPT !.figure = figure] \in Prices
    BY DEF NoPrice, Prices, NoFactor, Factors
  <2> QED
    BY <1>3, <2>1 DEF ManualRow, Rows
<1> QED
  BY <1>1, <1>2, <1>3

\* Re-basing rewrites rows into rows.
LEMMA RebasedTyped ==
    ASSUME NEW rows \in [Days -> Rows], NEW events \in EventSets
    PROVE  Rebased(rows, events) \in [Days -> Rows]
<1>1. ASSUME NEW d \in Days, IsFetched(rows[d])
      PROVE  [rows[d] EXCEPT !.price =
                 Contemporaneous(rows[d].figure, events, d, rows[d].obs)] \in Rows
  <2>1. rows[d] \in [status : {"ok"}, origin : {"fetched", "manual"},
                     figure : Figures, obs : Days, price : Prices]
    BY <1>1 DEF Rows, IsFetched, IsOk, NoRow, ErroredRow
  <2>2. Contemporaneous(rows[d].figure, events, d, rows[d].obs) \in Prices
    BY <2>1, PriceTyped
  <2> QED
    BY <2>1, <2>2 DEF Rows
<1> QED
  BY <1>1 DEF Rebased

-----------------------------------------------------------------------------
(* A re-base reads only what it does not change, so it settles in one pass. *)

BasisOf(rows, events) ==
    \A d \in Days :
        IsFetched(rows[d]) =>
            rows[d].price = Contemporaneous(rows[d].figure, events, d, rows[d].obs)

\* Re-basing changes a fetched row's price only: its figure and observation day stay.
LEMMA RebaseKeepsObservations ==
    ASSUME NEW rows \in [Days -> Rows], NEW events, NEW d \in Days
    PROVE  /\ IsFetched(Rebased(rows, events)[d]) <=> IsFetched(rows[d])
           /\ IsFetched(rows[d]) =>
                 /\ Rebased(rows, events)[d].figure = rows[d].figure
                 /\ Rebased(rows, events)[d].obs = rows[d].obs
                 /\ Rebased(rows, events)[d].price =
                       Contemporaneous(rows[d].figure, events, d, rows[d].obs)
<1>1. CASE ~IsFetched(rows[d])
  BY <1>1 DEF Rebased
<1>2. CASE IsFetched(rows[d])
  <2>1. rows[d] \in [status : {"ok"}, origin : {"fetched", "manual"},
                     figure : Figures, obs : Days, price : Prices]
    BY <1>2 DEF Rows, IsFetched, IsOk, NoRow, ErroredRow
  <2> DEFINE new == Contemporaneous(rows[d].figure, events, d, rows[d].obs)
  <2>2. Rebased(rows, events)[d] = [rows[d] EXCEPT !.price = new]
    BY <1>2 DEF Rebased
  <2> HIDE DEF new
  <2>3. /\ Rebased(rows, events)[d].status = rows[d].status
        /\ Rebased(rows, events)[d].origin = rows[d].origin
        /\ Rebased(rows, events)[d].figure = rows[d].figure
        /\ Rebased(rows, events)[d].obs = rows[d].obs
        /\ Rebased(rows, events)[d].price = new
    BY <2>1, <2>2
  <2> QED
    BY <1>2, <2>3 DEF IsFetched, IsOk, new
<1> QED
  BY <1>1, <1>2

(* The events read from the rows depend on the demerger's reference row    *)
(* only, and of it on what a re-base keeps.                                *)
LEMMA EventsDependOnReference ==
    ASSUME NEW rows, NEW new, NEW dates, NEW m \in Demergers \cup {NoDemerger},
           m # NoDemerger =>
             /\ IsFetched(new[m.close]) <=> IsFetched(rows[m.close])
             /\ IsFetched(rows[m.close]) =>
                   /\ new[m.close].figure = rows[m.close].figure
                   /\ new[m.close].obs = rows[m.close].obs
    PROVE  EventsOf(new, dates, m) = EventsOf(rows, dates, m)
<1>1. DemergerFactor(new, dates, m) = DemergerFactor(rows, dates, m)
  BY DEF DemergerFactor
<1> QED
  BY <1>1 DEF EventsOf

\* What a re-base writes is settled for the events the rewritten rows themselves give.
LEMMA RebaseSettles ==
    ASSUME NEW rows \in [Days -> Rows], NEW dates \in SUBSET Days,
           NEW m \in Demergers \cup {NoDemerger}
    PROVE  LET new == Rebased(rows, EventsOf(rows, dates, m))
           IN  BasisOf(new, EventsOf(new, dates, m))
<1> DEFINE events == EventsOf(rows, dates, m)
           new    == Rebased(rows, events)
<1>1. EventsOf(new, dates, m) = events
  <2> HIDE DEF events
  <2>1. m # NoDemerger =>
             /\ IsFetched(new[m.close]) <=> IsFetched(rows[m.close])
             /\ IsFetched(rows[m.close]) =>
                   /\ new[m.close].figure = rows[m.close].figure
                   /\ new[m.close].obs = rows[m.close].obs
    BY RebaseKeepsObservations, DemergerTyped
  <2> HIDE DEF new
  <2>2. EventsOf(new, dates, m) = EventsOf(rows, dates, m)
    BY <2>1, EventsDependOnReference
  <2> QED
    BY <2>2 DEF events
<1>2. BasisOf(new, events)
  <2> HIDE DEF events
  <2> QED
    BY RebaseKeepsObservations DEF BasisOf
<1> QED
  BY <1>1, <1>2

-----------------------------------------------------------------------------
(* Type correctness. *)

\* An empty table satisfies the invariant.
LEMMA InitTyped == Init => IInv
<1> SUFFICES ASSUME Init PROVE IInv
  OBVIOUS
<1>1. Idle \in FetchStates
  BY DEF Idle, FetchStates, NoEvents, NoFactor, Factors
<1>2. NoRow \in Rows
  BY RowsTyped
<1>3. 1 \in Days
  BY ConstantsAssumption DEF Days
<1>4. 0 \in 0 .. MaxEdits
  BY ConstantsAssumption
<1>5. TypeOK
  BY <1>1, <1>2, <1>3, <1>4 DEF Init, TypeOK
<1>6. ObsKnown
  BY DEF Init, ObsKnown, Idle
<1> QED
  BY <1>5, <1>6 DEF IInv

\* Putting the days of a collection to the provider keeps the invariant.
LEMMA AskTyped ==
    ASSUME IInv, NEW f \in Fetchers, NEW days \in SUBSET Days, Ask(f, days),
           edits' \in 0 .. MaxEdits
    PROVE  IInv'
<1> DEFINE asked == [Idle EXCEPT !.pc = "asked", !.days = days]
<1>1. asked \in FetchStates /\ asked.pc = "asked"
  BY DEF Idle, FetchStates, NoEvents, NoFactor, Factors
<1>2. fetch' = [fetch EXCEPT ![f] = asked]
  BY DEF Ask
<1> HIDE DEF asked
<1>3. fetch' \in [Fetchers -> FetchStates]
  BY <1>1, <1>2 DEF IInv, TypeOK
<1>4. ObsKnown'
  BY <1>1, <1>2 DEF IInv, TypeOK, ObsKnown
<1> QED
  BY <1>3, <1>4 DEF IInv, TypeOK, Ask

\* An edit counts against the bound and stays within it.
LEMMA EditTyped ==
    ASSUME IInv, Edit
    PROVE  edits' \in 0 .. MaxEdits
  BY ConstantsAssumption DEF IInv, TypeOK, Edit

\* Telling the fetches in flight that days moved under them keeps their types.
LEMMA LateTyped ==
    ASSUME IInv, NEW days \in SUBSET Days, CloseToFetches(days)
    PROVE  fetch' \in [Fetchers -> FetchStates] /\ ObsKnown'
<1>1. ASSUME NEW f \in Fetchers
      PROVE  /\ fetch'[f] \in FetchStates
             /\ fetch'[f].pc = fetch[f].pc
             /\ fetch'[f].obs = fetch[f].obs
  <2>1. fetch[f] \in FetchStates
    BY DEF IInv, TypeOK
  <2>2. fetch'[f] = [fetch[f] EXCEPT !.late = @ \cup (days \cap fetch[f].days)]
    BY DEF CloseToFetches
  <2> QED
    BY <2>1, <2>2 DEF FetchStates
<1>2. fetch' \in [Fetchers -> FetchStates]
  BY <1>1 DEF CloseToFetches
<1> QED
  BY <1>1, <1>2 DEF IInv, ObsKnown

\* Writing a corporate action and re-basing with it keeps the invariant.
LEMMA WriteActionsTyped ==
    ASSUME IInv, NEW dates \in SUBSET Days, NEW m \in Demergers \cup {NoDemerger},
           WriteActions(dates, m)
    PROVE  IInv'
<1>1. row' \in [Days -> Rows]
  BY EventsTyped, RebasedTyped DEF WriteActions, IInv, TypeOK
<1>2. edits' \in 0 .. MaxEdits
  BY EditTyped DEF WriteActions
<1> QED
  BY <1>1, <1>2 DEF WriteActions, IInv, TypeOK, ObsKnown

\* Every step keeps the types and the observation days.
LEMMA StepTyped ==
    ASSUME IInv, [Next]_vars
    PROVE  IInv'
<1> USE DEF IInv
<1>0. row \in [Days -> Rows] /\ today \in Days /\ Events \in EventSets
  BY EventsTyped DEF TypeOK, Events
<1>b. FinalDays \subseteq Days
  BY <1>0, ConstantsAssumption DEF FinalDays, Days
<1>1. CASE Collect
  <2>1. CollectionDays \in SUBSET Days
    BY <1>b DEF CollectionDays, LookbackDays
  <2> QED
    BY <1>1, <2>1, AskTyped DEF Collect, Fetchers, TypeOK
<1>2. ASSUME NEW f \in Fetchers, NEW got \in [Days -> Figures \cup {Failed}],
             Answer(f, got)
      PROVE  IInv'
  <2>1. fetch[f] \in FetchStates
    BY DEF TypeOK
  <2> DEFINE new == [fetch[f] EXCEPT !.pc = "storing", !.got = got,
                                     !.obs = today, !.events = Events]
  <2>2. new \in FetchStates /\ new.obs \in Days
    BY <1>0, <2>1 DEF FetchStates, EventSets
  <2>3. fetch' = [fetch EXCEPT ![f] = new]
    BY <1>2 DEF Answer
  <2> HIDE DEF new
  <2> QED
    BY <1>2, <2>2, <2>3 DEF Answer, TypeOK, ObsKnown
<1>3. ASSUME NEW f \in Fetchers, StoreDay(f)
      PROVE  IInv'
  <2> DEFINE me == fetch[f]
             d  == Min(me.days)
             new == [me EXCEPT !.pc = IF me.days = {d} THEN "rebasing" ELSE @,
                               !.days = @ \ {d}, !.late = @ \ {d},
                               !.got = [@ EXCEPT ![d] = Failed]]
  <2>1. me \in FetchStates /\ me.pc = "storing" /\ me.obs \in Days
    BY <1>3 DEF TypeOK, ObsKnown, StoreDay
  <2>2. row' = [row EXCEPT ![d] = StoredRow(me, d)] /\ fetch' = [fetch EXCEPT ![f] = new]
    BY <1>3 DEF StoreDay
  <2>3. d \in Days => StoredRow(me, d) \in Rows
    <3> HIDE DEF d, me
    <3>1. d \in Days => me.got[d] \in Figures \cup {Failed}
      BY <2>1 DEF FetchStates
    <3>2. me.events \in EventSets
      BY <2>1 DEF FetchStates, EventSets
    <3> QED
      BY <2>1, <3>1, <3>2, RowsTyped DEF StoredRow
  <2>4. new \in FetchStates /\ new.obs \in Days
    <3> HIDE DEF d
    <3>1. [me.got EXCEPT ![d] = Failed] \in [Days -> Figures \cup {Failed}]
      BY <2>1 DEF FetchStates
    <3> QED
      BY <2>1, <3>1 DEF FetchStates
  <2> HIDE DEF new, d, me
  <2>5. row' \in [Days -> Rows]
    BY <1>0, <2>2, <2>3
  <2>6. fetch' \in [Fetchers -> FetchStates] /\ ObsKnown'
    BY <2>2, <2>4 DEF TypeOK, ObsKnown
  <2>7. UNCHANGED <<today, holidays, before, from, splits, demerger, unsettled, edits>>
    BY <1>3 DEF StoreDay
  <2> QED
    BY <2>5, <2>6, <2>7 DEF TypeOK
<1>a. Idle \in FetchStates /\ Idle.pc = "idle"
  BY DEF Idle, FetchStates, NoEvents, NoFactor, Factors
<1>4. ASSUME NEW f \in Fetchers, EndFetch(f)
      PROVE  IInv'
  <2>1. row' \in [Days -> Rows]
    BY <1>0, <1>4, RebasedTyped DEF EndFetch
  <2> QED
    BY <1>4, <1>a, <2>1 DEF EndFetch, TypeOK, ObsKnown
<1>5. ASSUME NEW f \in Fetchers, Abort(f)
      PROVE  IInv'
  <2>1. fetch' = [fetch EXCEPT ![f] = Idle] /\ edits' \in 0 .. MaxEdits
    BY <1>5, EditTyped DEF Abort
  <2> QED
    BY <1>5, <1>a, <2>1 DEF Abort, TypeOK, ObsKnown
<1>6. ASSUME NEW f \in Handlers, NEW d \in Days, FetchOne(f, d)
      PROVE  IInv'
  BY <1>6, AskTyped, EditTyped DEF FetchOne, Fetchers
<1>7. ASSUME NEW f \in Handlers, NEW a \in Days, NEW b \in Days, Backfill(f, a, b)
      PROVE  IInv'
  <2>1. BackfillDays(a, b) \in SUBSET Days
    BY <1>b DEF BackfillDays
  <2> QED
    BY <1>7, <2>1, AskTyped, EditTyped DEF Backfill, Fetchers
<1>8. ASSUME NEW d \in Days, NEW figure \in Figures, PutManual(d, figure)
      PROVE  IInv'
  <2>1. row' \in [Days -> Rows]
    BY <1>0, <1>8, RowsTyped DEF PutManual
  <2>2. fetch' \in [Fetchers -> FetchStates] /\ ObsKnown' /\ edits' \in 0 .. MaxEdits
    BY <1>8, LateTyped, EditTyped DEF PutManual
  <2> QED
    BY <1>8, <2>1, <2>2 DEF PutManual, MovesReference, TypeOK
<1>9. ASSUME NEW d \in Days, DeleteOne(d)
      PROVE  IInv'
  <2>1. row' \in [Days -> Rows] /\ edits' \in 0 .. MaxEdits
    BY <1>0, <1>9, RowsTyped, EditTyped DEF DeleteOne
  <2> QED
    BY <1>9, <2>1 DEF DeleteOne, MovesReference, TypeOK, ObsKnown
<1>10. CASE ClearUnpricedBefore
  <2>1. row' \in [Days -> Rows] /\ edits' \in 0 .. MaxEdits
    BY <1>0, <1>10, RowsTyped, EditTyped DEF ClearUnpricedBefore
  <2> QED
    BY <1>10, <2>1 DEF ClearUnpricedBefore, TypeOK, ObsKnown
<1>11. ASSUME NEW b \in MarkerDates \cup {NoDay}, NEW fr \in MarkerDates \cup {NoDay},
              SetMarkers(b, fr)
       PROVE  IInv'
  <2>1. fetch' \in [Fetchers -> FetchStates] /\ ObsKnown' /\ edits' \in 0 .. MaxEdits
    BY <1>11, LateTyped, EditTyped DEF SetMarkers
  <2> QED
    BY <1>11, <2>1, ConstantsAssumption DEF SetMarkers, TypeOK
<1>12. ASSUME NEW d \in SplitDates, RecordSplit(d) \/ DeleteSplit(d)
       PROVE  IInv'
  <2>1. splits \cup {d} \in SUBSET Days /\ splits \ {d} \in SUBSET Days
    BY ConstantsAssumption DEF TypeOK
  <2> QED
    BY <1>12, <2>1, WriteActionsTyped DEF RecordSplit, DeleteSplit, TypeOK
<1>13. ASSUME NEW m \in Demergers, StateDemerger(m)
       PROVE  IInv'
  BY <1>13, WriteActionsTyped DEF StateDemerger, TypeOK
<1>14. CASE RemoveDemerger
  BY <1>14, WriteActionsTyped DEF RemoveDemerger, TypeOK
<1>15. CASE RunRebase
  <2>1. row' \in [Days -> Rows]
    BY <1>0, <1>15, RebasedTyped DEF RunRebase
  <2> QED
    BY <1>15, <2>1 DEF RunRebase, TypeOK, ObsKnown
<1>16. ASSUME NEW d \in HolidayDates, EditHoliday(d)
       PROVE  IInv'
  <2>1. edits' \in 0 .. MaxEdits
    BY <1>16, EditTyped DEF EditHoliday
  <2> QED
    BY <1>16, <2>1, ConstantsAssumption DEF EditHoliday, TypeOK, ObsKnown
<1>17. CASE Tick
  BY <1>17, ConstantsAssumption DEF Tick, TypeOK, ObsKnown, Days
<1>18. CASE UNCHANGED vars
  BY <1>18 DEF vars, TypeOK, ObsKnown
<1>19. CASE Request
  BY <1>19, <1>6, <1>7, <1>8, <1>9, <1>10, <1>11, <1>12, <1>13, <1>14, <1>15, <1>16
     DEF Request
<1> QED
  BY <1>1, <1>2, <1>3, <1>4, <1>5, <1>17, <1>18, <1>19 DEF Next, FetchStep

(* The stored rows, the markers, the actions and the fetches in flight     *)
(* keep their types: in particular an ok row always has a figure and an    *)
(* observation day (closing_prices' CHECKs), whatever the provider served. *)
THEOREM TypeCorrect == Spec => []TypeOK
<1>1. Init => IInv
  BY InitTyped
<1>2. IInv /\ [Next]_vars => IInv'
  BY StepTyped
<1>3. IInv => TypeOK
  BY DEF IInv
<1> QED
  BY <1>1, <1>2, <1>3, PTL DEF Spec

-----------------------------------------------------------------------------
(* Prices settle. *)

\* An empty table is settled.
LEMMA InitBasis == Init => BasisSettles
  BY DEF Init, BasisSettles, InBasis, NoRow, IsFetched, IsOk

(* A step that leaves the observations of a set of days alone, the         *)
(* demerger's reference day among them, and makes no other day's row a     *)
(* fetched one, keeps a settled listing settled.                           *)
LEMMA QuietStep ==
    ASSUME IInv, BasisSettles, Storing' = Storing, unsettled' \in BOOLEAN,
           unsettled => unsettled',
           splits' = splits, demerger' = demerger,
           \A d \in Days : row'[d] = row[d] \/ ~IsFetched(row'[d]),
           ~unsettled' /\ demerger # NoDemerger =>
               row'[demerger.close] = row[demerger.close]
    PROVE  BasisSettles'
<1> SUFFICES ASSUME ~Storing', ~unsettled' PROVE InBasis'
  BY DEF BasisSettles
<1>1. InBasis
  BY DEF BasisSettles, IInv, TypeOK
<1>2. Events' = Events
  BY EventsDependOnReference DEF IInv, TypeOK, Events
<1> QED
  BY <1>1, <1>2 DEF InBasis

\* A step that re-bases with the actions it writes leaves every price settled.
LEMMA RebaseStep ==
    ASSUME IInv, NEW dates \in SUBSET Days, NEW m \in Demergers \cup {NoDemerger},
           row' = Rebased(row, EventsOf(row, dates, m)), splits' = dates, demerger' = m
    PROVE  BasisSettles'
<1>1. BasisOf(row', EventsOf(row', dates, m))
  BY RebaseSettles DEF IInv, TypeOK
<1>2. InBasis'
  BY <1>1 DEF BasisOf, InBasis, Events
<1> QED
  BY <1>2 DEF BasisSettles

\* Every step leaves prices settled, or says what unsettled them.
LEMMA StepSettles ==
    ASSUME IInv, BasisSettles, [Next]_vars
    PROVE  BasisSettles'
<1> USE DEF IInv
<1>t. /\ row \in [Days -> Rows]
      /\ splits \in SUBSET Days
      /\ demerger \in Demergers \cup {NoDemerger}
      /\ fetch \in [Fetchers -> FetchStates]
      /\ unsettled \in BOOLEAN
  BY DEF TypeOK
<1>u. demerger # NoDemerger => demerger.close \in Days
  BY <1>t, DemergerTyped
<1>1. ASSUME NEW f \in Fetchers, NEW days, Ask(f, days)
      PROVE  BasisSettles'
  <2> DEFINE asked == [Idle EXCEPT !.pc = "asked", !.days = days]
  <2>1. asked.pc = "asked" /\ fetch' = [fetch EXCEPT ![f] = asked] /\ fetch[f].pc = "idle"
    BY <1>1 DEF Ask, Idle
  <2> HIDE DEF asked
  <2>2. Storing' = Storing
    BY <1>t, <2>1 DEF Storing
  <2> QED
    BY <1>1, <1>t, <2>2, QuietStep DEF Ask
<1>2. ASSUME NEW f \in Fetchers, NEW got, Answer(f, got)
      PROVE  BasisSettles'
  <2>1. fetch'[f].pc = "storing"
    BY <1>2, <1>t DEF Answer, FetchStates
  <2> QED
    BY <2>1 DEF BasisSettles, Storing
<1>3. ASSUME NEW f \in Fetchers, StoreDay(f)
      PROVE  BasisSettles'
  <2>1. fetch'[f].pc \in {"storing", "rebasing"}
    BY <1>3, <1>t DEF StoreDay, FetchStates
  <2> QED
    BY <2>1 DEF BasisSettles, Storing
<1>4. ASSUME NEW f \in Fetchers, EndFetch(f)
      PROVE  BasisSettles'
  BY <1>4, <1>t, RebaseStep DEF EndFetch, Events
<1>5. ASSUME NEW f \in Fetchers, Abort(f)
      PROVE  BasisSettles'
  <2>1. CASE fetch[f].pc \in {"storing", "rebasing"}
    BY <1>5, <2>1 DEF Abort, BasisSettles
  <2>2. CASE fetch[f].pc \notin {"storing", "rebasing"}
    <3>1. Storing' = Storing
      BY <1>5, <1>t, <2>2 DEF Abort, Storing, Idle
    <3>2. unsettled' = unsettled
      BY <1>5, <1>t, <2>2 DEF Abort
    <3> QED
      BY <1>5, <1>t, <3>1, <3>2, QuietStep DEF Abort
  <2> QED
    BY <2>1, <2>2
<1>l. ASSUME NEW days, CloseToFetches(days)
      PROVE  Storing' = Storing
  <2>1. \A f \in Fetchers : fetch'[f].pc = fetch[f].pc
    BY <1>t, <1>l DEF CloseToFetches, FetchStates
  <2> QED
    BY <2>1 DEF Storing
<1>6. ASSUME NEW d \in Days, NEW figure \in Figures, PutManual(d, figure)
      PROVE  BasisSettles'
  <2>1. Storing' = Storing
    BY <1>6, <1>l DEF PutManual
  <2>2. \A e \in Days : row'[e] = row[e] \/ ~IsFetched(row'[e])
    BY <1>6, <1>t DEF PutManual, ManualRow, IsFetched
  <2>3. /\ unsettled' \in BOOLEAN
        /\ unsettled => unsettled'
        /\ ~unsettled' => d # demerger.close
    BY <1>6 DEF PutManual, MovesReference
  <2>4. ~unsettled' /\ demerger # NoDemerger =>
            row'[demerger.close] = row[demerger.close]
    BY <1>6, <1>t, <1>u, <2>3 DEF PutManual
  <2> QED
    BY <1>6, <2>1, <2>2, <2>3, <2>4, QuietStep DEF PutManual
<1>7. ASSUME NEW d \in Days, DeleteOne(d)
      PROVE  BasisSettles'
  <2>1. Storing' = Storing
    BY <1>7 DEF DeleteOne, Storing
  <2>2. \A e \in Days : row'[e] = row[e] \/ ~IsFetched(row'[e])
    BY <1>7, <1>t DEF DeleteOne, NoRow, IsFetched, IsOk
  <2>3. /\ unsettled' \in BOOLEAN
        /\ unsettled => unsettled'
        /\ ~unsettled' => d # demerger.close
    BY <1>7 DEF DeleteOne, MovesReference
  <2>4. ~unsettled' /\ demerger # NoDemerger =>
            row'[demerger.close] = row[demerger.close]
    BY <1>7, <1>t, <1>u, <2>3 DEF DeleteOne
  <2> QED
    BY <1>7, <2>1, <2>2, <2>3, <2>4, QuietStep DEF DeleteOne
<1>8. CASE ClearUnpricedBefore
  <2>1. Storing' = Storing
    BY <1>8 DEF ClearUnpricedBefore, Storing
  <2>2. \A e \in Days : row'[e] = row[e] \/ ~IsFetched(row'[e])
    BY <1>8, <1>t DEF ClearUnpricedBefore, NoRow, IsFetched, IsOk
  <2>3. /\ unsettled' \in BOOLEAN
        /\ unsettled => unsettled'
        /\ ~unsettled' /\ demerger # NoDemerger => ~Superseded(demerger.close)
    BY <1>8 DEF ClearUnpricedBefore
  <2>4. ~unsettled' /\ demerger # NoDemerger =>
            row'[demerger.close] = row[demerger.close]
    BY <1>8, <1>t, <1>u, <2>3 DEF ClearUnpricedBefore
  <2> QED
    BY <1>8, <2>1, <2>2, <2>3, <2>4, QuietStep DEF ClearUnpricedBefore
<1>9. ASSUME NEW b, NEW fr, SetMarkers(b, fr)
      PROVE  BasisSettles'
  <2>1. Storing' = Storing
    BY <1>9, <1>l DEF SetMarkers
  <2> QED
    BY <1>9, <1>t, <2>1, QuietStep DEF SetMarkers
<1>10. ASSUME NEW dates \in SUBSET Days, NEW m \in Demergers \cup {NoDemerger},
              WriteActions(dates, m)
       PROVE  BasisSettles'
  BY <1>10, RebaseStep DEF WriteActions
<1>11. ASSUME NEW d \in SplitDates, RecordSplit(d) \/ DeleteSplit(d)
       PROVE  BasisSettles'
  <2>1. splits \cup {d} \in SUBSET Days /\ splits \ {d} \in SUBSET Days
    BY <1>t, ConstantsAssumption
  <2> QED
    BY <1>11, <1>t, <1>10, <2>1 DEF RecordSplit, DeleteSplit
<1>12. ASSUME NEW m \in Demergers, StateDemerger(m)
       PROVE  BasisSettles'
  BY <1>12, <1>t, <1>10 DEF StateDemerger
<1>13. CASE RemoveDemerger
  BY <1>13, <1>t, <1>10 DEF RemoveDemerger
<1>14. CASE RunRebase
  BY <1>14, <1>t, RebaseStep DEF RunRebase, Events
<1>15. ASSUME UNCHANGED <<row, splits, demerger, fetch, unsettled>>
       PROVE  BasisSettles'
  BY <1>15 DEF BasisSettles, InBasis, Storing, Events
<1>16. CASE Request
  <2>1. ASSUME NEW f \in Handlers, NEW d \in Days, FetchOne(f, d)
        PROVE  BasisSettles'
    BY <2>1, <1>1 DEF FetchOne, Fetchers
  <2>2. ASSUME NEW f \in Handlers, NEW a \in Days, NEW b \in Days, Backfill(f, a, b)
        PROVE  BasisSettles'
    BY <2>2, <1>1 DEF Backfill, Fetchers
  <2>3. ASSUME NEW d \in HolidayDates, EditHoliday(d)
        PROVE  BasisSettles'
    BY <2>3, <1>15 DEF EditHoliday
  <2> QED
    BY <1>16, <2>1, <2>2, <2>3, <1>6, <1>7, <1>8, <1>9, <1>11, <1>12, <1>13, <1>14
       DEF Request
<1>17. CASE Collect
  BY <1>17, <1>1 DEF Collect, Fetchers
<1>18. CASE Tick
  BY <1>18, <1>15 DEF Tick
<1>19. CASE UNCHANGED vars
  BY <1>19, <1>15 DEF vars
<1> QED
  BY <1>2, <1>3, <1>4, <1>5, <1>16, <1>17, <1>18, <1>19 DEF Next, FetchStep

(* Whatever actions, deletes, markers and other fetches a fetch raced      *)
(* with, the re-base that ends it leaves every fetched price of the        *)
(* listing in its own day's basis.                                         *)
THEOREM BasisSettlesAlways == Spec => []BasisSettles
<1>1. Init => IInv /\ BasisSettles
  BY InitTyped, InitBasis
<1>2. IInv /\ BasisSettles /\ [Next]_vars => IInv' /\ BasisSettles'
  BY StepTyped, StepSettles
<1> QED
  BY <1>1, <1>2, PTL DEF Spec

-----------------------------------------------------------------------------
(* What a fetch may still store. *)

\* A collection that checked its days before asking keeps out of the manual and unserved ones.
LEMMA AskKeepsOut ==
    ASSUME IInv, ProviderKeepsOut, NEW f \in Fetchers, NEW days \in SUBSET Days,
           \A d \in days : ~IsManual(row[d]) /\ Served(d),
           Ask(f, days)
    PROVE  ProviderKeepsOut'
<1> DEFINE asked == [Idle EXCEPT !.pc = "asked", !.days = days]
<1>1. asked.days = days
  BY DEF Idle
<1>2. /\ fetch' = [fetch EXCEPT ![f] = asked]
      /\ UNCHANGED <<row, before, from>>
  BY DEF Ask
<1> HIDE DEF asked
<1>3. ASSUME NEW g \in Fetchers, NEW d \in fetch'[g].days
      PROVE  (IsManual(row[d]) \/ ~Served(d)) => d \in fetch'[g].late
  <2>1. CASE g = f
    BY <1>1, <1>2, <1>3, <2>1 DEF IInv, TypeOK
  <2>2. CASE g # f
    BY <1>2, <1>3, <2>2 DEF IInv, TypeOK, ProviderKeepsOut
  <2> QED
    BY <2>1, <2>2
<1> QED
  BY <1>2, <1>3 DEF ProviderKeepsOut, Served

(* A step that closes no day to the provider and asks for none.            *)
LEMMA ClosesNothing ==
    ASSUME IInv, ProviderKeepsOut, UNCHANGED <<before, from>>,
           \A d \in Days : IsManual(row'[d]) => IsManual(row[d]),
           \A f \in Fetchers : fetch'[f] = fetch[f] \/ fetch'[f].days = {}
    PROVE  ProviderKeepsOut'
<1> SUFFICES ASSUME NEW f \in Fetchers, NEW d \in fetch'[f].days,
                    IsManual(row'[d]) \/ ~Served(d)
             PROVE  d \in fetch'[f].late
  BY DEF ProviderKeepsOut, Served
<1>1. fetch'[f] = fetch[f]
  OBVIOUS
<1>2. d \in Days
  BY <1>1 DEF IInv, TypeOK, FetchStates
<1> QED
  BY <1>1, <1>2 DEF ProviderKeepsOut

\* Every step keeps the provider out of days it was not asked for.
LEMMA StepKeepsOut ==
    ASSUME IInv, ProviderKeepsOut, [Next]_vars
    PROVE  ProviderKeepsOut'
<1> USE DEF IInv
<1>t. /\ row \in [Days -> Rows]
      /\ fetch \in [Fetchers -> FetchStates]
      /\ \A f \in Fetchers : fetch[f].days \subseteq Days
  BY DEF TypeOK, FetchStates
<1>b. FinalDays \subseteq Days
  BY ConstantsAssumption DEF FinalDays, Days, TypeOK
<1>i. Idle.days = {}
  BY DEF Idle
<1>r. ASSUME NEW events
      PROVE  \A d \in Days : IsManual(Rebased(row, events)[d]) => IsManual(row[d])
  <2> SUFFICES ASSUME NEW d \in Days, IsManual(Rebased(row, events)[d])
               PROVE  IsManual(row[d])
    OBVIOUS
  <2>1. ~IsFetched(Rebased(row, events)[d])
    BY DEF IsManual, IsFetched
  <2>2. ~IsFetched(row[d])
    BY <1>t, <2>1, RebaseKeepsObservations
  <2> QED
    BY <2>2 DEF Rebased
<1>1. CASE Collect
  <2>1. CollectionDays \in SUBSET Days
    BY <1>b DEF CollectionDays, LookbackDays
  <2>2. \A d \in CollectionDays : ~IsManual(row[d]) /\ Served(d)
    BY <2>1 DEF CollectionDays, OkDays, IsManual
  <2> QED
    BY <1>1, <2>1, <2>2, AskKeepsOut DEF Collect, Fetchers
<1>2. ASSUME NEW f \in Fetchers, NEW got, Answer(f, got)
      PROVE  ProviderKeepsOut'
  <2>1. \A g \in Fetchers : fetch'[g].days = fetch[g].days /\ fetch'[g].late = fetch[g].late
    BY <1>2, <1>t DEF Answer, FetchStates
  <2> QED
    BY <1>2, <2>1 DEF Answer, ProviderKeepsOut, Served
<1>3. ASSUME NEW f \in Fetchers, StoreDay(f)
      PROVE  ProviderKeepsOut'
  <2> DEFINE d == Min(fetch[f].days)
  <2>1. /\ \A g \in Fetchers \ {f} : fetch'[g] = fetch[g]
        /\ fetch'[f].days = fetch[f].days \ {d}
        /\ fetch'[f].late = fetch[f].late \ {d}
    BY <1>3, <1>t DEF StoreDay, FetchStates
  <2>2. /\ row' = [row EXCEPT ![d] = StoredRow(fetch[f], d)]
        /\ UNCHANGED <<before, from>>
    BY <1>3 DEF StoreDay
  <2>3. ~IsManual(StoredRow(fetch[f], d))
    BY DEF StoredRow, ErroredRow, NoRow, FetchedRow, IsManual, IsOk
  <2> HIDE DEF d
  <2>4. \A e \in Days : IsManual(row'[e]) => IsManual(row[e])
    BY <1>t, <2>2, <2>3
  <2> QED
    BY <1>t, <2>1, <2>2, <2>4 DEF ProviderKeepsOut, Served
<1>4. ASSUME NEW f \in Fetchers, EndFetch(f)
      PROVE  ProviderKeepsOut'
  BY <1>4, <1>t, <1>i, <1>r, ClosesNothing DEF EndFetch
<1>5. ASSUME NEW f \in Fetchers, Abort(f)
      PROVE  ProviderKeepsOut'
  BY <1>5, <1>t, <1>i, ClosesNothing DEF Abort
<1>6. ASSUME NEW f \in Handlers, NEW d \in Days, FetchOne(f, d)
      PROVE  ProviderKeepsOut'
  BY <1>6, AskKeepsOut DEF FetchOne, Refetchable, Fetchers
<1>7. ASSUME NEW f \in Handlers, NEW a \in Days, NEW b \in Days, Backfill(f, a, b)
      PROVE  ProviderKeepsOut'
  <2>1. BackfillDays(a, b) \in SUBSET Days
    BY <1>b DEF BackfillDays
  <2>2. \A d \in BackfillDays(a, b) : ~IsManual(row[d]) /\ Served(d)
    BY <2>1 DEF BackfillDays, OkDays, IsManual
  <2> QED
    BY <1>7, <2>1, <2>2, AskKeepsOut DEF Backfill, Fetchers
<1>l. ASSUME NEW days, CloseToFetches(days)
      PROVE  \A f \in Fetchers :
                /\ fetch'[f].days = fetch[f].days
                /\ fetch'[f].late = fetch[f].late \cup (days \cap fetch[f].days)
  BY <1>t, <1>l DEF CloseToFetches, FetchStates
<1>8. ASSUME NEW d \in Days, NEW figure \in Figures, PutManual(d, figure)
      PROVE  ProviderKeepsOut'
  <2>1. \A f \in Fetchers :
            /\ fetch'[f].days = fetch[f].days
            /\ fetch'[f].late = fetch[f].late \cup ({d} \cap fetch[f].days)
    BY <1>8, <1>l DEF PutManual
  <2>2. \A e \in Days \ {d} : row'[e] = row[e]
    BY <1>8, <1>t DEF PutManual
  <2>3. UNCHANGED <<before, from>>
    BY <1>8 DEF PutManual
  <2> QED
    BY <1>t, <2>1, <2>2, <2>3 DEF ProviderKeepsOut, Served
<1>9. ASSUME NEW d \in Days, DeleteOne(d)
      PROVE  ProviderKeepsOut'
  <2>1. \A e \in Days : IsManual(row'[e]) => IsManual(row[e])
    BY <1>9, <1>t DEF DeleteOne, NoRow, IsManual, IsOk
  <2> QED
    BY <1>9, <2>1, ClosesNothing DEF DeleteOne
<1>10. CASE ClearUnpricedBefore
  <2>1. \A e \in Days : IsManual(row'[e]) => IsManual(row[e])
    BY <1>10, <1>t DEF ClearUnpricedBefore, NoRow, IsManual, IsOk
  <2> QED
    BY <1>10, <2>1, ClosesNothing DEF ClearUnpricedBefore
<1>11. ASSUME NEW b, NEW fr, SetMarkers(b, fr)
       PROVE  ProviderKeepsOut'
  <2> DEFINE closed == {d \in Days : ~ServedUnder(b, fr, d)}
  <2>1. \A f \in Fetchers :
            /\ fetch'[f].days = fetch[f].days
            /\ fetch'[f].late = fetch[f].late \cup (closed \cap fetch[f].days)
    BY <1>11, <1>l DEF SetMarkers
  <2>2. row' = row /\ before' = b /\ from' = fr
    BY <1>11 DEF SetMarkers
  <2>3. \A d \in Days : Served(d)' = ServedUnder(b, fr, d)
    BY <2>2 DEF Served, ServedUnder
  <2>4. ASSUME NEW f \in Fetchers, NEW d \in fetch[f].days,
               IsManual(row[d]) \/ ~ServedUnder(b, fr, d)
        PROVE  d \in fetch'[f].late
    BY <1>t, <2>1, <2>4 DEF ProviderKeepsOut
  <2> QED
    BY <1>t, <2>1, <2>2, <2>3, <2>4 DEF ProviderKeepsOut
<1>12. ASSUME NEW dates, NEW m, WriteActions(dates, m)
       PROVE  ProviderKeepsOut'
  BY <1>12, <1>r, ClosesNothing DEF WriteActions
<1>13. CASE RunRebase
  BY <1>13, <1>r, ClosesNothing DEF RunRebase
<1>14. ASSUME UNCHANGED <<row, before, from, fetch>>
       PROVE  ProviderKeepsOut'
  BY <1>14 DEF ProviderKeepsOut, Served
<1>15. CASE Request
  <2>1. ASSUME NEW d \in SplitDates, RecordSplit(d) \/ DeleteSplit(d)
        PROVE  ProviderKeepsOut'
    BY <2>1, <1>12 DEF RecordSplit, DeleteSplit
  <2>2. ASSUME NEW m \in Demergers, StateDemerger(m)
        PROVE  ProviderKeepsOut'
    BY <2>2, <1>12 DEF StateDemerger
  <2>3. CASE RemoveDemerger
    BY <2>3, <1>12 DEF RemoveDemerger
  <2>4. ASSUME NEW d \in HolidayDates, EditHoliday(d)
        PROVE  ProviderKeepsOut'
    BY <2>4, <1>14 DEF EditHoliday
  <2> QED
    BY <1>15, <2>1, <2>2, <2>3, <2>4, <1>6, <1>7, <1>8, <1>9, <1>10, <1>11, <1>13
       DEF Request
<1>16. CASE Tick
  BY <1>16, <1>14 DEF Tick
<1>17. CASE UNCHANGED vars
  BY <1>17, <1>14 DEF vars
<1> QED
  BY <1>1, <1>2, <1>3, <1>4, <1>5, <1>15, <1>16, <1>17 DEF Next, FetchStep

(* The checks made before the provider is asked are complete: a fetch can  *)
(* only take a hand-priced or unserved day that became so while it was in  *)
(* flight (fetch_one, backfill and run_collection against put_manual and   *)
(* listing::write).                                                        *)
THEOREM ProviderKeepsOutAlways == Spec => []ProviderKeepsOut
<1>1. Init => IInv /\ ProviderKeepsOut
  BY InitTyped DEF Init, ProviderKeepsOut, Idle
<1>2. IInv /\ ProviderKeepsOut /\ [Next]_vars => IInv' /\ ProviderKeepsOut'
  BY StepTyped, StepKeepsOut
<1> QED
  BY <1>1, <1>2, PTL DEF Spec
====
