----------------------------- MODULE ClosingPrices -----------------------------
(***************************************************************************)
(* The stored closing prices of one listing (entities/closing_price) and   *)
(* the operations that write them: the scheduled collection, the re-fetch  *)
(* of a day, the backfill of a range, the price entered by hand, the       *)
(* deletes, the listing's two unpriced markers, and the corporate actions  *)
(* whose recording re-derives stored prices.  Rows of different listings   *)
(* never touch one another.                                                *)
(*                                                                         *)
(* A fetch is not a transaction.  It reads the market and the stored rows, *)
(* waits for the provider, reads the corporate actions, stores its days    *)
(* one statement each, and ends with a re-base in a transaction of its     *)
(* own; a failed statement or a disconnected client ends it at any of      *)
(* these points.  Everything else is one write transaction.                *)
(*                                                                         *)
(* A figure is a small number and a derived price is kept as what it was   *)
(* derived from: the figure, the dates of the splits undone on it, and the *)
(* demerger factor undone on it.                                           *)
(***************************************************************************)
EXTENDS Integers, FiniteSets, FiniteSetsExt

CONSTANTS MaxDay,      \* bound: the last calendar day
          Figures,     \* the figures a provider or an operator may state
          Handlers,    \* requests that can be fetching at once
          Job,         \* the price-import job, which its lock keeps single
          Lookback,    \* COLLECTION_LOOKBACK_DAYS
          SplitDates,    \* bounds: the days that splits,
          DemergerDates, \*   demergers,
          MarkerDates,   \*   the unpriced markers
          HolidayDates,  \*   and holidays may be given
          MaxEdits     \* bound: operator requests and aborted fetches

Days     == 1 .. MaxDay
NoDay    == 0          \* an absent date
Failed   == 0          \* a day the provider served nothing for
Fetchers == Handlers \cup {Job}

ASSUME ConstantsAssumption ==
    /\ MaxDay \in Nat \ {0}
    /\ Figures \subseteq Nat \ {0}
    /\ Job \notin Handlers
    /\ Lookback \in Nat \ {0}
    /\ SplitDates \subseteq Days /\ DemergerDates \subseteq Days
    /\ MarkerDates \subseteq Days /\ HolidayDates \subseteq Days
    /\ MaxEdits \in Nat

VARIABLES
    today,      \* the latest calendar day; its close is final
    holidays,   \* exchange_holidays of the listing's exchange
    row,        \* closing_prices: the row of each day
    before,     \* listings.unpriced_before
    from,       \* listings.unpriced_from
    splits,     \* dates of the ShareSplit and BonusIssue actions
    demerger,   \* the Demerger with its stated close, if one is recorded
    fetch,      \* the fetches in flight
    unsettled,  \* ghost: prices changed basis with no re-base since
    edits       \* bound

vars == <<today, holidays, row, before, from, splits, demerger, fetch,
          unsettled, edits>>

-----------------------------------------------------------------------------
(* The rows.                                                               *)

Factors   == [ref : Figures \cup {Failed}, splits : SUBSET Days]
NoFactor  == [ref |-> Failed, splits |-> {}]
Prices    == [figure : Figures, splits : SUBSET Days, factor : Factors]
NoPrice   == [figure |-> Failed, splits |-> {}, factor |-> NoFactor]

NoRow == [status |-> "none", origin |-> "fetched", figure |-> Failed,
          obs |-> NoDay, price |-> NoPrice]
ErroredRow == [NoRow EXCEPT !.status = "error"]

(* An ok row has a figure and an observation, and no other row has.        *)
Rows == {NoRow, ErroredRow} \cup
        [status : {"ok"}, origin : {"fetched", "manual"}, figure : Figures,
         obs : Days, price : Prices]

IsOk(r)      == r.status = "ok"
IsManual(r)  == IsOk(r) /\ r.origin = "manual"
IsFetched(r) == IsOk(r) /\ r.origin = "fetched"

(* A price entered by hand is its own observation, in its day's basis.     *)
ManualRow(figure) ==
    [status |-> "ok", origin |-> "manual", figure |-> figure, obs |-> today,
     price |-> [NoPrice EXCEPT !.figure = figure]]

NoDemerger == [date |-> NoDay, close |-> NoDay]
Demergers  == {m \in [date : DemergerDates, close : Days] : m.close < m.date}

Between(dates, a, b) == {s \in dates : a < s /\ s <= b}

(* db_price_basis_events: a split states its ratio; a demerger's factor is *)
(* derived from the provider's figure stored for the stated close's day,   *)
(* itself taken back over the splits since.                                *)
DemergerFactor(rows, dates, m) ==
    IF m = NoDemerger THEN NoFactor
    ELSE LET ref == rows[m.close]
         IN  IF IsFetched(ref) /\ ref.obs >= m.date
             THEN [ref |-> ref.figure, splits |-> Between(dates, m.close, ref.obs)]
             ELSE NoFactor

EventsOf(rows, dates, m) ==
    [splits |-> dates, date |-> m.date, factor |-> DemergerFactor(rows, dates, m)]

Events   == EventsOf(row, splits, demerger)
NoEvents == [splits |-> {}, date |-> NoDay, factor |-> NoFactor]

(* contemporaneous_price: the figure over the events after the price's own *)
(* day and up to the observation.                                          *)
Contemporaneous(figure, events, d, obs) ==
    [figure |-> figure,
     splits |-> Between(events.splits, d, obs),
     factor |-> IF d < events.date /\ events.date <= obs
                THEN events.factor ELSE NoFactor]

FetchedRow(figure, events, d, obs) ==
    [status |-> "ok", origin |-> "fetched", figure |-> figure, obs |-> obs,
     price |-> Contemporaneous(figure, events, d, obs)]

(* db_rebase_listing_prices: every fetched ok price again from its figure. *)
Rebased(rows, events) ==
    [d \in Days |->
        IF IsFetched(rows[d])
        THEN [rows[d] EXCEPT !.price =
                  Contemporaneous(rows[d].figure, events, d, rows[d].obs)]
        ELSE rows[d]]

-----------------------------------------------------------------------------
(* The market: the calendar and the two markers.                           *)

IsTradingDay(d) == d \notin holidays
FinalDays   == {d \in 1 .. today : IsTradingDay(d)}
OkDays          == {d \in Days : IsOk(row[d])}
Superseded(d)   == before # NoDay /\ d < before
ServedUnder(b, fr, d) == (b # NoDay => d >= b) /\ (fr # NoDay => d < fr)
Served(d)       == ServedUnder(before, from, d)

(* The window of one collection run: the calendar days ending at the       *)
(* latest trading day whose close is final.                                *)
LookbackDays ==
    IF FinalDays = {} THEN {}
    ELSE {d \in FinalDays : d > Max(FinalDays) - Lookback}

-----------------------------------------------------------------------------
(* Fetches.  `late` is a ghost: the asked-for days that have since been    *)
(* priced by hand or fallen outside the markers.                           *)

Idle == [pc |-> "idle", days |-> {}, late |-> {}, got |-> [d \in Days |-> Failed],
         obs |-> NoDay, events |-> NoEvents]

FetchStates ==
    [pc : {"idle", "asked", "storing", "rebasing"}, days : SUBSET Days,
     late : SUBSET Days, got : [Days -> Figures \cup {Failed}],
     obs : Days \cup {NoDay},
     events : [splits : SUBSET Days, date : Days \cup {NoDay}, factor : Factors]]

Ask(f, days) ==
    /\ fetch[f].pc = "idle"
    /\ days # {}
    /\ fetch' = [fetch EXCEPT ![f] = [Idle EXCEPT !.pc = "asked", !.days = days]]
    /\ UNCHANGED <<today, holidays, row, before, from, splits, demerger, unsettled>>

Edit == edits < MaxEdits /\ edits' = edits + 1

(* Mutant: a day priced by hand may be asked for again.                    *)
RefetchableUnchecked(d) == d \in FinalDays /\ Served(d)

(* fetch_one: a final trading day the provider serves, not priced by hand. *)
Refetchable(d) ==
    /\ d \in FinalDays
    /\ Served(d)
    /\ ~IsManual(row[d])

FetchOne(f, d) ==
    /\ f \in Handlers
    /\ Edit
    /\ Refetchable(d)
    /\ Ask(f, {d})

(* backfill: the days of the range, clamped to the served span, that are   *)
(* not stored ok.  The range is refused when it has no final day; when     *)
(* unpriced_from is set and its first day is not served; and when          *)
(* unpriced_before is set and its last day is not served.                  *)
BackfillDays(a, b) == {d \in FinalDays : a <= d /\ d <= b /\ Served(d)} \ OkDays

BackfillAllowed(a, b) ==
    /\ a <= b
    /\ \E d \in FinalDays : d >= a
    /\ from # NoDay => Served(a)
    /\ before # NoDay => Served(b)

Backfill(f, a, b) ==
    /\ f \in Handlers
    /\ Edit
    /\ BackfillAllowed(a, b)
    /\ Ask(f, BackfillDays(a, b))

(* Mutant: an errored day counts as stored.                                *)
CollectionDaysNoRetry == {d \in LookbackDays : Served(d) /\ row[d].status = "none"}

(* run_collection, for a listing held throughout the window.               *)
CollectionDays == {d \in LookbackDays : Served(d)} \ OkDays

Collect ==
    /\ Ask(Job, CollectionDays)
    /\ UNCHANGED edits

(* The provider answers each day with a figure or a failure; the events    *)
(* are then read.                                                          *)
Answer(f, got) ==
    /\ fetch[f].pc = "asked"
    /\ \A d \in Days \ fetch[f].days : got[d] = Failed
    /\ fetch' = [fetch EXCEPT ![f].pc = "storing", ![f].got = got,
                              ![f].obs = today, ![f].events = Events]
    /\ UNCHANGED <<today, holidays, row, before, from, splits, demerger,
                   unsettled, edits>>

(* The row stored for a day: a price, or the record that there is none.    *)
StoredRow(me, d) ==
    IF me.got[d] = Failed THEN ErroredRow
    ELSE FetchedRow(me.got[d], me.events, d, me.obs)

(* One db_store: whatever is stored for the day is replaced.               *)
StoreDay(f) ==
    LET me == fetch[f]
        d  == Min(me.days)
    IN  /\ me.pc = "storing"
        /\ row' = [row EXCEPT ![d] = StoredRow(me, d)]
        /\ fetch' = [fetch EXCEPT
                        ![f].pc = IF me.days = {d} THEN "rebasing" ELSE @,
                        ![f].days = @ \ {d}, ![f].late = @ \ {d},
                        ![f].got[d] = Failed]
        /\ UNCHANGED <<today, holidays, before, from, splits, demerger,
                       unsettled, edits>>

(* Mutant: the re-base is left to the next action recorded.                *)
EndWithoutRebase(f) ==
    /\ fetch[f].pc = "rebasing"
    /\ fetch' = [fetch EXCEPT ![f] = Idle]
    /\ UNCHANGED <<today, holidays, row, before, from, splits, demerger,
                   unsettled, edits>>

(* The re-base that ends every fetch, in a transaction of its own.         *)
EndFetch(f) ==
    /\ fetch[f].pc = "rebasing"
    /\ fetch' = [fetch EXCEPT ![f] = Idle]
    /\ row' = Rebased(row, Events)
    /\ unsettled' = FALSE
    /\ UNCHANGED <<today, holidays, before, from, splits, demerger, edits>>

(* A statement fails, or the client has gone: what is stored stays.        *)
Abort(f) ==
    /\ Edit
    /\ fetch[f].pc # "idle"
    /\ fetch' = [fetch EXCEPT ![f] = Idle]
    /\ unsettled' = (unsettled \/ fetch[f].pc \in {"storing", "rebasing"})
    /\ UNCHANGED <<today, holidays, row, before, from, splits, demerger>>

-----------------------------------------------------------------------------
(* The other writers of the table, one transaction each.                   *)

(* The ghosts of a write that closes days to the provider.                 *)
CloseToFetches(days) ==
    fetch' = [f \in Fetchers |->
                 [fetch[f] EXCEPT !.late = @ \cup (days \cap fetch[f].days)]]

(* A write that changes the demerger's reference row and does not re-base. *)
MovesReference(d) == unsettled' = (unsettled \/ d = demerger.close)

(* put_manual: a final trading day, whatever is stored for it.             *)
PutManual(d, figure) ==
    /\ Edit
    /\ d \in FinalDays
    /\ row' = [row EXCEPT ![d] = ManualRow(figure)]
    /\ CloseToFetches({d})
    /\ MovesReference(d)
    /\ UNCHANGED <<today, holidays, before, from, splits, demerger>>

Deletable(d) == row[d].status = "error" \/ (IsOk(row[d]) /\ Superseded(d))

(* delete_one: guard and delete share the write transaction.               *)
DeleteOne(d) ==
    /\ Edit
    /\ Deletable(d)
    /\ row' = [row EXCEPT ![d] = NoRow]
    /\ MovesReference(d)
    /\ UNCHANGED <<today, holidays, before, from, splits, demerger, fetch>>

(* clear_unpriced_before: the whole superseded span.                       *)
ClearUnpricedBefore ==
    /\ Edit
    /\ before # NoDay
    /\ row' = [d \in Days |-> IF Superseded(d) THEN NoRow ELSE row[d]]
    /\ unsettled' = (unsettled \/ (demerger # NoDemerger /\ Superseded(demerger.close)))
    /\ UNCHANGED <<today, holidays, before, from, splits, demerger, fetch>>

(* The marker pairings of listing::write.                                  *)
MarkersAllowed(b, fr) ==
    /\ (b # NoDay /\ fr # NoDay) => b < fr
    /\ fr # NoDay =>
          /\ \E d \in OkDays : ServedUnder(b, fr, d)
          /\ \A d \in Days : IsFetched(row[d]) => d < fr

SetMarkers(b, fr) ==
    /\ Edit
    /\ <<b, fr>> # <<before, from>>
    /\ MarkersAllowed(b, fr)
    /\ before' = b
    /\ from' = fr
    /\ CloseToFetches({d \in Days : ~ServedUnder(b, fr, d)})
    /\ UNCHANGED <<today, holidays, row, splits, demerger, unsettled>>

(* corporate_action::db_upsert and db_delete of a price re-basing action:  *)
(* the listing's prices are re-derived in the action's own transaction.    *)
WriteActions(newSplits, newDemerger) ==
    /\ Edit
    /\ splits' = newSplits
    /\ demerger' = newDemerger
    /\ row' = Rebased(row, EventsOf(row, newSplits, newDemerger))
    /\ unsettled' = FALSE
    /\ UNCHANGED <<today, holidays, before, from, fetch>>

RecordSplit(d)    == WriteActions(splits \cup {d}, demerger) /\ d \notin splits
DeleteSplit(d)    == WriteActions(splits \ {d}, demerger) /\ d \in splits
StateDemerger(m)  == WriteActions(splits, m) /\ m # demerger
RemoveDemerger    == WriteActions(splits, NoDemerger) /\ demerger # NoDemerger

(* The price-rebase job, over the listings that have such an action.       *)
RunRebase ==
    /\ splits # {} \/ demerger # NoDemerger
    /\ row' = Rebased(row, Events)
    /\ unsettled' = FALSE
    /\ UNCHANGED <<today, holidays, before, from, splits, demerger, fetch, edits>>

(* exchange_holiday::db_upsert and db_delete.                              *)
EditHoliday(d) ==
    /\ Edit
    /\ holidays' = IF d \in holidays THEN holidays \ {d} ELSE holidays \cup {d}
    /\ UNCHANGED <<today, row, before, from, splits, demerger, fetch, unsettled>>

Tick ==
    /\ today < MaxDay
    /\ today' = today + 1
    /\ UNCHANGED <<holidays, row, before, from, splits, demerger, fetch,
                   unsettled, edits>>

-----------------------------------------------------------------------------
Init ==
    /\ today = 1
    /\ holidays = {}
    /\ row = [d \in Days |-> NoRow]
    /\ before = NoDay
    /\ from = NoDay
    /\ splits = {}
    /\ demerger = NoDemerger
    /\ fetch = [f \in Fetchers |-> Idle]
    /\ unsettled = FALSE
    /\ edits = 0

FetchStep(f) ==
    \/ \E got \in [Days -> Figures \cup {Failed}] : Answer(f, got)
    \/ StoreDay(f)
    \/ EndFetch(f)

Request ==
    \/ \E f \in Handlers, d \in Days : FetchOne(f, d)
    \/ \E f \in Handlers, a, b \in Days : Backfill(f, a, b)
    \/ \E d \in Days, figure \in Figures : PutManual(d, figure)
    \/ \E d \in Days : DeleteOne(d)
    \/ ClearUnpricedBefore
    \/ \E b, fr \in MarkerDates \cup {NoDay} : SetMarkers(b, fr)
    \/ \E d \in SplitDates : RecordSplit(d) \/ DeleteSplit(d)
    \/ \E d \in HolidayDates : EditHoliday(d)
    \/ \E m \in Demergers : StateDemerger(m)
    \/ RemoveDemerger
    \/ RunRebase

Next ==
    \/ Collect
    \/ \E f \in Fetchers : FetchStep(f) \/ Abort(f)
    \/ Request
    \/ Tick

Spec == Init /\ [][Next]_vars

(* The job is scheduled for ever, a fetch in flight makes progress, and a  *)
(* provider that keeps being asked answers in full some time.              *)
AnswerAll(f) ==
    \E got \in [Days -> Figures \cup {Failed}] :
        /\ \A d \in fetch[f].days : got[d] # Failed
        /\ Answer(f, got)

FairSpec ==
    /\ Spec
    /\ WF_vars(Collect)
    /\ \A f \in Fetchers : WF_vars(FetchStep(f)) /\ SF_vars(AnswerAll(f))

-----------------------------------------------------------------------------
TypeOK ==
    /\ today \in Days
    /\ holidays \subseteq Days
    /\ row \in [Days -> Rows]
    /\ before \in Days \cup {NoDay}
    /\ from \in Days \cup {NoDay}
    /\ splits \subseteq Days
    /\ demerger \in Demergers \cup {NoDemerger}
    /\ fetch \in [Fetchers -> FetchStates]
    /\ unsettled \in BOOLEAN
    /\ edits \in 0 .. MaxEdits

(* Every fetched price is its figure taken back over the re-basing actions *)
(* as they stand now.                                                      *)
InBasis ==
    \A d \in Days :
        IsFetched(row[d]) =>
            row[d].price = Contemporaneous(row[d].figure, Events, d, row[d].obs)

Storing == \E f \in Fetchers : fetch[f].pc \in {"storing", "rebasing"}

(* Whatever a fetch raced with (an action recorded while it waited for the *)
(* provider or between two of its stores, its own store of the demerger's  *)
(* reference day), its trailing re-base (collection.rs:219) leaves every   *)
(* price of the listing in its own day's basis: only a fetch still storing *)
(* and the events `unsettled` names leave one out of it.                   *)
BasisSettles == (~Storing /\ ~unsettled) => InBasis

(* The provider is asked only for days it may answer: a day that a fetch   *)
(* has yet to store, and that is priced by hand or outside the markers,    *)
(* became so after the fetch had asked for it.                             *)
ProviderKeepsOut ==
    \A f \in Fetchers : \A d \in fetch[f].days :
        IsManual(row[d]) \/ ~Served(d) => d \in fetch[f].late

(* "a manual price is only ever replaced by another manual price"          *)
(* (docs/API.md), outside the superseded span.                             *)
ManualOnlyByManual ==
    [][\A d \in Days : IsManual(row[d]) /\ ~Superseded(d) => IsManual(row'[d])]_vars

(* With finitely many operator requests and failed fetches, a job that     *)
(* keeps running and a provider that, asked for ever, at last answers,     *)
(* every served trading day of the collection window ends up priced and    *)
(* stays so (COLLECTION_LOOKBACK_DAYS: a lost or errored day is retried    *)
(* "instead of becoming a permanent hole").                                *)
GapsFilled == <>[](\A d \in LookbackDays : Served(d) => IsOk(row[d]))
====
