# share-tracker in TLA+

share-tracker is a single-user server for an Australian share portfolio: an
axum HTTP API and a web page over one SQLite database, with scheduled
maintenance jobs. This directory holds TLA+ models of the parts whose state is
hard to get right, the TLC runs that check them on small instances, and TLAPS
proofs of the properties that matter most.

Run `tlc -config <cfg> <module>` for any row of the table of runs below, and
`tlapm <module>` for the proof modules. `PROJECT.json` lists the runs, the
mutants that each property must catch, the source lines every definition
stands for, the hazards and the theorems.

## Inventory

One process, one SQLite database in WAL mode. Every write handler is one
`BEGIN IMMEDIATE` transaction (`infra/db.rs` `write_tx`), so SQLite serialises
writers and a handler is one atomic step of a model; a dry run is the same
transaction rolled back. Concurrency is real in three places: the job tasks of
the scheduler, the files of the backup job, and work that spans transactions
(a price or distribution fetch between reading and writing, a report computed
from rows that change afterwards).

| Component | State | Operations | What is hard | What makes it correct |
|---|---|---|---|---|
| Scheduler (`infra/scheduler/`) | job locks, `job_runs`, `job_schedule`, one loop per schedule entry | trigger, run, record, store the next occurrence, restart | overlapping runs, panics, dropped requests, failed writes, restarts | one run of a job at a time; a bounded and truthful history; an entry that stops is visible |
| Ledger (`entities/trade`, `sell`, `transfer`) | `trades`, `parcel_allocations`, `transfers` | create, edit, delete parcels, sells and transfers | edits of rows others have drawn on | no parcel oversold; sales fully allocated, in order, in their account; transfers whole |
| Whole-holding operations (`scrip_exchange`, `demerger`, `worthless`, `buyback_participation`) | closing sells and replacement parcels of `trades`, `income` | execute, undo by deleting the closing sell | undo after later use, operations on top of operations, back-dated entries | a group exists whole or not at all; nothing becomes stranded behind an operation |
| Backup (`infra/db.rs`) | the backup directory | copy, verify, install, prune, sweep | power cuts, failing disks, repeated pruning | a backup name is a sound copy; the retention policy loses nothing it promises |
| Corporate actions (`entities/corporate_action`) | `corporate_actions`, split residuals | create, edit, delete, settle rounding | actions referenced by executed operations | executed actions are immutable; rounding settles to one result |
| Price collection (`entities/closing_price`) | `closing_prices` | collect, repair gaps, rebase after splits | late, partial and rebased answers | every held day has one price on the right basis, eventually |
| Snapshots (`reports/snapshot.rs`) | stored reports | take, mark stale, true up | rows change under a stored report | a snapshot served as current equals a fresh one |
| Distributions and reinvestment (`income`, `drp_*`, `distribution_event`) | `income`, enrolment periods, reinvestment trades with their residuals | record, enrol, reinvest, undo, edit, delete | residuals are stored but derived from a chain that is edited out of order | each residual carried forward is the next one brought forward; none is both refunded and spent |
| AMIT (`amma`, `amit_adjustment*`) | statements, adjustments | write and re-point statements; generate, regenerate, type in, delete | units moved between accounts and exchanged after the year end, statements re-pointed under their rows | every unit held at the year end is placed once, in a parcel that still has it |
| Rights, cash in lieu, ESS, inheritances | parcels and their provenance | exercise, sell, vest | entitlement consumed twice | never more exercised and sold than held |
| Alerts and email (`price_alert`, `weekly_summary`, `infra/email.rs`) | `price_alerts` | scan, send, record | refused mail, failed inserts, kills, closes corrected meanwhile | a move that stands is logged at last; a repeat has its cut run |
| Tax reports (`reports/net_capital_gain.rs`, `tax_*`, `realised_gains`, `parcel_optimiser`) | none | compute | loss order, cost bases below zero, rounding, rehearsed sales | every dollar taxed once; losses used best; what a rehearsal foretells comes true |
| Portfolio reports, cross-checks, health, row history | none | query | - | read-only |
| Reference data, HTTP, authentication, configuration, web page | CRUD tables, sessions | import, log in | throttling | sessions expire |

## Plan

Done, in this order: `Scheduler`, `ParcelLedger`, `Backup`, `ClosingPrices` and
their proofs; `Snapshot`; `Alerts`, `Drp`, `AmitGeneration`, `CapitalGains`,
`ParcelOptimiser`, `EntryClock`; the abstract `JobService` and the proof that
`Scheduler` implements it. The list of runs is kept to twelve and that of
checked properties to forty: components that share no state share a run through
a module that is their sum (`MCSchedulerClock`, `MCBackupAlerts`, `MCRecords`),
and what is new takes the place of what is settled. That is why the type
invariants of the four modules with proofs are proved and not run, and
`NoConcurrentRuns`, which `ImplementsJobService` implies.

Left, with what stands in the way:

1. `CorporateActions`: the guards that keep an executed action as it is and
   `db_settle` rounding. It would compose with the ledger, whose runs are at
   their time limit.
2. `Rights` and cash in lieu: entitlement against its uses.
3. `Auth`: the login throttle (`LockoutTracker`) and session expiry.
4. `RolloverWalk`: the ancestors of a replacement parcel, across splits.
   (`AmitGeneration` follows them in one basis.)

More abstract specifications worth stating: holdings per account and listing as
plain counters (implemented by `ParcelLedger`), a set of retained backups
(implemented by `Backup`).

Every invariant and every action property of the runs is proved. The theorems
worth adding are the refinements of those two specifications, once written.

## Modules

### Scheduler

`task[r]` is a spawned `run_attached` for runner `r` (a schedule entry or an
HTTP request), with its place in the code as `pc`; `holder` and `waiters` are
the fair tokio mutex of each job; `runs` and `nextRun` are the `job_runs` table
and its AUTOINCREMENT sequence; `entry` is each `run_entry` loop and `sched`
the `job_schedule` table. `Boot` is `schedule::spawn`, `Crash` takes every task
and keeps the tables. `Trigger`/`Disconnect` are the HTTP handler and its
caller going away. `StartRun`, `FinishRun`, `RecordRun` are the three
transactions of a run, `StartRunFails` and `RecordFails` their failures, which
the code logs and survives. `Record` is `StoredSchedule::record` with its
update, insert and forget paths. Time is abstracted to "an occurrence comes"
(`EntryClock` is about which); the text of errors and notes is left out.

`JobService` is what a caller of the jobs may rely on, with no word of locks,
queues, rows or tasks: a job has one runner at a time, its result changes only
when that run ends, to what it recorded, and a restart ends every run and
publishes nothing. `ImplementsJobService` maps `active[j]` to the tasks between
the lock and its release and `result[j]` to the status last recorded.

### EntryClock

When one daily entry fires. Instants are ticks of the system clock; the zone's
wall clock is the instant, moved by `shift` from `change` on, which is a
spring-forward gap or a repeated hour. `Offers` is what the cron library
proposes (external: croner offers a repeated time once and a skipped one at the
end of the gap, which it also offers to an entry due earlier that day), `IsGenuineOccurrence` and `NextOccurrence` are the
filter of `run.rs`; `ComputeNext` is the loop with its naps of at most
`MAX_SLEEP`, which recompute, and its last sleep, which does not. `ClockTick` is
time passing, on the clock and under the sleep; `StepClock` moves the clock
alone. One entry, one change of the zone's clock, in the middle of the second
day. A run ends before the next occurrence, even on the shortest day
(`MaxRuntime`): the code computes an occurrence only after the run, so one that
outlasts it is passed over by design.

### ParcelLedger

`trades[i]` is a row of `trades`, `allocs[s][p]` the units of parcel `p`
allocated to Sell `s`, `transfers[t]` a transfer with its fee sale, `dividends`
the Sells with an `income` row. Each action is one handler with all of its
checks, including the shared ones: `SellAllowed` is what `upsert_sell_in_tx`
refuses for an entered Sell and for every closing Sell alike. Prices, money,
settlement dates, unit scales, market holidays and splits are left out: none of
the properties tells them apart, except that a split between a purchase and a
sale would scale the units compared. A DRP parcel behaves as a Buy.
`ExecutedFrom` and `BackDated` are the guard of `domain/whole_holding.rs`
against entering parcels behind an operation that consumed the whole holding.

### Backup

A file is a pair of a second and a kind; `files` is the directory as the
process sees it and `images` every directory a power cut may bring back (all
its contents since the last directory flush). A copy's data flushes separately,
so `unflushed` names backups whose data may be lost although their name
survives. The steps of a run are those of `backup`, `backup_to` and `install`;
`Quarantine`, `StepFails` and `EndPrune` are the ways it fails. `Kill` keeps the
files; `PowerCut` picks an image. `Boot` is the sweep in `main.rs`. Two backups
with different suffixes in one second are taken as one name; the code names a backup
by local time, of which an hour comes twice when daylight saving ends, and the
model's clock never goes back; the post-backup command is a step with no effect on
the directory. Verification is taken to be
right: it passes a copy only if it is restorable.

The directory semantics are those of a file system that orders directory
operations, the weakest that `install` relies on.

### ClosingPrices

The stored prices of one listing: `row[d]` is the `closing_prices` row of day
`d`, `before` and `from` the listing's two unpriced markers, `splits` and
`demerger` the corporate actions that re-base prices, `holidays` the calendar
(weekends are days that are always in it, so they are left out). A derived price
is kept as what it was derived from (the figure, the splits and the demerger
factor undone on it): two prices are equal when their derivations are. `fetch[f]`
is a `fetch_and_store` in flight for a handler or the job: `Ask` reads the
market and the stored rows, `Answer` is the provider's reply followed by the read
of the actions, `StoreDay` is one `db_store`, `EndFetch` the trailing re-base;
`Abort` ends it between any two of these. Collection, `FetchOne` and `Backfill`
differ in the days they ask for. `PutManual`, `DeleteOne`,
`ClearUnpricedBefore`, `SetMarkers` and `WriteActions` are one write transaction
each, the last including the re-base that the corporate-action handlers make.

Two ghosts serve the properties. `late` are the days of a fetch that were closed
to the provider after it had asked for them; `unsettled` is set by the two kinds
of event after which the code leaves prices out of their basis until the next
re-base: a fetch ended between its stores and its re-base, and a write of the
demerger's reference day that does not re-base.

The two reads before the provider is asked (markers, stored rows) are one step:
reading the rows later only takes days away. One demerger is recorded at a time,
the listing is held throughout, and symbols, renames and the crypto publication
lag are left out.

### Snapshot

`snap[d]` is the three reports of day `d` with their stale flag: per listing,
whether it was absent, excluded or valued, and at which price and rate. `held`,
`price`, `before`, `from`, `holidays` and `rate` are the facts they come from,
and each action that writes one includes the trigger of the migrations that
marks snapshots stale. `Report`, `IsBlocked` and `IsExcluded` are
`valuations_of_markets`. `run[r]` is a run under way: `StartJob` is
`run_snapshot_job`, `RegenerateAll` and `RegenerateProvisional` the bulk
requests, `TrueUp` what an import does after it inserted a rate; `GenerateNext`
is one `generate`, a write transaction, with the clock (`now`) of the run's
start. `GenerateFails`, `ImportFails` and `Kill` are the ways a run is cut
short. `closed[l]` is the clock, as the last day of each market whose close is
final.

Three ghosts: `cut` says that a true-up was killed or failed part way, `alone`
that only the job has stepped since it last started, and `gapped` are the dates
whose snapshot a marker dated on a closed day has divided from its valuation day,
when it was stored or since (see below, at migration 0052).

A trade is the set of days on which its listing is held; quantities, cost bases
and income are left out, and with them the other fact tables, whose triggers
are the same. One foreign currency; listings on exchanges of their own; no
renames.

### Alerts

One run of the price-alert job at a time (the scheduler's lock): `BeginAlertRun`
is `scan`, one read transaction over the held listings; `SendAccepted` and
`SendFails` the message, which may be delivered and still reported as failed;
`RecordAlerts` the insert; `AlertRunCut` a failed insert or a kill. Closes,
basis events and holdings are written in between by `WriteClose`,
`WriteBasisEvent` and `WriteHolding`. `inbox` and `unlogged` are histories: what
was delivered, and which deliveries never reached the log. The weekly summary
keeps no state and is left out.

### Drp

One listing in one account: `periods` are its enrolments, `income` its
distributions, `drpTrades` the DRP trades with the residual each brought forward
(`bf`), carries or had refunded. `ResidualSplit` is the stored split of a
leftover, re-derived over a period's chain by every handler that calls
`recompute_residuals`. `Reinvest` and `Unreinvest` are the two handlers of a
reinvestment; the periods' handlers are `CreatePeriod`, `ReplacePeriod`,
`MovePeriodAway` and `DeletePeriod`. Money is in small units of which a share
costs `UnitPrice`; a statement may state units that leave nothing over, so a
leftover is a choice. Two ghosts name what the code leaves as it was:
`reshaped`, trades whose chain a period write changed under them, and `undone`,
trades that an undo made the last of their chain.

### AmitGeneration

The parcels of a fund (`lots`), what drew on them (`draws`: sells, transfers,
exchanges), the stored statements by id (`ammaStatements`: of which listing, for
which account, of which year) and the stored `adjustments`. `Placement` is `generate`'s walk: the
units open in the statement's account at its year end, followed through every
later transfer into the parcel they are in now; units exchanged since, or whose
transfer-in parcel is not found, are left for hand entry. What the walk hands on is
a `Holding`: the parcel the units were in at the year end, the one they are in, how
many, and the moves that brought them there, so that two rows for one parcel stay
two, as they do in the code's list. `Ancestors` is the closure
that `source_ancestors` searches level by level, without its depth limit of ten
operations on one parcel. `RowAllowed` is what the write path asks of
any row, typed or generated. Purchases, edits of a purchase, sells, transfers,
exchanges and their undo come in any order. All quantities are in one unit basis.

`CreateStatement`, `ReplaceStatement` and `DeleteStatement` are the handlers of
`amma.rs`. Replacing one may change its listing, account and year end; `write` has
no check of the adjustments that were entered for the old ones, while the other
side of the pair is guarded: a parcel that is adjusted or drawn on keeps its account
(`Freezing`, `EditLot`) and its listing (an edit that is frozen on the same terms,
and left out, as are edits of a parcel's date). Deleting a statement that has rows is
refused by their foreign key. Each row has a ghost, `of`: the holding its statement
was for when the row was checked. A row is `Repointed` while its statement is for
another holding than that, and then `AdjustmentsReachUnits` says only that its parcel
is there with the units it adjusts; every other row also traces back to the holding
of its statement. Without the exception the property is violated, by a generated row
and one `PUT`.

### CapitalGains

Reports as functions of what is recorded. `AdjustedCostBase` and
`ReductionForUnits` are `domain/cost_base.rs`; `RealisedItems` the gains of
sells; `NonDisposalGains` those without a disposal: a cost base driven below
zero (E10 of AMIT statements, G1 of returns of capital) and a payment whose
right outlived the parcel (C2); `NetYears` the netting and the losses carried;
`WhatIf` the rehearsal of a sell. `AcquireParcel`, `PayCapital`,
`EnterStatement`, `CoverUnits` and `RecordSell` write the facts. One listing in
AUD; amounts are in ticks, `CentGrain` to a cent, so that rounding to cents
rounds. Transfers, exchanges and splits inside the gains, rights, indexation and
foreign currencies are left out. `EnterStatement` takes one statement a year, which
the code does not enforce; payments are a set, so that two which are alike in every
respect are one.

### ParcelOptimiser

The four strategies over the parcels open on a contemplated date
(`CandidatesAt`), and the Sell that records one of them. `MinGainPicks` is the
search over breakpoints; it is compared with all allocations there are. A
parcel's cost is spread evenly over its units, and units are whole.

## Runs

| Run | Shows | Bounds |
|---|---|---|
| `scheduler` | `FinishFindsItsRow`, `HistoryBounded`, `LatestRowIsLatestRun`, `HistoryIsAppendOnly`, `OpenRowsExplained`, `ScheduleRowsOwned`, `ImplementsJobService`; `FiresOnceADay`, `OnlyStepsLoseOrRepeat` | one job, two entries, one request, history of 2, 4 run ids, a restart and a failed write: more runs than the history holds, so that pruning meets open rows. The clock: 3 days of 8 ticks, naps of 3, a change by up to a quarter day, one step |
| `scheduler_live` | `EveryRunEnds`, `EntryKeepsFiring` | fair specification; one job, one entry, two requests, history of 1, 4 run ids, a restart and a failed write |
| `parcel_transfers` | `AllocationsSound`, `NoParcelOversold`, `SaleFullyAllocated`, `TransfersWhole` | two entered trades of up to 2 units, 6 rows, 2 accounts, 2 transfers, worthless and buy-back actions |
| `parcel_actions` | `OperationsWhole`, `NothingNewlyStranded` | four actions over two listings and three days, 7 rows |
| `parcel_edit` | violated: `EditNeverNewlyBehind` | a demerger and a worthless event, four days |
| `backup_alerts` | `InstalledSound`, `HistoryKept`, `NothingLost`, `BoundedByPruning`; `LogMatchesMail`, `MoveGetsLogged` | backups: 5 seconds in months of 2, keep 1 recent, 2 months, 1 bad; 2 failures, 2 crashes. Alerts: two listings, 3 days, closes of 0, 10 and 11 at 10%, 3 writes, 1 fault |
| `backup_failing_disk` | violated: `QuarantineBounded` | 3 bad copies in a row |
| `prices_basis` | `BasisSettles` | 3 days, one handler and the job, a split and a demerger on the last day, 3 requests or aborts |
| `prices_markers` | `ProviderKeepsOut`, `GapsFilled` | fair specification; 3 days, a lookback of 2, markers and a holiday, no re-basing actions |
| `prices_manual` | violated: `ManualOnlyByManual` | one handler |
| `snapshots` | `FreshIsTrue`, `TrueUpPending`, `CaughtUp` | two interchangeable listings, 2 days of one month and the month before it, fallback of 1 month, one import, one bulk request, 2 edits or failures |
| `records` | `RecordsWellFormed`, `ChainConserved`, `SplitDerived`; `EveryUnitPlaced`, `GenerationNeverRefused`, `AdjustmentsReachUnits`; `EveryDollarTaxedOnce`, `LossesUsedBest`, `WhatIfForetells`; `StrategiesOptimal`, `AdviceRecordable` | three distributions and two periods over 2 days; 4 parcels, 3 writes (re-pointing a statement is one), two interchangeable accounts with statements of either listing, a year end and one statement id; two parcels of 2 units, 4 writes, three income years; three parcels, one earlier sale |

In `scheduler`, `backup_alerts` and `records`, `part` says which component a
behaviour is about; the others stay as they start.

Why the bounds are enough. The scheduler's properties concern two runs of one
job and a row being pruned: a history of 2 with more runs than that makes every
prune decision occur, with runs queued, working and returned at once. Jobs share
no lock and no row (the proofs are for any set of them), so one job is enough.
In the ledger the smallest counterexamples of every mutant need two parcels and two
disposals of one of them; 6 or 7 rows leave room for an operation on top of an
operation. Three months against `KeepMonthly = 2` is the smallest case in which
a monthly keeper is dropped, and one recent backup forces the monthly rule to
matter at once. Bounds are the constants named `Max...` in each module; the
AUTOINCREMENT sequence of `trades` is compacted at its top (only the order of
ids matters), which is why a deleted newest row's id may come back in the model.

For prices, three days hold a price day, a reference day and a re-basing date in
every order around an observation, and two fetchers are the smallest number that
can interleave.

For snapshots, two days let a price, a holiday, a marker or a rate of the first
reach the snapshot of the second; two listings are needed for a date on which
one is excluded and the other valued; two edits put one before and one during a
run. Edits, requests and failures draw on one bound; prices collected, rates
imported and closes come besides.

A residual chain of three reinvestments has a middle, whose removal or re-shaping
is what could break it; a leftover that differs from the amount brought forward
needs a price that does not divide the cash. Four parcels are a purchase, its
transfer in, its exchange and one more purchase. One stored statement is enough for
rows, since no check of a row looks at the rows of another statement; what generation
places and whether it is refused is asked for every statement that could be stored. In the gains, three years let a
loss be carried over a year with nothing in it, 18 ticks against a statement of
12 a unit and a payment of 24 drive a cost base below zero from either side, and
4 ticks to a cent leave remainders in every share. Two naps and a rest make the
distance between occurrences of the clock, so that a step falls in a nap, in the
last sleep and between them.

Deadlock is not checked: a process may crash for good, and every model has a
bound at which nothing more happens.

Fairness (`FairSpec` of Scheduler): tokio polls a woken task again, its mutex is
fair (FIFO), jobs end because their HTTP clients and the backup command have
time limits, and an armed timer goes off. No fairness is assumed of requests,
crashes or failures. `FairSpec` of ClosingPrices: the price-import job keeps being
scheduled (`EntryKeepsFiring`), a fetch in flight proceeds, and a provider asked
again and again at some time answers all the days asked for; requests and aborts
are finitely many (`MaxEdits`). `AlertFairness`: the job keeps being scheduled, a
run that has movers sends them and then records them; failures are finitely many
(`MaxMailFaults`), and nothing is assumed of the writers.

## What the violated runs show

* `domain/whole_holding.rs` promises to refuse an edit that moves a parcel
  behind an operation "it was not already behind"; the code asks only whether
  the parcel is already behind *some* operation. With two executed operations, a
  parcel between them can be moved before both.
* `README.md` of the repository says quarantined backups are bounded to three
  because a failing disk fails every run. A run that fails verification returns
  before the only code that prunes them, so exactly that disk leaves one copy a
  week until a run succeeds.
* `docs/API.md` line 400 says a manual price is only ever replaced by another
  manual price. It is looked for before the network call and the fetched row is
  stored unconditionally after it, so one entered in between is lost (and a
  fetched row may likewise land on or after a marker set in between).

Some more disagreements met while modelling have no run of their own.
`docs/API.md` line 402 says a backfill crossing a marker is clamped; with both
markers set it is refused, because each end is tested against both of them
(`closing_price/http.rs` line 339).
`docs/API.md` line 479 says a run recorded as `running` is in flight or was not
survived by its process; `run_attached` only logs a completion write that fails,
and the row then stays `running` (`OpenRowsExplained` excepts it).
`closing_price.rs` line 108 says an ok row is never removed, "so no valuation can
lose a price it once had"; a failed re-fetch replaces it by an errored row.
`closing_price.rs` line 56 gives the formula every stored price satisfies; a
manual price on a demerger's reference day takes the factor out of that formula
and leaves the other prices as they were, until an unrelated fetch changes them
(`unsettled`). `reports/snapshot.rs` line 776 says no later fact turns a
carried-forward close into a real one; a price entered by hand in the unpriced run
does, for its own day and the ones after it, and since an inserted price marks
nothing stale the stored figures stay. The trigger of migration 0052 takes
`unpriced_before` as a bound on snapshot dates where valuation takes it as one on
trading days, so a marker dated on a closed day leaves the snapshots of the days
between the two as they were, and so does moving it away again from a snapshot
stored meanwhile. `FreshIsTrue` excepts the carried-forward close, and these
dates until they are stored again (`gapped`).

`amit_adjustment.rs` lines 338 to 340 say a statement "only ever adjusts parcels of its
own listing, held in its own holding account", but for rollover replacements;
`amma.rs` re-points a statement that has adjustments without looking at them, and they
stay where they were (`AdjustmentsReachUnits` excepts them, `Repointed`).

`price_alert.rs` line 3 says a move is "emailed at least once per move"; only a listing's
two latest closes are compared, so a move whose send failed is lost once another
close is stored (`MoveGetsLogged` is about a move that stays the latest).
`docs/API.md` line 797 and `drp_enrolment.rs` line 24 say the last residual of a
period "is refunded once the period ends"; undoing the last reinvestment of an
ended period re-derives nothing, so the new last one still carries its residual
until the period is next written (`undone`), and a period write that takes the
later of two chained reinvestments out of the chain leaves the same cash refunded
by one and brought forward by the other (`reshaped`). A transfer that moved equal
units of two parcels acquired on one day has them generated into one parcel,
which the write path refuses although the preview showed the rows (`Twins`). The
what-if report does not measure the year's recorded sells again, although the
sell it rehearses may take the units their events were spread over
(`WhatIfForetells` excepts them). `parcel_optimiser.rs` near line 150 calls its
candidates "exactly the set a real Sell dated then could allocate"; a past date
offers units that a later Sell has since taken, which the Sell is then refused
(`AdviceRecordable` excepts them). `run.rs` line 134 says the loop "re-anchors to
the wall clock within an hour of any shift"; an occurrence within `MAX_SLEEP`
after a step forward may be napped over and is then lost, and a step back during
the last sleep runs it twice; and a run that a step made late may still be at work
when the next one comes (`OnlyStepsLoseOrRepeat` says exactly when).

## Proofs

All theorems hold for every value of the constants under the modules' named
assumptions. Each is proved by an inductive invariant: none of the properties is
inductive by itself.

| Module | Theorems | Inductive invariant |
|---|---|---|
| `SchedulerProofs` | `TypeCorrect`, `FinishFindsItsRowAlways`, `HistoryBoundedAlways`, `NoConcurrentRunsAlways`, `SchedulerImplementsJobService`, `HistoryStaysAppendOnly` | `IInv`: `TypeOK`, `LockInv` (the holder of a lock is the only task past the queue, and a queue holds exactly the queued tasks), `EntryInv` (an entry awaits exactly the task it spawned), and the two history invariants |
| | `LatestRowStaysLatestRun` | `LatestInv`: a run in flight that has a row has the newest of its job, and the newest row of a job with no run in flight has the last result |
| | `OpenRowsStayExplained`, `ScheduleRowsStayOwned` | the first is inductive over `IInv`; `ScheduleInv`: past its claim an entry knows its row, unless a write has failed |
| | `FiresEveryDayOnce` | `ClockInv`: while no step was made, the occurrences run are the consecutive ones from the first, each at its instant, and the clock has not got past the one after the last |
| | `OnlyStepsDisturb` | `StepInv`: what the clock has reached, or will before the wait under way ends, is accounted for, and so is all before what the loop waits for; with no step back, the occurrences run are ever later ones |
| `ParcelLedgerProofs` | `TypeCorrect`, `AllocationsSoundAlways` | `IInv`: `TypeOK`, `AllocationsSound`, `FeesSound` (a transfer's fee sale exists and is no operation's) |
| | `NeverOversold`, `NeverNewlyStranded` | `Covered`: `IInv` and `NoParcelOversold` |
| | `AlwaysFullyAllocated` | `Drawn`: `IInv` and `SaleFullyAllocated` |
| | `TransfersStayWhole`, `OperationsStayWhole` | `Whole`: `IInv` and both properties |
| `BackupAlertsProofs` | `TypeCorrect`, `InstalledSoundAlways`, `NothingLostAlways` | `IInv`: `TypeOK`, `CopyInv` (a copy is sound and flushed by the time it is renamed), `RunInv` (the run in progress is the newest and its backup is not doomed), `ClockInv` (what was made durable is in every image) |
| | `HistoryIsKept`, `PruningBounds` | `PolicyInv`: `PruneInv` (what a prune leaves is bounded and covers what it deletes), `PastInv` (`HistoryKept` in every directory a power cut may leave), `DebrisInv` (a staging file is the run's own or a failed step's) |
| | `LogAlwaysMatchesMail` | `MailInv`: the deliveries of a pair are numbered without a gap; a run has each listing's mover once and none that is logged; one more delivery of a close than `unlogged` has exactly while it is in the log or in the run that has mailed it |
| `ClosingPricesProofs` | `TypeCorrect`, `BasisSettlesAlways`, `ProviderKeepsOutAlways` | `TypeOK`, `ObsKnown` (a fetch that is storing has an observation date), and each property itself |
| `SnapshotProofs` | `FreshAlwaysTrue` | `FreshInv`: `TypeOK`, `RunsBehind` (no run's clock is ahead of the markets), `GapsKnown` (a fresh snapshot that a marker divides from its valuation day is in `gapped`), `FreshIsTrue` |
| | `TrueUpsStayPending` | `PendingInv`: `TrueUpPending`, and the run that has the date will not find it blocked |
| | `JobCatchesUp` | `JobInv`: the dates of the window that an undisturbed run has passed are repaired, and those it has yet to pass it has with the present clock |
| `RecordsProofs` | `DrpTypeCorrect`, `ChainsStayConserved`, `SplitsStayDerived` | `DrpInv`: `Tables` (trades and the distributions they reinvest are linked one to one, a leftover buys no unit), periods that do not overlap, and of each period's chain both properties and that a trade in `undone` is its last |
| | `RowsAlwaysReachUnits` | `AmitInv`: every draw is on a parcel there is, and every row has a parcel with its units that traces back to the holding the row was checked for (`AllReach`), whatever its statement says now |
| | `AmitTypeCorrect`, `EveryUnitAlwaysPlaced`, `GenerationAlwaysTaken` | `AmitBooks`: `AmitInv`, `MovesOK` (no parcel is overdrawn or drawn on before its date, what a group made is dated as the group and newer than what it drew on, and every transfer has a parcel for what it moved), and stored statements that are well formed, with one row for a statement and a parcel |
| | `RecordsStayWellFormed` | the type theorems of the four parts, of which `RecordsSpec` runs one and leaves the others at rest |
| `GainsProofs` | `LossesAlwaysUsedBest` | `CgtInv`: a parcel has units and a sell takes some, so that no division is by nothing, and what was entered is finite and whole |
| | `CgtTypeCorrect`, `WhatIfAlwaysForetells` | `CgtBooks`: `CgtInv`, every sell is dated on a day of the reports, and `CgtTypeOK` |
| | `EveryDollarAlwaysTaxedOnce` | `CgtBooks` and `CgtSources`: a statement a year, at one of the rates; payments to who is on the register by their day; costs that divide by the units of their parcel |
| | `OptTypeCorrect`, `AdviceAlwaysRecordable`, `StrategiesAlwaysOptimal` | `OptInv`: the parcels are the ones bought, no more of one is sold than it has, and an advice is of the parcels open on its date as they are, with picks (`FairPicks`) that add up to the units asked for, each within its parcel, and are what each strategy allocates |

The arguments, in the order of the components:

* Scheduler. That a run finds its row rests on its being the newest of its job,
  which only the lock gives. That the scheduler implements `JobService` rests on
  `LockInv`: `StepImplements` takes each action to a step of the service or a
  stutter, by whether it changes the set of tasks at work (`EnqueueAtWork`,
  `ReleaseAtWork`, `AcquireAtWork`, and `SameAtWork` for the rest): a task gets to
  work only when it takes a free lock, and leaves only by releasing it, which is
  also when its result is published.
* Entry clock. The instants at which a daily entry is due are `When(w)`, for the
  wall times `w` of its hour: the wall time's first instant, or the end of the gap
  that skips it. `GenuineOffers` shows that what croner offers and the filter of
  `run.rs` lets through is exactly these, and `DaysApart` and `NothingBetween` that
  consecutive ones are consecutive local days, at least a day less the shift apart;
  so `NextIs` names what `next_run` answers. Under steps, an occurrence newly behind
  the end of a wait was brought there by the step or came during a run, and a run
  that was not late cannot reach the next one (`DuesApart`).
* Ledger. That an allocation stays sound when a transfer is deleted rests on the
  transfer's fee sale being nobody else's. Units are sums over the rows, and a
  write is about one Sell: `SoldAfterWrite` says how each parcel's sum moves by
  the difference, so that "the other Sells drew no more than what is left", which
  the handlers check line by line, is the invariant afterwards. A transfer writes
  two Sells and its guard accounts for both. Operations close every open parcel
  of the listing: what is left of a parcel behind them is nothing, which is why
  none is stranded. What a write does not concern stays whole because the groups
  it may touch are those of its own provenance (`Apart`).
* Backup. That no reported backup is lost rests on the fresh backup never being
  among the files its own run deletes. That pruning loses nothing the policy
  promises is an argument about a set and its newest members: a backup that goes
  has enough newer ones that stay (`Covers`), and those can only be superseded by
  newer ones yet; a power cut may bring an older directory back, so it is stated
  of every image.
* Prices. A re-base is idempotent and ignores the prices it replaces
  (`RebaseSettles`), and a step outside a fetch either re-bases, leaves rows and
  actions alone, or sets `unsettled`.
* Snapshots. Every step either stores a date or leaves alone what its report is
  made from (`StepStands`), unless it marks the date stale: for every fact there
  is one lemma that the range its trigger marks contains every date whose
  valuation day, price or rate it reaches. A carried-forward close and an interim
  rate are the two lines that may change under a fresh snapshot (`StillTrue`).
  `TrueUpPending` further needs that a true-up never finds a date of its own
  blocked, which holds because facts only unblock a date without marking it
  stale and the clock only moves on.
* Alerts. A run mails what it scanned, but scanned against the log: the second
  half of `LogMatchesMail` counts deliveries, and holds because every delivery
  that no row records is one an interrupted run made, which moves it to
  `unlogged` in that step.
* Reinvestment. A write re-derives at most one chain, and a trade is in the chain
  of one period only (`OneChain`), so `WriteChain` is about one chain and
  `OtherChain` about the rest. Re-deriving retells the trades in place
  (`Retold`): ids, dates, what they brought forward and the leftover stay, hence
  neighbours and tails do too. A chain may be re-derived for a period that ends
  elsewhere because only the last trade's split depends on the end, which needs
  that an underived trade is the last (`ChainBrings`); and an undo deletes only the
  last trade of all, so it never separates neighbours (`LastTaken`).
* AMIT rows. What a row traces back through is the least set of parcels closed
  under "came from", so a step keeps a row's way back if it keeps that relation on
  a closed set of parcels that has the row's (`AncestorsKept`): all of them, or, for
  the undo of a transfer or an exchange, all but those it had made. These are
  sources of nothing because `db_delete` refuses while anything is drawn on one. An
edit that moves a purchase to another account keeps the relation on all parcels but
that one, which has no rows and is no source, or it would be frozen. The relation is
to the holding a row was checked for, which writes of statements leave alone
(`WrittenKeeps`); while the statement is for that holding, it is the statement's
(`ReachesStatement`).
* AMIT placement. Moves lead only to newer parcels, so there is exactly one thing the
  recursive `place` can say (`FollowExists`, up from the newest parcel; `PlaceIs`).
  A holding it comes by (`Sits`) is all that its parcel had at the year end, or all
  that the transfer brought, for what leaves a parcel after the year end was there
  then (`UnitsStay`); so no move is cut short (`CarrySits`), and what stays and what
  the moves carried add up to it (`PlacedWellHere`, with `SumOfParts`). What stays
  passes every check of a row for the same reason (`RowsAllowed`). That two rows are
  on different parcels is an argument about their ways: without `Twins` a parcel was
  reached by one move only, so two ways that end at one parcel are the same, from
  the newest move in one and not the other back (`WayWithin`, `WayUnique`).
* Losses. `NetYearBest` is about one year of any gains and losses: what is taxed of
  the discountable gains, a half rounded to the cent, grows no slower when a loss is
  moved from them to the others, because rounding keeps the order (`HalfUp`,
  `DivUp`). Over the years it needs that every bucket and every loss carried is a
  whole amount that is not negative, and so that each of the walks and quotients it
  is made of has a value: `reduction_walk`, `non_disposal_gains` and `net_years` are
  recursive functions, and that exactly the walk meant satisfies their recursion
  is `WalkStays` and `WalkIn` (through the least day at which it would not, `Climb`).
  That entered gains and losses are not negative is `CgtAssumption`; the handlers
  refuse others (`amma.rs`, `cgt_settings.rs`).
* What-if. The row foretold is netted from the items of today and the row reported
  from those of tomorrow, so `ItemsForetold` sets the two collections against each
  other. The gains without a disposal are the same ones, since
  `contemplated_disposal` moves the statements exactly as the recorded sell does
  (`EventsMore`). The gains already realised up to the year stand, although they
  are worked out anew, because of the sell a statement of an earlier year learns
  nothing, one of a later year reaches no sell of these years, and one of the year
  itself covers nothing by assumption (`CostsStand`). The sell's own gains are only
  recorded under another name (`BucketsRenamed`), and rows netted from the same
  buckets are the same (`RowsAlike`).
* Every dollar. A cost base is walked day by day for each cohort (the units of a
  parcel that one sell took, or that are held), while statements and payments are
  entered once for all units. What comes off a cohort on a day either lowers its
  cost base or spills as a gain without a disposal (`Spill`), so a cohort's gains and
  its sale make up its proceeds and all that came off, less its cost. Summed over
  the cohorts, what came off is the table of statements and payments by year, read
  by columns for what it is by rows (`ByYear`, `SumSwap`): a statement's reduction is
  shared among the cohorts it covers without a remainder (`StatementsCome`), and a
  payment comes to each unit that was held for it once, as a reduction or as the
  end of a right (`PaymentsCome`). `BooksTaxOnce` puts them together for a parcel
  that is sold out (`SoldOut`).
* Optimiser. Each strategy takes from the parcels in a strict order until it has
  what was asked for. That such a walk takes exactly that, or everything there is,
  is `TakingInOrder`: by the parcel that comes last in the order. `min_gain` walks
  three classes of parcels, the last of them with what its first two left, and
  needs that the split it chooses leaves no more than the third has
  (`MinGainMixes`). An advice stays recordable until the next write because a sell
  dated after it that took nothing from its parcels leaves as much unsold as was
  open on its date (`TakenByThen`).
* The best allocation. No allocation of `n` units of a class gains less than the
  first `n` in the order of gain (`GreedyLeast`): what it takes more or less of each
  parcel is priced against the last one drawn on (`ExchangeTerm`). So only the split between the classes is
  left to choose (`MinGainIsLeast`). Along a split, what is added to the year's gain
  is straight between the ends of parcels (`ClassGoesStraight`) and turns elsewhere
  only where the carried loss runs out, which is the crossing `min_gain` solves
  for (`TurnsAtLoss`, `LossRunsOutAt`, `CrossingIsBreakpoint`); the first least
  split within reach is therefore one that it looks at (`LeastIsLooked`). For
  `harvest_losses` the same exchange shows that the losses ahead of the order are
  the most there are (`HarvestIsMost`).

`Sums` and `SetTheorems` are what these modules share.
A sum is `SumOver(f, S)`, by the fold of the community modules. Its properties are
inductions over a finite set; the library's induction theorems cannot be used, so
they are made by the least counterexample: among the subsets with a property one
has fewest members (`LeastSubset`, `LeastCut`, from the well-ordering of their
cardinalities). `RecExists` and `RecUnique` say that exactly one function satisfies
the recursion of the fold, whatever order it picks the elements in, and `SumSplit`
and `SumReindex` that the order is no matter; `SumSwap` that a
table has one total. What the first units of an order are worth (`SumPart`,
`GreedyLeast`) is stated there for any orders and prices. Lemmas about one state are carried to
the next by a closed form of their own (`ReportLinesNext`, `LaterClockNext`).

Four attempts found the model wrong. At `FreshAlwaysTrue`: `FreshIsTrue` excepted a date
while a marker dated on a closed day divided it from its valuation day, but the
stored figures may be wrong after the marker has moved on, too, since nothing marks
them stale then. Hence `gapped`. Those of the entry clock found both properties too
strong, beyond the bounds of the run: an entry whose run outlasts a day shortened
by the change misses an occurrence, so `MaxRuntime` is less than that day; and
after a step forward the run it made late, not only a nap, may last past the next
occurrence. And at `GenerationAlwaysTaken`, two rows that the code derives for one
parcel were one row of the model, where they came from the same parcel by two
transfers, so that generation was accepted where the code refuses it; and a
transfer could draw on parcels of several accounts, where `transfer.rs` has one.
At `EveryDollarAlwaysTaxedOnce`, the reference for what a payment brings left out
units sold on the payment's own day when that is also its record date and trades
settle at once; the code reduces their cost, and the run settles a day later.

Only model-checked: liveness, which is out of this prover's reach, as is ENABLED
(`EveryRunEnds`, `EntryKeepsFiring`, `GapsFilled`, `MoveGetsLogged`).

## Not modelled

The tax reports and summaries (`tax_report`, `tax_summary`, `labels`,
`realised_gains`' layouts), which add figures of `CapitalGains` up in other
arrangements; performance figures and charts (numeric approximation, no state);
parsing of feeds and statements; SMTP and HTTP themselves; migrations other than
their triggers; row history, cross-checks and health reports (queries); reference
data (independent tables); the web page, logging and configuration. Much of the
repository's text is the tests inside its source files and the checks of its own
documents (`doc_checks.rs`, `api_spec.rs`), which are not part of the running
program. Corporate actions, rights, cash in lieu and the login throttle have
state worth modelling and are the rest of the plan.
