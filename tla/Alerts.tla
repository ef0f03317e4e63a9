-------------------------------- MODULE Alerts --------------------------------
(***************************************************************************)
(* The price-alert job (src/entities/price_alert.rs): a run scans the held *)
(* listings for a large move between their two latest closes, emails the   *)
(* moves it finds and only then writes them to price_alerts, the log that  *)
(* keeps later runs from sending them again.                               *)
(*                                                                         *)
(* Prices, holdings and basis events are written by other parts of the     *)
(* program while a run is between its steps.  The mail server may refuse a *)
(* message, or take it and still report an error; the insert may fail; the *)
(* process may die between any two steps.  The job's lock (Scheduler) lets *)
(* one run at a time be in progress.                                       *)
(***************************************************************************)
EXTENDS Integers, FiniteSets, FiniteSetsExt

CONSTANTS
    AlertListings,  \* the listings that may be held
    AlertDays,      \* bound: closes are stored for the days 1..AlertDays
    Closes,         \* the closing prices that can be stored
    AlertPct,       \* price_alert_pct, in percent
    MaxAlertEdits,  \* bound: writes by the rest of the program
    MaxMailFaults   \* bound: failed sends, failed inserts and kills

ASSUME AlertAssumption ==
    /\ {AlertDays, MaxAlertEdits, MaxMailFaults} \subseteq Nat
    /\ Closes \subseteq Nat
    /\ AlertPct \in Nat \ {0}

NoClose == -1
CloseDays == 1..AlertDays

(* A Mover: the pair of closes that was compared. *)
Mover == [listing : AlertListings, date : CloseDays, price : Closes,
          prevDate : CloseDays, prevPrice : Closes]

VARIABLES
    closes,         \* closing_prices with status ok, NoClose where there is none
    basisEvents,    \* dates of the price-basis events of each listing
    heldListings,   \* the listings held now
    alertLog,       \* price_alerts
    alertRun,       \* the run in progress: its step and its movers
    inbox,          \* history: the emails delivered, each a set of movers
    unlogged,       \* history: deliveries whose run ended before its insert
    alertEdits, mailFaults

alertVars == <<closes, basisEvents, heldListings, alertLog, alertRun, inbox,
               unlogged, alertEdits, mailFaults>>

NoRun == [step |-> "idle", movers |-> {}]

-----------------------------------------------------------------------------
(* scan: what one read transaction finds. *)

ClosesOf(l) == {d \in CloseDays : closes[l][d] # NoClose}

(* db_latest_two_closes_on, when there are two to compare. *)
LatestPair(l) ==
    LET date == Max(ClosesOf(l))
        prev == Max(ClosesOf(l) \ {date})
    IN  [listing |-> l, date |-> date, price |-> closes[l][date],
         prevDate |-> prev, prevPrice |-> closes[l][prev]]

Comparable(l) == Cardinality(ClosesOf(l)) >= 2

(* A price-basis event in (previous_date, price_date]. *)
Straddles(m) ==
    \E e \in basisEvents[m.listing] : m.prevDate < e /\ e <= m.date

Distance(a, b) == IF a < b THEN b - a ELSE a - b

(* The previous close is not zero and the change reaches the threshold. *)
Moved(m) ==
    /\ m.prevPrice # 0
    /\ Distance(m.price, m.prevPrice) * 100 >= AlertPct * m.prevPrice

(* Mutant: the send log is never asked. *)
AlreadyAlertedNever(m) == FALSE

(* db_already_alerted_on. *)
AlreadyAlerted(m) ==
    \E r \in alertLog : r.listing = m.listing /\ r.date = m.date

CurrentPairs == {LatestPair(l) : l \in {k \in heldListings : Comparable(k)}}

(* Mutant: a pair that cannot be compared ends the whole scan. *)
ScanAllOrNothing ==
    {m \in CurrentPairs : /\ \A p \in CurrentPairs : ~Straddles(p)
                          /\ Moved(m) /\ ~AlreadyAlerted(m)}

Scan == {m \in CurrentPairs : ~Straddles(m) /\ Moved(m) /\ ~AlreadyAlerted(m)}

-----------------------------------------------------------------------------
(* The rest of the program. *)

(* Each listing has its first close. *)
AlertInit ==
    /\ \E first \in [AlertListings -> Closes] :
          closes = [l \in AlertListings |->
                      [d \in CloseDays |-> IF d = 1 THEN first[l] ELSE NoClose]]
    /\ basisEvents = [l \in AlertListings |-> {}]
    /\ heldListings = AlertListings
    /\ alertLog = {}
    /\ alertRun = NoRun
    /\ inbox = {} /\ unlogged = {}
    /\ alertEdits = 0 /\ mailFaults = 0

(* A close is stored, corrected or lost by closing_price. *)
WriteClose(l, d, p) ==
    /\ alertEdits < MaxAlertEdits
    /\ closes[l][d] # p
    /\ closes' = [closes EXCEPT ![l][d] = p]
    /\ alertEdits' = alertEdits + 1
    /\ UNCHANGED <<basisEvents, heldListings, alertLog, alertRun, inbox,
                   unlogged, mailFaults>>

(* A split or a demerger restatement is recorded or deleted. *)
WriteBasisEvent(l, d) ==
    /\ alertEdits < MaxAlertEdits
    /\ basisEvents' = [basisEvents EXCEPT ![l] = SymDiff(@, {d})]
    /\ alertEdits' = alertEdits + 1
    /\ UNCHANGED <<closes, heldListings, alertLog, alertRun, inbox, unlogged,
                   mailFaults>>

(* A holding is closed or opened by trades. *)
WriteHolding(l) ==
    /\ alertEdits < MaxAlertEdits
    /\ heldListings' = SymDiff(heldListings, {l})
    /\ alertEdits' = alertEdits + 1
    /\ UNCHANGED <<closes, basisEvents, alertLog, alertRun, inbox, unlogged,
                   mailFaults>>

-----------------------------------------------------------------------------
(* run_alert. *)

(* The scan; a run that finds no mover ends at once. *)
BeginAlertRun ==
    /\ alertRun = NoRun
    /\ Scan # {}
    /\ alertRun' = [step |-> "scanned", movers |-> Scan]
    /\ UNCHANGED <<closes, basisEvents, heldListings, alertLog, inbox,
                   unlogged, alertEdits, mailFaults>>

(* INSERT ... ON CONFLICT (listing_id, price_date) DO NOTHING. *)
Recorded(log, movers) ==
    log \union {m \in movers :
                    \A r \in log : r.listing # m.listing \/ r.date # m.date}

(* A delivery of each of the run's movers, the repeated ones numbered. *)
Delivered(log, movers) ==
    log \union {<<m, 1 + Cardinality({x \in log : x[1] = m})>> : m \in movers}

(* Mutant: the rows are written before the message is sent. *)
SendAfterRecord ==
    /\ alertRun.step = "scanned"
    /\ alertLog' = Recorded(alertLog, alertRun.movers)
    /\ alertRun' = [alertRun EXCEPT !.step = "sent"]
    /\ UNCHANGED <<closes, basisEvents, heldListings, inbox, unlogged,
                   alertEdits, mailFaults>>

(* The message is accepted. *)
SendAccepted ==
    /\ alertRun.step = "scanned"
    /\ inbox' = Delivered(inbox, alertRun.movers)
    /\ alertRun' = [alertRun EXCEPT !.step = "sent"]
    /\ UNCHANGED <<closes, basisEvents, heldListings, alertLog, unlogged,
                   alertEdits, mailFaults>>

(* The send reports an error, whether or not the server took the message. *)
SendFails ==
    /\ alertRun.step = "scanned"
    /\ mailFaults < MaxMailFaults
    /\ mailFaults' = mailFaults + 1
    /\ alertRun' = NoRun
    /\ \/ UNCHANGED <<inbox, unlogged>>
       \/ /\ inbox' = Delivered(inbox, alertRun.movers)
          /\ unlogged' = Delivered(unlogged, alertRun.movers)
    /\ UNCHANGED <<closes, basisEvents, heldListings, alertLog, alertEdits>>

(* db_record, one transaction for all movers of the message. *)
RecordAlerts ==
    /\ alertRun.step = "sent"
    /\ alertLog' = Recorded(alertLog, alertRun.movers)
    /\ alertRun' = NoRun
    /\ UNCHANGED <<closes, basisEvents, heldListings, inbox, unlogged,
                   alertEdits, mailFaults>>

(* db_record fails, or the process dies before or after the send. *)
AlertRunCut ==
    /\ alertRun # NoRun
    /\ mailFaults < MaxMailFaults
    /\ mailFaults' = mailFaults + 1
    /\ unlogged' = IF alertRun.step = "sent"
                   THEN Delivered(unlogged, alertRun.movers) ELSE unlogged
    /\ alertRun' = NoRun
    /\ UNCHANGED <<closes, basisEvents, heldListings, alertLog, inbox,
                   alertEdits>>

AlertNext ==
    \/ \E l \in AlertListings :
          \/ \E d \in CloseDays, p \in Closes \union {NoClose} : WriteClose(l, d, p)
          \/ \E d \in CloseDays : WriteBasisEvent(l, d)
          \/ WriteHolding(l)
    \/ BeginAlertRun
    \/ SendAccepted
    \/ SendFails
    \/ RecordAlerts
    \/ AlertRunCut

(* The schedule starts runs again and again, and a run ends. *)
AlertFairness ==
    /\ WF_alertVars(BeginAlertRun)
    /\ WF_alertVars(SendAccepted)
    /\ WF_alertVars(RecordAlerts)

AlertSpec == AlertInit /\ [][AlertNext]_alertVars /\ AlertFairness

-----------------------------------------------------------------------------
Emails(l, d) == {x \in inbox : x[1].listing = l /\ x[1].date = d}

(***************************************************************************)
(* The log and the mail agree.  The very pair of closes in a row of        *)
(* price_alerts was delivered, whatever was corrected, deleted or sold     *)
(* between the scan and the insert: the row suppresses every later alert   *)
(* of the close, so without its email it is an alert nobody gets.  And a   *)
(* close is alerted a second time only when a run that delivered it was    *)
(* cut short before it could record it: at most one delivery of a close    *)
(* belongs to a run that went through or is still under way.  The pair may *)
(* have been corrected in between.                                         *)
(***************************************************************************)
LogMatchesMail ==
    /\ \A r \in alertLog : \E x \in inbox : x[1] = r
    /\ \A l \in AlertListings, d \in CloseDays :
          Cardinality(Emails(l, d) \ unlogged) <= 1

(***************************************************************************)
(* A move that stays a listing's latest pair, comparable and held, ends up *)
(* in the log: failed sends, failed inserts and kills only delay it, and   *)
(* so do other listings that cannot be compared.  (Day 1 has no close      *)
(* before it.)                                                             *)
(***************************************************************************)
MoveGetsLogged ==
    \A l \in AlertListings, d \in 2..AlertDays :
        (<>[](\E m \in CurrentPairs : /\ m.listing = l /\ m.date = d
                                      /\ Moved(m) /\ ~Straddles(m)))
            => <>(\E r \in alertLog : r.listing = l /\ r.date = d)
====
