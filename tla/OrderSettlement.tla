-------------------------- MODULE OrderSettlement --------------------------
(***************************************************************************)
(* The life of the orders of one portfolio (one KIS account): placement    *)
(* and cancellation (backend/app/api/orders.py), the settlement of fills   *)
(* (services/order_settlement.py, by the scheduler and by POST .../settle) *)
(* and the reconciliation of holdings with the broker's balance            *)
(* (services/reconciliation.py, by the scheduler, login and POST /sync).   *)
(*                                                                         *)
(* A handler or job is a session: what it reads stays in its ORM objects   *)
(* across its awaits, what it writes becomes visible at its commit.        *)
(* Prices, names and the clock are left out; transactions are kept as      *)
(* their total per order.                                                  *)
(***************************************************************************)
EXTENDS Naturals, FiniteSets

CONSTANTS
    Orders, Tickers,
    TickerOf, SideOf, Qty,   \* what each order asks for
    Reported,                \* orders the domestic fill report can list
    KisOpening, DbOpening,   \* opening position at the broker and in holdings
    Settlers, Syncs,         \* sessions that settle, sessions that reconcile
    Overlap,                 \* may sessions run at the same time?
    OtherAccounts,           \* does the job go on to another account?
    Overnight                \* may the trading day end?

ASSUME OrderAssumption ==
    /\ TickerOf \in [Orders -> Tickers]
    /\ SideOf \in [Orders -> {"BUY", "SELL"}]
    /\ Qty \in [Orders -> Nat \ {0}]
    /\ Reported \subseteq Orders
    /\ KisOpening \in [Tickers -> Nat]
    /\ DbOpening \in [Tickers -> Nat]

ASSUME SessionAssumption ==
    /\ Settlers \cap Syncs = {}
    /\ {Overlap, OtherAccounts, Overnight} \subseteq BOOLEAN

VARIABLES
    kis,       \* the broker's view of each order: state and filled quantity
    position,  \* the broker's balance per ticker
    listed,    \* orders today's fill report would list
    order,     \* orders table: status and filled_quantity
    booked,    \* total quantity of the transactions of each order
    holdings,  \* holdings table: the rows of each ticker
    nextId,    \* next row id of each ticker
    request,   \* the user's request on each order
    pc,        \* where each session is
    seen,      \* settler: the order rows as it loaded them
    todo,      \* settler: loaded orders it still has to go through
    report,    \* settler: filled quantities the broker reported
    dirty,     \* settler: orders it has flushed (their rows are locked)
    view,      \* sync: the balance the broker reported
    ops        \* per session and ticker: uncommitted holding rows

exchange == <<kis, position, listed>>
ledger == <<order, booked>>
rows == <<holdings, nextId>>
settling == <<seen, todo, report, dirty>>
vars == <<exchange, ledger, rows, request, pc, settling, view, ops>>

Sessions == Settlers \cup Syncs
OpenStatus == {"pending", "partial"}
Status == OpenStatus \cup {"absent", "filled", "cancelled", "failed"}
\* A row is deleted rather than left at zero shares.
Row == [id : Nat, qty : Nat \ {0}]
OrderRow == [status : Status, filled : Nat]

\* Uncommitted work on a ticker: row ids deleted, and rows inserted (id 0) or
\* overwritten with an absolute quantity.
Ops == [gone : SUBSET Nat, put : SUBSET Row]
NoOps == [gone |-> {}, put |-> {}]
Ids(rs) == {r.id : r \in rs}

TypeOK ==
    /\ kis \in [Orders -> [state : {"none", "open", "closed"}, filled : Nat]]
    /\ position \in [Tickers -> Nat]
    /\ listed \subseteq Reported
    /\ order \in [Orders -> OrderRow]
    /\ booked \in [Orders -> Nat]
    /\ holdings \in [Tickers -> SUBSET Row]
    /\ nextId \in [Tickers -> Nat \ {0}]
    /\ request \in [Orders -> {"new", "sent", "accepted", "refused", "done",
                               "cancelling"}]
    /\ pc \in [Sessions -> {"idle", "query", "stage", "read", "commit"}]
    /\ seen \in [Settlers -> [Orders -> OrderRow]]
    /\ todo \in [Settlers -> SUBSET Orders]
    /\ report \in [Settlers -> [Orders -> Nat]]
    /\ dirty \in [Settlers -> SUBSET Orders]
    /\ view \in [Syncs -> [Tickers -> Nat]]
    /\ ops \in [Sessions -> [Tickers -> Ops]]

NothingSeen == [o \in Orders |-> [status |-> "absent", filled |-> 0]]
NothingReported == [o \in Orders |-> 0]

Init ==
    /\ kis = [o \in Orders |-> [state |-> "none", filled |-> 0]]
    /\ position = KisOpening
    /\ listed = Reported
    /\ order = NothingSeen
    /\ booked = NothingReported
    /\ holdings = [t \in Tickers |->
                     IF DbOpening[t] = 0 THEN {}
                     ELSE {[id |-> 1, qty |-> DbOpening[t]]}]
    /\ nextId = [t \in Tickers |-> 2]
    /\ request = [o \in Orders |-> "new"]
    /\ pc = [s \in Sessions |-> "idle"]
    /\ seen = [p \in Settlers |-> NothingSeen]
    /\ todo = [p \in Settlers |-> {}]
    /\ report = [p \in Settlers |-> NothingReported]
    /\ dirty = [p \in Settlers |-> {}]
    /\ view = [s \in Syncs |-> [t \in Tickers |-> 0]]
    /\ ops = [s \in Sessions |-> [t \in Tickers |-> NoOps]]

-----------------------------------------------------------------------------
\* The broker (external).  Requests reach it and fills happen at any time.

Fill(o) ==
    LET t == TickerOf[o] IN
    /\ kis[o].state = "open"
    /\ kis[o].filled < Qty[o]
    /\ SideOf[o] = "SELL" => position[t] > 0
    /\ kis' = [kis EXCEPT ![o].filled = @ + 1]
    /\ position' = [position EXCEPT
                      ![t] = IF SideOf[o] = "BUY" THEN @ + 1 ELSE @ - 1]
    /\ UNCHANGED <<listed, ledger, rows, request, pc, settling, view, ops>>

\* The report is asked for the current date only, so it stops listing the
\* orders of a day that has ended; day orders left open lapse.
EndOfDay ==
    /\ Overnight
    /\ \E o \in Orders : kis[o].state # "none" /\ o \in listed
    /\ kis' = [o \in Orders |->
                 IF kis[o].state = "open" THEN [kis[o] EXCEPT !.state = "closed"]
                 ELSE kis[o]]
    /\ listed' = {o \in listed : kis[o].state = "none"}
    /\ UNCHANGED <<position, ledger, rows, request, pc, settling, view, ops>>

-----------------------------------------------------------------------------
\* POST /orders.  A SELL is checked against the local holding first.

Submit(o) ==
    LET held == holdings[TickerOf[o]] IN
    /\ request[o] = "new"
    /\ SideOf[o] = "SELL" =>
         /\ Cardinality(held) = 1
         /\ \A r \in held : r.qty >= Qty[o]
    /\ request' = [request EXCEPT ![o] = "sent"]
    /\ UNCHANGED <<exchange, ledger, rows, pc, settling, view, ops>>

KisAccepts(o) ==
    /\ request[o] = "sent"
    /\ request' = [request EXCEPT ![o] = "accepted"]
    /\ kis' = [kis EXCEPT ![o].state = "open"]
    /\ UNCHANGED <<position, listed, ledger, rows, pc, settling, view, ops>>

KisRefuses(o) ==
    /\ request[o] = "sent"
    /\ request' = [request EXCEPT ![o] = "refused"]
    /\ UNCHANGED <<exchange, ledger, rows, pc, settling, view, ops>>

\* The Order row: "pending" for an accepted answer; "failed" for a refusal and
\* also for a 5xx or unreadable answer to an order the broker did accept.
Record(o) ==
    /\ \/ request[o] = "accepted" /\ \E st \in {"pending", "failed"} :
            order' = [order EXCEPT ![o].status = st]
       \/ /\ request[o] = "refused"
          /\ order' = [order EXCEPT ![o].status = "failed"]
    /\ request' = [request EXCEPT ![o] = "done"]
    /\ UNCHANGED <<exchange, booked, rows, pc, settling, view, ops>>

\* A time-out or a crash before the commit leaves no row at all.
RecordNothing(o) ==
    /\ request[o] \in {"accepted", "refused"}
    /\ request' = [request EXCEPT ![o] = "done"]
    /\ UNCHANGED <<exchange, ledger, rows, pc, settling, view, ops>>

\* Mutant: the broker's refusal of the cancellation is not looked at.
MutantCancelIgnoresAnswer(o) ==
    /\ request[o] = "done"
    /\ kis[o].state = "open"
    /\ request' = [request EXCEPT ![o] = "cancelling"]
    /\ UNCHANGED <<exchange, ledger, rows, pc, settling, view, ops>>

\* DELETE /orders/{no}: first the broker takes back what is unfilled ...
CancelAtKis(o) ==
    /\ request[o] = "done"
    /\ kis[o].state = "open"
    /\ kis[o].filled < Qty[o]
    /\ kis' = [kis EXCEPT ![o].state = "closed"]
    /\ request' = [request EXCEPT ![o] = "cancelling"]
    /\ UNCHANGED <<position, listed, ledger, rows, pc, settling, view, ops>>

\* ... then the row, if the order_no finds one, is marked whatever it says.
\* The UPDATE waits while a settler holds the row's lock.
CancelMark(o) ==
    /\ request[o] = "cancelling"
    /\ \A p \in Settlers : o \notin dirty[p]
    /\ order' = IF order[o].status \in {"absent", "failed"} THEN order
                ELSE [order EXCEPT ![o].status = "cancelled"]
    /\ request' = [request EXCEPT ![o] = "done"]
    /\ UNCHANGED <<exchange, booked, rows, pc, settling, view, ops>>

\* The answer is lost: 502, nothing is written.
CancelLost(o) ==
    /\ request[o] = "cancelling"
    /\ request' = [request EXCEPT ![o] = "done"]
    /\ UNCHANGED <<exchange, ledger, rows, pc, settling, view, ops>>

-----------------------------------------------------------------------------
MayStart(s) ==
    /\ pc[s] = "idle"
    /\ Overlap \/ \A q \in Sessions : pc[q] = "idle"

\* Rows of a ticker as session s sees them, its own flushed work included.
Visible(s, t) ==
    {r \in holdings[t] : r.id \notin ops[s][t].gone \cup Ids(ops[s][t].put)}
        \cup ops[s][t].put

\* An UPDATE by primary key that matches no row raises StaleDataError.
Stale(s) == \E t \in Tickers : \E r \in ops[s][t].put :
              r.id # 0 /\ r.id \notin Ids(holdings[t])

\* COMMIT of a session's holding rows.
ApplyOps(s) ==
    /\ holdings' = [t \in Tickers |->
          {r \in holdings[t] :
               r.id \notin ops[s][t].gone \cup Ids(ops[s][t].put)}
          \cup {r \in ops[s][t].put : r.id # 0}
          \cup {[id |-> nextId[t], qty |-> r.qty] :
                  r \in {x \in ops[s][t].put : x.id = 0}}]
    /\ nextId' = [t \in Tickers |->
                    IF \E r \in ops[s][t].put : r.id = 0
                    THEN nextId[t] + 1 ELSE nextId[t]]

CloseSettler(p) ==
    /\ pc' = [pc EXCEPT ![p] = "idle"]
    /\ seen' = [seen EXCEPT ![p] = NothingSeen]
    /\ todo' = [todo EXCEPT ![p] = {}]
    /\ report' = [report EXCEPT ![p] = NothingReported]
    /\ dirty' = [dirty EXCEPT ![p] = {}]
    /\ ops' = [ops EXCEPT ![p] = [t \in Tickers |-> NoOps]]

-----------------------------------------------------------------------------
\* Mutant: only pending rows are loaded, a partial fill is never followed up.
MutantSettleReadPendingOnly(p) ==
    LET open == {o \in Orders : order[o].status = "pending"} IN
    /\ MayStart(p)
    /\ open # {}
    /\ pc' = [pc EXCEPT ![p] = "query"]
    /\ seen' = [seen EXCEPT ![p] = order]
    /\ todo' = [todo EXCEPT ![p] = open]
    /\ UNCHANGED <<exchange, ledger, rows, request, report, dirty, view, ops>>

\* settle_pending_orders.  Step 1: load the open orders; none, return.
SettleRead(p) ==
    LET open == {o \in Orders : order[o].status \in OpenStatus} IN
    /\ MayStart(p)
    /\ open # {}
    /\ pc' = [pc EXCEPT ![p] = "query"]
    /\ seen' = [seen EXCEPT ![p] = order]
    /\ todo' = [todo EXCEPT ![p] = open]
    /\ UNCHANGED <<exchange, ledger, rows, request, report, dirty, view, ops>>

\* Step 2: the broker's report; an order with no new fill is left unchanged.
SettleQuery(p) ==
    LET answer == [o \in Orders |->
                     IF o \in todo[p] \cap listed THEN kis[o].filled ELSE 0]
    IN
    /\ pc[p] = "query"
    /\ pc' = [pc EXCEPT ![p] = "stage"]
    /\ report' = [report EXCEPT ![p] = answer]
    /\ todo' = [todo EXCEPT
                  ![p] = {o \in @ : answer[o] > seen[p][o].filled}]
    /\ UNCHANGED <<exchange, ledger, rows, request, seen, dirty, view, ops>>

SettleQueryFails(p) ==
    /\ pc[p] = "query"
    /\ CloseSettler(p)
    /\ UNCHANGED <<exchange, ledger, rows, request, view>>

NewlyFilled(p, o) == report[p][o] - seen[p][o].filled

\* _update_holdings_for_fill: the holding work w after a fill of n shares,
\* where rs (at most one row) is what the SELECT returned.
AfterFill(w, rs, side, n) ==
    IF side = "BUY"
    THEN [w EXCEPT !.put = IF rs = {} THEN {[id |-> 0, qty |-> n]}
                           ELSE {[r EXCEPT !.qty = @ + n] : r \in rs}]
    ELSE [gone |-> w.gone \cup Ids({r \in rs : r.qty <= n}),
          put |-> {[r EXCEPT !.qty = @ - n] : r \in {x \in rs : x.qty > n}}]

Unlocked(p, o) == \A q \in Settlers \ {p} : o \notin dirty[q]

\* Steps 3 to 5 for one order.  The SELECT of the holding flushes the order
\* and its transaction first, which waits for the order's row lock.
SettleStage(p, o) ==
    LET t == TickerOf[o] IN
    /\ pc[p] = "stage" /\ o \in todo[p]
    /\ Unlocked(p, o)
    /\ Cardinality(Visible(p, t)) <= 1
    /\ todo' = [todo EXCEPT ![p] = @ \ {o}]
    /\ dirty' = [dirty EXCEPT ![p] = @ \cup {o}]
    /\ ops' = [ops EXCEPT ![p][t] =
                 AfterFill(@, Visible(p, t), SideOf[o], NewlyFilled(p, o))]
    /\ UNCHANGED <<exchange, ledger, rows, request, pc, seen, report, view>>

\* Mutant: the transaction carries the cumulative fill, not the new part.
MutantCommitBooksReport(p, done) ==
    /\ order' = [o \in Orders |->
         IF o \notin done THEN order[o]
         ELSE [status |-> IF report[p][o] >= Qty[o] THEN "filled" ELSE "partial",
               filled |-> report[p][o]]]
    /\ booked' = [o \in Orders |->
         IF o \in done THEN booked[o] + report[p][o] ELSE booked[o]]

\* Mutant: any fill counts as a full one.
MutantCommitFilledEarly(p, done) ==
    /\ order' = [o \in Orders |->
         IF o \notin done THEN order[o]
         ELSE [status |-> "filled", filled |-> report[p][o]]]
    /\ booked' = [o \in Orders |->
         IF o \in done THEN booked[o] + NewlyFilled(p, o) ELSE booked[o]]

\* The order rows and transactions of a session become visible.  The ORM
\* writes a column only when it differs from the value it loaded.
CommitFills(p, done) ==
    /\ order' = [o \in Orders |->
         IF o \notin done THEN order[o]
         ELSE LET st == IF report[p][o] >= Qty[o] THEN "filled" ELSE "partial"
              IN [status |-> IF st = seen[p][o].status
                             THEN order[o].status ELSE st,
                  filled |-> report[p][o]]]
    /\ booked' = [o \in Orders |->
         IF o \in done THEN booked[o] + NewlyFilled(p, o) ELSE booked[o]]

SettleCommit(p) ==
    /\ pc[p] = "stage" /\ todo[p] = {}
    /\ ~Stale(p)
    /\ CommitFills(p, dirty[p])
    /\ ApplyOps(p)
    /\ CloseSettler(p)
    /\ UNCHANGED <<exchange, request, view>>

\* The commit raises, or two settlers wait for each other's rows and Postgres
\* aborts one: the session rolls back.
SettleAborts(p) ==
    /\ pc[p] = "stage"
    /\ \/ todo[p] = {} /\ Stale(p)
       \/ \E q \in Settlers \ {p} : /\ todo[p] \cap dirty[q] # {}
                                    /\ todo[q] \cap dirty[p] # {}
    /\ CloseSettler(p)
    /\ UNCHANGED <<exchange, ledger, rows, request, view>>

\* scalar_one_or_none meets two rows of the ticker and raises.  The request
\* rolls back; the job keeps its session, and the commit of the next account
\* writes what was flushed so far, without the holding of this order.
SettleMeetsTwoRows(p, o) ==
    /\ pc[p] = "stage" /\ o \in todo[p]
    /\ Unlocked(p, o)
    /\ Cardinality(Visible(p, TickerOf[o])) > 1
    /\ \/ UNCHANGED <<ledger, rows>>
       \/ /\ OtherAccounts /\ ~Stale(p)
          /\ CommitFills(p, dirty[p] \cup {o})
          /\ ApplyOps(p)
    /\ CloseSettler(p)
    /\ UNCHANGED <<exchange, request, view>>

-----------------------------------------------------------------------------
\* reconcile_holdings.  The balance is fetched before the rows are read.
SyncFetch(s) ==
    /\ MayStart(s)
    /\ pc' = [pc EXCEPT ![s] = "read"]
    /\ view' = [view EXCEPT ![s] = position]
    /\ UNCHANGED <<exchange, ledger, rows, request, settling, ops>>

\* Mutant: the deletion pass is missing, as the docs have it.
MutantSyncReadKeepsGone(s) ==
    /\ pc[s] = "read"
    /\ ops' = [ops EXCEPT ![s] = [t \in Tickers |->
         [gone |-> {},
          put |-> IF view[s][t] = 0 THEN {}
                  ELSE IF holdings[t] = {} THEN {[id |-> 0, qty |-> view[s][t]]}
                  ELSE {[r EXCEPT !.qty = view[s][t]] : r \in holdings[t]}]]]
    /\ pc' = [pc EXCEPT ![s] = "commit"]
    /\ UNCHANGED <<exchange, ledger, rows, request, settling, view>>

\* db_map keeps one row per ticker, the last of the query's order.
SyncRead(s) ==
    /\ pc[s] = "read"
    /\ \E pick \in [Tickers -> SUBSET UNION {holdings[t] : t \in Tickers}] :
         /\ \A t \in Tickers :
              /\ pick[t] \subseteq holdings[t]
              /\ Cardinality(pick[t]) = IF holdings[t] = {} THEN 0 ELSE 1
         /\ ops' = [ops EXCEPT ![s] = [t \in Tickers |->
              IF view[s][t] = 0 THEN [gone |-> Ids(pick[t]), put |-> {}]
              ELSE [gone |-> {},
                    put |-> IF pick[t] = {}
                            THEN {[id |-> 0, qty |-> view[s][t]]}
                            ELSE {[r EXCEPT !.qty = view[s][t]] :
                                    r \in {x \in pick[t] : x.qty # view[s][t]}}]]]
    /\ pc' = [pc EXCEPT ![s] = "commit"]
    /\ UNCHANGED <<exchange, ledger, rows, request, settling, view>>

CloseSync(s) ==
    /\ pc' = [pc EXCEPT ![s] = "idle"]
    /\ view' = [view EXCEPT ![s] = [t \in Tickers |-> 0]]
    /\ ops' = [ops EXCEPT ![s] = [t \in Tickers |-> NoOps]]

SyncCommit(s) ==
    /\ pc[s] = "commit"
    /\ ~Stale(s)
    /\ ApplyOps(s)
    /\ CloseSync(s)
    /\ UNCHANGED <<exchange, ledger, request, settling>>

SyncAborts(s) ==
    /\ pc[s] = "commit"
    /\ Stale(s)
    /\ CloseSync(s)
    /\ UNCHANGED <<exchange, ledger, rows, request, settling>>

-----------------------------------------------------------------------------
Broker == EndOfDay \/ \E o \in Orders : Fill(o) \/ KisAccepts(o) \/ KisRefuses(o)

Users == \E o \in Orders :
    \/ Submit(o) \/ Record(o) \/ RecordNothing(o)
    \/ CancelAtKis(o) \/ CancelMark(o) \/ CancelLost(o)

Settle(p) ==
    \/ SettleRead(p) \/ SettleQuery(p) \/ SettleQueryFails(p)
    \/ SettleCommit(p) \/ SettleAborts(p)
    \/ \E o \in Orders : SettleStage(p, o) \/ SettleMeetsTwoRows(p, o)

Sync(s) == SyncFetch(s) \/ SyncRead(s) \/ SyncCommit(s) \/ SyncAborts(s)

Next ==
    \/ Broker
    \/ Users
    \/ \E p \in Settlers : Settle(p)
    \/ \E s \in Syncs : Sync(s)

Spec == Init /\ [][Next]_vars

\* The cron triggers keep firing, the broker does not refuse for ever, and a
\* session that can go on does; users owe nothing.  A start needs strong fairness
\* because another session may be under way (with Overlap = FALSE), a query
\* because it may fail.
Fairness ==
    /\ \A p \in Settlers :
         /\ SF_vars(SettleRead(p)) /\ SF_vars(SettleQuery(p))
         /\ WF_vars(\E o \in Orders : SettleStage(p, o) \/ SettleMeetsTwoRows(p, o))
         /\ WF_vars(SettleCommit(p) \/ SettleAborts(p))
    /\ \A s \in Syncs :
         /\ SF_vars(SyncFetch(s)) /\ WF_vars(SyncRead(s))
         /\ WF_vars(SyncCommit(s) \/ SyncAborts(s))

FairSpec == Spec /\ Fairness

-----------------------------------------------------------------------------
\* Properties.

\* With one settler: the transactions written for an order add up to its
\* filled_quantity, whatever is cancelled, reconciled or rolled back meanwhile
\* (settle_pending_orders commits the two together).
BookedOnce == \A o \in Orders : booked[o] = order[o].filled

\* "only the newly filled quantity": the transactions of an order never exceed
\* what the broker filled (order_settlement.py, steps 3 and 4).
NeverOverbooked == \A o \in Orders : booked[o] <= kis[o].filled

\* A row the user sees as cancelled is an order the broker no longer works
\* (cancel_order_endpoint marks the row only after the broker's answer).
CancelledIsClosed ==
    \A o \in Orders : order[o].status = "cancelled" => kis[o].state = "closed"

\* A row says filled only when the broker filled the whole order.
FilledIsFull ==
    \A o \in Orders : order[o].status = "filled" => kis[o].filled = Qty[o]

\* However many settlements overlap, what a row tells the user did happen at the
\* broker: a cancelled order is closed there, a filled one filled completely.
RowsTellTheTruth == CancelledIsClosed /\ FilledIsFull

\* With one settler: no later settlement or cancellation touches a filled row.
FilledIsFinal ==
    [][\A o \in Orders : order[o].status = "filled" => order'[o] = order[o]]_vars

\* A ticker has one row in holdings, the premise of every scalar_one_or_none
\* (the table has no unique constraint on portfolio and ticker).
OneRowPerTicker == \A t \in Tickers : Cardinality(holdings[t]) <= 1

\* A fill of an order that is open in the orders table is booked in the end if
\* the day lasts: unless the user cancels first, or the report of the day ends
\* before a settlement took the fill from it.  Settlements may fail, and meet
\* reconciliations at any point; two rows of a ticker would stop them for ever.
SettledEventually ==
    []OneRowPerTicker =>
        \A o \in Reported : \A n \in 1..Qty[o] :
            order[o].status \in OpenStatus /\ o \in listed /\ kis[o].filled >= n
                ~> \/ booked[o] >= n
                   \/ order[o].status = "cancelled"
                   \/ o \notin listed

\* A settlement that commits between a reconciliation's balance and its commit
\* has a fill counted twice, or lost; once the exchange is quiet, holdings come to
\* agree with the balance all the same, and stay so.  Two rows of a ticker are
\* never merged, and out of it.
HoldingsConverge ==
    <>[]OneRowPerTicker =>
        <>[](\A t \in Tickers : {r.qty : r \in holdings[t]} =
                                    IF position[t] = 0 THEN {} ELSE {position[t]})

\* Settlement by one settler implements the abstract ledger.
Ledger == INSTANCE FillLedger WITH filled <- [o \in Orders |-> kis[o].filled]
LedgerSpec == Ledger!Spec
=============================================================================
