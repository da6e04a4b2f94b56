# The Wealth: verification

The Wealth is a portfolio dashboard and order desk for accounts at Korea Investment & Securities
(KIS). The backend is one uvicorn process (FastAPI, and APScheduler inside it) over PostgreSQL 16
and Redis 7; the frontend is Next.js. This directory holds TLA+ models of the parts whose
correctness hangs on interleavings, lost answers, expiring entries and limits; the runs that check
them with TLC; and theorems about them that TLAPS proves for every value of the constants.

Contents: [Inventory](#inventory) · [Modules](#modules) · [Runs](#runs) · [Fairness](#fairness) ·
[Proofs](#proofs) · [What the code does otherwise](#what-the-code-does-otherwise) ·
[Not modelled](#not-modelled) · [Plan](#plan)

To repeat a check: `tlc -config settle_one_job.cfg MCOrderSettlement.tla` (the table under
[Runs](#runs) names the module of each cfg), and `tlapm OrderSettlementProofs.tla`.

## Inventory

One process, one event loop. Concurrency means coroutines that interleave at `await`: request
handlers, scheduler jobs, SSE generators. They share PostgreSQL rows (READ COMMITTED, a session per
request or job), Redis entries (`RedisCache`: plain GET/SETEX/DEL/SET NX, with a dictionary of the
process when Redis fails), a few module globals (token locks, the rate limiter, counters), and KIS
itself, which answers late, answers badly or not at all.

| Component | Code (backend/app unless said otherwise) | State | Operations | What makes it correct |
|---|---|---|---|---|
| Order lifecycle | `api/orders.py`, `services/order_settlement.py`, `services/reconciliation.py`, `scheduler_portfolio_jobs.py`, `scheduler_ops_jobs.py` | `orders`, `transactions`, `holdings` rows; KIS's orders and balance | place, cancel, settle (job and POST), reconcile (job, login, POST) | a fill is booked once, and in the end if the day lasts; a final status stays; a holding has one row; holdings end equal to the balance |
| Order admission | `services/kis_order_place.py` | Redis: `order_rate:{user}`, `order_lock:{portfolio}:{ticker}` | check the rate, take the lock, send | five orders a minute, if checked one after the other; a refusal does not outlast its reason; no double click becomes two orders, which the code does not achieve |
| KIS gateway | `services/kis_rate_limiter.py`, `kis_retry.py` | tokens, next release instant, semaphore | wait for a slot, take or reserve a permit, retry | rate and connection caps, no batch release, everyone served |
| KIS token | `services/kis_token.py`, `core/redis_cache.py` | `kis:token:{hash}` in Redis or memory, a lock per key | look up, issue, evict, invalidate, retry once | one issuance at a time, no token about to expire, none after KIS refused it |
| Price cache, single flight | `services/kis_price.py` | `price_detail:{ticker}`, `sf_lock:...` | hit, lead, poll, fetch, store, release | one fetch per miss, a bound on age, nobody waits on a dead leader |
| Cash summary | `services/cash_balance_aggregator.py`, its callers in `api/orders.py` | `cash_balance:account:{a}`, `cash_summary:user:{u}` | view, invalidate | an order shows at once, an old reading goes in bounded time |
| Scheduler, job health, KIS availability | `services/scheduler*.py`, `kis_health.py`, `main.py` | nine jobs, failure counters, the availability flag and its cooldown | run, record, alert, check, recheck | an alarm is true; the flag follows the network |
| Price stream and alerts | `api/prices.py`, `api/alerts.py` | connection counters, ticker cache, alert rows and their copies | admit, begin, round, close, refresh, fire, shut down | a slot is given back; a change of holdings is seen in time by streams that know its portfolio; an alert that was switched off falls silent |
| Sessions | `core/security.py`, `api/auth.py`; `frontend/src/lib/api.ts`, `store/auth.ts` | refresh ids in Redis, cookies, the client's shared refresh | login, rotate, logout, change password | rotation that the server answers keeps a tab logged in; no round between login and dashboard without a login; every request ends |
| Account synchronisation | `api/sync.py`, `api/auth.py`, `services/kis_account.py`, `scheduler_portfolio_jobs.py` | `kis_accounts`, `portfolios`, `sync_logs` | sync at login, on request, by the job; add and delete accounts | one portfolio per account, and it is filled in the end |
| Portfolios and holdings | `api/portfolios.py`, `api/portfolio_*.py` | `portfolios`, `holdings`, list cache | create, reorder, import, edit, list with prices | every view shows the same profit, but for what cost nothing |
| Analytics and dashboard | `api/analytics_*.py`, `api/dashboard.py`, `services/fx_utils.py` | none of their own | series, returns, drawdown, averages, summary | a missing row makes no loss; figures are what they are defined to be |
| Exchange rates | `services/kis_fx.py`, `fx_utils.py` | fresh and week-old entry, rows | fetch, fall back, fill forward | a rate is as fresh as its entry says |
| Price snapshots | `services/price_snapshot.py` | a row per ticker and day | upsert from two sources | the day's last price stays |
| Price stream client | `frontend/src/hooks/usePriceStream.ts` | ticket, EventSource, the effect's flag | connect, close, give up | one stream at most |
| The rest | see [Not modelled](#not-modelled) | | read-only or single-row | |

How they interact:

- Every KIS read goes out through the *gateway*, carrying the *token*. The POST of an order does
  not retry: the gateway's retries could place it twice.
- `POST /orders` passes *admission*, calls KIS, writes the `orders` row and drops the *cash* caches.
  `DELETE /orders/{no}` cancels at KIS first, then marks the row, and drops them too.
- The settlement job (weekdays, every five minutes of market hours) and `POST .../orders/settle` run the same
  function in different sessions. Reconciliation runs from a job, after login and from POST /sync.
- Views of cash, prices and portfolios fill the Redis caches; the scheduler's preload fills the
  price cache. The availability flag, set at start-up and rechecked every thirty seconds, makes
  login, settlement and dividends skip their work. (`fetch_prices_parallel`, the only other writer of
  the flag, has no caller.)
- A preload synchronises under its own job id before it warms the cache. Daily jobs write the closes
  and rates from which analytics and dashboard compute.
- A synchronisation creates the portfolio of an account, beside requests that delete accounts and
  portfolios; the price stream's ticker map is told of some of these changes and not of others.

What is hard here, and rarely tested: a row loaded before an await on KIS and written after it; an
answer lost after KIS acted; two Redis commands where one would be atomic; a DEL that meets an entry
newer than the one it was meant for; a stale value stored after the invalidation that should have
removed it; the arithmetic of reservations in a token bucket. `PROJECT.json` lists each at its line
under "hazards", with the properties that watch it.

## Modules

| Module | Lines of code it stands for | Role |
|---|---|---|
| `OrderSettlement` | `api/orders.py`, `order_settlement.py`, `reconciliation.py` and the jobs that call them | orders, transactions and holdings of one account, with KIS as an external actor |
| `FillLedger` | the promise of `settle_pending_orders` | abstract: each filled share is booked once, late perhaps and in portions; never undone, never ahead of the exchange |
| `KisGateway` | `kis_rate_limiter.py`, `kis_retry.py` | slots, permits, retries |
| `KisToken` | `kis_token.py`, `redis_cache.py`, the callers' retry | one app key's token |
| `OrderAdmission` | `kis_order_place.py`, lines up to the POST | the count and the lock of one user and portfolio |
| `PriceFlight` | `kis_price.py` | one ticker's detail price |
| `CashSummary` | `cash_balance_aggregator.py`, the invalidations of `api/orders.py` | a user's cash over two caches |
| `Sessions` | `core/security.py`, `api/auth.py`, `api/users.py`; `frontend/src/lib/api.ts`, `store/auth.ts`, `proxy.ts` | refresh tokens of one user, and one browser |
| `PriceStream` | `api/prices.py`, `api/alerts.py`, `hooks/usePriceStream.ts` | one user's streams and the hook that opens them |
| `Analytics` | `api/analytics_*.py`, `api/dashboard.py`, `api/portfolios.py`, `fx_utils.py`, `price_snapshot.py` | rows that come and go, and the figures computed from them |
| `KisHealth` | `kis_health.py`, the recheck of `scheduler.py` | the availability flag |
| `FxRate` | `kis_fx.py` | the chain of caches of the exchange rate |
| `AccountSync` | `api/sync.py`, `api/auth.py`, `kis_account.py`, `scheduler_portfolio_jobs.py`, `reconciliation.py` | four kinds of synchronisation over accounts and portfolios |
| `Scheduler` | `scheduler.py`, `scheduler_market_jobs.py`, `scheduler_ops_jobs.py`, `kis_benchmark.py`, `kis_dividend.py` | composes the last three with the jobs of a day |
| `MC...` (seven) | | instances and symmetry for TLC |
| `...Proofs` (eight) | | theorems: `CacheProofs` about OrderAdmission and CashSummary, `PriceProofs` about PriceStream and PriceFlight, `SchedulerProofs` about KisHealth, FxRate, AccountSync and Scheduler, and one each about OrderSettlement, KisGateway, KisToken, Sessions and Analytics |

"map" in `PROJECT.json` gives the lines of each definition. Definitions named `Mutant...` are not
part of any specification: each is an action with a plausible mistake in it, and shows that the
property named with it in "mutants" notices.

### OrderSettlement

A handler or job is a *session*. What it read stays in its ORM objects across its awaits (`seen`,
`report`, `view`), what it wrote is invisible until its commit (`dirty`, `ops`).

| Variable | Code |
|---|---|
| `kis`, `position`, `listed` | external: KIS's orders, balance, and which orders today's fill report lists |
| `order`, `booked`, `holdings`, `nextId` | tables `orders`, `transactions` (as a total per order), `holdings` (no unique constraint on portfolio and ticker) |
| `request` | where the user's POST or DELETE is |
| `seen`, `todo`, `report`, `dirty` | in `settle_pending_orders`: loaded rows, rows to go through, KIS's answer, rows flushed and so locked |
| `view`, `ops` | in `reconcile_holdings`: the balance; uncommitted holding rows |

| Action | Code |
|---|---|
| `Submit`, `KisAccepts`, `KisRefuses`, `Record`, `RecordNothing` | `place_order_endpoint`: the holding check of a sale, the POST, the row; a 5xx after acceptance records "failed", a time-out records nothing |
| `CancelAtKis`, `CancelMark`, `CancelLost` | `cancel_order_endpoint` |
| `SettleRead` ... `SettleCommit`, `SettleAborts`, `SettleMeetsTwoRows` | `settle_pending_orders` and the commit of its caller; the job's one session for all accounts (`OtherAccounts`) |
| `SyncFetch`, `SyncRead`, `SyncCommit`, `SyncAborts` | `reconcile_holdings` |
| `Fill`, `EndOfDay` | external |

The ORM writes a column only when it differs from what was loaded: `CommitFills` leaves `status`
alone when it computes the status it saw. That is why a cancellation survives one overlapping
settlement and not another. Postgres is modelled by row locks from flush to commit, by deadlock
abortion (`SettleAborts`), and by an UPDATE that matches no row raising (`Stale`). `nextId` gives
each inserted row an identity of its own. Of an overseas order only that its fill report never
lists it is kept (`Reported`).

### KisGateway

Time is a tick of 1/(rate · Grain) s, tokens come in units of 1/Grain. Refilling a unit a tick
equals the lazy `_refill`. `ahead` is `max(_next_release, now) - now`; `wait` is what is left of a
sleeper's `asyncio.sleep`; a sleeper whose time has come may wake late. `queue` is the semaphore's
FIFO. The retry loop is `AnsweredBadly`, `NetworkError`, `Resend`: a rate refusal takes a new permit,
a 5xx or a network error does not. `meter` is a leaky bucket on top, used to state the bound on
permits over every interval. That only admitted callers hold slots, `Admit` says itself, so no property
repeats it. A call ends well, with KIS's error, or by falling out of the loop.

### KisToken

Tokens are numbered as KIS issues them. `stale` says how many have entered their rotation buffer.
`cache` has the Redis entry and the in-memory one, which `RedisCache` falls back to operation by
operation, so the two drift apart through an outage (`RedisToggles`; `steady` runs have none).
`line` is the asyncio lock: holder, then waiters. After use a call may be refused once, drops the
entry and asks again.

### OrderAdmission

`count`, `countLeft` and `lockLeft` are the entries and their TTLs; `counted` and `sent` remember
when each order passed, for the properties only. `Overlap` says whether a request may be checked
while another is: GET and SETEX are two awaits, for the count and for the lock. Without overlap the
count does what it is for (WindowLimit); the lock is there for requests that do overlap, and the run
double_click shows that it does not stop them. RefusalIsRecent needs no premise.

### PriceFlight

`entry` and `quoteAge` are the cached price and how long ago KIS quoted it; `lock` is the single-flight
entry; `spent` drives the polling time-out and the fetch's own. `FetchMax`, the longest a fetch and
its store can take, may exceed the lock's TTL: then a late leader deletes another's lock, which is
in the model (`Release`).

### CashSummary

Amounts are reduced to whether they still show the account as it is (`entryOld`, `summaryOld`,
`partOld`). A view reads the entry, else the balance and then the pending orders of each account
(`asyncio.gather`, so the accounts interleave), stores the entry, and when all are in, the summary.
A request drops the entry, then the summary. A fill drops nothing. `calm` records whether anything
happened that breaks "at once": a fill, a failed lookup or request, or a view that already held the
old reading when the entry was dropped.

### Sessions

A refresh token is its jti; `entry` is what Redis holds under `refresh:{user}:*`. `flow` is where each
POST to /auth/refresh or /auth/login is: GET, DEL, the user's row and SETEX are steps of their own.
`Refused` is the 429 of the limiter, or a 500 of the first GET, before anything is consumed; `Breaks`
is a 500 of one of the other three, executed or not. To a page that shares a refresh all of them are
what a 401 is, `Failed`: `refreshOnce` rejects, and the tab goes to the login page, though only a 401
clears the cookies (`Rejected`). The dashboard's own refresh and the login form swallow them.
`jar` is the browser's cookies, `page`, `shared` and `req` what its tabs show, the promise
`refreshInflight`, and the API requests. `scan` is a logout, a change of password, email or account,
or the list of sessions going through the keys page by page; an entry is "due" while no page has had
it. `calm` says that nothing but rotation happened to the browser's session: no revocation or expiry,
no 429 of a shared refresh and no 500, no lost answer, and no two refreshes at a time that do not share
one.

### PriceStream

A tick is thirty seconds. The hook: `cli`, `current`, `es` (attempts, the effect that was not cleaned
up, `esRef.current`). The server: `srv`, `elapsed` (where each stream is, how many rounds), `slots`
and `lost` (the counter; slots whose generator never began), `shutdown`. The ticker map: `cache`,
`reading`, `pending`, and `blind`, the streams that began before some portfolio was created and query
without it (`Queried`: `portfolio_ids` is read once per connection). A map is new; stale, for a change
that nobody invalidates; owed, for one whose handler is about to; or narrow, read by a blind stream and
stored for all. `cache.behind` counts the ticks for which the entry has lacked something that a stream
which knows all portfolios would have read; while blind streams run, that nobody promises. The alert:
`off`, `copy`, `age`, `fired`.

### Analytics

`today`, `snap`, `fx`, `hold` and `avg` are the rows; `SaveClose`, `SaveRate`, `Trade` and `NextDay`
write them, leaving gaps wherever they like. An average price may be 0, as KIS gives it for shares that
cost nothing: the page of a portfolio then shows no profit, the list none unless something else in the
portfolio is priced, the dashboard all of it. ViewsAgree says that this is the only difference
(`Gift`). The figures are operators over them, translated loop by loop
(`LastClose` carries forward as the loop does, `Mdd` keeps the running peak), and checked in every
reachable state against definitions over all pairs, windows and neighbours.

### KisHealth, FxRate, AccountSync, Scheduler

`KisHealth` has the network (`up`), the flag, and the age of its last good check in rounds of thirty
seconds. The clock of the cooldown is read when a check has answered, so a cooldown's worth of rounds
later the next one may or may not ask (`InCooldown`, `CooledDown`); one round more, and it does. `FxRate` represents a rate by its age: `fresh` and `stale` are the two Redis entries.

In `AccountSync` a session (`login`, `balance`, `manual`, `job`) has a stage, the accounts it still has
to do, and the portfolio it found. The three differ as the code does: login and balance ask KIS before
they look for the portfolio and create it, the job looks first and passes over accounts without one,
the manual one is given its portfolio. A flush or commit that raises leaves the SQLAlchemy session
unusable, because nobody rolls it back: for login that ends the work, whatever it goes on asking KIS.

`Scheduler` runs the jobs of a day in the order of their triggers. `jobs.fails` is
`_consecutive_failures`; `jobs.bad` counts what really went wrong. The synchronisation of
`kis_sync_us` and of the preloads is that of `AccountSync`, step by step; the other jobs are one action
each, with every way KIS and Postgres can make them end. In `CollectDividends` an error of Postgres
leaves the transaction aborted for the tickers after it, until an empty answer commits.

## Runs

Twelve runs, each its own question. All bounds are constants of the cfg; ages and meters saturate or
are bounded by theorem, no state constraint cuts anything off.

| Run | Module, cfg | Properties | Shows |
|---|---|---|---|
| settle_one_job | `MCOrderSettlement`, `settle_one_job.cfg` | BookedOnce, NeverOverbooked, RowsTellTheTruth, FilledIsFinal, LedgerSpec, SettledEventually, HoldingsConverge | with one settler, and cancellations, reconciliation and the ends of days overlapping it anywhere: bookings follow the rows exactly; settlement implements `FillLedger`; a fill is booked in the end if the day lasts; holdings converge to the balance |
| settle_double_booking | same module, `settle_double_booking.cfg` | *NeverOverbooked* fails | overlapping settlers book a fill twice |
| gateway | `KisGateway`, `gateway.cfg` | NoStaircase, TwiceTheRate, EveryCallEnds | rate and service with retries |
| token | `KisToken`, `token.cfg` | OneIssuer, ColdStartOnce, HandsOutValid, DroppedStaysOut, EveryCallEnds | double-checked lock, with and without outages |
| admission | `MCOrderAdmission`, `admission.cfg` | WindowLimit, RefusalIsRecent | requests checked one at a time |
| double_click | same module, `double_click.cfg` | *OneHolder* fails | two requests for a ticker, checked together, both get its lock |
| price | `PriceFlight`, `price.cfg` | OneAtATime, FreshEnough, EveryCallEnds | single flight with failing, slow and overdue fetches |
| cash | `MCCashSummary`, `cash.cfg` | AtOnce, GoneInTime | two views, an order, fills, failures |
| sessions | `MCSessions`, `sessions.cfg` | StaysIn, NoPingPong, NobodyHangs | rotation, revocation and the list against refreshes, logins and expiries under way; refreshes refused and failing, a browser that loses answers |
| stream | `MCPriceStream`, `stream.cfg` | SlotsAccounted, NoForgottenStream, MapInTime, SilentSoon, StreamEnds | two overlapping streams while the dashboard reconnects, holdings, portfolios and the alert change, the server stops |
| analytics | `MCAnalytics`, `analytics.cfg` | HistoryFilled, NoFalseLoss, FiguresExact, ViewsAgree | every figure against its definition, with every pattern of missing rows |
| jobs | `MCScheduler`, `jobs.cfg` | AlarmTrue, FlagFollows, RateInForce, FilledInTheEnd | the day's jobs and the synchronisations while KIS and Postgres go and come back, accounts and portfolios come and go, and the process restarts |

Type invariants are proved, not run.

Why the bounds are enough:

- *settle_...*: two orders on one ticker, a purchase of two and a sale of one with an opening share,
  make every branch of `_update_holdings_for_fill` happen (insert, add, subtract, delete), a partial
  before a full fill, and a sale that empties the row. One settler and one synchronisation overlap
  at every await, and the day may end at any moment, under any of them. The two-settler run has no
  synchronisation: the violation needs none.
- *gateway*: three callers over two slots queue, reserve behind each other and retry; half-token
  ticks give every remainder of a token; Burst = 1 makes the bucket run dry at once. `ahead`, `wait`
  and `meter` stay finite because each caller holds one reservation at most.
- *token*: two callers are what a race takes. Two tokens allow a rotation.
- *admission*: four orders on two tickers against a limit of two in three ticks; a lock shorter than
  the window, as in the code (10 s, 60 s). Two orders on one ticker are a double click.
- *price*: three callers: a leader, a follower that gives up, and one that meets the lock after it
  ran out. PollTtl and LockTtl are both 2 (the code has 3 s and 5 s, in ticks that
  round to the same), FetchMax 3 outlasts both.
- *cash*: two accounts separate "this account's entry" from "the summary"; two views let one store
  while the other reads. In the code both
  TTLs are 30 s; unequal values, 2 and 1, tell them apart in the bound, which is proved for all. Accounts
  and views are symmetric: no property singles one out.

- *sessions*: one tab with two requests is what sharing a refresh takes; two jtis let an old one and
  its successor be alive together, and a scan meet both; one live session at a time besides (MaxLogins).
  A page sends nothing before the last page's refreshes ended (`Settled`), and no request of a page is
  under way while entries are scanned (`Together = FALSE`); refreshes and logins are.
- *stream*: two attempts overlap; MaxConn 2 is reached (3 in the code), a stream ends after 2 rounds
  (240), one slot may be lost, the map lives 2 ticks (60 s), copies 1 (10). A round is over when the
  next is due. The alert's condition is met or not at will. The alert is followed through one of the
  streams (`Followed`), which nothing distinguishes: copies do not meet, and the loads of the others
  fail, as loads may. The proofs are for any set of them.
- *analytics*: a domestic and an overseas ticker in two portfolios, three days in two months, two
  closes; that gives gaps before, between and after rows, ties between neighbouring rates and a ticker
  of two portfolios. `Avgs` gives the domestic ticker an average price of 0 or 1, the other one of 1.
- *jobs*: outages, refusals, visits, deletions and restarts share a budget of two; outages end for
  free. Each job is followed together with the nightly synchronisation (`Timetables`), which keeps the
  counts of two jobs and not of eight; jobs share nothing else. Cooldown 1 round (20), FreshTtl 1 and
  StaleTtl 2 (an hour, a week), Threshold 2 (3). settle_orders runs once a day and a job is over when
  the next is due; that a preload may last into the snapshot of the close is left out.

The largest runs are jobs, stream and sessions (some 370,000, 450,000 and 170,000 distinct states).

CHECK_DEADLOCK is off only in settle_double_booking, which has no synchronisation: every order may end
and nothing is left to do.

## Fairness

- Settlement: the cron triggers keep firing and KIS does not refuse for ever. Starts and the KIS query
  are strongly fair because a failing query disables them again and again; a session that can go on,
  commit or abort does. Users and the exchange owe nothing, and the day need not last: a fill that no
  settlement takes from the report of its day is never booked (`order_settlement.py:105`), and two rows
  of a ticker stop both settlement and reconciliation of it for ever. SettledEventually and
  HoldingsConverge except exactly that.
- Gateway, token, price: the event loop runs whatever is ready (weak fairness per caller), and each
  HTTP request ends, if by its time-out. In `KisGateway` one weak fairness covers "answered well or
  badly", so KIS may answer badly as often as the retry budget allows. In `KisToken` the holder of
  the lock may fail; nobody owes a success. In `PriceFlight` the clock is fair and ticks only when no
  overdue step is pending.
- Order admission, cash and analytics have safety properties only; their bounds in time are part of
  the state.
- Sessions: pages load, coroutines run on, and every request is answered or times out. Nobody owes a
  visit, a login or a success.
- Stream: coroutines run on (weak), and time passes though rounds keep disabling the tick (strong).
  Clients and the market owe nothing.
- Jobs: outages end, triggers fire, and each session runs on. KIS may refuse as often as the budget
  lets it; users owe nothing.

## Proofs

Assumptions are the named ASSUMEs of each module: types of the constants, positive capacities and
TTLs, for `Analytics` that the months of the days come in the order of the calendar, for `AccountSync`
that the marks of an unlinked or unused portfolio are not accounts. Nothing else is
assumed but what the table says, and TLC evaluates the ASSUMEs in the runs. Each proof is an inductive
invariant (TLC-checked before it was proved), an Init lemma, a step lemma with one step per action,
and a temporal conclusion by PTL.

| Theorem | Says | Argument |
|---|---|---|
| `OrderSettlementProofs!RowsAreTrue` | RowsTellTheTruth, for any number of settlers | a report never exceeds what KIS filled, nor that the quantity (`FullyFilled`); once KIS closed an order it stays closed, and whoever is "cancelling" has seen it closed (`CancelledAtBroker`) |
| `...!BookedExactly`, `NeverTooMuch`, `FilledStays` | BookedOnce, NeverOverbooked, FilledIsFinal, for one settler | the settler's copy of `filled` is the row's, because nobody else writes the column; so new = reported - booked |
| `...!ImplementsLedger` | `Spec => LedgerSpec`, for one settler | each commit is a ledger step for the orders in `dirty`; all else stutters |
| `...!TypeCorrect` | TypeOK | includes that no holding row is left at zero shares |
| `...!HoldingsUndisturbed` | OneRowPerTicker, and no commit meets a row that is gone, without overlap | `HoldingInv`: one session at a time has work in hand, and what it sees of a ticker, its own work included, is one row at most; a fill or a balance changes that row, inserts the only one or deletes it |
| `KisGatewayProofs!OneByOne` | NoStaircase | due instants are distinct and at most `ahead`; a reservation is strictly later |
| `...!AtMostTwice` | TwiceTheRate | a potential: permits issued plus tokens in the bucket plus reservations not yet due, against what a tick can add to each; the sleepers who are due number at most Slots |
| `...!TypeCorrect` | TypeOK | |
| `KisTokenProofs!OneAtATime` | OneIssuer | whoever is past the second check heads the line, and the line has one head |
| `...!NeverStale` | HandsOutValid | both checks compare with the expiry kept in the entry, and `Put` happens before the token ages |
| `...!DroppedAlways` | DroppedStaysOut | while Redis answers, neither the entry nor a token about to be stored is dropped |
| `...!OneForAll` | ColdStartOnce | `ColdInv`: until an entry is dropped or ages, tokens are issued only by one who found none under the lock, and whoever comes after finds it |
| `CacheProofs!FiveAMinute` | WindowLimit, without overlap | the entry's life is that of the youngest order it counts (`Youngest`), so `count` bounds the recent orders (`Covers`) and what the one request under way has read is still so (`Alone`, `SeenNow`) |
| `...!RefusalsEnd` | RefusalIsRecent, overlap or not | `Youngest`: some counted order is exactly as old as the count's entry, and the last order to take a lock as old as the lock |
| `...!OldReadingsGo` | GoneInTime | `Aged`: an old reading's age plus the life left to whatever holds it never exceeds that holder's share of `LifeMax` |
| `...!OrdersShow` | AtOnce | `Owed`: under `calm`, an account old anywhere is owed a DEL by a pending request that has not yet passed that cache |
| `SessionsProofs!RotationKeepsUsersIn` | StaysIn: what sends a tab to login is a revocation, an expiry, a 429 or 500, a lost answer or an unshared refresh, and nothing else, however many of its requests find the token expired | `PromiseInv`: a page's promise is that of its one refresh, and who waits for it waits for that one, so nobody presents a cookie twice; `CalmInv`: while calm, the cookie's token is in Redis or the answer that replaces it is on its way |
| `...!TypeCorrect` | TypeOK | with `PromiseInv` |
| `PriceProofs!SlotsAreAccounted` | SlotsAccounted | `SlotInv`: each action moves one stream and the counter together, but for a generator that never begins |
| `...!NoStreamForgotten` | NoForgottenStream | `HookInv`: `esRef` is the open source, and only the current effect opens one |
| `...!MapIsInTime` | MapInTime, blind streams excepted | `MapInv`: no change has been missing for longer than the map has been in the cache; a read under way across a change is marked stale; a narrow map is read by a blind stream only, and `behind` counts once there is none |
| `...!FallsSilentSoon`, `FiresOncePerLoad` | SilentSoon, OncePerLoad | `AlertInv`: a copy that can fire was loaded when the alert was on, so the alert has been off for one tick more than its age at most |
| `...!TypeCorrect` | TypeOK | with the four invariants above |
| `...!QuotesStayFresh` | FreshEnough | `QuoteInv`: the age of a cached quote plus the life left to its entry is at most EntryTtl + FetchMax, and one under way is younger than its fetch |
| `...!OneLeader` | OneAtATime, for entries that outlive the polling (PollTtl <= EntryTtl; the code polls 3 s and keeps entries 60 or 300 s) | `LeaderInv`: while fetches are prompt, whoever is fetching leads, alone, and has held the lock since it began; a follower finds an entry or has polled no longer than the leader has fetched |
| `...!FlightTypeCorrect` | FlightTypeOK | with the bounds of the polling and of a fetch |
| `SchedulerProofs!HealthFollows` | FlagFollows, down within the cooldown and a round | `HealthInv`: while KIS is away unnoticed, the clock of the cooldown has run for as long |
| `...!RateIsInForce` | RateInForce | `RateInv`: the entry for a week is as old as what was last heard, and so is the one for an hour while it is there |
| `...!AlarmIsTrue` | AlarmTrue | `CountInv`: the counter of a job is at most the runs that went wrong, of a preload at most twice as many, and what the current run has counted already |
| `...!BalancesStayApart` | no balance is written into another account's portfolio, and an account has one at most | `SyncInv`: the portfolio a session holds was its account's when found, and owners only ever change to none or deleted; a portfolio is created for an account that has none |
| `...!TypeCorrect` | the type invariants of Scheduler, KisHealth, FxRate and AccountSync | with the four invariants above |
| `AnalyticsProofs!HistoryFilledAlways` | HistoryFilled | the loop's `last_close` on a day is the close of the latest day that has one (`LastCloseIsLatest`), and `forward_fill_rates` gives the latest rate so far (`FilledForward`), by induction over days |
| `...!NoFalseLossAlways` | NoFalseLoss | closes that never fall give filled closes that never fall (`KnownGrows`), so a growing total: no day is below the peak, and no month is below an earlier one (`MonthsGrow`) |
| `...!FiguresExactAlways` | FiguresExact | after each day the running peak is the greatest value so far and the drawdown the deepest of the falls so far (`DeeperIsDeepest`, compared as fractions); the rows read by the moving average end in the latest closes (`LookbackSuffices`); each gain is counted once (`GainsAddUp`) |
| `...!ViewsAgreeAlways` | ViewsAgree | sums by portfolio and by ticker are the same sum, taken in another order (`SumOfGroups`, `SumReindexed`); each row's worth is its cost, its profit and, where it cost nothing, the gift (`ItemOrGift`) |
| `...!RowsTyped` | RowsOK, the inductive invariant the four above follow from | each write keeps closes natural and holdings 0 or 1 |

`Analytics` has no invariant to strengthen: its rows may be anything, so the work is in the operators.
The library's induction theorems take an operator, which no installed prover can instantiate;
`AnalyticsProofs` does induction with sets instead. `SetInduction` and `RangeInduction` say that a set
of finite sets, or of days, which holds the smallest and is closed under one step holds them all (from
the least counterexample, `WFMin`), and each lemma names the set of cases for which it is true. The
functions the loops are translated to exist by `Recursion`, and `SumFunction` by `FoldsExist`.

Every invariant and every action property of the passing runs has a theorem. HoldingsUndisturbed and
BalancesStayApart are proved beyond what the runs list. Only model-checked: liveness (EveryCallEnds in
three modules, SettledEventually, HoldingsConverge, NobodyHangs, NoPingPong, StreamEnds,
FilledInTheEnd), since ENABLED and fairness are out of the prover's reach.

## What the code does otherwise

Two runs end in a violation and are listed as findings:

- settle_double_booking: two overlapping settlements each write a transaction for the same fill, because
  `prev_filled` is read from a row loaded before the await on KIS, and nothing locks it
  (`order_settlement.py:125-143`).
- double_click: the lock of an order is a GET and a SETEX (`kis_order_place.py:131`), so that two
  requests for a ticker checked together both get it; docs/architecture/feature-trading.md:66 has
  `SET NX EX 10`, which would let one through.

Seen while modelling, and kept as behaviour of the models or as stated limits of the properties:

Orders, tokens, caches:

- A settlement that loaded a row before its cancellation sets it from cancelled to partial
  (`order_settlement.py:137`), while the order diagram has no way out of cancelled
  (docs/architecture/feature-trading.md:31-34). RowsTellTheTruth holds all the same.
- The rate limit reads and writes its count in two awaits (`kis_order_place.py:124`): requests checked
  together pass five a minute. WindowLimit is about requests checked one after the other.
- The lock of an order lives ten seconds from the check on, while token and POST may take ten each: a
  second order of the ticker can start while the first is under way.
- A settlement passes over what the report of the day no longer lists (`order_settlement.py:105`): a fill
  after the last settlement of its day stays unbooked, with the row pending.
- A caller that missed before the leader stored, and asks for the lock after it, leads once more
  (`kis_price.py:672`); followers of a leader that fails fetch each for itself (`kis_price.py:687`).
- The fast path of the token evicts outside the lock whatever is cached by then (`kis_token.py:91`):
  a second token is issued needlessly.
- `reconcile_holdings` deletes every row KIS does not list, added by hand or not;
  docs/architecture/feature-trading.md:187 says those rows are kept.
- A synchronisation that fetched the balance before a settlement and committed after it, or the other
  way round, counts a fill twice or loses it until the next one: HoldingsConverge is "in the end".
- A token invalidated during a Redis outage is still in Redis after it (DroppedStaysOut is about
  steady executions).
- The limiter credits refills during the time that reservations already cover, so the long-run bound
  is twice the configured rate and not the rate (`config.py:50`); TwiceTheRate is the bound that holds.
- The retry loop's closing RuntimeError, marked unreachable, is reached when the last attempt ends in
  a network error with retries left (`fallen` in `KisGateway`).
- A follower that gave up polling fetches too, even if the leader is merely slow: "one leader calls
  KIS" (`kis_price.py:53`) holds while fetches are prompt.
- "Shows at once after invalidation" (`cash_balance_aggregator.py:275`) fails when a view that read
  before the order stores after the DEL, and for fills the job books; GoneInTime bounds how long.
- Each order renews the TTL of the whole rate count, so even a trickle slower than five a minute can
  still be refused; RefusalIsRecent states what remains true.

Sessions and streams:

- "Parallel 401s share one /auth/refresh call" (`lib/api.ts:35`), but the dashboard's own refresh
  (`store/auth.ts:55`) does not share it: the two may present one cookie, and the 401 of the slower
  clears the cookies of the other. StaysIn excludes that overlap.
- The refresh reads and deletes its token in two commands (`security.py:64-72`), where
  docs/architecture/auth-flow.md:48 has one GETDEL: two that present it together may both succeed.
- A 429 (`auth.py:248`) or a 500 of a shared refresh is to the page what a 401 is (`api.ts:43`): the tab
  goes to /login?reauth=1 and the middleware clears the cookies of a session that is alive in Redis.
  NoPingPong says that tabs do not go on so for ever unless a refresh or a login succeeds again and again.
- A refresh that has consumed its token when a logout scans the keys stores the next one afterwards:
  the session outlives "Revoke all refresh tokens" (`security.py:76`). No property here says otherwise.
- "Triggered alerts are recorded in last_triggered_at and set is_active=False" (`prices.py:153`): they
  are, on detached copies that nothing commits. The alert fires again after the next refresh of the
  list, in each stream.
- "Invalidated after sync or a change of holdings" (`prices.py:84`): neither `sync.py:320` nor
  `update_holding` invalidates the map of tickers. MapInTime bounds the delay by the TTL.
- A response whose generator never begins keeps its slot until the process ends (`prices.py:282`).
- The portfolios of a stream are read once when it begins (`prices.py:297`), and the map it queries with
  them is cached for all of the user's streams: while a stream is older than a portfolio, no stream is
  sure to send the prices of that portfolio, whatever is invalidated, for up to two hours.

Jobs and synchronisation:

- A failing preload counts twice when its synchronisation and its own work fail, and never passes one
  when only the latter does, because the synchronisation's success resets the count.
- Settlement, close and preload report success when every account in them failed.
- Synchronisation by POST /balance, login and job invalidates no response cache, which the comment at
  `portfolios.py:120` expects of callers; delete_portfolio leaves the analytics cache as it is.
- Login synchronisation goes on with a session whose commit failed (`auth.py:93`); portfolios it
  created stay empty until the next one.
- `invalidate_analytics_cache`, which is to delete all of a user's entries, misses the keys
  `monthly-returns:{cutoff}`, `krw-asset-history:1W` and those of a history of one portfolio.
- Bulk imports add quantities to rows read before an await, and so lose or repeat some when two
  overlap (`portfolio_holdings.py:270`); `max_order.scalar() or -1` (`portfolios.py:308`) gives 0 to a
  second portfolio too.
- Sync logs are ordered by time and paged by id (`sync.py:356`).
- Docstrings say 1350 where the code has 1450 (`kis_fx.py:102`) and 30 s where it has 60
  (`kis_price.py:68`).

Figures:

- Holdings with an average price of 0 make a profit on the dashboard, none on the page of their portfolio
  (`portfolio_holdings.py:176`), and in the list (`portfolios.py:264`) only beside others that are priced.
- Tickers of the metrics are not made distinct (`analytics_metrics.py:176`), so one held in two
  portfolios weighs twice in past values; NoFalseLoss is stated for what that leaves true.
- A monthly weight takes the quantity of whichever row comes last (`analytics_metrics.py:298`).
- Holdings without a price are taken at cost, which can show a drawdown that did not happen.
- `forward_fill_rates` ignores the rate of a day without prices; the total of the list of portfolios
  adds won and dollars.

## Not modelled

Listed with reasons in `PROJECT.json`. In short: stock search, watchlist, push, notifications and
audit write single rows; exports, charts, the list of sync logs and the lists of dividends and alerts
read and render; the parsing of KIS answers is an input of the models that use it; schema and
migrations, logging and health probes, configuration; all pages of the frontend.

Within the modelled parts:

- orders: prices and amounts, names, market hours, mock mode, the domestic/overseas distinction apart
  from the fill report;
- prices: the plain cache without single flight, and the bulk fetches, which keep no state but its
  entries;
- Redis outages, except in `KisToken` (elsewhere they degrade to the process's dictionary), and a crash
  of the process other than a session that never commits or a restart of the scheduler;
- sessions: registration and its rate limits, profile fields, login history;
- streams: the prices sent, notification and push of an alert, heartbeats, the status the hook shows;
- analytics: CAGR and Sharpe, which are floating-point formulas on series that are modelled, sectors and
  the benchmark's chart;
- portfolios: order keys, bulk import, the cached list with prices (its figures are in `Analytics`).

## Plan

What is left, in order of what it would add:

1. `Portfolios`: bulk import and edits of holdings against synchronisations, order keys, and the cached
   responses with the writers that forget to invalidate them.
2. The single-flight price cache under Redis outages, composed with the gateway.
