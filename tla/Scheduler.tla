------------------------------ MODULE Scheduler ------------------------------
(***************************************************************************)
(* The scheduler: scheduler.py and its job modules, over the availability  *)
(* flag, the exchange rate and the synchronisation of accounts.            *)
(*                                                                         *)
(* Jobs run one after the other, as the timetable of a day has them, and   *)
(* record success or failure under their id.  Many consecutive failures    *)
(* raise an alarm.  A job does far more than one step only where it        *)
(* synchronises; the others are one action each, which says what the run   *)
(* records for what KIS and Postgres did to it.                            *)
(***************************************************************************)
EXTENDS AccountSync, Sequences, Functions

CONSTANTS
    Threshold,   \* CONSECUTIVE_FAILURE_THRESHOLD, and bound of the counts
    Tickers,     \* bound: what is held, sorted
    Timetables   \* bound: the jobs that are followed together, in their order

\* The jobs of a day, in the order of their triggers.
Day == <<"kis_sync_us", "preload_prices_am", "settle_orders", "preload_prices_pm",
         "daily_close_snapshot", "collect_benchmark", "fx_rate_snapshot",
         "collect_dividends">>

ASSUME SchedulerAssumption ==
    /\ Threshold \in Nat \ {0}
    /\ \A t \in Timetables : t \in Seq(Range(Day)) /\ t # <<>>

ASSUME TimetablesKeepOrder ==
    \A t \in Timetables : \E on \in SUBSET Range(Day) :
        t = SelectSeq(Day, LAMBDA j : j \in on)

Preloads == {"preload_prices_am", "preload_prices_pm"}

\* jobs.timetable
\* jobs.slot     position in it
\* jobs.stage    "due"; "sync" while sync_all_accounts runs; "warm", what a preload
\*               does after it
\* jobs.fails    _consecutive_failures
\* jobs.bad      ghost: consecutive runs that did not do all of their work
\* jobs.ill      ghost: such is the run under way
SchedulerTypeOK ==
    /\ jobs \in [timetable : Timetables, slot : Nat, stage : {"due", "sync", "warm"},
                 fails : [Range(jobs.timetable) -> 0..Threshold],
                 bad : [Range(jobs.timetable) -> 0..Threshold], ill : BOOLEAN]
    /\ jobs.slot \in 1..Len(jobs.timetable)

vars == <<health, spent, fx, sync, jobs>>

AtStart(t, slot) ==
    LET zero == [j \in Range(t) |-> 0] IN
    [timetable |-> t, slot |-> slot, stage |-> "due", fails |-> zero, bad |-> zero,
     ill |-> FALSE]

Init == HealthInit /\ FxInit /\ SyncInit /\ (\E t \in Timetables : jobs = AtStart(t, 1))

-----------------------------------------------------------------------------
(***************************************************************************)
(* Counting failures.                                                      *)
(***************************************************************************)
Job == jobs.timetable[jobs.slot]
Due(j) == Job = j /\ jobs.stage = "due"

\* Mutant: success is not recorded.
MutantRecordedNoReset(n, ok) == IF ok THEN n ELSE Older(n, Threshold)

\* _record_job_success, _record_job_failure
Recorded(n, ok) == IF ok THEN 0 ELSE Older(n, Threshold)

Judged(ill) == IF ill THEN Older(jobs.bad[Job], Threshold) ELSE 0

\* The run is over, and recorded; of its work something was left undone, or not.
Ends(ok, ill) ==
    jobs' = [timetable |-> jobs.timetable, stage |-> "due",
             slot |-> (jobs.slot % Len(jobs.timetable)) + 1,
             fails |-> [jobs.fails EXCEPT ![Job] = Recorded(@, ok)],
             bad |-> [jobs.bad EXCEPT ![Job] = Judged(ill)], ill |-> FALSE]

-----------------------------------------------------------------------------
(***************************************************************************)
(* kis_sync_us, and the preloads, which synchronise under their own id.    *)
(***************************************************************************)
SyncBegins ==
    /\ Due(Job)
    /\ Job \in Preloads \cup {"kis_sync_us"}
    /\ JobBegins
    /\ jobs' = [jobs EXCEPT !.stage = "sync"]
    /\ UNCHANGED <<health, fx>> /\ Free

\* sync_all_accounts records, and does not raise: a preload goes on.
SyncEnds ==
    LET ok == sess["job"].pc = "done"
        ill == missed \/ ~ok IN
    /\ jobs.stage = "sync"
    /\ sess["job"].pc \in {"done", "failed"}
    /\ Becomes("job", Rest)
    /\ missed' = FALSE
    /\ IF Job \notin Preloads THEN Ends(ok, ill)
       ELSE jobs' = [jobs EXCEPT !.stage = "warm", !.ill = ill,
                                 !.fails[Job] = Recorded(@, ok)]
    /\ UNCHANGED <<health, fx, db, rows>> /\ Free

\* What is held, and so fetched; nothing while there is no account to fetch with.
Held == IF filled = {} \/ Registered = {} THEN {} ELSE Tickers

\* What may come of calls that fail each for itself.
Answers(asked) == {got \in SUBSET asked : up \/ got = {}}

\* fetch_domestic_daily_ohlcv and fetch_overseas_daily_ohlcv, fetch_domestic_price and
\* fetch_overseas_price give None whatever went wrong.
Candles(asked) == Answers(asked)
Quotes(asked) == Answers(asked)

\* A price that is still in the cache needs no KIS.
CachedQuotes(asked) == SUBSET asked

\* KIS may refuse what it is asked for while it can be reached.
Gives(asked, got) == IF up /\ got # asked THEN Spend ELSE Free

\* preload_prices: however few prices came, a run that did not raise succeeded.
Warm ==
    /\ jobs.stage = "warm"
    /\ \/ ~db /\ Ends(FALSE, TRUE) /\ Free
       \/ /\ db
          /\ \E got \in CachedQuotes(Held) :
                Gives(Held, got) /\ Ends(TRUE, jobs.ill \/ got # Held)
    /\ UNCHANGED <<health, fx, sync>>

-----------------------------------------------------------------------------
(***************************************************************************)
(* The other jobs.                                                         *)
(***************************************************************************)
\* settle_orders_job: skipped while the flag is down, and the failure of an
\* account is none of the job's.  Postgres may go away before the loop or in it.
SettleJob ==
    /\ Due("settle_orders")
    /\ \/ ~flag /\ Ends(TRUE, TRUE) /\ Free
       \/ flag /\ ~db /\ Ends(FALSE, TRUE) /\ Free
       \/ /\ flag /\ db
          /\ LET open == {a \in Registered : Linked(a) # {}} IN
             \E settled \in Answers(open) :
                Gives(open, settled) /\ Ends(TRUE, settled # open)
       \/ flag /\ db /\ Registered # {} /\ Spend /\ Ends(FALSE, TRUE)
    /\ UNCHANGED <<health, fx, sync>>

\* snapshot_daily_close: candles first, prices for the tickers without one.  Only
\* Postgres makes it fail.
SnapshotDailyClose ==
    /\ Due("daily_close_snapshot")
    /\ \/ ~db /\ Ends(FALSE, TRUE) /\ Free
       \/ db /\ Held # {} /\ Spend /\ Ends(FALSE, TRUE)
       \/ /\ db
          /\ \E ohlcv \in Candles(Held) : \E prices \in Quotes(Held \ ohlcv) :
                /\ Gives(Held, ohlcv)
                /\ Ends(TRUE, ohlcv \cup prices # Held)
    /\ UNCHANGED <<health, fx, sync>>

\* _fetch_domestic_index and _fetch_overseas_index give a snapshot or None.
Indices == {"KOSPI200", "SP500"}

\* collect_snapshots: each index for itself, fetched and saved or not.
Collected == Answers(Indices)

\* collect_benchmark_snapshots
CollectBenchmark ==
    /\ Due("collect_benchmark")
    /\ \/ ~db /\ Ends(FALSE, TRUE) /\ Free
       \/ db /\ Registered = {} /\ Ends(TRUE, FALSE) /\ Free
       \/ /\ db /\ Registered # {}
          /\ \E saved \in Collected :
                Gives(Indices, saved) /\ Ends(saved # {}, saved # Indices)
    /\ UNCHANGED <<health, fx, sync>>

\* save_fx_rate_snapshot_job: some rate there always is; a failed save is logged.
SaveFxRate ==
    /\ Due("fx_rate_snapshot")
    /\ \/ ~db /\ Ends(FALSE, TRUE) /\ UNCHANGED fx /\ Free
       \/ db /\ AskRate /\ Ends(TRUE, Rate(FALSE)' = Fallback) /\ Free
       \/ db /\ AskRate /\ Ends(TRUE, TRUE) /\ Spend
    /\ UNCHANGED <<health, sync>>

\* What becomes of the dividends of a ticker: rows are written, there are none,
\* KIS refuses, or Postgres does.
Fates == {"rows", "empty", "refused", "db"}

\* An error of Postgres leaves the transaction aborted, in which later rows fail
\* too, until the commit after an empty answer ends it.
Aborted(fate, n) ==
    \E m \in 1..n : fate[m] = "db" /\ \A k \in (m + 1)..n : fate[k] # "empty"

\* collect_dividends_job: a run fails when something failed and nothing was saved.
DividendsCount(errors, saved) == errors = {} \/ saved # {}

\* collect_dividends_for_user_holdings
CollectDividends ==
    /\ Due("collect_dividends")
    /\ \/ ~db /\ Ends(FALSE, TRUE) /\ Free
       \/ db /\ Held # {} /\ ~flag /\ Ends(TRUE, TRUE) /\ Free
       \/ db /\ Held = {} /\ Ends(TRUE, FALSE) /\ Free
       \/ /\ db /\ Held # {} /\ flag
          /\ \E fate \in [Held -> Fates] :
                LET errors == {n \in Held : \/ fate[n] \in {"refused", "db"}
                                            \/ fate[n] = "rows" /\ Aborted(fate, n)}
                    saved == {n \in Held : fate[n] = "rows"} \ errors
                IN
                /\ up \/ \A n \in Held : fate[n] = "refused"
                /\ IF up /\ errors # {} THEN Spend ELSE Free
                /\ Ends(DividendsCount(errors, saved), errors # {})
    /\ UNCHANGED <<health, fx, sync>>

-----------------------------------------------------------------------------
(***************************************************************************)
(* The process, and what else goes on.                                     *)
(***************************************************************************)
\* It stops and starts again: the jobs' counts, the flag and the sessions are
\* gone, and the job under way with them.
Restarts ==
    /\ Spend
    /\ FlagRestarts
    /\ SessionsDie
    /\ jobs' = AtStart(jobs.timetable, jobs.slot)
    /\ UNCHANGED fx

Outage == GoesDown /\ UNCHANGED <<fx, sync, jobs>>
Recovery == ComesBack /\ UNCHANGED <<fx, sync, jobs>>
HealthRecheck == Recheck /\ UNCHANGED <<fx, sync, jobs>>

\* Any page with amounts in dollars asks for the rate.
RateAsked == AskRate /\ UNCHANGED <<health, sync, jobs>> /\ Free
TimePasses == FxTick /\ UNCHANGED <<health, sync, jobs>> /\ Free

Jobs ==
    \/ SyncBegins \/ SyncEnds \/ Warm \/ SettleJob \/ SnapshotDailyClose
    \/ CollectBenchmark \/ SaveFxRate \/ CollectDividends

SessionStep(s) ==
    \/ Fetch(s) \/ FetchFails(s) \/ Look(s) \/ Create(s) \/ Write(s) \/ Log(s) \/ DbFails(s)

Users ==
    \/ Login \/ Balance
    \/ \E a \in Accounts : AddAccount(a) \/ DeleteAccount(a)
    \/ \E p \in Ids : Manual(p) \/ DeletePortfolio(p)

Next ==
    \/ Outage \/ Recovery \/ HealthRecheck
    \/ DbGoesDown \/ DbComesBack
    \/ RateAsked \/ TimePasses
    \/ Users
    \/ \E s \in Syncs : SessionStep(s)
    \/ Jobs
    \/ Restarts

Spec == Init /\ [][Next]_vars

\* Outages end, triggers fire and coroutines run on.
FairSpec ==
    /\ Spec
    /\ WF_vars(Recovery) /\ WF_vars(DbComesBack)
    /\ WF_vars(Jobs)
    /\ \A s \in Syncs : WF_vars(SessionStep(s))

-----------------------------------------------------------------------------
\* "ALERT: job '%s' has failed %d consecutive times": as many runs of the job did
\* not do their work, one after the other.  A preload, which records a failure of
\* its synchronisation and another of its own, may count two of them for a run.
RunsBad(j) == jobs.bad[j] + (IF j = Job /\ jobs.stage = "warm" /\ jobs.ill THEN 1 ELSE 0)

AlarmTrue ==
    \A j \in Range(jobs.timetable) : jobs.fails[j] >= Threshold =>
        RunsBad(j) >= IF j \in Preloads THEN (Threshold + 1) \div 2 ELSE Threshold
=============================================================================
