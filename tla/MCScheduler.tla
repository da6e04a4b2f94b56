----------------------------- MODULE MCScheduler -----------------------------
\* Two accounts of a user and two tickers, and the nightly synchronisation with
\* each other job, for TLC.  The preloads of morning and afternoon are the same.
EXTENDS Scheduler

MCTickers == 1..2
MCIds == 1..3
MCTimetables ==
    {<<"kis_sync_us", j>> : j \in Range(Day) \ {"kis_sync_us", "preload_prices_pm"}}
=============================================================================
