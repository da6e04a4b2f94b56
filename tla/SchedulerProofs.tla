--------------------------- MODULE SchedulerProofs ---------------------------
(***************************************************************************)
(* Theorems about Scheduler, and KisHealth and FxRate in it, for every     *)
(* timetable, threshold, cooldown and lifetime.                            *)
(***************************************************************************)
EXTENDS Scheduler, TLAPS

-----------------------------------------------------------------------------
(***************************************************************************)
(* The availability flag.                                                  *)
(***************************************************************************)

\* While KIS is away unnoticed, the clock of the cooldown has run as long.
HealthInv ==
    /\ up \in BOOLEAN /\ flag \in BOOLEAN
    /\ age \in 0..Never /\ since \in 0..Never
    /\ flag /\ ~up => since <= Cooldown /\ since <= age
    /\ ~flag /\ up => since = 0

LEMMA HealthSteps ==
  [Next]_vars => GoesDown \/ ComesBack \/ Recheck \/ FlagRestarts \/ UNCHANGED health
  <1> SUFFICES ASSUME [Next]_vars, ~UNCHANGED health
               PROVE  GoesDown \/ ComesBack \/ Recheck \/ FlagRestarts
    OBVIOUS
  <1>1. ASSUME Jobs PROVE FALSE
    BY <1>1 DEF Jobs, SyncBegins, SyncEnds, Warm, SettleJob, SnapshotDailyClose,
       CollectBenchmark, SaveFxRate, CollectDividends
  <1>2. ASSUME Users PROVE FALSE
    BY <1>2 DEF Users, Login, Balance, AddAccount, DeleteAccount, Manual, DeletePortfolio,
       rest, health
  <1>3. ASSUME NEW s \in Syncs, SessionStep(s) PROVE FALSE
    BY <1>3 DEF SessionStep, Fetch, FetchFails, Look, Create, Write, Log, DbFails, rest, health
  <1>4. ASSUME DbGoesDown \/ DbComesBack \/ RateAsked \/ TimePasses PROVE FALSE
    BY <1>4 DEF DbGoesDown, DbComesBack, RateAsked, TimePasses, rest, health
  <1>. QED
    BY <1>1, <1>2, <1>3, <1>4 DEF Next, vars, Outage, Recovery, HealthRecheck, Restarts, health

LEMMA InitHealth == Init => HealthInv
  BY HealthAssumption DEF Init, HealthInit, HealthInv, Never

LEMMA NextHealth == HealthInv /\ [Next]_vars => HealthInv'
  <1> SUFFICES ASSUME HealthInv, [Next]_vars PROVE HealthInv'
    OBVIOUS
  <1> USE HealthAssumption DEF HealthInv, Never
  <1>1. CASE GoesDown
    <2>1. up' = FALSE /\ since' = 0 /\ flag' = flag /\ age' = age
      BY <1>1 DEF GoesDown
    <2>2. 0 \in 0..Never /\ 0 <= Cooldown /\ 0 <= age
      OBVIOUS
    <2>. QED
      BY <2>1, <2>2
  <1>2. CASE ComesBack
    BY <1>2 DEF ComesBack
  <1>3. CASE Recheck
    <2>1. CASE flag' = up
      BY <1>3, <2>1 DEF Recheck, Unnoticed, Older
    <2>2. CASE flag' # up
      <3>1. flag /\ flag' = flag /\ up' = up /\ ~up /\ Older(age, Never) <= Cooldown
            /\ age' = Older(age, Never) /\ since' = Older(since, Never)
        BY <1>3, <2>2 DEF Recheck, Unnoticed, Check, InCooldown
      <3>2. since' = since + 1 /\ age' = age + 1
        BY <3>1 DEF Older
      <3>. QED
        BY <3>1, <3>2
    <2>. QED
      BY <2>1, <2>2
  <1>4. CASE FlagRestarts
    BY <1>4 DEF FlagRestarts, Check
  <1>5. CASE UNCHANGED health
    BY <1>5 DEF health
  <1>. QED
    BY <1>1, <1>2, <1>3, <1>4, <1>5, HealthSteps

\* The flag follows KIS within one round when it comes back, and within a round more
\* than the cooldown when it goes away: check_kis_api_health and the recheck of scheduler.py.
THEOREM HealthFollows == Spec => []FlagFollows
  <1>1. HealthInv => FlagFollows
    BY DEF HealthInv, FlagFollows
  <1>. QED
    BY <1>1, InitHealth, NextHealth, PTL DEF Spec

-----------------------------------------------------------------------------
(***************************************************************************)
(* The exchange rate.                                                      *)
(***************************************************************************)

\* The entry for a week is as old as what the source said last, and so is the entry
\* for an hour where there is one.
RateInv ==
    /\ fresh \in 0..FreshTtl /\ stale \in 0..StaleTtl /\ heard = stale
    /\ fresh < FreshTtl => fresh = heard

LEMMA RateSteps == [Next]_vars => AskRate \/ FxTick \/ UNCHANGED fx
  <1> SUFFICES ASSUME [Next]_vars, ~UNCHANGED fx PROVE AskRate \/ FxTick
    OBVIOUS
  <1>1. ASSUME Jobs PROVE AskRate
    BY <1>1 DEF Jobs, SyncBegins, SyncEnds, Warm, SettleJob, SnapshotDailyClose,
       CollectBenchmark, SaveFxRate, CollectDividends
  <1>2. ASSUME Users PROVE AskRate
    BY <1>2 DEF Users, Login, Balance, BalanceRead, AddAccount, DeleteAccount, Manual,
       DeletePortfolio, rest
  <1>3. ASSUME NEW s \in Syncs, SessionStep(s) PROVE AskRate
    BY <1>3 DEF SessionStep, Fetch, BalanceRead, HoldingsRead, FetchFails, Look, Create, Write,
       Log, DbFails, rest
  <1>4. ASSUME DbGoesDown \/ DbComesBack PROVE FALSE
    BY <1>4 DEF DbGoesDown, DbComesBack, rest
  <1>. QED
    BY <1>1, <1>2, <1>3, <1>4 DEF Next, vars, Outage, Recovery, HealthRecheck, Restarts,
       RateAsked, TimePasses

LEMMA InitRate == Init => RateInv
  BY FxAssumption DEF Init, FxInit, RateInv

LEMMA NextRate == RateInv /\ [Next]_vars => RateInv'
  <1> SUFFICES ASSUME RateInv, [Next]_vars PROVE RateInv'
    OBVIOUS
  <1> USE FxAssumption DEF RateInv
  <1>1. CASE AskRate
    BY <1>1 DEF AskRate, fx
  <1>2. CASE FxTick
    BY <1>2 DEF FxTick, Later
  <1>3. CASE UNCHANGED fx
    BY <1>3 DEF fx
  <1>. QED
    BY <1>1, <1>2, <1>3, RateSteps

\* What fetch_usd_krw_rate and get_cached_fx_rate return is the last rate the source
\* gave, unless it is older than a week.
THEOREM RateIsInForce == Spec => []RateInForce
  <1>1. RateInv => RateInForce
    BY FxAssumption DEF RateInv, RateInForce, Rate, Fallback
  <1>. QED
    BY <1>1, InitRate, NextRate, PTL DEF Spec

-----------------------------------------------------------------------------
(***************************************************************************)
(* The counts of failures, and the alarm.                                  *)
(***************************************************************************)
\* A preload that is half done has counted the failure of its synchronisation already.
Half(j) == IF j = Job /\ jobs.stage = "warm" /\ jobs.ill THEN 1 ELSE 0

CountInv ==
    /\ SchedulerTypeOK
    /\ \A j \in Range(jobs.timetable) :
          jobs.fails[j] <= IF j \in Preloads THEN 2 * jobs.bad[j] + Half(j) ELSE jobs.bad[j]

\* The job under way is one of the timetable.
LEMMA JobKnown == SchedulerTypeOK => Job \in Range(jobs.timetable)
  BY SchedulerAssumption DEF SchedulerTypeOK, Job, Range

\* Who records a failure has left work undone.
LEMMA JobsSteps ==
  [Next]_vars =>
    \/ SyncBegins
    \/ SyncEnds
    \/ \E ok, ill \in BOOLEAN : (ok \/ ill) /\ Ends(ok, ill)
    \/ jobs' = AtStart(jobs.timetable, jobs.slot)
    \/ UNCHANGED jobs
  <1> DEFINE Over == \E ok, ill \in BOOLEAN : (ok \/ ill) /\ Ends(ok, ill)
  <1> SUFFICES ASSUME [Next]_vars, ~UNCHANGED jobs
               PROVE  SyncBegins \/ SyncEnds \/ Over \/ jobs' = AtStart(jobs.timetable, jobs.slot)
    OBVIOUS
  <1>1. ASSUME Warm PROVE Over
    BY <1>1 DEF Warm
  <1>2. ASSUME SettleJob PROVE Over
    BY <1>2 DEF SettleJob
  <1>3. ASSUME SnapshotDailyClose PROVE Over
    BY <1>3 DEF SnapshotDailyClose
  <1>4. ASSUME CollectBenchmark PROVE Over
    BY <1>4 DEF CollectBenchmark, Indices
  <1>5. ASSUME SaveFxRate PROVE Over
    BY <1>5 DEF SaveFxRate
  <1>6. ASSUME CollectDividends PROVE Over
    BY <1>6 DEF CollectDividends, DividendsCount
  <1>7. ASSUME Users PROVE FALSE
    BY <1>7 DEF Users, Login, Balance, AddAccount, DeleteAccount, Manual, DeletePortfolio, rest
  <1>8. ASSUME NEW s \in Syncs, SessionStep(s) PROVE FALSE
    BY <1>8 DEF SessionStep, Fetch, FetchFails, Look, Create, Write, Log, DbFails, rest
  <1>9. ASSUME DbGoesDown \/ DbComesBack PROVE FALSE
    BY <1>9 DEF DbGoesDown, DbComesBack, rest
  <1>. QED
    BY <1>1, <1>2, <1>3, <1>4, <1>5, <1>6, <1>7, <1>8, <1>9
    DEF Next, Jobs, vars, Outage, Recovery, HealthRecheck, Restarts, RateAsked, TimePasses

LEMMA InitCounts == Init => CountInv
  <1> SUFFICES ASSUME Init PROVE CountInv
    OBVIOUS
  <1>1. PICK t \in Timetables : jobs = AtStart(t, 1)
    BY DEF Init
  <1>2. t \in Seq(Range(Day)) /\ t # <<>> /\ 1 \in 1..Len(t) /\ Threshold \in Nat
    BY SchedulerAssumption
  <1>3. jobs.timetable = t /\ jobs.stage = "due" /\ SchedulerTypeOK
    BY <1>1, <1>2 DEF AtStart, SchedulerTypeOK
  <1>. QED
    BY <1>1, <1>3 DEF CountInv, AtStart, Half

\* A failure that is counted where left work is counted too, even for the second time.
LEMMA CountedTogether ==
  ASSUME NEW n \in 0..Threshold, NEW b \in 0..Threshold, NEW h \in {0, 1}
  PROVE  /\ n <= b => Older(n, Threshold) <= Older(b, Threshold)
         /\ n <= 2 * b + h => Older(n, Threshold) <= 2 * Older(b, Threshold)
  BY SchedulerAssumption DEF Older

\* A run that is over: its failure is counted once, and so is the work it left.
LEMMA EndsCounts ==
  ASSUME CountInv, NEW ok \in BOOLEAN, NEW ill \in BOOLEAN, ok \/ ill, Ends(ok, ill)
  PROVE  CountInv'
  <1> USE SchedulerAssumption
  <1>0. /\ Job \in Range(jobs.timetable) /\ Threshold \in Nat \ {0}
        /\ jobs.fails \in [Range(jobs.timetable) -> 0..Threshold]
        /\ jobs.bad \in [Range(jobs.timetable) -> 0..Threshold]
    BY JobKnown DEF CountInv, SchedulerTypeOK
  <1>1. /\ jobs'.timetable = jobs.timetable /\ jobs'.stage = "due"
        /\ jobs'.fails = [jobs.fails EXCEPT ![Job] = Recorded(@, ok)]
        /\ jobs'.bad = [jobs.bad EXCEPT ![Job] = Judged(ill)]
    BY DEF Ends
  <1>2. Recorded(jobs.fails[Job], ok) \in 0..Threshold /\ Judged(ill) \in 0..Threshold
    BY <1>0 DEF Recorded, Judged, Older
  <1>3. SchedulerTypeOK'
    <2>1. jobs.timetable \in Timetables /\ Len(jobs.timetable) \in Nat \ {0} /\ jobs.slot \in Nat
      BY DEF CountInv, SchedulerTypeOK
    <2>2. jobs.slot % Len(jobs.timetable) \in 0..(Len(jobs.timetable) - 1)
      BY <2>1
    <2>3. jobs'.slot \in 1..Len(jobs.timetable) /\ jobs'.slot \in Nat
      BY <2>1, <2>2 DEF Ends
    <2>4. /\ jobs'.fails \in [Range(jobs.timetable) -> 0..Threshold]
          /\ jobs'.bad \in [Range(jobs.timetable) -> 0..Threshold]
      BY <1>0, <1>1, <1>2
    <2>. QED
      BY <1>1, <2>1, <2>3, <2>4 DEF Ends, SchedulerTypeOK
  <1>4. ASSUME NEW j \in Range(jobs.timetable)
        PROVE  jobs'.fails[j] <= IF j \in Preloads THEN 2 * jobs'.bad[j] ELSE jobs'.bad[j]
    <2>1. jobs.fails[j] <= IF j \in Preloads THEN 2 * jobs.bad[j] + Half(j) ELSE jobs.bad[j]
      BY DEF CountInv
    <2>2. /\ jobs.fails[j] \in Nat /\ jobs.fails[j] <= Threshold
          /\ jobs.bad[j] \in Nat /\ jobs.bad[j] <= Threshold
      BY <1>0
    <2>3. CASE j # Job
      BY <1>0, <1>1, <2>1, <2>2, <2>3 DEF Half
    <2>4. CASE j = Job
      <3>1. jobs'.fails[j] = Recorded(jobs.fails[j], ok) /\ jobs'.bad[j] = Judged(ill)
        BY <1>0, <1>1, <2>4
      <3>2. CASE ok
        BY <1>2, <3>1, <3>2 DEF Recorded
      <3>3. CASE ~ok
        <4>1. /\ jobs'.fails[j] = Older(jobs.fails[j], Threshold)
              /\ jobs'.bad[j] = Older(jobs.bad[j], Threshold)
          BY <2>4, <3>1, <3>3 DEF Recorded, Judged
        <4>2. /\ Half(j) \in {0, 1}
              /\ jobs.fails[j] \in 0..Threshold /\ jobs.bad[j] \in 0..Threshold
          BY <1>0 DEF Half
        <4>. QED
          BY <2>1, <4>1, <4>2, CountedTogether
      <3>. QED
        BY <3>2, <3>3
    <2>. QED
      BY <2>3, <2>4
  <1>5. \A j : Half(j)' = 0
    BY <1>1 DEF Half
  <1>6. \A j \in Range(jobs.timetable) : jobs'.bad[j] \in Nat
    BY <1>0, <1>1, <1>2
  <1>. QED
    BY <1>1, <1>3, <1>4, <1>5, <1>6 DEF CountInv

\* A preload whose synchronisation is over.
LEMMA SyncEndsCounts == CountInv /\ SyncEnds => CountInv'
  <1> SUFFICES ASSUME CountInv, SyncEnds PROVE CountInv'
    OBVIOUS
  <1> USE SchedulerAssumption
  <1> DEFINE ok == sess["job"].pc = "done"
             ill == missed \/ ~ok
  <1>1. CASE Job \notin Preloads
    <2>1. Ends(ok, ill)
      BY <1>1 DEF SyncEnds
    <2>2. ok \in BOOLEAN /\ ill \in BOOLEAN /\ (ok \/ ill)
      OBVIOUS
    <2>. HIDE DEF ok, ill
    <2>. QED
      BY <2>1, <2>2, EndsCounts
  <1>2. CASE Job \in Preloads
    <2>1. /\ jobs.stage = "sync" /\ ill \in BOOLEAN /\ ok \in BOOLEAN /\ (ok \/ ill)
          /\ jobs' = [jobs EXCEPT !.stage = "warm", !.ill = ill,
                                  !.fails[Job] = Recorded(@, ok)]
      BY <1>2 DEF SyncEnds
    <2> HIDE DEF ok, ill
    <2>2. /\ Job \in Range(jobs.timetable) /\ Threshold \in Nat \ {0}
          /\ jobs.fails \in [Range(jobs.timetable) -> 0..Threshold]
          /\ jobs.bad \in [Range(jobs.timetable) -> 0..Threshold]
      BY JobKnown DEF CountInv, SchedulerTypeOK
    <2>3. /\ jobs'.timetable = jobs.timetable /\ jobs'.slot = jobs.slot /\ jobs'.bad = jobs.bad
          /\ jobs'.stage = "warm" /\ jobs'.ill = ill
          /\ jobs'.fails = [jobs.fails EXCEPT ![Job] = Recorded(@, ok)]
      BY <2>1 DEF CountInv, SchedulerTypeOK
    <2>4. Recorded(jobs.fails[Job], ok) \in 0..Threshold
      BY <2>2 DEF Recorded, Older
    <2>5. SchedulerTypeOK'
      BY <2>1, <2>2, <2>3, <2>4 DEF CountInv, SchedulerTypeOK
    <2>6. ASSUME NEW j \in Range(jobs.timetable)
          PROVE  jobs'.fails[j] <= IF j \in Preloads THEN 2 * jobs'.bad[j] + Half(j)'
                                   ELSE jobs'.bad[j]
      <3>1. /\ jobs.fails[j] <= IF j \in Preloads THEN 2 * jobs.bad[j] ELSE jobs.bad[j]
        BY <2>1, <2>2 DEF CountInv, Half
      <3>2. /\ jobs.fails[j] \in Nat /\ jobs.bad[j] \in Nat
        BY <2>2
      <3>3. Half(j)' \in {0, 1} /\ (j = Job /\ ill => Half(j)' = 1)
        BY <2>3 DEF Half, Job
      <3>4. CASE j # Job
        BY <2>2, <2>3, <3>1, <3>2, <3>3, <3>4
      <3>5. CASE j = Job
        BY <1>2, <2>1, <2>2, <2>3, <3>1, <3>2, <3>3, <3>5 DEF Recorded, Older
      <3>. QED
        BY <3>4, <3>5
    <2>. QED
      BY <2>3, <2>5, <2>6 DEF CountInv
  <1>. QED
    BY <1>1, <1>2

LEMMA NextCounts == CountInv /\ [Next]_vars => CountInv'
  <1> SUFFICES ASSUME CountInv, [Next]_vars PROVE CountInv'
    OBVIOUS
  <1>1. CASE SyncBegins
    <2>1. /\ jobs.stage = "due" /\ jobs' = [jobs EXCEPT !.stage = "sync"]
      BY <1>1 DEF SyncBegins, Due
    <2>2. /\ jobs'.timetable = jobs.timetable /\ jobs'.slot = jobs.slot /\ jobs'.bad = jobs.bad
          /\ jobs'.fails = jobs.fails /\ jobs'.stage = "sync" /\ SchedulerTypeOK'
      BY <2>1 DEF CountInv, SchedulerTypeOK
    <2>. QED
      BY <2>1, <2>2 DEF CountInv, Half
  <1>2. CASE SyncEnds
    BY <1>2, SyncEndsCounts
  <1>3. CASE \E ok, ill \in BOOLEAN : (ok \/ ill) /\ Ends(ok, ill)
    BY <1>3, EndsCounts
  <1>4. CASE jobs' = AtStart(jobs.timetable, jobs.slot)
    <2>1. /\ jobs.timetable \in Timetables /\ jobs.slot \in 1..Len(jobs.timetable)
          /\ jobs.slot \in Nat /\ Threshold \in Nat
      BY SchedulerAssumption DEF CountInv, SchedulerTypeOK
    <2>2. jobs'.timetable = jobs.timetable /\ jobs'.stage = "due" /\ SchedulerTypeOK'
      BY <1>4, <2>1 DEF AtStart, SchedulerTypeOK
    <2>. QED
      BY <1>4, <2>2 DEF CountInv, AtStart, Half
  <1>5. CASE UNCHANGED jobs
    BY <1>5 DEF CountInv, SchedulerTypeOK, Half, Job
  <1>. QED
    BY <1>1, <1>2, <1>3, <1>4, <1>5, JobsSteps

\* An alarm of _record_job_failure is about as many consecutive runs that did not do
\* their work, and, for a preload, about half as many.
THEOREM AlarmIsTrue == Spec => []AlarmTrue
  <1>1. ASSUME CountInv, NEW j \in Range(jobs.timetable), jobs.fails[j] >= Threshold
        PROVE  RunsBad(j) >= IF j \in Preloads THEN (Threshold + 1) \div 2 ELSE Threshold
    <2>1. /\ jobs.fails[j] \in Nat /\ jobs.bad[j] \in Nat /\ Threshold \in Nat
          /\ jobs.fails[j] <= IF j \in Preloads THEN 2 * jobs.bad[j] + Half(j) ELSE jobs.bad[j]
      BY <1>1, SchedulerAssumption DEF CountInv, SchedulerTypeOK
    <2>2. Half(j) \in {0, 1} /\ RunsBad(j) = jobs.bad[j] + Half(j)
      BY DEF Half, RunsBad
    <2>3. 2 * ((Threshold + 1) \div 2) <= Threshold + 1 /\ (Threshold + 1) \div 2 \in Nat
      BY <2>1
    <2>. QED
      BY <1>1, <2>1, <2>2, <2>3
  <1>2. CountInv => AlarmTrue
    BY <1>1 DEF AlarmTrue
  <1>. QED
    BY <1>2, InitCounts, NextCounts, PTL DEF Spec

-----------------------------------------------------------------------------
(***************************************************************************)
(* The synchronisations: whose balance goes where.                         *)
(***************************************************************************)
Sess == [pc : {"idle", "fetch", "look", "create", "write", "log", "done", "failed"},
         todo : SUBSET Accounts, at : Accounts \cup {none}, id : Ids \cup {none}]

\* A session that is somewhere is at an account; the portfolio it holds was that
\* account's when it was found.
AtAccount(r) == r.pc \in {"fetch", "look", "create", "write", "log"}
HasPortfolio(s, r) == r.pc \in {"write", "log"} \/ (r.pc = "fetch" /\ s # "login")

Placed(s, r) ==
    /\ AtAccount(r) => r.at \in Accounts
    /\ HasPortfolio(s, r) => r.id \in Ids /\ owner[r.id] \in {r.at, none, "deleted"}

SyncInv ==
    /\ SyncTypeOK
    /\ \A s \in Syncs : Placed(s, sess[s])
    /\ \A p \in filled : Exists(p)
    /\ \A p, q \in Ids : owner[p] \in Accounts /\ owner[p] = owner[q] => p = q
    /\ \A p \in Ids : owner[p] \in Accounts => acct[owner[p]] = "registered"

\* What a step may do to the synchronisations.
JobEnds == Becomes("job", Rest) /\ missed' = FALSE /\ UNCHANGED <<db, rows>>

LEMMA SyncSteps ==
  [Next]_vars =>
    \/ DbGoesDown \/ DbComesBack \/ Users \/ \E s \in Syncs : SessionStep(s)
    \/ JobBegins \/ JobEnds \/ SessionsDie \/ UNCHANGED sync
  <1> SUFFICES ASSUME [Next]_vars, ~UNCHANGED sync,
                      ~(DbGoesDown \/ DbComesBack \/ Users \/ \E s \in Syncs : SessionStep(s))
               PROVE  JobBegins \/ JobEnds \/ SessionsDie
    OBVIOUS
  <1>1. ASSUME Jobs PROVE JobBegins \/ JobEnds
    BY <1>1 DEF Jobs, SyncBegins, SyncEnds, JobEnds, Warm, SettleJob, SnapshotDailyClose,
       CollectBenchmark, SaveFxRate, CollectDividends
  <1>. QED
    BY <1>1 DEF Next, vars, Outage, Recovery, HealthRecheck, Restarts, RateAsked, TimePasses

LEMMA InitSync == Init => SyncInv
  <1> SUFFICES ASSUME Init PROVE SyncInv
    OBVIOUS
  <1> USE SyncAssumption
  <1>1. /\ db = TRUE /\ missed = FALSE /\ filled = {} /\ sess = [s \in Syncs |-> Rest]
        /\ acct = [a \in Accounts |-> IF a \in Early THEN "registered" ELSE "new"]
        /\ owner = [p \in Ids |-> "unused"]
    BY DEF Init, SyncInit
  <1>2. SyncTypeOK
    BY <1>1 DEF SyncTypeOK, Rest
  <1>3. \A s \in Syncs : Placed(s, sess[s])
    BY <1>1 DEF Placed, Rest, AtAccount, HasPortfolio
  <1>. QED
    BY <1>1, <1>2, <1>3 DEF SyncInv

\* A session that ends or breaks holds nothing.
LEMMA AtRest ==
  ASSUME NEW s \in Syncs
  PROVE  /\ Rest \in Sess /\ Finished(s) \in Sess /\ Broken(s) \in Sess
         /\ Placed(s, Rest) /\ Placed(s, Finished(s)) /\ Placed(s, Broken(s))
  BY DEF Rest, Sess, Finished, Broken, Placed, AtAccount, HasPortfolio

\* One that goes on is at one of its accounts, without a portfolio.
LEMMA GoesOn ==
  ASSUME NEW s \in Syncs, NEW pc \in {"fetch", "look"}, pc = "fetch" => s = "login",
         NEW todo \in SUBSET Accounts, OnWith(s, pc, todo)
  PROVE  \E r \in Sess : Becomes(s, r) /\ Placed(s, r)
  <1>1. CASE todo = {}
    BY <1>1, AtRest DEF OnWith
  <1>2. ASSUME NEW a \in todo,
               Becomes(s, [pc |-> pc, todo |-> todo, at |-> a, id |-> none])
        PROVE  \E r \in Sess : Becomes(s, r) /\ Placed(s, r)
    <2> DEFINE r == [pc |-> pc, todo |-> todo, at |-> a, id |-> none]
    <2>1. r \in Sess /\ Placed(s, r)
      BY DEF Sess, Placed, AtAccount, HasPortfolio
    <2>. QED
      BY <1>2, <2>1
  <1>. QED
    BY <1>1, <1>2 DEF OnWith

LEMMA GoesToNext ==
  ASSUME SyncInv, NEW s \in Syncs, OnToNext(s)
  PROVE  \E r \in Sess : Becomes(s, r) /\ Placed(s, r)
  <1>1. sess[s].todo \ {sess[s].at} \in SUBSET Accounts
    BY DEF SyncInv, SyncTypeOK
  <1>2. First(s) \in {"fetch", "look"} /\ (First(s) = "fetch" => s = "login")
    BY DEF First
  <1>. QED
    BY <1>1, <1>2, GoesOn DEF OnToNext

\* A session that moves on, while the rows stay as they are, keeps the invariant.
LEMMA Moves ==
  ASSUME SyncInv, NEW s \in Syncs, NEW r \in Sess, Becomes(s, r), Placed(s, r),
         UNCHANGED rows, db' \in BOOLEAN, missed' \in BOOLEAN
  PROVE  SyncInv'
  <1>1. /\ sess \in [Syncs -> Sess] /\ sess' = [sess EXCEPT ![s] = r]
        /\ acct' = acct /\ owner' = owner /\ filled' = filled
    BY DEF SyncInv, SyncTypeOK, Sess, Becomes, rows
  <1>2. sess' \in [Syncs -> Sess] /\ \A t \in Syncs : sess'[t] = IF t = s THEN r ELSE sess[t]
    BY <1>1
  <1>3. SyncTypeOK'
    BY <1>1, <1>2 DEF SyncInv, SyncTypeOK, Sess
  <1>4. ASSUME NEW t \in Syncs PROVE Placed(t, sess[t])'
    BY <1>1, <1>2 DEF SyncInv, Placed, AtAccount, HasPortfolio
  <1>. QED
    BY <1>1, <1>3, <1>4 DEF SyncInv, Exists

\* Rows that change, while the sessions stay as they are.
LEMMA AddAccountSync ==
  ASSUME SyncInv, NEW a \in Accounts, AddAccount(a)
  PROVE  SyncInv'
  BY DEF SyncInv, SyncTypeOK, AddAccount, Placed, AtAccount, HasPortfolio, Exists

LEMMA DeleteAccountSync ==
  ASSUME SyncInv, NEW a \in Accounts, DeleteAccount(a)
  PROVE  SyncInv'
  <1> USE SyncAssumption
  <1>1. /\ acct' = [acct EXCEPT ![a] = "deleted"]
        /\ owner' = [p \in Ids |-> IF owner[p] = a THEN none ELSE owner[p]]
        /\ UNCHANGED <<db, filled, sess, missed>>
    BY DEF DeleteAccount
  <1>2. SyncTypeOK'
    BY <1>1 DEF SyncInv, SyncTypeOK
  <1>3. ASSUME NEW s \in Syncs PROVE Placed(s, sess[s])'
    BY <1>1 DEF SyncInv, Placed, AtAccount, HasPortfolio
  <1>4. \A p \in filled' : Exists(p)'
    BY <1>1 DEF SyncInv, SyncTypeOK, Exists
  <1>5. ASSUME NEW p \in Ids, owner'[p] \in Accounts
        PROVE  owner[p] = owner'[p] /\ owner[p] # a
    BY <1>1, <1>5
  <1>6. \A p, q \in Ids : owner'[p] \in Accounts /\ owner'[p] = owner'[q] => p = q
    BY <1>5 DEF SyncInv
  <1>7. \A p \in Ids : owner'[p] \in Accounts => acct'[owner'[p]] = "registered"
    BY <1>1, <1>5 DEF SyncInv, SyncTypeOK
  <1>. QED
    BY <1>2, <1>3, <1>4, <1>6, <1>7 DEF SyncInv

LEMMA DeletePortfolioSync ==
  ASSUME SyncInv, NEW p \in Ids, DeletePortfolio(p)
  PROVE  SyncInv'
  <1> USE SyncAssumption
  <1>1. /\ owner' = [owner EXCEPT ![p] = "deleted"] /\ filled' = filled \ {p}
        /\ UNCHANGED <<db, acct, sess, missed>>
    BY DEF DeletePortfolio
  <1>2. SyncTypeOK'
    BY <1>1 DEF SyncInv, SyncTypeOK
  <1>3. owner \in [Ids -> Accounts \cup {none, "unused", "deleted"}]
    BY DEF SyncInv, SyncTypeOK
  <1>4. ASSUME NEW s \in Syncs PROVE Placed(s, sess[s])'
    BY <1>1, <1>3 DEF SyncInv, Placed, AtAccount, HasPortfolio
  <1>5. \A q \in filled' : Exists(q)'
    BY <1>1, <1>3 DEF SyncInv, SyncTypeOK, Exists
  <1>6. \A q \in Ids : owner'[q] \in Accounts => owner[q] = owner'[q]
    BY <1>1, <1>3
  <1>. QED
    BY <1>1, <1>2, <1>4, <1>5, <1>6 DEF SyncInv

\* The portfolio created for an account is its only one, and nobody held it before.
LEMMA CreateSync ==
  ASSUME SyncInv, NEW s \in Syncs, Create(s)
  PROVE  SyncInv'
  <1> USE SyncAssumption
  <1> DEFINE a == sess[s].at
             p == CHOOSE q \in Ids : owner[q] = "unused"
  <1>1. CASE ~(a \in Registered /\ Linked(a) = {})
    <2>1. Becomes(s, Broken(s)) /\ UNCHANGED rows /\ db' = db /\ missed' = missed
      BY <1>1 DEF Create, rows
    <2>. QED
      BY <2>1, AtRest, Moves DEF SyncInv, SyncTypeOK
  <1>2. CASE a \in Registered /\ Linked(a) = {}
    <2>1. /\ p \in Ids /\ owner[p] = "unused"
          /\ owner' = [owner EXCEPT ![p] = a]
          /\ sess' = [sess EXCEPT ![s] = [sess[s] EXCEPT !.id = p, !.pc = "write"]]
          /\ UNCHANGED <<db, acct, filled, missed>>
      BY <1>2 DEF Create, Becomes
    <2> HIDE DEF p
    <2>2. /\ a \in Accounts /\ acct[a] = "registered" /\ \A q \in Ids : owner[q] # a
          /\ owner \in [Ids -> Accounts \cup {none, "unused", "deleted"}]
          /\ sess \in [Syncs -> Sess]
      BY <1>2 DEF Registered, Linked, SyncInv, SyncTypeOK, Sess
    <2>3. /\ sess' \in [Syncs -> Sess]
          /\ sess'[s].pc = "write" /\ sess'[s].at = a /\ sess'[s].id = p
          /\ \A t \in Syncs : t # s => sess'[t] = sess[t]
      <3> DEFINE r == [sess[s] EXCEPT !.id = p, !.pc = "write"]
      <3>1. r \in Sess /\ r.pc = "write" /\ r.at = a /\ r.id = p
        BY <2>1, <2>2 DEF Sess
      <3> HIDE DEF r
      <3>2. sess' = [sess EXCEPT ![s] = r]
        BY <2>1 DEF r
      <3>. QED
        BY <2>2, <3>1, <3>2
    <2>4. SyncTypeOK'
      BY <2>1, <2>2, <2>3 DEF SyncInv, SyncTypeOK, Sess
    <2>5. \A q \in Ids : owner'[q] = IF q = p THEN a ELSE owner[q]
      BY <2>1, <2>2
    <2>6. ASSUME NEW t \in Syncs PROVE Placed(t, sess[t])'
      <3>1. CASE t = s
        BY <2>1, <2>2, <2>3, <2>5, <3>1 DEF Placed, AtAccount, HasPortfolio
      <3>2. CASE t # s
        BY <2>1, <2>2, <2>3, <2>5, <3>2 DEF SyncInv, Placed, AtAccount, HasPortfolio
      <3>. QED
        BY <3>1, <3>2
    <2>7. \A q \in filled' : Exists(q)'
      BY <2>1, <2>2, <2>5 DEF SyncInv, SyncTypeOK, Exists
    <2>8. \A q, r \in Ids : owner'[q] \in Accounts /\ owner'[q] = owner'[r] => q = r
      BY <2>2, <2>5 DEF SyncInv
    <2>9. \A q \in Ids : owner'[q] \in Accounts => acct'[owner'[q]] = "registered"
      BY <2>1, <2>2, <2>5 DEF SyncInv
    <2>. QED
      BY <2>4, <2>6, <2>7, <2>8, <2>9 DEF SyncInv
  <1>. QED
    BY <1>1, <1>2

LEMMA SessionSync ==
  ASSUME SyncInv, NEW s \in Syncs, SessionStep(s)
  PROVE  SyncInv'
  <1> USE SyncAssumption
  <1>0. /\ sess[s] \in Sess /\ Placed(s, sess[s]) /\ db \in BOOLEAN /\ missed \in BOOLEAN
        /\ owner \in [Ids -> Accounts \cup {none, "unused", "deleted"}]
    BY DEF SyncInv, SyncTypeOK, Sess
  <1>1. CASE Fetch(s)
    <2>1. /\ UNCHANGED rows /\ db' = db /\ missed' = missed /\ sess[s].pc = "fetch"
          /\ \/ s = "login" /\ Goes(s, "look")
             \/ s # "login" /\ Goes(s, "write")
      BY <1>1 DEF Fetch, rows
    <2>2. PICK pc \in {"look", "write"} : Goes(s, pc) /\ (pc = "write" => s # "login")
      BY <2>1
    <2> DEFINE r == [sess[s] EXCEPT !.pc = pc]
    <2>3. r \in Sess /\ r.pc = pc /\ r.at = sess[s].at /\ r.id = sess[s].id
      BY <1>0 DEF Sess
    <2>4. Becomes(s, r) /\ Placed(s, r)
      BY <1>0, <2>1, <2>2, <2>3 DEF Goes, Placed, AtAccount, HasPortfolio
    <2>. QED
      BY <1>0, <2>1, <2>3, <2>4, Moves
  <1>2. CASE FetchFails(s)
    <2>1. /\ UNCHANGED rows /\ db' = db /\ missed' \in BOOLEAN
          /\ Becomes(s, Broken(s)) \/ OnToNext(s)
      BY <1>0, <1>2 DEF FetchFails, rows
    <2>. QED
      BY <1>0, <2>1, AtRest, GoesToNext, Moves
  <1>3. CASE Look(s)
    <2>1. UNCHANGED rows /\ db' = db /\ missed' = missed /\ sess[s].pc = "look"
      BY <1>3 DEF Look, rows
    <2>2. ASSUME NEW p \in Linked(sess[s].at),
                 Becomes(s, [sess[s] EXCEPT !.id = p,
                                            !.pc = IF s = "job" THEN "fetch" ELSE "write"])
          PROVE  SyncInv'
      <3> DEFINE r == [sess[s] EXCEPT !.id = p, !.pc = IF s = "job" THEN "fetch" ELSE "write"]
      <3>1. p \in Ids /\ owner[p] = sess[s].at
        BY DEF Linked
      <3>2. r \in Sess /\ r.id = p /\ r.at = sess[s].at
        BY <1>0, <3>1 DEF Sess
      <3>3. Placed(s, r)
        BY <1>0, <2>1, <3>1, <3>2 DEF Placed, AtAccount, HasPortfolio
      <3>. QED
        BY <1>0, <2>1, <2>2, <3>2, <3>3, Moves
    <2>3. CASE OnToNext(s)
      BY <1>0, <2>1, <2>3, GoesToNext, Moves
    <2>4. CASE Goes(s, "create")
      <3> DEFINE r == [sess[s] EXCEPT !.pc = "create"]
      <3>1. r \in Sess /\ r.pc = "create" /\ r.at = sess[s].at
        BY <1>0 DEF Sess
      <3>2. Placed(s, r)
        BY <1>0, <2>1, <3>1 DEF Placed, AtAccount, HasPortfolio
      <3>. QED
        BY <1>0, <2>1, <2>4, <3>1, <3>2, Moves DEF Goes
    <2>. QED
      BY <1>3, <2>2, <2>3, <2>4 DEF Look
  <1>4. CASE Create(s)
    BY <1>4, CreateSync
  <1>5. CASE Write(s)
    <2> DEFINE r == [sess[s] EXCEPT !.pc = "log"]
    <2>1. /\ UNCHANGED <<db, acct, owner, missed>> /\ sess[s].pc = "write"
      BY <1>5 DEF Write
    <2>2. r \in Sess /\ r.pc = "log" /\ r.at = sess[s].at /\ r.id = sess[s].id
      BY <1>0 DEF Sess
    <2> HIDE DEF r
    <2>3. Placed(s, r) /\ sess[s].id \in Ids
      BY <1>0, <2>1, <2>2 DEF Placed, AtAccount, HasPortfolio
    <2>4. CASE UNCHANGED filled
      <3>1. Becomes(s, r) \/ Becomes(s, Broken(s))
        BY <1>5 DEF Write, Goes, r
      <3>. QED
        BY <1>0, <2>1, <2>2, <2>3, <2>4, <3>1, AtRest, Moves DEF rows
    <2>5. CASE Exists(sess[s].id) /\ filled' = filled \cup {sess[s].id} /\ Goes(s, "log")
      <3>1. /\ sess \in [Syncs -> Sess] /\ sess' = [sess EXCEPT ![s] = r]
        BY <2>5 DEF SyncInv, SyncTypeOK, Sess, Goes, Becomes, r
      <3>2. sess' \in [Syncs -> Sess] /\ \A t \in Syncs : sess'[t] = IF t = s THEN r ELSE sess[t]
        BY <2>2, <3>1
      <3>3. SyncTypeOK'
        BY <2>1, <2>3, <2>5, <3>2 DEF SyncInv, SyncTypeOK, Sess
      <3>4. ASSUME NEW t \in Syncs PROVE Placed(t, sess[t])'
        BY <2>1, <2>3, <3>2 DEF SyncInv, Placed, AtAccount, HasPortfolio
      <3>5. \A p \in filled' : Exists(p)'
        BY <2>1, <2>5 DEF SyncInv, Exists
      <3>. QED
        BY <2>1, <3>3, <3>4, <3>5 DEF SyncInv
    <2>. QED
      BY <1>5, <2>4, <2>5 DEF Write
  <1>6. CASE Log(s)
    <2>1. /\ UNCHANGED rows /\ db' = db /\ missed' = missed
          /\ Becomes(s, Broken(s)) \/ OnToNext(s)
      BY <1>6 DEF Log, rows
    <2>. QED
      BY <1>0, <2>1, AtRest, GoesToNext, Moves
  <1>7. CASE DbFails(s)
    <2>1. UNCHANGED rows /\ db' = db /\ missed' = missed /\ Becomes(s, Broken(s))
      BY <1>7 DEF DbFails, rows
    <2>. QED
      BY <1>0, <2>1, AtRest, Moves
  <1>. QED
    BY <1>1, <1>2, <1>3, <1>4, <1>5, <1>6, <1>7 DEF SessionStep

LEMMA UsersSync == SyncInv /\ Users => SyncInv'
  <1> SUFFICES ASSUME SyncInv, Users PROVE SyncInv'
    OBVIOUS
  <1> USE SyncAssumption
  <1>0. db \in BOOLEAN /\ missed \in BOOLEAN /\ Registered \in SUBSET Accounts
    BY DEF SyncInv, SyncTypeOK, Registered
  <1>1. CASE Login
    <2>1. UNCHANGED rows /\ db' = db /\ missed' = missed /\ OnWith("login", "fetch", Registered)
      BY <1>1 DEF Login, rows
    <2>2. PICK r \in Sess : Becomes("login", r) /\ Placed("login", r)
      BY <1>0, <2>1, GoesOn DEF Syncs
    <2>. QED
      BY <1>0, <2>1, <2>2, Moves DEF Syncs
  <1>2. CASE Balance
    <2>1. UNCHANGED rows /\ db' = db /\ missed' = missed
      BY <1>2 DEF Balance, rows
    <2>2. PICK got \in SUBSET Registered : OnWith("balance", "look", got)
      BY <1>2 DEF Balance
    <2>3. got \in SUBSET Accounts
      BY <1>0
    <2>4. PICK r \in Sess : Becomes("balance", r) /\ Placed("balance", r)
      BY <2>2, <2>3, GoesOn DEF Syncs
    <2>. QED
      BY <1>0, <2>1, <2>4, Moves DEF Syncs
  <1>3. ASSUME NEW a \in Accounts, AddAccount(a) \/ DeleteAccount(a) PROVE SyncInv'
    BY <1>3, AddAccountSync, DeleteAccountSync
  <1>4. ASSUME NEW p \in Ids, Manual(p) PROVE SyncInv'
    <2> DEFINE r == [pc |-> "fetch", todo |-> {owner[p]}, at |-> owner[p], id |-> p]
    <2>1. /\ UNCHANGED rows /\ db' = db /\ missed' = missed /\ Becomes("manual", r)
          /\ owner[p] \in Accounts
      BY <1>4 DEF Manual, rows
    <2>2. r \in Sess /\ Placed("manual", r)
      BY <2>1 DEF Sess, Placed, AtAccount, HasPortfolio
    <2>. QED
      BY <1>0, <2>1, <2>2, Moves DEF Syncs
  <1>5. ASSUME NEW p \in Ids, DeletePortfolio(p) PROVE SyncInv'
    BY <1>5, DeletePortfolioSync
  <1>. QED
    BY <1>1, <1>2, <1>3, <1>4, <1>5 DEF Users

LEMMA NextSync == SyncInv /\ [Next]_vars => SyncInv'
  <1> SUFFICES ASSUME SyncInv, [Next]_vars PROVE SyncInv'
    OBVIOUS
  <1> USE SyncAssumption
  <1>0. db \in BOOLEAN /\ missed \in BOOLEAN /\ Registered \in SUBSET Accounts
    BY DEF SyncInv, SyncTypeOK, Registered
  <1>1. CASE DbGoesDown \/ DbComesBack \/ UNCHANGED sync
    <2>1. UNCHANGED <<rows, sess, missed>> /\ db' \in BOOLEAN
      BY <1>0, <1>1 DEF DbGoesDown, DbComesBack, sync, rows
    <2>. QED
      BY <2>1 DEF SyncInv, SyncTypeOK, Placed, AtAccount, HasPortfolio, Exists, rows
  <1>2. CASE Users
    BY <1>2, UsersSync
  <1>3. ASSUME NEW s \in Syncs, SessionStep(s) PROVE SyncInv'
    BY <1>3, SessionSync
  <1>4. CASE JobBegins
    <2>1. /\ UNCHANGED rows /\ db' = db /\ missed' = FALSE
          /\ OnWith("job", "look", Registered) \/ Becomes("job", Broken("job"))
      BY <1>4 DEF JobBegins
    <2>2. PICK r \in Sess : Becomes("job", r) /\ Placed("job", r)
      BY <1>0, <2>1, GoesOn, AtRest DEF Syncs
    <2>. QED
      BY <1>0, <2>1, <2>2, Moves DEF Syncs
  <1>5. CASE JobEnds
    BY <1>0, <1>5, AtRest, Moves DEF JobEnds, Syncs
  <1>6. CASE SessionsDie
    <2>1. sess' = [s \in Syncs |-> Rest] /\ missed' = FALSE /\ db' = db /\ UNCHANGED rows
      BY <1>6 DEF SessionsDie
    <2>2. SyncTypeOK'
      BY <2>1, AtRest DEF SyncInv, SyncTypeOK, Sess, rows
    <2>3. ASSUME NEW s \in Syncs PROVE Placed(s, sess[s])'
      BY <2>1 DEF Placed, Rest, AtAccount, HasPortfolio
    <2>. QED
      BY <2>1, <2>2, <2>3 DEF SyncInv, Exists, rows
  <1>. QED
    BY <1>1, <1>2, <1>3, <1>4, <1>5, <1>6, SyncSteps

\* Nobody writes the balance of one account into the portfolio of another, though
\* accounts and portfolios are deleted while KIS is asked; an account has one portfolio
\* at most, whoever creates it.
OwnBalance ==
    /\ \A s \in Syncs : sess[s].pc \in {"write", "log"} =>
          owner[sess[s].id] \in {sess[s].at, none, "deleted"}
    /\ \A a \in Accounts : \A p, q \in Linked(a) : p = q

\* The synchronisations of api/sync.py, api/auth.py and scheduler_portfolio_jobs.py keep
\* accounts apart, for any accounts, portfolios, outages and overlaps.
THEOREM BalancesStayApart == Spec => []OwnBalance
  <1>1. ASSUME SyncInv PROVE OwnBalance
    <2>1. ASSUME NEW s \in Syncs, sess[s].pc \in {"write", "log"}
          PROVE  owner[sess[s].id] \in {sess[s].at, none, "deleted"}
      BY <1>1, <2>1 DEF SyncInv, Placed, HasPortfolio
    <2>2. ASSUME NEW a \in Accounts, NEW p \in Linked(a), NEW q \in Linked(a) PROVE p = q
      BY <1>1 DEF SyncInv, Linked
    <2>. QED
      BY <2>1, <2>2 DEF OwnBalance
  <1>. QED
    BY <1>1, InitSync, NextSync, PTL DEF Spec

-----------------------------------------------------------------------------
(***************************************************************************)
(* The types of all variables.                                             *)
(***************************************************************************)

\* Each event but those that are free spends one of the budget.
LEMMA Budget == spent \in 0..MaxEvents /\ [Next]_vars => spent' \in 0..MaxEvents
  <1> SUFFICES ASSUME spent \in 0..MaxEvents, [Next]_vars PROVE spent' \in 0..MaxEvents
    OBVIOUS
  <1>1. ASSUME Jobs PROVE Spend \/ Free
    BY <1>1 DEF Jobs, SyncBegins, SyncEnds, Warm, SettleJob, SnapshotDailyClose,
       CollectBenchmark, SaveFxRate, CollectDividends, Gives
  <1>2. ASSUME Users PROVE Spend
    BY <1>2 DEF Users, Login, Balance, AddAccount, DeleteAccount, Manual, DeletePortfolio
  <1>3. ASSUME NEW s \in Syncs, SessionStep(s) PROVE Spend \/ Free
    BY <1>3 DEF SessionStep, Fetch, FetchFails, Refuses, Look, Create, Write, Log, DbFails
  <1>4. Spend \/ Free
    BY <1>1, <1>2, <1>3
    DEF Next, vars, Outage, GoesDown, Recovery, ComesBack, HealthRecheck, Recheck, DbGoesDown,
        DbComesBack, RateAsked, TimePasses, Restarts, Free
  <1>. QED
    BY <1>4, HealthAssumption DEF Spend, Free

\* The variables of the scheduler, the flag, the rate and the synchronisations have
\* their types, for any constants.
THEOREM TypeCorrect == Spec => [](HealthTypeOK /\ FxTypeOK /\ SyncTypeOK /\ SchedulerTypeOK)
  <1> DEFINE Types == HealthTypeOK /\ FxTypeOK /\ SyncTypeOK /\ SchedulerTypeOK
             Inv == /\ HealthInv /\ RateInv /\ SyncInv /\ CountInv
                    /\ spent \in 0..MaxEvents
  <1>1. Init => Inv
    BY InitHealth, InitRate, InitSync, InitCounts, HealthAssumption DEF Init, HealthInit
  <1>2. Inv /\ [Next]_vars => Inv'
    BY NextHealth, NextRate, NextSync, NextCounts, Budget
  <1>3. Inv => Types
    BY DEF HealthInv, RateInv, SyncInv, CountInv, HealthTypeOK, FxTypeOK
  <1> HIDE DEF Inv, Types
  <1>4. Spec => []Types
    BY <1>1, <1>2, <1>3, PTL DEF Spec
  <1>. QED
    BY <1>4 DEF Types
=============================================================================
