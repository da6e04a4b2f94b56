------------------------------ MODULE KisHealth ------------------------------
(***************************************************************************)
(* KIS availability: kis_health.py and the recheck of scheduler.py.        *)
(*                                                                         *)
(* One flag in the process says whether KIS can be reached.  It is set at  *)
(* start-up and by a job every thirty seconds, which asks at once while    *)
(* the flag is down and only after a cooldown while it is up.  Who reads   *)
(* the flag (login, settlement, dividends) skips its work when it is down. *)
(***************************************************************************)
EXTENDS Naturals

CONSTANTS
    Cooldown,   \* rounds of the recheck in _KIS_HEALTH_RECHECK_COOLDOWN_SECONDS
    MaxEvents   \* bound: outages, refusals and visits of users, all together

ASSUME HealthAssumption == Cooldown \in Nat \ {0} /\ MaxEvents \in Nat

VARIABLES
    up,      \* KIS answers on the network
    flag,    \* KisAvailabilityState.is_available
    age,     \* rounds since _last_healthy_check_at, as long as the flag is up;
             \* Never: more than Cooldown, or None
    since,   \* ghost: rounds since up changed, while the flag has not followed
    spent    \* bound: events so far

health == <<up, flag, age, since>>
Never == Cooldown + 1

HealthTypeOK ==
    /\ up \in BOOLEAN /\ flag \in BOOLEAN
    /\ age \in 0..Never /\ since \in 0..Never
    /\ spent \in 0..MaxEvents

\* The lifespan of the application checks before the first request.
HealthInit ==
    /\ up \in BOOLEAN
    /\ flag = up
    /\ age = Never
    /\ since = 0
    /\ spent = 0

Spend == spent < MaxEvents /\ spent' = spent + 1
Free == UNCHANGED spent

Older(n, most) == IF n < most THEN n + 1 ELSE n

GoesDown == up /\ Spend /\ up' = FALSE /\ since' = 0 /\ UNCHANGED <<flag, age>>
ComesBack == ~up /\ Free /\ up' = TRUE /\ since' = 0 /\ UNCHANGED <<flag, age>>

\* check_kis_api_health: any answer will do, whatever its status.
Check == flag' = up

Unnoticed == IF flag' = up THEN 0 ELSE Older(since, Never)

\* The clock starts when the check before has answered: a Cooldown of rounds later
\* it may fall short of the cooldown, one more round later no longer.
InCooldown(elapsed) == elapsed <= Cooldown
CooledDown(elapsed) == elapsed >= Cooldown

\* Mutant: the clock of the cooldown starts again at every round.
MutantRecheckAlwaysResets ==
    LET elapsed == Older(age, Never) IN
    /\ \/ ~flag /\ Check
       \/ flag /\ CooledDown(elapsed) /\ Check
       \/ flag /\ InCooldown(elapsed) /\ UNCHANGED flag
    /\ age' = 0
    /\ since' = Unnoticed
    /\ UNCHANGED up /\ Free

\* _kis_health_recheck_job, every thirty seconds.
Recheck ==
    LET elapsed == Older(age, Never) IN
    /\ \/ ~flag /\ Check /\ age' = IF up THEN 0 ELSE age
       \/ flag /\ InCooldown(elapsed) /\ age' = elapsed /\ UNCHANGED flag
       \/ flag /\ CooledDown(elapsed) /\ Check /\ age' = 0
    /\ since' = Unnoticed
    /\ UNCHANGED up /\ Free

\* A new process: the flag is checked, the clock of the cooldown is None.
FlagRestarts == Check /\ age' = Never /\ since' = 0 /\ UNCHANGED up

-----------------------------------------------------------------------------
\* "is_available=False: 30초마다 즉시 재확인", "10분 쿨다운 후 1회 확인": the flag
\* is wrong for one round at most after KIS came back, and after it went away for
\* the rounds of the cooldown and no more but the one it is found in, however
\* outages, rounds and answers fall.
FlagFollows == flag # up => IF up THEN since = 0 ELSE since <= Cooldown
=============================================================================
