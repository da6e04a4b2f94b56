----------------------------- MODULE PriceFlight -----------------------------
(***************************************************************************)
(* The cached price of one ticker and the single flight of its refresh     *)
(* (services/kis_price.py, get_or_fetch_domestic_price_detail and its      *)
(* overseas twin): on a miss one caller leads, the others poll the cache,  *)
(* and fetch for themselves when polling brings nothing.                   *)
(*                                                                         *)
(* A tick is longer than the polling interval of 80 ms.                    *)
(***************************************************************************)
EXTENDS Integers, FiniteSets

CONSTANTS
    Callers,
    PollTtl,   \* _SINGLEFLIGHT_POLL_TIMEOUT_MS, in ticks
    LockTtl,   \* _SINGLEFLIGHT_LOCK_TTL
    EntryTtl,  \* get_holdings_ttl()
    FetchMax   \* the longest a fetch, its SETEX and its DEL take, retries
               \* included

ASSUME FlightAssumption ==
    /\ IsFiniteSet(Callers)
    /\ {PollTtl, LockTtl, EntryTtl, FetchMax} \subseteq Nat \ {0}
    /\ PollTtl <= LockTtl

VARIABLES
    entry,       \* price_detail:{ticker}: what is left of its TTL,
    quoteAge,    \* and the ticks since KIS quoted the price
    lock,        \* sf_lock:price_detail:{ticker}: what is left of it
    pc,          \* where each caller is
    led,         \* is_leader
    spent,       \* ticks a caller has polled, or fetched
    quoted,      \* ticks since KIS quoted the price a caller holds
    prompt       \* so far every fetch succeeded, and was over within PollTtl

caller == <<pc, led, spent, quoted>>
flightVars == <<entry, quoteAge, lock, caller, prompt>>

AgeMax == EntryTtl + FetchMax
SpentMax == PollTtl + FetchMax
Fetching == {c \in Callers : pc[c] \in {"fetch", "store"}}
Flying == {c \in Callers : pc[c] \in {"fetch", "store", "release"}}

FlightTypeOK ==
    /\ entry \in 0..EntryTtl
    /\ quoteAge \in 0..AgeMax
    /\ lock \in 0..LockTtl
    /\ pc \in [Callers -> {"idle", "miss", "poll", "fetch", "store", "release"}]
    /\ led \in [Callers -> BOOLEAN]
    /\ spent \in [Callers -> 0..SpentMax]
    /\ quoted \in [Callers -> 0..FetchMax]
    /\ prompt \in BOOLEAN

FlightInit ==
    /\ entry = 0 /\ quoteAge = 0
    /\ lock = 0
    /\ pc = [c \in Callers |-> "idle"]
    /\ led = [c \in Callers |-> FALSE]
    /\ spent = [c \in Callers |-> 0]
    /\ quoted = [c \in Callers |-> 0]
    /\ prompt = TRUE

Goto(c, place) == pc' = [pc EXCEPT ![c] = place]

\* The call returns, and its locals with it.
Return(c) ==
    /\ Goto(c, "idle")
    /\ led' = [led EXCEPT ![c] = FALSE]
    /\ spent' = [spent EXCEPT ![c] = 0]
    /\ quoted' = [quoted EXCEPT ![c] = 0]

StartClock(c) == spent' = [spent EXCEPT ![c] = 0]

-----------------------------------------------------------------------------
Least(a, b) == IF a <= b THEN a ELSE b
Less1(n) == IF n = 0 THEN 0 ELSE n - 1

\* A fetch ends within FetchMax; who polls has looked since the last tick.
FlightTick ==
    /\ \A c \in Flying : spent[c] < FetchMax
    /\ \A c \in Callers : pc[c] = "poll" => entry = 0 /\ spent[c] < PollTtl
    /\ entry' = Less1(entry)
    /\ quoteAge' = IF entry <= 1 THEN 0 ELSE quoteAge + 1
    /\ lock' = Less1(lock)
    /\ spent' = [c \in Callers |->
                   IF pc[c] = "poll" \/ c \in Flying THEN spent[c] + 1 ELSE 0]
    /\ quoted' = [c \in Callers |-> IF pc[c] = "store" THEN quoted[c] + 1 ELSE 0]
    /\ prompt' = (prompt /\ \A c \in Flying : spent[c] + 1 < PollTtl)
    /\ UNCHANGED <<pc, led>>

\* A cached price is returned at once.
Ask(c) ==
    /\ pc[c] = "idle"
    /\ entry = 0
    /\ Goto(c, "miss")
    /\ UNCHANGED <<entry, quoteAge, lock, led, spent, quoted, prompt>>

\* Mutant: everybody leads.
MutantTryLockLeads(c) ==
    /\ pc[c] = "miss"
    /\ StartClock(c)
    /\ Goto(c, "fetch") /\ lock' = LockTtl /\ led' = [led EXCEPT ![c] = TRUE]
    /\ UNCHANGED <<entry, quoteAge, quoted, prompt>>

\* set_nx, after the await in which the price may have arrived.
TryLock(c) ==
    /\ pc[c] = "miss"
    /\ StartClock(c)
    /\ \/ /\ lock = 0
          /\ lock' = LockTtl
          /\ led' = [led EXCEPT ![c] = TRUE]
          /\ Goto(c, "fetch")
       \/ /\ lock > 0
          /\ led' = [led EXCEPT ![c] = FALSE]
          /\ Goto(c, "poll")
          /\ UNCHANGED lock
    /\ UNCHANGED <<entry, quoteAge, quoted, prompt>>

\* Mutant: what was read is cached again.
MutantPollCaches(c) ==
    /\ pc[c] = "poll" /\ entry > 0
    /\ entry' = EntryTtl
    /\ Return(c)
    /\ UNCHANGED <<quoteAge, lock, prompt>>

Poll(c) ==
    /\ pc[c] = "poll" /\ entry > 0
    /\ Return(c)
    /\ UNCHANGED <<entry, quoteAge, lock, prompt>>

\* Mutant: a follower gives up only while the lock is still there.
MutantGiveUpOnLeader(c) ==
    /\ pc[c] = "poll" /\ entry = 0
    /\ spent[c] >= PollTtl
    /\ lock > 0
    /\ Goto(c, "fetch")
    /\ StartClock(c)
    /\ UNCHANGED <<entry, quoteAge, lock, led, quoted, prompt>>

\* Three seconds of polling: the leader is taken for dead.
GiveUp(c) ==
    /\ pc[c] = "poll" /\ entry = 0
    /\ spent[c] >= PollTtl
    /\ Goto(c, "fetch")
    /\ StartClock(c)
    /\ UNCHANGED <<entry, quoteAge, lock, led, quoted, prompt>>

Quote(c) ==
    /\ pc[c] = "fetch"
    /\ Goto(c, "store")
    /\ quoted' = [quoted EXCEPT ![c] = 0]
    /\ UNCHANGED <<entry, quoteAge, lock, led, spent, prompt>>

\* Leaving the try block: the finally clause is for the leader.
Leave(c) ==
    \/ led[c] /\ Goto(c, "release") /\ UNCHANGED <<led, spent, quoted>>
    \/ ~led[c] /\ Return(c)

\* No price, or none above zero: nothing is cached and None is returned.
FetchFails(c) ==
    /\ pc[c] = "fetch"
    /\ Leave(c)
    /\ prompt' = FALSE
    /\ UNCHANGED <<entry, quoteAge, lock>>

\* The newest SETEX wins, whichever quote is the newer.
StorePrice(c) ==
    /\ pc[c] = "store"
    /\ entry' = EntryTtl
    /\ quoteAge' = quoted[c]
    /\ Leave(c)
    /\ UNCHANGED <<lock, prompt>>

\* The leader deletes the lock, its own or, if it was late, another's.
Release(c) ==
    /\ pc[c] = "release"
    /\ lock' = 0
    /\ Return(c)
    /\ UNCHANGED <<entry, quoteAge, prompt>>

-----------------------------------------------------------------------------
Step(c) ==
    \/ TryLock(c) \/ Poll(c) \/ GiveUp(c)
    \/ Quote(c) \/ FetchFails(c) \/ StorePrice(c) \/ Release(c)

FlightNext == FlightTick \/ \E c \in Callers : Ask(c) \/ Step(c)

FlightSpec == FlightInit /\ [][FlightNext]_flightVars

\* The clock runs on and every coroutine with it; KIS answers or times out.
FairFlightSpec == FlightSpec /\ WF_flightVars(FlightTick) /\ \A c \in Callers : WF_flightVars(Step(c))

-----------------------------------------------------------------------------
(***************************************************************************)
(* What the single flight is for.                                          *)
(***************************************************************************)

\* "N concurrent requests, one leader alone calls KIS" (kis_price.py:53): while
\* fetches succeed in good time, KIS sees one of them at a time.
OneAtATime == prompt => Cardinality(Fetching) <= 1

\* A cached price is as old as its entry, and the fetch that brought it, at
\* most: no poller, late leader or lone fetcher makes an old quote last longer.
FreshEnough == entry > 0 => quoteAge <= (EntryTtl - entry) + FetchMax

\* A dead leader blocks nobody: every call that missed ends.
EveryCallEnds == \A c \in Callers : pc[c] = "miss" ~> pc[c] = "idle"
=============================================================================
