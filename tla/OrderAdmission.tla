--------------------------- MODULE OrderAdmission ---------------------------
(***************************************************************************)
(* What stands between a user's order request and KIS                      *)
(* (services/kis_order_place.py): a count of the user's orders and a lock  *)
(* per ticker, both entries of RedisCache read with GET and written with   *)
(* SETEX in two awaits.  One user, one portfolio, Redis answering.         *)
(***************************************************************************)
EXTENDS Integers, FiniteSets

CONSTANTS
    Orders,     \* the requests the user makes
    Tickers,
    TickerOf,   \* the ticker of each
    RateMax,    \* _RATE_LIMIT_MAX
    RateTtl,    \* _RATE_LIMIT_TTL, in ticks
    LockTtl,    \* _ORDER_LOCK_TTL, in ticks
    Overlap     \* may one request be checked while another is?

ASSUME AdmissionAssumption ==
    /\ IsFiniteSet(Orders)
    /\ TickerOf \in [Orders -> Tickers]
    /\ {RateMax, RateTtl, LockTtl} \subseteq Nat \ {0}
    /\ Overlap \in BOOLEAN

VARIABLES
    count, countLeft,  \* order_rate:{user} and what is left of its TTL
    lockLeft,          \* order_lock:{portfolio}:{ticker}: what is left of it
    pc,                \* where each request is
    seen,              \* the count a request read
    counted, sent      \* ticks since it was counted, and since it took the lock

entries == <<count, countLeft, lockLeft>>
ages == <<counted, sent>>
admissionVars == <<entries, ages, pc, seen>>

Checking == {"counting", "lock", "locking"}

\* An age saturates one past the longest TTL: "long ago", or never.
LongAgo == RateTtl + LockTtl

AdmissionTypeOK ==
    /\ count \in 0..RateMax
    /\ countLeft \in 0..RateTtl
    /\ lockLeft \in [Tickers -> 0..LockTtl]
    /\ pc \in [Orders -> Checking \cup {"new", "call", "done", "over", "duplicate"}]
    /\ seen \in [Orders -> 0..RateMax]
    /\ counted \in [Orders -> 0..LongAgo]
    /\ sent \in [Orders -> 0..LongAgo]

AdmissionInit ==
    /\ count = 0 /\ countLeft = 0
    /\ lockLeft = [t \in Tickers |-> 0]
    /\ pc = [o \in Orders |-> "new"]
    /\ seen = [o \in Orders |-> 0]
    /\ counted = [o \in Orders |-> LongAgo]
    /\ sent = [o \in Orders |-> LongAgo]

Goto(o, place) == pc' = [pc EXCEPT ![o] = place]

-----------------------------------------------------------------------------
Older(age) == [o \in Orders |-> IF age[o] < LongAgo THEN age[o] + 1 ELSE LongAgo]

\* Time passes and entries run out.
AdmissionTick ==
    /\ countLeft' = IF countLeft = 0 THEN 0 ELSE countLeft - 1
    /\ count' = IF countLeft <= 1 THEN 0 ELSE count
    /\ lockLeft' = [t \in Tickers |-> IF lockLeft[t] = 0 THEN 0 ELSE lockLeft[t] - 1]
    /\ counted' = Older(counted)
    /\ sent' = Older(sent)
    /\ UNCHANGED <<pc, seen>>

\* Mutant: one order too many.
MutantReadCountOffByOne(o) ==
    /\ pc[o] = "new"
    /\ Overlap \/ \A x \in Orders : pc[x] \notin Checking
    /\ seen' = [seen EXCEPT ![o] = count]
    /\ Goto(o, IF count > RateMax THEN "over" ELSE "counting")
    /\ UNCHANGED <<entries, ages>>

\* Mutant: a refusal, too, starts the minute again.
MutantReadCountRenews(o) ==
    /\ pc[o] = "new"
    /\ Overlap \/ \A x \in Orders : pc[x] \notin Checking
    /\ seen' = [seen EXCEPT ![o] = count]
    /\ Goto(o, IF count >= RateMax THEN "over" ELSE "counting")
    /\ countLeft' = IF count >= RateMax THEN RateTtl ELSE countLeft
    /\ UNCHANGED <<count, lockLeft, ages>>

\* _check_rate_limit reads the count ...
ReadCount(o) ==
    /\ pc[o] = "new"
    /\ Overlap \/ \A x \in Orders : pc[x] \notin Checking
    /\ seen' = [seen EXCEPT ![o] = count]
    /\ Goto(o, IF count >= RateMax THEN "over" ELSE "counting")
    /\ UNCHANGED <<entries, ages>>

\* ... and writes it plus one; every write gives the entry a whole minute.
WriteCount(o) ==
    /\ pc[o] = "counting"
    /\ count' = seen[o] + 1
    /\ countLeft' = RateTtl
    /\ counted' = [counted EXCEPT ![o] = 0]
    /\ Goto(o, "lock")
    /\ UNCHANGED <<lockLeft, seen, sent>>

\* _acquire_order_lock: a refused order has used up its count.
ReadLock(o) ==
    /\ pc[o] = "lock"
    /\ Goto(o, IF lockLeft[TickerOf[o]] > 0 THEN "duplicate" ELSE "locking")
    /\ UNCHANGED <<entries, ages, seen>>

WriteLock(o) ==
    /\ pc[o] = "locking"
    /\ lockLeft' = [lockLeft EXCEPT ![TickerOf[o]] = LockTtl]
    /\ sent' = [sent EXCEPT ![o] = 0]
    /\ Goto(o, "call")
    /\ UNCHANGED <<count, countLeft, counted, seen>>

\* The token and the POST; nothing releases the lock.
Answered(o) ==
    /\ pc[o] = "call"
    /\ Goto(o, "done")
    /\ UNCHANGED <<entries, ages, seen>>

-----------------------------------------------------------------------------
AdmissionNext ==
    \/ AdmissionTick
    \/ \E o \in Orders :
          ReadCount(o) \/ WriteCount(o) \/ ReadLock(o) \/ WriteLock(o) \/ Answered(o)

AdmissionSpec == AdmissionInit /\ [][AdmissionNext]_admissionVars

-----------------------------------------------------------------------------
(***************************************************************************)
(* What admission promises.                                                *)
(***************************************************************************)
Recent == {o \in Orders : counted[o] < RateTtl}

\* "5 orders per minute per user": at most RateMax are let through in any
\* RateTtl ticks.  It needs Overlap = FALSE: the count is read and written in
\* two awaits.
WindowLimit == Cardinality(Recent) <= RateMax

LockedBy(t) == {o \in Orders : TickerOf[o] = t /\ sent[o] < LockTtl}

\* A refusal does not outlast its reason, however requests overlap: who is
\* refused for the rate was let through less than RateTtl ago, and a duplicate
\* follows an order of the ticker that took the lock less than LockTtl ago ("TTL
\* 10초로 자동 해제 — 무기한 lock-out 방지", feature-trading.md:71).
RefusalIsRecent ==
    [][\A o \in Orders :
          /\ pc[o] = "new" /\ pc'[o] = "over" => Recent # {}
          /\ pc[o] = "lock" /\ pc'[o] = "duplicate" => LockedBy(TickerOf[o]) # {}
      ]_admissionVars

\* "SET NX EX 10 — 이미 락이 있으면 False 반환" (feature-trading.md:66): no two orders
\* of a ticker take the lock within its life.
OneHolder == \A t \in Tickers : Cardinality(LockedBy(t)) <= 1

=============================================================================
