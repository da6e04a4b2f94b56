------------------------------ MODULE KisToken ------------------------------
(***************************************************************************)
(* The access token of one KIS app key (services/kis_token.py): a cached   *)
(* token, a double-checked lock around its issuance, eviction when it      *)
(* nears its expiry and invalidation when KIS answers 401 or 500.  The     *)
(* cache is RedisCache (core/redis_cache.py), which turns to a dictionary  *)
(* of the process for every operation that Redis fails.                    *)
(*                                                                         *)
(* Tokens are numbered in the order KIS issues them, which is also the     *)
(* order in which they expire; 0 is no token.                              *)
(***************************************************************************)
EXTENDS Integers, FiniteSets, Sequences

CONSTANTS
    Callers,
    MaxIssued    \* bound: tokens KIS ever issues

ASSUME TokenAssumption ==
    /\ IsFiniteSet(Callers)
    /\ MaxIssued \in Nat

VARIABLES
    issued,    \* the newest token
    stale,     \* tokens up to this one expire within the rotation buffer
    refused,   \* tokens KIS no longer takes
    dropped,   \* tokens that invalidate_kis_token dropped, or an answer lost
    steady,    \* will Redis answer throughout?
    up,        \* does it now?
    cache,     \* the entry kis:token:{hash}, in Redis and in _fallback
    line,      \* the issue lock: its holder, then its waiters in order
    pc, got,   \* where each caller is, and its token
    retried    \* _retried of the KIS call that needed the token

kisState == <<issued, stale, refused>>
redis == <<steady, up>>
vars == <<kisState, dropped, redis, cache, line, pc, got, retried>>

Stores == {"redis", "memory"}
Store == IF up THEN "redis" ELSE "memory"
Cached == cache[Store]
Valid(t) == t > stale

\* Places in get_kis_access_token that hold the lock past the second check.
Issuing == {"evictLocked", "issue", "store"}

\* Whoever is past the second check stands first in line.
Leads(c) == line # <<>> /\ Head(line) = c
HolderLeads == \A c \in Callers : pc[c] \in Issuing => Leads(c)

TypeOK ==
    /\ issued \in 0..MaxIssued
    /\ stale \in 0..issued
    /\ refused \subseteq 0..issued
    /\ dropped \subseteq 0..issued
    /\ steady \in BOOLEAN
    /\ up \in BOOLEAN
    /\ steady => up
    /\ cache \in [Stores -> 0..issued]
    /\ line \in Seq(Callers)
    /\ pc \in [Callers -> Issuing \cup {"idle", "look", "evict", "lock", "using",
                                        "invalidate"}]
    /\ got \in [Callers -> 0..issued]
    /\ retried \in [Callers -> BOOLEAN]
    /\ HolderLeads

Init ==
    /\ issued = 0
    /\ stale = 0
    /\ refused = {}
    /\ dropped = {}
    /\ steady \in BOOLEAN
    /\ up = TRUE
    /\ cache = [s \in Stores |-> 0]
    /\ line = <<>>
    /\ pc = [c \in Callers |-> "idle"]
    /\ got = [c \in Callers |-> 0]
    /\ retried = [c \in Callers |-> FALSE]

Goto(c, place) == pc' = [pc EXCEPT ![c] = place]
Delete == cache' = [cache EXCEPT ![Store] = 0]

\* Return t from get_kis_access_token.
Hand(c, t) == got' = [got EXCEPT ![c] = t] /\ Goto(c, "using")

-----------------------------------------------------------------------------
(***************************************************************************)
(* The world: time, the TTL of the entries, and Redis.                     *)
(***************************************************************************)

\* The oldest token enters its rotation buffer.  A token's hours outlast the
\* SETEX that follows its issuance.
Age ==
    /\ stale < issued
    /\ \A c \in Callers : pc[c] = "store" => got[c] # stale + 1
    /\ stale' = stale + 1
    /\ UNCHANGED <<issued, refused, dropped, redis, cache, line, pc, got, retried>>

\* SETEX gives an entry the rest of the token's life less the buffer.
EntryExpires(s) ==
    /\ cache[s] # 0
    /\ ~Valid(cache[s])
    /\ cache' = [cache EXCEPT ![s] = 0]
    /\ UNCHANGED <<kisState, dropped, redis, line, pc, got, retried>>

RedisToggles ==
    /\ ~steady
    /\ up' = ~up
    /\ UNCHANGED <<kisState, dropped, steady, cache, line, pc, got, retried>>

-----------------------------------------------------------------------------
(***************************************************************************)
(* get_kis_access_token.                                                   *)
(***************************************************************************)
Ask(c) ==
    /\ pc[c] = "idle"
    /\ retried' = [retried EXCEPT ![c] = FALSE]
    /\ Goto(c, "look")
    /\ UNCHANGED <<kisState, dropped, redis, cache, line, got>>

\* Mutant: the expiry stored with the token is not looked at.
MutantLookTrustsTtl(c) ==
    /\ pc[c] = "look"
    /\ \/ Cached # 0 /\ Hand(c, Cached) /\ UNCHANGED line
       \/ Cached = 0 /\ Goto(c, "lock") /\ line' = Append(line, c) /\ UNCHANGED got
    /\ UNCHANGED <<kisState, dropped, redis, cache, retried>>

\* Fast path: no lock.
Look(c) ==
    /\ pc[c] = "look"
    /\ \/ Valid(Cached) /\ Hand(c, Cached) /\ UNCHANGED line
       \/ ~Valid(Cached) /\ Cached # 0 /\ Goto(c, "evict") /\ UNCHANGED <<line, got>>
       \/ Cached = 0 /\ Goto(c, "lock") /\ line' = Append(line, c) /\ UNCHANGED got
    /\ UNCHANGED <<kisState, dropped, redis, cache, retried>>

\* The eviction of what the fast path read: whatever is there by now goes.
Evict(c) ==
    /\ pc[c] = "evict"
    /\ Delete
    /\ Goto(c, "lock")
    /\ line' = Append(line, c)
    /\ UNCHANGED <<kisState, dropped, redis, got, retried>>

\* Mutant: the lock is not waited for.
MutantRecheckNoLock(c) ==
    /\ pc[c] = "lock"
    /\ Goto(c, IF Cached = 0 THEN "issue" ELSE "evictLocked")
    /\ UNCHANGED <<kisState, dropped, redis, cache, line, got, retried>>

\* Mutant: single-checked locking.
MutantRecheckOnlyOnce(c) ==
    /\ pc[c] = "lock"
    /\ Leads(c)
    /\ Goto(c, "issue")
    /\ UNCHANGED <<kisState, dropped, redis, cache, line, got, retried>>

\* Second check, under the lock.
Recheck(c) ==
    /\ pc[c] = "lock"
    /\ Leads(c)
    /\ \/ Valid(Cached) /\ Hand(c, Cached) /\ line' = Tail(line)
       \/ ~Valid(Cached) /\ Cached # 0 /\ Goto(c, "evictLocked") /\ UNCHANGED <<line, got>>
       \/ Cached = 0 /\ Goto(c, "issue") /\ UNCHANGED <<line, got>>
    /\ UNCHANGED <<kisState, dropped, redis, cache, retried>>

EvictLocked(c) ==
    /\ pc[c] = "evictLocked"
    /\ Delete
    /\ Goto(c, "issue")
    /\ UNCHANGED <<kisState, dropped, redis, line, got, retried>>

Issue(c) ==
    /\ pc[c] = "issue"
    /\ issued < MaxIssued
    /\ issued' = issued + 1
    /\ got' = [got EXCEPT ![c] = issued + 1]
    /\ Goto(c, "store")
    /\ UNCHANGED <<stale, refused, dropped, redis, cache, line, retried>>

\* Mutant: an exception leaves the lock held.
MutantIssueFailsHolding(c) ==
    /\ pc[c] = "issue"
    /\ Goto(c, "idle")
    /\ UNCHANGED <<kisState, dropped, redis, cache, line, got, retried>>

\* KIS refuses: the exception releases the lock.
IssueFails(c) ==
    /\ pc[c] = "issue"
    /\ Goto(c, "idle")
    /\ line' = Tail(line)
    /\ UNCHANGED <<kisState, dropped, redis, cache, got, retried>>

\* KIS issued one, and its answer is lost.
IssueLost(c) ==
    /\ pc[c] = "issue"
    /\ issued < MaxIssued
    /\ issued' = issued + 1
    /\ dropped' = dropped \cup {issued + 1}
    /\ Goto(c, "idle")
    /\ line' = Tail(line)
    /\ UNCHANGED <<stale, refused, redis, cache, got, retried>>

Put(c) ==
    /\ pc[c] = "store"
    /\ cache' = [cache EXCEPT ![Store] = got[c]]
    /\ Goto(c, "using")
    /\ line' = Tail(line)
    /\ UNCHANGED <<kisState, dropped, redis, got, retried>>

-----------------------------------------------------------------------------
(***************************************************************************)
(* The KIS call the token is for, and its one retry.                       *)
(***************************************************************************)
Served(c) ==
    /\ pc[c] = "using"
    /\ got[c] \notin refused \/ retried[c]
    /\ Goto(c, "idle")
    /\ UNCHANGED <<kisState, dropped, redis, cache, line, got, retried>>

\* 401, KIS will not take this token again; or 500, which says nothing of it.
Refused(c) ==
    /\ pc[c] = "using"
    /\ ~retried[c]
    /\ refused' \in {refused, refused \cup {got[c]}}
    /\ Goto(c, "invalidate")
    /\ UNCHANGED <<issued, stale, dropped, redis, cache, line, got, retried>>

\* Mutant: the retry goes ahead with the entry in place.
MutantInvalidateNothing(c) ==
    /\ pc[c] = "invalidate"
    /\ dropped' = dropped \cup {got[c]}
    /\ retried' = [retried EXCEPT ![c] = TRUE]
    /\ Goto(c, "look")
    /\ UNCHANGED <<kisState, redis, cache, line, got>>

Invalidate(c) ==
    /\ pc[c] = "invalidate"
    /\ Delete
    /\ dropped' = dropped \cup {got[c]}
    /\ retried' = [retried EXCEPT ![c] = TRUE]
    /\ Goto(c, "look")
    /\ UNCHANGED <<kisState, redis, line, got>>

-----------------------------------------------------------------------------
Step(c) ==
    \/ Look(c) \/ Evict(c) \/ Recheck(c) \/ EvictLocked(c)
    \/ Issue(c) \/ IssueFails(c) \/ IssueLost(c) \/ Put(c)
    \/ Served(c) \/ Refused(c) \/ Invalidate(c)

Next ==
    \/ Age
    \/ \E s \in Stores : EntryExpires(s)
    \/ RedisToggles
    \/ \E c \in Callers : Ask(c) \/ Step(c)

Spec == Init /\ [][Next]_vars

\* Coroutines run on and every HTTP request ends, if by its 10 s time-out.
FairSpec == Spec /\ \A c \in Callers : WF_vars(Step(c))

-----------------------------------------------------------------------------
(***************************************************************************)
(* What the token service owes its callers.                                *)
(***************************************************************************)

\* get_kis_access_token returns a token to c.
Handed(c) == pc[c] # "using" /\ pc'[c] = "using"

\* The per-key lock: one issuance in flight, whatever Redis and KIS do.
OneIssuer == Cardinality({c \in Callers : pc[c] \in Issuing}) <= 1

\* No caller is handed a token inside its rotation buffer, even when an entry
\* outlives its TTL or Redis brings an old one back.
HandsOutValid ==
    [][\A c \in Callers : Handed(c) => got'[c] > stale]_vars

\* invalidate_kis_token: "Force evict the cached token so the next call will
\* re-issue".  While Redis answers, a dropped token is handed to nobody.
DroppedStaysOut ==
    [][steady => \A c \in Callers : Handed(c) => got'[c] \notin dropped]_vars

\* What the second check of the lock is for: however many callers find the
\* cache empty, one token is issued until it expires, is dropped or gets lost.
ColdStartOnce == steady /\ stale = 0 /\ dropped = {} => issued <= 1

\* Every KIS call that asked for a token ends: the lock is always released and
\* the retry is made once.
EveryCallEnds == \A c \in Callers : pc[c] = "look" ~> pc[c] = "idle"
=============================================================================
