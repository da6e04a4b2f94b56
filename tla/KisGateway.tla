----------------------------- MODULE KisGateway -----------------------------
(***************************************************************************)
(* The way every read of the KIS API goes out: a concurrency slot, a       *)
(* permit of the token bucket (services/kis_rate_limiter.py,               *)
(* kis_call_slot) and the retries of services/kis_retry.py.                *)
(*                                                                         *)
(* Time advances in ticks of 1/(rate * Grain) seconds and tokens come in   *)
(* units of 1/Grain, so that one tick refills one unit.  Instants are kept *)
(* relative to now: refilling at every tick equals the lazy _refill, and   *)
(* "ahead" is max(_next_release, now) - now.                               *)
(***************************************************************************)
EXTENDS Integers, FiniteSets, Sequences

CONSTANTS
    Callers,
    Grain,           \* units per token
    Burst,           \* KIS_RATE_LIMIT_BURST
    Slots,           \* KIS_MAX_CONCURRENCY
    Retries,         \* KIS_HTTP_MAX_RETRIES
    NetworkRetries,  \* KIS_HTTP_NETWORK_RETRY
    Drain            \* units a tick takes off the meter of permits

ASSUME GatewayAssumption ==
    /\ IsFiniteSet(Callers)
    /\ {Grain, Burst, Slots, Drain} \subseteq Nat \ {0}
    /\ {Retries, NetworkRetries} \subseteq Nat

VARIABLES
    tokens,   \* _tokens, in units
    ahead,    \* how far _next_release lies ahead of now
    queue,    \* callers waiting for _concurrency_sem, first come first served
    pc,       \* where each caller is
    wait,     \* ticks an acquire still sleeps
    attempt,  \* kis_request: number of the attempt
    netTries, \* kis_request: network_attempt
    meter     \* permits issued, in units, leaking Drain per tick

bucket == <<tokens, ahead, meter>>
retry == <<attempt, netTries>>
vars == <<bucket, queue, pc, wait, retry>>

Attempts == Retries + 1
Capacity == Burst * Grain  \* a full bucket, in units

\* States in which a caller is inside kis_call_slot.
Inside == {"token", "asleep", "sending", "backoff", "penalty", "fallen"}
Holders == {c \in Callers : pc[c] \in Inside}
Asleep == {c \in Callers : pc[c] = "asleep"}

TypeOK ==
    /\ tokens \in 0..Capacity
    /\ ahead \in Nat
    /\ queue \in Seq(Callers)
    /\ pc \in [Callers -> Inside \cup {"idle", "queued"}]
    /\ wait \in [Callers -> Nat]
    /\ attempt \in [Callers -> 1..Attempts]
    /\ netTries \in [Callers -> 0..NetworkRetries]
    /\ meter \in Nat

Init ==
    /\ tokens = Capacity
    /\ ahead = 0
    /\ queue = <<>>
    /\ pc = [c \in Callers |-> "idle"]
    /\ wait = [c \in Callers |-> 0]
    /\ attempt = [c \in Callers |-> 1]
    /\ netTries = [c \in Callers |-> 0]
    /\ meter = 0

-----------------------------------------------------------------------------
Less(n, d) == IF n <= d THEN 0 ELSE n - d

\* Time passes, whether or not the event loop has run the sleepers that are due.
Tick ==
    /\ tokens' = IF tokens < Capacity THEN tokens + 1 ELSE tokens
    /\ ahead' = Less(ahead, 1)
    /\ wait' = [c \in Callers |-> Less(wait[c], 1)]
    /\ meter' = Less(meter, Drain)
    /\ UNCHANGED <<queue, pc, retry>>

-----------------------------------------------------------------------------
\* async with _concurrency_sem: asyncio's semaphore wakes its waiters in order.
Enter(c) ==
    /\ pc[c] = "idle"
    /\ pc' = [pc EXCEPT ![c] = "queued"]
    /\ queue' = Append(queue, c)
    /\ attempt' = [attempt EXCEPT ![c] = 1]
    /\ netTries' = [netTries EXCEPT ![c] = 0]
    /\ UNCHANGED <<bucket, wait>>

\* Mutant: whoever came last goes first.
MutantAdmitLast ==
    /\ queue # <<>>
    /\ Cardinality(Holders) < Slots
    /\ pc' = [pc EXCEPT ![queue[Len(queue)]] = "token"]
    /\ queue' = SubSeq(queue, 1, Len(queue) - 1)
    /\ UNCHANGED <<bucket, wait, retry>>

Admit ==
    /\ queue # <<>>
    /\ Cardinality(Holders) < Slots
    /\ pc' = [pc EXCEPT ![Head(queue)] = "token"]
    /\ queue' = Tail(queue)
    /\ UNCHANGED <<bucket, wait, retry>>

-----------------------------------------------------------------------------
\* KisRateLimiter._consume, atomic under _lock: a whole token at once ...
TakeToken(c) ==
    /\ pc[c] = "token"
    /\ tokens >= Grain
    /\ tokens' = tokens - Grain
    /\ meter' = meter + Grain
    /\ pc' = [pc EXCEPT ![c] = "sending"]
    /\ UNCHANGED <<ahead, queue, wait, retry>>

\* Mutant: every waiter sleeps for its own deficit only, as before RL-009.
MutantReserveFromNow(c) ==
    /\ pc[c] = "token"
    /\ tokens < Grain
    /\ ahead' = Grain - tokens
    /\ wait' = [wait EXCEPT ![c] = Grain - tokens]
    /\ tokens' = 0
    /\ pc' = [pc EXCEPT ![c] = "asleep"]
    /\ UNCHANGED <<meter, queue, retry>>

\* Mutant: the tokens that shortened the wait stay in the bucket.
MutantReserveKeepsTokens(c) ==
    /\ pc[c] = "token"
    /\ tokens < Grain
    /\ ahead' = ahead + Grain - tokens
    /\ wait' = [wait EXCEPT ![c] = ahead + Grain - tokens]
    /\ pc' = [pc EXCEPT ![c] = "asleep"]
    /\ UNCHANGED <<tokens, meter, queue, retry>>

\* ... or what there is of one, and a reserved instant for the rest.
Reserve(c) ==
    /\ pc[c] = "token"
    /\ tokens < Grain
    /\ ahead' = ahead + Grain - tokens
    /\ wait' = [wait EXCEPT ![c] = ahead + Grain - tokens]
    /\ tokens' = 0
    /\ pc' = [pc EXCEPT ![c] = "asleep"]
    /\ UNCHANGED <<meter, queue, retry>>

WakeUp(c) ==
    /\ pc[c] = "asleep"
    /\ wait[c] = 0
    /\ meter' = meter + Grain
    /\ pc' = [pc EXCEPT ![c] = "sending"]
    /\ UNCHANGED <<tokens, ahead, queue, wait, retry>>

-----------------------------------------------------------------------------
\* kis_request.  The answer, or the last error, goes to the caller, which
\* leaves the slot.
Finish(c) ==
    /\ pc[c] \in {"sending", "fallen"}
    /\ pc' = [pc EXCEPT ![c] = "idle"]
    /\ UNCHANGED <<bucket, queue, wait, retry>>

\* A rate refusal is repeated after a backoff and a new permit, a 5xx after a
\* backoff alone.
AnsweredBadly(c) ==
    /\ pc[c] = "sending"
    /\ attempt[c] < Attempts
    /\ attempt' = [attempt EXCEPT ![c] = @ + 1]
    /\ \E next \in {"penalty", "backoff"} : pc' = [pc EXCEPT ![c] = next]
    /\ UNCHANGED <<bucket, queue, wait, netTries>>

\* A network error is repeated too, but each pass of the loop is an attempt:
\* after the last one the loop is over.
NetworkError(c) ==
    /\ pc[c] = "sending"
    /\ netTries[c] < NetworkRetries
    /\ netTries' = [netTries EXCEPT ![c] = @ + 1]
    /\ \/ /\ attempt[c] < Attempts
          /\ attempt' = [attempt EXCEPT ![c] = @ + 1]
          /\ pc' = [pc EXCEPT ![c] = "backoff"]
       \/ /\ attempt[c] = Attempts
          /\ pc' = [pc EXCEPT ![c] = "fallen"]
          /\ UNCHANGED attempt
    /\ UNCHANGED <<bucket, queue, wait>>

Resend(c) ==
    /\ pc[c] \in {"backoff", "penalty"}
    /\ pc' = [pc EXCEPT ![c] = IF pc[c] = "penalty" THEN "token" ELSE "sending"]
    /\ UNCHANGED <<bucket, queue, wait, retry>>

-----------------------------------------------------------------------------
Answer(c) == Finish(c) \/ AnsweredBadly(c) \/ NetworkError(c)

Next ==
    \/ Tick
    \/ Admit
    \/ \E c \in Callers :
         \/ Enter(c)
         \/ TakeToken(c) \/ Reserve(c) \/ WakeUp(c)
         \/ Answer(c) \/ Resend(c)

Spec == Init /\ [][Next]_vars

\* The event loop runs what is ready, and a request ends by its HTTP time-out.
Fairness ==
    /\ WF_vars(Tick) /\ WF_vars(Admit)
    /\ \A c \in Callers :
         /\ WF_vars(TakeToken(c) \/ Reserve(c))
         /\ WF_vars(WakeUp(c)) /\ WF_vars(Answer(c)) /\ WF_vars(Resend(c))

FairSpec == Spec /\ Fairness

-----------------------------------------------------------------------------
\* Properties.

\* RL-009: callers that sleep wake one after the other, never in a batch.
NoStaircase ==
    \A c, d \in Asleep : c # d /\ wait[c] = wait[d] => wait[c] = 0

\* Refilling credits the time for which sleepers already hold reservations, so
\* the bucket can issue permits at twice its rate.  It never does worse: with
\* Drain = 2, in any interval the permits stay within Burst + Slots + 2 * rate *
\* length.
TwiceTheRate == meter <= Capacity + Slots * Grain

\* Nobody waits for ever: a call that queues for a slot ends.
EveryCallEnds == \A c \in Callers : pc[c] = "queued" ~> pc[c] = "idle"
=============================================================================
