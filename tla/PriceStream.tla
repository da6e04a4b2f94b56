----------------------------- MODULE PriceStream -----------------------------
(***************************************************************************)
(* One user's price streams (api/prices.py, api/alerts.py) and the hook of *)
(* the dashboard that opens them (hooks/usePriceStream.ts).  A stream      *)
(* takes one of the user's connection slots, sends prices every thirty     *)
(* seconds for two hours at most, shares a map of the tickers with the     *)
(* user's other streams, and fires alerts from its own copy of their rows. *)
(*                                                                         *)
(* A tick is thirty seconds.  The user has one alert.                      *)
(***************************************************************************)
EXTENDS Naturals, FiniteSets

CONSTANTS
    Conns,        \* bound: attempts of the hook, and streams, at a time
    MaxConn,      \* _SSE_MAX_CONNECTIONS
    MaxElapsed,   \* _SSE_TIMEOUT, in ticks
    MaxLost,      \* bound: slots lost
    Followed,     \* bound: streams whose loads of the alert succeed
    Ttl,          \* _SSE_TICKER_CACHE_TTL, in ticks
    RefreshEvery  \* _ALERT_REFRESH_INTERVAL, in ticks

ASSUME StreamAssumption ==
    /\ IsFiniteSet(Conns) /\ "none" \notin Conns
    /\ MaxConn \in Nat \ {0} /\ MaxElapsed \in Nat \ {0}
    /\ MaxLost \in Nat /\ Followed \subseteq Conns
    /\ Ttl \in Nat \ {0} /\ RefreshEvery \in Nat \ {0}

VARIABLES
    cli,       \* what the browser has of each attempt
    current,   \* the attempt of the effect that was not cleaned up
    es,        \* esRef.current
    srv,       \* where the server is with each stream
    elapsed,   \* rounds it has been through
    slots,     \* _active_connections[user_id]
    lost,      \* slots whose generator never began
    shutdown,  \* _shutdown_event
    cache,     \* _ticker_cache[user_id]
    reading,   \* the map each stream has read and not yet stored
    pending,   \* a handler changed holdings and will invalidate the cache
    blind,     \* streams that began before some portfolio with holdings was created
    off,       \* the alert in the database: 0 is active, else its ticks without
    copy,      \* what each stream's copy of it says
    age,       \* ticks since each copy was loaded
    fired      \* notifications each copy has led to

hook == <<cli, current, es>>
server == <<srv, elapsed, slots, lost>>
tickers == <<cache, reading, pending, blind>>
alerts == <<off, copy, age, fired>>
vars == <<hook, server, tickers, alerts, shutdown>>

none == "none"
InRound == {"due", "query", "check"}
Running == InRound \cup {"wait"}
NoCache == [is |-> none, age |-> 0, behind |-> 0]

\* A map is new, or lacks a change; "narrow" lacks what is in a portfolio its
\* reader does not know.  An entry that lacks the change of a handler which will
\* invalidate it is "owed".
Maps == {"new", "stale", "narrow"}

TypeOK ==
    /\ cli \in [Conns -> {"none", "ticket", "stream"}]
    /\ current \in Conns \cup {none}
    /\ es \in Conns \cup {none}
    /\ srv \in [Conns -> Running \cup {"none", "admitted"}]
    /\ elapsed \in [Conns -> 0..MaxElapsed]
    /\ slots \in 0..MaxConn
    /\ lost \in 0..MaxConn
    /\ shutdown \in BOOLEAN
    /\ cache \in [is : Maps \cup {none, "owed"}, age : 0..(Ttl - 1), behind : Nat]
    /\ reading \in [Conns -> Maps \cup {none}]
    /\ pending \in BOOLEAN
    /\ blind \subseteq Conns
    /\ off \in 0..(RefreshEvery + 1)
    /\ copy \in [Conns -> {"none", "armed", "fired"}]
    /\ age \in [Conns -> 0..RefreshEvery]
    /\ fired \in [Conns -> 0..2]

Init ==
    /\ cli = [c \in Conns |-> none]
    /\ current = none
    /\ es = none
    /\ srv = [c \in Conns |-> none]
    /\ elapsed = [c \in Conns |-> 0]
    /\ slots = 0
    /\ lost = 0
    /\ shutdown = FALSE
    /\ cache = NoCache
    /\ reading = [c \in Conns |-> none]
    /\ pending = FALSE
    /\ blind = {}
    /\ off = RefreshEvery + 1
    /\ copy = [c \in Conns |-> none]
    /\ age = [c \in Conns |-> 0]
    /\ fired = [c \in Conns |-> 0]

-----------------------------------------------------------------------------
(***************************************************************************)
(* The hook.                                                               *)
(***************************************************************************)
Free(c) == cli[c] = none /\ srv[c] = none
Closed == IF es = none THEN cli ELSE [cli EXCEPT ![es] = none]

\* The cleanup of the last effect and, while it is enabled and somebody is
\* logged in, the next effect: a ticket is asked for.
Rerun ==
    /\ es' = none
    /\ \/ /\ cli' = Closed
          /\ current' = none
       \/ \E c \in Conns :
             /\ Free(c)
             /\ cli' = [Closed EXCEPT ![c] = "ticket"]
             /\ current' = c
    /\ UNCHANGED <<server, tickers, alerts, shutdown>>

TicketFails(c) ==
    /\ cli[c] = "ticket"
    /\ cli' = [cli EXCEPT ![c] = none]
    /\ current' = IF current = c THEN none ELSE current
    /\ UNCHANGED <<es, server, tickers, alerts, shutdown>>

\* get_current_user_sse and _increment_connection: 401, 429 or a slot.  A
\* server that shuts down accepts nobody.
Admit(c) ==
    \/ UNCHANGED <<srv, slots>>
    \/ /\ slots < MaxConn
       /\ ~shutdown
       /\ srv' = [srv EXCEPT ![c] = "admitted"]
       /\ slots' = slots + 1

\* Mutant: the answer is used although the effect was cleaned up.
MutantTicketGrantedLate(c) ==
    /\ cli[c] = "ticket"
    /\ cli' = [cli EXCEPT ![c] = "stream"]
    /\ es' = c
    /\ Admit(c)
    /\ UNCHANGED <<current, elapsed, lost, tickers, alerts, shutdown>>

\* The ticket arrives; unless the effect was cleaned up, its EventSource opens.
TicketGranted(c) ==
    /\ cli[c] = "ticket"
    /\ IF current = c
       THEN /\ cli' = [cli EXCEPT ![c] = "stream"]
            /\ es' = c
            /\ Admit(c)
       ELSE /\ cli' = [cli EXCEPT ![c] = none]
            /\ UNCHANGED <<es, srv, slots>>
    /\ UNCHANGED <<current, elapsed, lost, tickers, alerts, shutdown>>

\* The connection breaks, is refused, or the server ends the response.
HandleError(c) ==
    /\ cli[c] = "stream"
    /\ cli' = [cli EXCEPT ![c] = none]
    /\ es' = none
    /\ current' = none
    /\ UNCHANGED <<server, tickers, alerts, shutdown>>

-----------------------------------------------------------------------------
(***************************************************************************)
(* A stream at the server.                                                 *)
(***************************************************************************)

\* Mutant: the user's count is popped, whatever it is.
MutantFinallyPops(c) ==
    /\ srv' = [srv EXCEPT ![c] = none]
    /\ slots' = 0
    /\ elapsed' = [elapsed EXCEPT ![c] = 0]
    /\ reading' = [reading EXCEPT ![c] = none]
    /\ blind' = blind \ {c}
    /\ copy' = [copy EXCEPT ![c] = none]
    /\ age' = [age EXCEPT ![c] = 0]
    /\ fired' = [fired EXCEPT ![c] = 0]
    /\ UNCHANGED <<lost, cache, pending, off, hook, shutdown>>

\* The finally clause of the generator.
Finally(c) ==
    /\ srv' = [srv EXCEPT ![c] = none]
    /\ slots' = IF slots <= 1 THEN 0 ELSE slots - 1
    /\ elapsed' = [elapsed EXCEPT ![c] = 0]
    /\ reading' = [reading EXCEPT ![c] = none]
    /\ blind' = blind \ {c}
    /\ copy' = [copy EXCEPT ![c] = none]
    /\ age' = [age EXCEPT ![c] = 0]
    /\ fired' = [fired EXCEPT ![c] = 0]
    /\ UNCHANGED <<lost, cache, pending, off, hook, shutdown>>

\* The client has gone before the response starts: the generator is dropped
\* and no finally clause runs.
NeverBegins(c) ==
    /\ srv[c] = "admitted"
    /\ cli[c] # "stream"
    /\ lost < MaxLost
    /\ srv' = [srv EXCEPT ![c] = none]
    /\ lost' = lost + 1
    /\ UNCHANGED <<elapsed, slots, hook, tickers, alerts, shutdown>>

\* _load_active_alerts: an error loads nothing.
Loads(c) == {"none", IF off = 0 /\ c \in Followed THEN "armed" ELSE "none"}

\* Portfolios, account, average prices and alerts are read.
Begin(c) ==
    /\ srv[c] = "admitted"
    /\ srv' = [srv EXCEPT ![c] = "due"]
    /\ copy' \in {[copy EXCEPT ![c] = l] : l \in Loads(c)}
    /\ UNCHANGED <<elapsed, slots, lost, off, age, fired, hook, tickers, shutdown>>

\* "no_data", or an exception before the loop.
NoData(c) == srv[c] = "admitted" /\ Finally(c)

Over(c) == elapsed[c] >= MaxElapsed \/ shutdown

\* "max_duration", or the shutdown.
Ends(c) == srv[c] = "due" /\ Over(c) /\ Finally(c)

\* The client has gone: an await is cancelled, or an item cannot be sent.
Cancelled(c) == srv[c] \in Running /\ cli[c] # "stream" /\ Finally(c)

Waits(c) == srv' = [srv EXCEPT ![c] = "wait"] /\ UNCHANGED <<elapsed, slots, lost>>

\* The query sees the holdings of the portfolios there were when the stream began.
Queried(c) == IF c \in blind THEN "narrow" ELSE "new"

\* _get_cached_ticker_market_map: a hit, or the query, outside the lock.
Lookup(c) ==
    /\ srv[c] = "due"
    /\ ~Over(c)
    /\ IF cache.is # none
       THEN /\ srv' = [srv EXCEPT ![c] = "check"]
            /\ UNCHANGED reading
       ELSE /\ srv' = [srv EXCEPT ![c] = "query"]
            /\ reading' = [reading EXCEPT ![c] = Queried(c)]
    /\ UNCHANGED <<cache, pending, blind, elapsed, slots, lost, hook, alerts, shutdown>>

\* ... which stores what it read, whatever happened since.
Store(c) ==
    /\ srv[c] = "query"
    /\ srv' = [srv EXCEPT ![c] = "check"]
    /\ cache' = [NoCache EXCEPT !.is = reading[c]]
    /\ reading' = [reading EXCEPT ![c] = none]
    /\ UNCHANGED <<pending, blind, elapsed, slots, lost, hook, alerts, shutdown>>

\* The market is closed, no ticker is held, or the round raises.
Skip(c) ==
    /\ srv[c] \in InRound
    /\ srv[c] = "due" => ~Over(c)
    /\ Waits(c)
    /\ reading' = [reading EXCEPT ![c] = none]
    /\ UNCHANGED <<cache, pending, blind, hook, alerts, shutdown>>

\* Mutant: the copies are loaded once.
MutantRefreshedNever(c) == {copy[c]}

\* The copy that a round checks: reloaded when it is old enough.
Refreshed(c) == IF age[c] >= RefreshEvery THEN Loads(c) ELSE {copy[c]}

\* check_and_dedup_alerts marks the copy and never the row.
Fire(c, now) == [copy EXCEPT ![c] = IF now = "armed" THEN "fired" ELSE now]

Reloads(c) == age[c] >= RefreshEvery
Before(c) == IF Reloads(c) THEN 0 ELSE fired[c]

\* _check_alerts_and_emit, with the alert's condition met or not.  Whether the
\* commit of the notification succeeds or not, the copy is marked.
Check(c) ==
    /\ srv[c] = "check"
    /\ Waits(c)
    /\ \E now \in Refreshed(c), met, committed \in BOOLEAN :
          /\ copy' = IF met THEN Fire(c, now) ELSE [copy EXCEPT ![c] = now]
          /\ fired' = [fired EXCEPT ![c] =
                IF met /\ now = "armed" /\ committed THEN Before(c) + 1 ELSE Before(c)]
    /\ age' = [age EXCEPT ![c] = IF Reloads(c) THEN 0 ELSE @]
    /\ UNCHANGED <<off, hook, tickers, shutdown>>

-----------------------------------------------------------------------------
(***************************************************************************)
(* Holdings, the alert, time.                                              *)
(***************************************************************************)
Lacking(map, how) == IF map \in Maps THEN how ELSE map

\* Holdings change: the map in the cache, and those under way, lack it.  It may
\* be the first holding of a portfolio created since the streams began.
Change(how) ==
    /\ cache' = [cache EXCEPT !.is = Lacking(@, how)]
    /\ reading' = [c \in Conns |-> Lacking(reading[c], "stale")]
    /\ blind' \in {blind, {c \in Conns : srv[c] \in Running}}
    /\ UNCHANGED <<hook, server, alerts, shutdown>>

Edited == ~shutdown /\ ~pending /\ pending' = TRUE /\ Change("owed")
Synced == ~shutdown /\ Change("stale") /\ UNCHANGED pending

\* Mutant: a fill under way keeps the entry.
MutantInvalidateUnlessReading ==
    /\ pending
    /\ pending' = FALSE
    /\ cache' = IF \E c \in Conns : reading[c] # none THEN cache ELSE NoCache
    /\ UNCHANGED <<reading, blind, hook, server, alerts, shutdown>>

Invalidate ==
    /\ pending
    /\ pending' = FALSE
    /\ cache' = NoCache
    /\ UNCHANGED <<reading, blind, hook, server, alerts, shutdown>>

\* create_alert, patch_alert, delete_alert.
SetAlert ==
    /\ ~shutdown
    /\ off' = IF off = 0 THEN 1 ELSE 0
    /\ UNCHANGED <<copy, age, fired, hook, server, tickers, shutdown>>

Older(n, most) == IF n < most THEN n + 1 ELSE n

\* What a narrow entry lacks counts from the end of the last stream that reads so.
Lacks == cache.is \in {"stale", "owed"} \/ (cache.is = "narrow" /\ blind = {})

\* An entry of its TTL's age is as none.
OneTickLater ==
    IF cache.is = none \/ cache.age + 1 >= Ttl THEN NoCache
    ELSE [cache EXCEPT !.age = @ + 1, !.behind = IF Lacks THEN @ + 1 ELSE 0]

\* Mutant: the waits do not count.
MutantTickNotCounted ==
    /\ \A c \in Conns : srv[c] \notin InRound
    /\ srv' = [c \in Conns |-> IF srv[c] = "wait" THEN "due" ELSE srv[c]]
    /\ cache' = OneTickLater
    /\ age' = [c \in Conns |-> IF srv[c] = "wait" THEN Older(age[c], RefreshEvery) ELSE age[c]]
    /\ off' = IF off = 0 THEN 0 ELSE Older(off, RefreshEvery + 1)
    /\ UNCHANGED <<elapsed, slots, lost, reading, pending, blind, copy, fired, hook, shutdown>>

\* Thirty seconds pass.  Bound: a round is over when the next is due.
Tick ==
    /\ \A c \in Conns : srv[c] \notin InRound
    /\ srv' = [c \in Conns |-> IF srv[c] = "wait" THEN "due" ELSE srv[c]]
    /\ elapsed' = [c \in Conns |-> elapsed[c] + (IF srv[c] = "wait" THEN 1 ELSE 0)]
    /\ cache' = OneTickLater
    /\ age' = [c \in Conns |-> IF srv[c] = "wait" THEN Older(age[c], RefreshEvery) ELSE age[c]]
    /\ off' = IF off = 0 THEN 0 ELSE Older(off, RefreshEvery + 1)
    /\ UNCHANGED <<slots, lost, reading, pending, blind, copy, fired, hook, shutdown>>

\* signal_sse_shutdown: a wait ends, and the loop with it.
Shutdown ==
    /\ ~shutdown
    /\ shutdown' = TRUE
    /\ srv' = [c \in Conns |-> IF srv[c] = "wait" THEN "due" ELSE srv[c]]
    /\ UNCHANGED <<elapsed, slots, lost, hook, tickers, alerts>>

-----------------------------------------------------------------------------
Round(c) == Ends(c) \/ Lookup(c) \/ Store(c) \/ Skip(c) \/ Check(c)
Serve(c) == Begin(c) \/ NoData(c) \/ Round(c)

Next ==
    \/ Rerun
    \/ \E c \in Conns :
          \/ TicketFails(c) \/ TicketGranted(c) \/ HandleError(c)
          \/ NeverBegins(c) \/ Cancelled(c)
          \/ Serve(c)
    \/ Edited \/ Synced \/ Invalidate \/ SetAlert \/ Tick \/ Shutdown

Spec == Init /\ [][Next]_vars

\* Coroutines run on and time passes, whatever requests do.
Fairness == SF_vars(Tick) /\ \A c \in Conns : WF_vars(Serve(c))
FairSpec == Spec /\ Fairness

-----------------------------------------------------------------------------
(***************************************************************************)
(* What the streams promise.                                               *)
(***************************************************************************)

\* _increment_connection and the finally clause: a slot belongs to a stream
\* that was admitted and has not ended, or to one that never began, and there
\* are MaxConn at most, however clients come and go.
SlotsAccounted ==
    /\ slots = lost + Cardinality({c \in Conns : srv[c] \in Running \cup {"admitted"}})
    /\ slots <= MaxConn

\* The cleanup and the cancelled flag: an open EventSource is the one the hook
\* would close, so that the effects' overlapping tickets leave none behind, and
\* what it would close is open.
NoForgottenStream ==
    /\ \A c \in Conns : cli[c] = "stream" => es = c /\ current = c
    /\ es # none => cli[es] = "stream"

\* "60초 TTL" and invalidate_sse_ticker_cache: whatever is read, stored and dropped
\* in between, the streams' map has lacked no change for a TTL or longer, be it one
\* that nobody invalidates, and no change that was invalidated but by a read that
\* had begun before.  Streams that began before a portfolio was created are
\* excepted: they know nothing of it, and the maps they store for all streams lack
\* its holdings, until a TTL after the last of them ended.
MapInTime ==
    /\ Lacks => cache.behind < Ttl
    /\ cache.is = "owed" => pending

Fires(c) ==
    srv[c] = "check" /\ srv'[c] = "wait" /\ age'[c] < RefreshEvery /\ fired'[c] > Before(c)

\* An alert that was switched off or deleted does not fire from a copy for
\* longer than the copies live.
SilentSoon == [][\A c \in Conns : Fires(c) => off <= RefreshEvery]_vars

\* "is_active=False" on the copy: a stream notifies of an alert once until its
\* copies are loaded again, though no row is ever marked and the commit of the
\* notification may fail.
OncePerLoad ==
    \A c \in Conns : fired[c] <= (IF copy[c] = "fired" THEN 1 ELSE 0)

\* "최대 연결 시간 2시간": every stream ends, in an open market or a closed one,
\* and gives back its slot.
StreamEnds == \A c \in Conns : srv[c] \in Running ~> srv[c] = none
=============================================================================
