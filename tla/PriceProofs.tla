----------------------------- MODULE PriceProofs -----------------------------
(***************************************************************************)
(* Theorems about prices on their way to a page: the stream (PriceStream), *)
(* for every number of streams and slots and every lifetime of             *)
(* connections, maps and copies, and the single flight (PriceFlight), for  *)
(* any callers and times to live.                                          *)
(*                                                                         *)
(* The hook, the slots, the map of tickers, the alerts, the quotes and the *)
(* leader each have an invariant of their own.                             *)
(***************************************************************************)
EXTENDS PriceStream, PriceFlight, FiniteSetTheorems, TLAPS

-----------------------------------------------------------------------------
(***************************************************************************)
(* The hook.                                                               *)
(***************************************************************************)
HookTypes ==
    /\ cli \in [Conns -> {"none", "ticket", "stream"}]
    /\ current \in Conns \cup {none}
    /\ es \in Conns \cup {none}

HookInv == HookTypes /\ NoForgottenStream

LEMMA HookSteps ==
  [Next]_vars =>
    \/ Rerun
    \/ \E c \in Conns : TicketFails(c) \/ TicketGranted(c) \/ HandleError(c)
    \/ UNCHANGED hook
  <1> SUFFICES ASSUME [Next]_vars, ~UNCHANGED hook
               PROVE  Rerun \/ \E c \in Conns : TicketFails(c) \/ TicketGranted(c) \/ HandleError(c)
    OBVIOUS
  <1>1. ASSUME NEW c \in Conns, Serve(c) PROVE FALSE
    BY <1>1 DEF Serve, Round, Begin, NoData, Ends, Finally, Lookup, Store, Skip, Check
  <1>2. ASSUME NEW c \in Conns, NeverBegins(c) \/ Cancelled(c) PROVE FALSE
    BY <1>2 DEF NeverBegins, Cancelled, Finally
  <1>3. ASSUME Edited \/ Synced \/ Invalidate \/ SetAlert \/ Tick \/ Shutdown PROVE FALSE
    BY <1>3 DEF Edited, Synced, Change, Invalidate, SetAlert, Tick, Shutdown
  <1>. QED
    BY <1>1, <1>2, <1>3 DEF Next, vars

LEMMA InitHook == Init => HookInv
  BY StreamAssumption DEF Init, HookInv, HookTypes, NoForgottenStream, none

LEMMA NextHook == HookInv /\ [Next]_vars => HookInv'
  <1> SUFFICES ASSUME HookInv, [Next]_vars PROVE HookInv'
    OBVIOUS
  <1> USE StreamAssumption DEF HookInv, HookTypes, NoForgottenStream, none
  <1>1. CASE Rerun
    <2>1. /\ Closed \in [Conns -> {"none", "ticket", "stream"}]
          /\ \A c \in Conns : Closed[c] # "stream"
      BY DEF Closed
    <2>2. cli' \in [Conns -> {"none", "ticket", "stream"}] /\ current' \in Conns \cup {"none"}
      BY <1>1, <2>1 DEF Rerun
    <2>3. \A c \in Conns : cli'[c] # "stream"
      BY <1>1, <2>1 DEF Rerun
    <2>. QED
      BY <1>1, <2>2, <2>3 DEF Rerun
  <1>2. ASSUME NEW c \in Conns, TicketFails(c) PROVE HookInv'
    BY <1>2 DEF TicketFails
  <1>3. ASSUME NEW c \in Conns, TicketGranted(c) PROVE HookInv'
    <2>1. CASE current = c
      <3>1. cli' = [cli EXCEPT ![c] = "stream"] /\ es' = c /\ current' = c
        BY <1>3, <2>1 DEF TicketGranted
      <3>2. \A d \in Conns : cli[d] # "stream"
        BY <1>3, <2>1 DEF TicketGranted
      <3>. QED
        BY <3>1, <3>2
    <2>2. CASE current # c
      <3>1. cli' = [cli EXCEPT ![c] = "none"] /\ es' = es /\ current' = current /\ cli[c] = "ticket"
        BY <1>3, <2>2 DEF TicketGranted
      <3>. QED
        BY <3>1
    <2>. QED
      BY <2>1, <2>2
  <1>4. ASSUME NEW c \in Conns, HandleError(c) PROVE HookInv'
    BY <1>4 DEF HandleError
  <1>5. CASE UNCHANGED hook
    BY <1>5 DEF hook
  <1>. QED
    BY <1>1, <1>2, <1>3, <1>4, <1>5, HookSteps

\* usePriceStream leaves no EventSource open that its cleanup does not know of.
THEOREM NoStreamForgotten == Spec => []NoForgottenStream
  <1>1. HookInv => NoForgottenStream
    BY DEF HookInv
  <1>. QED
    BY <1>1, InitHook, NextHook, PTL DEF Spec

-----------------------------------------------------------------------------
(***************************************************************************)
(* Where the streams are, and their slots.                                 *)
(***************************************************************************)
Busy == {"admitted", "due", "query", "check", "wait"}
Late == {"query", "check", "wait"}
Streams == {c \in Conns : srv[c] \in Busy}

PlaceTypes ==
    /\ srv \in [Conns -> Busy \cup {"none"}]
    /\ elapsed \in [Conns -> 0..MaxElapsed]

\* Who waits for a ticket has no stream yet, and who is in a round has time left.
PlaceInv ==
    /\ PlaceTypes
    /\ \A c \in Conns : cli[c] = "ticket" => srv[c] = "none"
    /\ \A c \in Conns : srv[c] \in Late => elapsed[c] < MaxElapsed

SlotInv ==
    /\ slots \in Nat /\ lost \in Nat
    /\ slots = lost + Cardinality(Streams)
    /\ slots <= MaxConn

\* A stream moves on without leaving.
Moves(c, p) ==
    /\ srv[c] \in Busy /\ p \in Busy \ {"admitted"}
    /\ p \in Late => srv[c] \in Late \/ elapsed[c] < MaxElapsed
    /\ srv' = [srv EXCEPT ![c] = p]
    /\ UNCHANGED <<elapsed, slots, lost, hook>>

Admits(c) ==
    /\ cli[c] = "ticket"
    /\ cli' = [cli EXCEPT ![c] = "stream"]
    /\ slots < MaxConn
    /\ srv' = [srv EXCEPT ![c] = "admitted"]
    /\ slots' = slots + 1
    /\ UNCHANGED <<elapsed, lost>>

Leaves(c) == srv[c] \in Busy /\ Finally(c)

LEMMA ServeSteps ==
  ASSUME PlaceTypes, NEW c \in Conns, Serve(c)
  PROVE  Leaves(c) \/ \E p \in Busy \ {"admitted"} : Moves(c, p)
  <1> USE StreamAssumption DEF Busy, Late, Moves, Leaves
  <1>0. elapsed[c] \in Nat /\ MaxElapsed \in Nat
    BY DEF PlaceTypes
  <1>1. CASE Begin(c)
    <2>1. Moves(c, "due")
      BY <1>1 DEF Begin
    <2>. QED
      BY <2>1
  <1>2. CASE NoData(c) \/ Ends(c)
    BY <1>2 DEF NoData, Ends
  <1>3. CASE Lookup(c)
    <2>1. elapsed[c] < MaxElapsed
      BY <1>0, <1>3 DEF Lookup, Over
    <2>2. Moves(c, "check") \/ Moves(c, "query")
      BY <1>3, <2>1 DEF Lookup
    <2>. QED
      BY <2>2
  <1>4. CASE Store(c)
    <2>1. Moves(c, "check")
      BY <1>4 DEF Store
    <2>. QED
      BY <2>1
  <1>5. CASE Skip(c)
    <2>1. srv[c] \in {"query", "check"} \/ elapsed[c] < MaxElapsed
      BY <1>0, <1>5 DEF Skip, Over, InRound
    <2>2. Moves(c, "wait")
      BY <1>5, <2>1 DEF Skip, Waits, InRound
    <2>. QED
      BY <2>2
  <1>6. CASE Check(c)
    <2>1. Moves(c, "wait")
      BY <1>6 DEF Check, Waits
    <2>. QED
      BY <2>1
  <1>. QED
    BY <1>1, <1>2, <1>3, <1>4, <1>5, <1>6 DEF Serve, Round

\* What may become of the streams.
LEMMA ServerSteps ==
  ASSUME PlaceTypes, [Next]_vars
  PROVE  \/ \E c \in Conns : Admits(c)
         \/ \E c \in Conns : Leaves(c)
         \/ \E c \in Conns : NeverBegins(c)
         \/ \E c \in Conns : \E p \in Busy \ {"admitted"} : Moves(c, p)
         \/ Tick
         \/ Shutdown
         \/ /\ UNCHANGED server
            /\ \/ Rerun
               \/ \E c \in Conns : cli' = [cli EXCEPT ![c] = "none"]
                 \/ cli' = [cli EXCEPT ![c] = "stream"]
               \/ UNCHANGED cli
  <1>1. ASSUME NEW c \in Conns, TicketGranted(c)
        PROVE  \/ Admits(c)
               \/ UNCHANGED server /\ (\/ cli' = [cli EXCEPT ![c] = "none"]
                                       \/ cli' = [cli EXCEPT ![c] = "stream"])
    BY <1>1 DEF TicketGranted, Admit, Admits, server, none
  <1>2. ASSUME NEW c \in Conns, TicketFails(c) \/ HandleError(c)
        PROVE  UNCHANGED server /\ cli' = [cli EXCEPT ![c] = "none"]
    BY <1>2 DEF TicketFails, HandleError, none
  <1>3. ASSUME NEW c \in Conns, Cancelled(c) PROVE Leaves(c)
    BY <1>3 DEF Cancelled, Leaves, Running, InRound, Busy
  <1>4. ASSUME Edited \/ Synced \/ Invalidate \/ SetAlert PROVE UNCHANGED server /\ UNCHANGED cli
    BY <1>4 DEF Edited, Synced, Change, Invalidate, SetAlert, hook
  <1>5. ASSUME Rerun PROVE UNCHANGED server
    BY <1>5 DEF Rerun
  <1>6. ASSUME UNCHANGED vars PROVE UNCHANGED server /\ UNCHANGED cli
    BY <1>6 DEF vars, hook
  <1>. QED
    BY <1>1, <1>2, <1>3, <1>4, <1>5, <1>6, ServeSteps DEF Next

LEMMA InitPlaces == Init => PlaceInv
  BY StreamAssumption DEF Init, PlaceInv, PlaceTypes, Busy, Late, none

LEMMA NextPlaces == HookInv /\ PlaceInv /\ [Next]_vars => PlaceInv'
  <1> SUFFICES ASSUME HookInv, PlaceInv, [Next]_vars PROVE PlaceInv'
    OBVIOUS
  <1> USE StreamAssumption DEF PlaceInv, PlaceTypes
  <1>0. cli \in [Conns -> {"none", "ticket", "stream"}]
    BY DEF HookInv, HookTypes
  <1>1. ASSUME NEW c \in Conns, Admits(c) PROVE PlaceInv'
    BY <1>0, <1>1 DEF Admits, Busy, Late
  <1>2. ASSUME NEW c \in Conns, Leaves(c) PROVE PlaceInv'
    BY <1>2 DEF Leaves, Finally, hook, Busy, Late, none
  <1>3. ASSUME NEW c \in Conns, NeverBegins(c) PROVE PlaceInv'
    BY <1>3 DEF NeverBegins, hook, Busy, Late, none
  <1>4. ASSUME NEW c \in Conns, NEW p \in Busy \ {"admitted"}, Moves(c, p) PROVE PlaceInv'
    BY <1>4 DEF Moves, hook, Busy, Late
  <1>5. CASE Tick
    <2>1. /\ srv' = [c \in Conns |-> IF srv[c] = "wait" THEN "due" ELSE srv[c]] /\ cli' = cli
          /\ elapsed' = [c \in Conns |-> elapsed[c] + (IF srv[c] = "wait" THEN 1 ELSE 0)]
      BY <1>5 DEF Tick, hook
    <2>2. ASSUME NEW c \in Conns
          PROVE  /\ elapsed'[c] \in 0..MaxElapsed
                 /\ srv'[c] \in Late => elapsed'[c] < MaxElapsed
      <3>1. elapsed[c] \in Nat /\ elapsed[c] <= MaxElapsed /\ MaxElapsed \in Nat
        OBVIOUS
      <3>2. CASE srv[c] = "wait"
        BY <2>1, <3>1, <3>2 DEF Late
      <3>3. CASE srv[c] # "wait"
        BY <2>1, <3>1, <3>3
      <3>. QED
        BY <3>2, <3>3
    <2>3. srv' \in [Conns -> Busy \cup {"none"}]
      BY <2>1 DEF Busy
    <2>4. elapsed' \in [Conns -> 0..MaxElapsed]
      BY <2>1, <2>2
    <2>. QED
      BY <2>1, <2>2, <2>3, <2>4
  <1>6. CASE Shutdown
    BY <1>6 DEF Shutdown, hook, Busy, Late
  <1>7. ASSUME UNCHANGED server, Rerun PROVE PlaceInv'
    <2>1. /\ Closed \in [Conns -> {"none", "ticket", "stream"}]
          /\ \A c \in Conns : Closed[c] = "ticket" => cli[c] = "ticket"
      BY <1>0 DEF Closed, none
    <2>2. \A c \in Conns : cli'[c] = "ticket" => cli[c] = "ticket" \/ srv[c] = "none"
      BY <1>7, <2>1 DEF Rerun, Free, none
    <2>. QED
      BY <1>7, <2>2 DEF server
  <1>8. ASSUME UNCHANGED server, NEW c \in Conns,
               cli' = [cli EXCEPT ![c] = "none"] \/ cli' = [cli EXCEPT ![c] = "stream"]
        PROVE  PlaceInv'
    BY <1>0, <1>8 DEF server
  <1>9. CASE UNCHANGED server /\ UNCHANGED cli
    BY <1>9 DEF server
  <1>. QED
    BY <1>1, <1>2, <1>3, <1>4, <1>5, <1>6, <1>7, <1>8, <1>9, ServerSteps

LEMMA InitSlots == Init => SlotInv
  <1> SUFFICES ASSUME Init PROVE SlotInv
    OBVIOUS
  <1>1. Streams = {}
    BY DEF Init, Streams, Busy, none
  <1>. QED
    BY <1>1, FS_EmptySet, StreamAssumption DEF Init, SlotInv

LEMMA NextSlots == PlaceInv /\ SlotInv /\ [Next]_vars => SlotInv'
  <1> SUFFICES ASSUME PlaceInv, SlotInv, [Next]_vars PROVE SlotInv'
    OBVIOUS
  <1>0. /\ IsFiniteSet(Streams) /\ Cardinality(Streams) \in Nat /\ PlaceTypes
        /\ MaxConn \in Nat /\ slots \in Nat /\ lost \in Nat
        /\ slots = lost + Cardinality(Streams) /\ slots <= MaxConn
    <2>1. IsFiniteSet(Streams)
      BY StreamAssumption, FS_Subset DEF Streams
    <2>. QED
      BY <2>1, FS_CardinalityType, StreamAssumption DEF SlotInv, PlaceInv
  <1>1. ASSUME NEW c \in Conns, Admits(c) PROVE SlotInv'
    <2>1. c \notin Streams /\ Streams' = Streams \cup {c}
      BY <1>0, <1>1 DEF Admits, PlaceInv, PlaceTypes, Streams, Busy
    <2>2. Cardinality(Streams') = Cardinality(Streams) + 1
      BY <1>0, <2>1, FS_AddElement
    <2>. QED
      BY <1>0, <1>1, <2>2 DEF Admits, SlotInv
  <1>2. ASSUME NEW c \in Conns, Leaves(c) \/ NeverBegins(c)
        PROVE  Cardinality(Streams') = Cardinality(Streams) - 1 /\ Cardinality(Streams) >= 1
    <2>1. c \in Streams /\ Streams' = Streams \ {c}
      BY <1>0, <1>2 DEF Leaves, NeverBegins, Finally, PlaceTypes, Streams, Busy, none
    <2>2. Cardinality(Streams') = Cardinality(Streams) - 1
      BY <1>0, <2>1, FS_RemoveElement
    <2>3. Cardinality(Streams') \in Nat
      BY <1>0, <2>1, FS_RemoveElement, FS_CardinalityType
    <2>. QED
      BY <1>0, <2>2, <2>3
  <1>3. ASSUME NEW c \in Conns, Leaves(c) PROVE SlotInv'
    <2>1. slots' = (IF slots <= 1 THEN 0 ELSE slots - 1) /\ lost' = lost
      BY <1>3 DEF Leaves, Finally
    <2>. QED
      BY <1>0, <1>2, <1>3, <2>1 DEF SlotInv
  <1>4. ASSUME NEW c \in Conns, NeverBegins(c) PROVE SlotInv'
    <2>1. slots' = slots /\ lost' = lost + 1
      BY <1>4 DEF NeverBegins
    <2>. QED
      BY <1>0, <1>2, <1>4, <2>1 DEF SlotInv
  <1>5. ASSUME UNCHANGED <<slots, lost>>, Streams' = Streams PROVE SlotInv'
    BY <1>0, <1>5 DEF SlotInv
  <1>6. ASSUME NEW c \in Conns, NEW p \in Busy \ {"admitted"}, Moves(c, p) PROVE SlotInv'
    <2>1. Streams' = Streams
      BY <1>0, <1>6 DEF Moves, PlaceTypes, Streams
    <2>. QED
      BY <1>5, <1>6, <2>1 DEF Moves
  <1>7. ASSUME Tick \/ Shutdown PROVE SlotInv'
    <2>1. Streams' = Streams
      BY <1>0, <1>7 DEF Tick, Shutdown, PlaceTypes, Streams, Busy
    <2>. QED
      BY <1>5, <1>7, <2>1 DEF Tick, Shutdown
  <1>8. ASSUME UNCHANGED server PROVE SlotInv'
    BY <1>5, <1>8 DEF server, Streams
  <1>. QED
    BY <1>0, <1>1, <1>3, <1>4, <1>6, <1>7, <1>8, ServerSteps

\* _increment_connection and the finally clause of the generator: no slot is lost but
\* with a generator that never began, and none is given out beyond the limit.
THEOREM SlotsAreAccounted == Spec => []SlotsAccounted
  <1>1. SlotInv => SlotsAccounted
    <2>1. Running \cup {"admitted"} = Busy
      BY DEF Running, InRound, Busy
    <2>. QED
      BY <2>1 DEF SlotInv, SlotsAccounted, Streams
  <1>2. Init => HookInv /\ PlaceInv /\ SlotInv
    BY InitHook, InitPlaces, InitSlots
  <1>3. HookInv /\ PlaceInv /\ SlotInv /\ [Next]_vars => HookInv' /\ PlaceInv' /\ SlotInv'
    BY NextHook, NextPlaces, NextSlots
  <1>. QED
    BY <1>1, <1>2, <1>3, PTL DEF Spec

-----------------------------------------------------------------------------
(***************************************************************************)
(* The map of tickers.                                                     *)
(***************************************************************************)
CacheSet == [is : Maps \cup {none, "owed"}, age : 0..(Ttl - 1), behind : Nat]

\* A map lacks no change for longer than it has been in the cache.
MapInv ==
    /\ cache \in CacheSet
    /\ reading \in [Conns -> Maps \cup {none}]
    /\ pending \in BOOLEAN
    /\ cache.behind <= cache.age
    /\ cache.is = "owed" => pending

LEMMA NoCacheIsMap ==
  /\ NoCache \in CacheSet /\ NoCache.behind <= NoCache.age
  /\ NoCache.is = "none" /\ NoCache.is # "owed"
  BY StreamAssumption DEF NoCache, CacheSet, none

LEMMA InitMap == Init => MapInv
  <1> SUFFICES ASSUME Init PROVE MapInv
    OBVIOUS
  <1>1. cache = NoCache /\ pending = FALSE /\ reading = [c \in Conns |-> none]
    BY DEF Init
  <1>2. reading \in [Conns -> Maps \cup {none}] /\ pending \in BOOLEAN
    BY <1>1
  <1>. QED
    BY <1>1, <1>2, NoCacheIsMap DEF MapInv

\* A stream takes up or drops a reading.
Reads(c) ==
    /\ \E map \in {"none", "new", "narrow"} : reading' = [reading EXCEPT ![c] = map]
    /\ UNCHANGED <<cache, pending>>

LEMMA MapSteps ==
  [Next]_vars =>
    \/ \E c \in Conns : Reads(c)
    \/ \E c \in Conns : Store(c)
    \/ Edited \/ Synced \/ Invalidate \/ Tick
    \/ UNCHANGED <<cache, reading, pending>>
  <1> SUFFICES ASSUME [Next]_vars, ~UNCHANGED <<cache, reading, pending>>
               PROVE  \/ \E c \in Conns : Reads(c)
                      \/ \E c \in Conns : Store(c)
                      \/ Edited \/ Synced \/ Invalidate \/ Tick
    OBVIOUS
  <1>1. ASSUME NEW c \in Conns, NoData(c) \/ Ends(c) \/ Cancelled(c) PROVE Reads(c)
    BY <1>1 DEF NoData, Ends, Cancelled, Finally, Reads, none
  <1>2. ASSUME NEW c \in Conns, Lookup(c) PROVE Reads(c)
    <2>1. Queried(c) \in {"new", "narrow"}
      BY DEF Queried
    <2>2. CASE cache.is = none
      BY <1>2, <2>1, <2>2 DEF Lookup, Reads
    <2>3. CASE cache.is # none
      BY <1>2, <2>3 DEF Lookup
    <2>. QED
      BY <2>2, <2>3
  <1>3. ASSUME NEW c \in Conns, Skip(c) PROVE Reads(c)
    BY <1>3 DEF Skip, Reads, none
  <1>4. ASSUME NEW c \in Conns, Begin(c) \/ Check(c) \/ NeverBegins(c) PROVE FALSE
    BY <1>4 DEF Begin, Check, NeverBegins, tickers
  <1>5. ASSUME NEW c \in Conns, TicketFails(c) \/ TicketGranted(c) \/ HandleError(c) PROVE FALSE
    BY <1>5 DEF TicketFails, TicketGranted, HandleError, tickers
  <1>6. ASSUME Rerun \/ SetAlert \/ Shutdown PROVE FALSE
    BY <1>6 DEF Rerun, SetAlert, Shutdown, tickers
  <1>. QED
    BY <1>1, <1>2, <1>3, <1>4, <1>5, <1>6 DEF Next, vars, tickers, Serve, Round

LEMMA NextMap == MapInv /\ [Next]_vars => MapInv'
  <1> SUFFICES ASSUME MapInv, [Next]_vars PROVE MapInv'
    OBVIOUS
  <1>0. /\ cache \in CacheSet /\ reading \in [Conns -> Maps \cup {"none"}] /\ pending \in BOOLEAN
        /\ cache.behind <= cache.age /\ (cache.is = "owed" => pending)
    BY DEF MapInv, none
  <1>1. ASSUME NEW c \in Conns, Reads(c) PROVE MapInv'
    BY <1>0, <1>1 DEF MapInv, Maps, Reads, none
  <1>2. ASSUME NEW c \in Conns, Store(c) PROVE MapInv'
    <2>1. /\ reading' = [reading EXCEPT ![c] = "none"] /\ pending' = pending
          /\ cache' = [NoCache EXCEPT !.is = reading[c]]
      BY <1>2 DEF Store, none
    <2>2. reading[c] \in Maps \cup {"none"} /\ reading[c] # "owed"
      BY <1>0 DEF Maps
    <2>3. cache' \in CacheSet /\ cache'.is # "owed" /\ cache'.behind <= cache'.age
      BY <2>1, <2>2, NoCacheIsMap DEF CacheSet, none
    <2>. QED
      BY <1>0, <2>1, <2>3 DEF MapInv, Maps, none
  <1>3. ASSUME NEW how \in {"owed", "stale"}, Change(how),
               how = "owed" => pending', how = "stale" => pending' = pending,
               pending' \in BOOLEAN
        PROVE  MapInv'
    <2>1. /\ \A map \in Maps \cup {"none", "owed"} :
                Lacking(map, how) \in Maps \cup {"none", "owed"}
          /\ \A map \in Maps \cup {"none"} : Lacking(map, "stale") \in Maps \cup {"none"}
      BY <1>3 DEF Lacking, Maps
    <2>2. /\ cache'.is = Lacking(cache.is, how) /\ cache'.age = cache.age
          /\ cache'.behind = cache.behind
      BY <1>0, <1>3 DEF Change, CacheSet
    <2>3. cache' \in CacheSet
      BY <1>0, <1>3, <2>1 DEF Change, CacheSet, none
    <2>4. reading' \in [Conns -> Maps \cup {none}]
      BY <1>0, <1>3, <2>1 DEF Change, none
    <2>5. cache'.is = "owed" => pending'
      <3>1. Lacking(cache.is, how) = "owed" => cache.is = "owed" \/ how = "owed"
        BY DEF Lacking
      <3>2. CASE how = "owed"
        BY <1>3, <3>2
      <3>3. CASE how # "owed"
        BY <1>0, <1>3, <2>2, <3>1, <3>3
      <3>. QED
        BY <3>2, <3>3
    <2>. QED
      BY <1>0, <1>3, <2>2, <2>3, <2>4, <2>5 DEF MapInv
  <1>4. CASE Edited
    BY <1>3, <1>4 DEF Edited
  <1>5. CASE Synced
    BY <1>0, <1>3, <1>5 DEF Synced
  <1>6. CASE Invalidate
    <2>1. cache' = NoCache /\ pending' = FALSE /\ reading' = reading
      BY <1>6 DEF Invalidate
    <2>2. pending' \in BOOLEAN
      BY <2>1
    <2>. QED
      BY <1>0, <2>1, <2>2, NoCacheIsMap DEF MapInv, none
  <1>7. CASE Tick
    <2>1. cache' = OneTickLater /\ reading' = reading /\ pending' = pending
      BY <1>7 DEF Tick
    <2>2. CASE cache.is = none \/ cache.age + 1 >= Ttl
      <3>1. cache' = NoCache
        BY <2>1, <2>2 DEF OneTickLater
      <3>. QED
        BY <1>0, <2>1, <3>1, NoCacheIsMap DEF MapInv, none
    <2>3. CASE ~(cache.is = none \/ cache.age + 1 >= Ttl)
      <3>1. cache' = [cache EXCEPT !.age = @ + 1, !.behind = IF Lacks THEN @ + 1 ELSE 0]
        BY <2>1, <2>3 DEF OneTickLater
      <3>2. /\ cache.age \in Nat /\ cache.behind \in Nat /\ Ttl \in Nat /\ cache.age + 1 < Ttl
        BY <1>0, <2>3, StreamAssumption DEF CacheSet
      <3>3. /\ cache'.is = cache.is /\ cache'.age = cache.age + 1
            /\ cache'.behind = IF Lacks THEN cache.behind + 1 ELSE 0
        BY <1>0, <3>1 DEF CacheSet
      <3>4. cache' \in CacheSet
        <4>1. /\ cache.is \in Maps \cup {none, "owed"} /\ cache'.age \in 0..(Ttl - 1)
              /\ cache'.behind \in Nat
          BY <1>0, <3>2, <3>3 DEF CacheSet
        <4>2. cache' = [is |-> cache.is, age |-> cache'.age, behind |-> cache'.behind]
          BY <1>0, <3>1, <3>3 DEF CacheSet
        <4>. QED
          BY <4>1, <4>2 DEF CacheSet
      <3>5. cache'.behind <= cache'.age
        BY <1>0, <3>2, <3>3
      <3>. QED
        BY <1>0, <2>1, <3>3, <3>4, <3>5 DEF MapInv, none
    <2>. QED
      BY <2>2, <2>3
  <1>8. CASE UNCHANGED <<cache, reading, pending>>
    BY <1>8 DEF MapInv
  <1>. QED
    BY <1>1, <1>2, <1>4, <1>5, <1>6, <1>7, <1>8, MapSteps

\* The TTL of the map of tickers and invalidate_sse_ticker_cache: a change that a
\* synchronisation made reaches every stream within the TTL, and one that a handler
\* invalidated at once, but for a read that had begun; what is in a portfolio younger
\* than a running stream, within the TTL of that stream's end.
THEOREM MapIsInTime == Spec => []MapInTime
  <1>1. MapInv => MapInTime
    BY StreamAssumption DEF MapInv, MapInTime, CacheSet
  <1>. QED
    BY <1>1, InitMap, NextMap, PTL DEF Spec

-----------------------------------------------------------------------------
(***************************************************************************)
(* The copies of the alert.                                                *)
(***************************************************************************)
AlertTypes ==
    /\ off \in 0..(RefreshEvery + 1)
    /\ copy \in [Conns -> {"none", "armed", "fired"}]
    /\ age \in [Conns -> 0..RefreshEvery]
    /\ fired \in [Conns -> Nat]

\* A copy that can fire is of an alert that was on when it was loaded.
AlertInv ==
    /\ AlertTypes
    /\ \A c \in Conns : srv[c] \in {"none", "admitted"} => copy[c] = "none" /\ fired[c] = 0
    /\ \A c \in Conns : copy[c] = "armed" => off <= age[c] + 1
    /\ OncePerLoad

LEMMA InitAlerts == Init => AlertInv
  BY StreamAssumption DEF Init, AlertInv, AlertTypes, OncePerLoad, none

\* What a round may do to a copy.
LEMMA CheckCopy ==
  ASSUME AlertTypes, NEW c \in Conns, Check(c)
  PROVE  /\ off' = off /\ srv' = [srv EXCEPT ![c] = "wait"]
         /\ age' = [age EXCEPT ![c] = IF Reloads(c) THEN 0 ELSE age[c]]
         /\ \E now \in Refreshed(c), met, committed \in BOOLEAN :
               /\ copy' = [copy EXCEPT ![c] = IF met /\ now = "armed" THEN "fired" ELSE now]
               /\ fired' = [fired EXCEPT ![c] =
                     IF met /\ now = "armed" /\ committed THEN Before(c) + 1 ELSE Before(c)]
  <1>1. PICK now \in Refreshed(c), met, committed \in BOOLEAN :
          /\ copy' = IF met THEN Fire(c, now) ELSE [copy EXCEPT ![c] = now]
          /\ fired' = [fired EXCEPT ![c] =
                IF met /\ now = "armed" /\ committed THEN Before(c) + 1 ELSE Before(c)]
    BY DEF Check
  <1>2. copy' = [copy EXCEPT ![c] = IF met /\ now = "armed" THEN "fired" ELSE now]
    BY <1>1 DEF Fire
  <1>3. off' = off /\ srv' = [srv EXCEPT ![c] = "wait"]
        /\ age' = [age EXCEPT ![c] = IF Reloads(c) THEN 0 ELSE age[c]]
    BY DEF Check, Waits
  <1>. QED
    BY <1>1, <1>2, <1>3

LEMMA AlertSteps ==
  ASSUME [Next]_vars
  PROVE  \/ \E c \in Conns : Begin(c) \/ Check(c) \/ Leaves(c)
         \/ SetAlert \/ Tick
         \/ UNCHANGED alerts
  <1>1. ASSUME NEW c \in Conns, Lookup(c) \/ Store(c) \/ Skip(c) \/ NeverBegins(c)
        PROVE  UNCHANGED alerts
    BY <1>1 DEF Lookup, Store, Skip, NeverBegins
  <1>2. ASSUME NEW c \in Conns, NoData(c) \/ Ends(c) \/ Cancelled(c) PROVE Leaves(c)
    BY <1>2 DEF NoData, Ends, Cancelled, Leaves, Running, InRound, Busy
  <1>3. ASSUME NEW c \in Conns, TicketFails(c) \/ TicketGranted(c) \/ HandleError(c)
        PROVE  UNCHANGED alerts
    BY <1>3 DEF TicketFails, TicketGranted, HandleError
  <1>4. ASSUME Rerun \/ Edited \/ Synced \/ Invalidate \/ Shutdown PROVE UNCHANGED alerts
    BY <1>4 DEF Rerun, Edited, Synced, Change, Invalidate, Shutdown
  <1>. QED
    BY <1>1, <1>2, <1>3, <1>4 DEF Next, Serve, Round, vars

\* A stream that is there or is not, and whose alert nobody touches.
LEMMA UntouchedAlerts ==
  ASSUME PlaceInv, AlertInv, [Next]_vars, UNCHANGED alerts
  PROVE  AlertInv'
  <1>1. ASSUME NEW c \in Conns, srv'[c] \in {"none", "admitted"}
        PROVE  srv[c] \in {"none", "admitted"} \/ \E d \in Conns : Leaves(d)
    BY <1>1, ServerSteps
    DEF PlaceInv, PlaceTypes, Admits, Leaves, NeverBegins, Moves, Tick, Shutdown, server, none, Busy
  <1>2. ASSUME NEW d \in Conns, Leaves(d) PROVE copy[d] = "none" /\ fired[d] = 0
    BY <1>2 DEF Leaves, Finally, alerts, AlertInv, AlertTypes, none
  <1>3. ASSUME NEW c \in Conns, srv'[c] \in {"none", "admitted"}
        PROVE  copy[c] = "none" /\ fired[c] = 0
    <2>1. CASE srv[c] \in {"none", "admitted"}
      BY <2>1 DEF AlertInv
    <2>2. ASSUME NEW d \in Conns, Leaves(d), srv[c] \notin {"none", "admitted"} PROVE d = c
      BY <1>3, <2>2 DEF Leaves, Finally, PlaceInv, PlaceTypes
    <2>. QED
      BY <1>1, <1>2, <1>3, <2>1, <2>2
  <1>. QED
    BY <1>3 DEF AlertInv, AlertTypes, OncePerLoad, alerts

LEMMA NextAlerts == PlaceInv /\ AlertInv /\ [Next]_vars => AlertInv'
  <1> SUFFICES ASSUME PlaceInv, AlertInv, [Next]_vars PROVE AlertInv'
    OBVIOUS
  <1> USE StreamAssumption
  <1>0. /\ AlertTypes /\ srv \in [Conns -> Busy \cup {"none"}] /\ RefreshEvery \in Nat \ {0}
        /\ \A c \in Conns : /\ age[c] \in Nat /\ age[c] <= RefreshEvery /\ fired[c] \in Nat
                            /\ copy[c] \in {"none", "armed", "fired"}
                            /\ srv[c] \in {"none", "admitted"} => copy[c] = "none" /\ fired[c] = 0
                            /\ copy[c] = "armed" => off <= age[c] + 1
                            /\ fired[c] <= IF copy[c] = "fired" THEN 1 ELSE 0
    BY DEF AlertInv, AlertTypes, OncePerLoad, PlaceInv, PlaceTypes
  <1>1. ASSUME NEW c \in Conns, Begin(c) PROVE AlertInv'
    <2>1. PICK l \in Loads(c) : copy' = [copy EXCEPT ![c] = l]
      BY <1>1 DEF Begin
    <2>2. l \in {"none", "armed"} /\ (l = "armed" => off = 0)
      BY DEF Loads
    <2>3. /\ srv' = [srv EXCEPT ![c] = "due"] /\ off' = off /\ age' = age /\ fired' = fired
          /\ fired[c] = 0
      BY <1>0, <1>1 DEF Begin
    <2>. QED
      BY <1>0, <2>1, <2>2, <2>3 DEF AlertInv, AlertTypes, OncePerLoad
  <1>2. ASSUME NEW c \in Conns, Check(c) PROVE AlertInv'
    <2>1. /\ off' = off /\ srv' = [srv EXCEPT ![c] = "wait"]
          /\ age' = [age EXCEPT ![c] = IF Reloads(c) THEN 0 ELSE age[c]]
      BY <1>0, <1>2, CheckCopy
    <2>2. PICK now \in Refreshed(c), met, committed \in BOOLEAN :
            /\ copy' = [copy EXCEPT ![c] = IF met /\ now = "armed" THEN "fired" ELSE now]
            /\ fired' = [fired EXCEPT ![c] =
                  IF met /\ now = "armed" /\ committed THEN Before(c) + 1 ELSE Before(c)]
      BY <1>0, <1>2, CheckCopy
    <2>3. /\ now \in {"none", "armed", "fired"}
          /\ now = "armed" => Before(c) = 0
          /\ Before(c) \in Nat
          /\ Before(c) <= IF now = "fired" THEN 1 ELSE 0
      <3>1. CASE Reloads(c)
        BY <3>1 DEF Reloads, Refreshed, Loads, Before
      <3>2. CASE ~Reloads(c)
        BY <1>0, <3>2 DEF Reloads, Refreshed, Before
      <3>. QED
        BY <3>1, <3>2
    <2>4. now = "armed" => off <= age'[c] + 1
      <3>1. CASE Reloads(c)
        BY <1>0, <2>1, <3>1 DEF Reloads, Refreshed, Loads, AlertTypes
      <3>2. CASE ~Reloads(c)
        BY <1>0, <2>1, <3>2 DEF Reloads, Refreshed, AlertTypes
      <3>. QED
        BY <3>1, <3>2
    <2>5. /\ copy'[c] \in {"none", "armed", "fired"} /\ (copy'[c] = "armed" => off <= age'[c] + 1)
          /\ fired'[c] \in Nat /\ fired'[c] <= IF copy'[c] = "fired" THEN 1 ELSE 0
      BY <1>0, <2>2, <2>3, <2>4 DEF AlertTypes
    <2>6. \A d \in Conns \ {c} : /\ copy'[d] = copy[d] /\ fired'[d] = fired[d]
                                 /\ age'[d] = age[d] /\ srv'[d] = srv[d]
      BY <1>0, <2>1, <2>2 DEF AlertTypes
    <2>7. AlertTypes'
      BY <1>0, <2>1, <2>2, <2>5 DEF AlertTypes
    <2>8. srv'[c] = "wait"
      BY <1>0, <2>1
    <2>. QED
      BY <1>0, <2>1, <2>5, <2>6, <2>7, <2>8 DEF AlertInv, OncePerLoad
  <1>3. ASSUME NEW c \in Conns, Leaves(c) PROVE AlertInv'
    BY <1>0, <1>3 DEF Leaves, Finally, AlertInv, AlertTypes, OncePerLoad, none
  <1>4. CASE SetAlert
    <2>1. off' \in {0, 1} /\ UNCHANGED <<copy, age, fired, srv>>
      BY <1>4 DEF SetAlert, server
    <2>. QED
      BY <1>0, <2>1 DEF AlertInv, AlertTypes, OncePerLoad
  <1>5. CASE Tick
    <2>1. /\ srv' = [c \in Conns |-> IF srv[c] = "wait" THEN "due" ELSE srv[c]]
          /\ age' = [c \in Conns |-> IF srv[c] = "wait" THEN Older(age[c], RefreshEvery) ELSE age[c]]
          /\ off' = IF off = 0 THEN 0 ELSE Older(off, RefreshEvery + 1)
          /\ copy' = copy /\ fired' = fired /\ \A c \in Conns : srv[c] \notin InRound
      BY <1>5 DEF Tick
    <2>2. off \in Nat /\ off' \in 0..(RefreshEvery + 1)
      BY <1>0, <2>1 DEF AlertTypes, Older
    <2>3. ASSUME NEW c \in Conns
          PROVE  /\ age'[c] \in 0..RefreshEvery
                 /\ copy[c] = "armed" => off' <= age'[c] + 1
                 /\ srv'[c] \in {"none", "admitted"} => srv[c] \in {"none", "admitted"}
      <3>1. CASE srv[c] = "wait"
        <4>1. age'[c] = Older(age[c], RefreshEvery) /\ srv'[c] = "due"
          BY <2>1, <3>1
        <4>. QED
          BY <1>0, <2>1, <2>2, <4>1 DEF Older
      <3>2. CASE srv[c] # "wait"
        <4>1. age'[c] = age[c] /\ srv'[c] = srv[c]
          BY <2>1, <3>2
        <4>2. copy[c] = "none"
          BY <1>0, <2>1, <3>2 DEF InRound, Busy
        <4>. QED
          BY <1>0, <4>1, <4>2
      <3>. QED
        BY <3>1, <3>2
    <2>4. age' \in [Conns -> 0..RefreshEvery]
      BY <2>1, <2>3
    <2>. QED
      BY <1>0, <2>1, <2>2, <2>3, <2>4 DEF AlertInv, AlertTypes, OncePerLoad
  <1>6. CASE UNCHANGED alerts
    BY <1>6, UntouchedAlerts
  <1>. QED
    BY <1>1, <1>2, <1>3, <1>4, <1>5, <1>6, AlertSteps

\* The streams' places and alerts, together with the hook the places rest on.
StreamInv == HookInv /\ PlaceInv /\ AlertInv

LEMMA StreamIsInvariant == Spec => []StreamInv
  <1>1. Init => StreamInv
    BY InitHook, InitPlaces, InitAlerts DEF StreamInv
  <1>2. StreamInv /\ [Next]_vars => StreamInv'
    BY NextHook, NextPlaces, NextAlerts DEF StreamInv
  <1>. QED
    BY <1>1, <1>2, PTL DEF Spec

\* check_and_dedup_alerts: one notification at most until the rows are loaded again.
THEOREM FiresOncePerLoad == Spec => []OncePerLoad
  <1>1. StreamInv => OncePerLoad
    BY DEF StreamInv, AlertInv
  <1>. QED
    BY <1>1, StreamIsInvariant, PTL

\* _ALERT_REFRESH_INTERVAL: an alert that was switched off falls silent in every
\* stream before the copies have been reloaded twice.
THEOREM FallsSilentSoon == Spec => SilentSoon
  <1>1. ASSUME StreamInv, [Next]_vars, NEW c \in Conns, Fires(c) PROVE off <= RefreshEvery
    <2>0. /\ AlertTypes /\ PlaceTypes /\ srv[c] = "check" /\ srv'[c] = "wait"
               /\ fired'[c] > Before(c)
          /\ age'[c] < RefreshEvery /\ RefreshEvery \in Nat \ {0}
          /\ age[c] \in Nat /\ fired[c] \in Nat /\ off \in Nat
      BY <1>1, StreamAssumption DEF Fires, StreamInv, AlertInv, AlertTypes, PlaceInv
    <2>1. ASSUME NEW d \in Conns, Check(d) PROVE d = c
      <3>1. srv' = [srv EXCEPT ![d] = "wait"]
        BY <2>0, <2>1, CheckCopy
      <3>. QED
        BY <2>0, <3>1 DEF PlaceTypes
    <2>2. CASE Check(c)
      <3>1. PICK now \in Refreshed(c), met, committed \in BOOLEAN :
              fired' = [fired EXCEPT ![c] =
                  IF met /\ now = "armed" /\ committed THEN Before(c) + 1 ELSE Before(c)]
        BY <2>0, <2>2, CheckCopy
      <3>2. now = "armed"
        <4>1. Before(c) \in Nat
          BY <2>0 DEF Before
        <4>2. now # "armed" => fired'[c] = Before(c)
          BY <2>0, <3>1 DEF AlertTypes
        <4>. QED
          BY <2>0, <4>1, <4>2
      <3>3. CASE Reloads(c)
        BY <2>0, <3>2, <3>3 DEF Reloads, Refreshed, Loads
      <3>4. CASE ~Reloads(c)
        <4>1. copy[c] = "armed" /\ age[c] < RefreshEvery
          BY <2>0, <3>2, <3>4 DEF Reloads, Refreshed
        <4>2. off <= age[c] + 1
          BY <1>1, <4>1 DEF StreamInv, AlertInv
        <4>. QED
          BY <2>0, <4>1, <4>2
      <3>. QED
        BY <3>3, <3>4
    <2>3. ASSUME UNCHANGED <<fired, age>> PROVE FALSE
      <3>1. fired'[c] = fired[c] /\ age'[c] = age[c]
        BY <2>3
      <3>. QED
        BY <2>0, <3>1 DEF Before, Reloads
    <2>4. ASSUME NEW d \in Conns, Leaves(d) PROVE FALSE
      <3>1. fired' = [fired EXCEPT ![d] = 0] /\ srv' = [srv EXCEPT ![d] = "none"]
            /\ age' = [age EXCEPT ![d] = 0]
        BY <2>4 DEF Leaves, Finally, none
      <3>2. d # c
        BY <2>0, <3>1 DEF PlaceTypes
      <3>3. fired'[c] = fired[c] /\ age'[c] = age[c]
        BY <2>0, <3>1, <3>2 DEF AlertTypes
      <3>. QED
        BY <2>0, <3>3 DEF Before, Reloads
    <2>5. ASSUME Tick PROVE FALSE
      BY <2>0, <2>5 DEF Tick, InRound
    <2>6. ASSUME NEW d \in Conns, Begin(d) PROVE UNCHANGED <<fired, age>>
      BY <2>6 DEF Begin
    <2>7. ASSUME SetAlert PROVE UNCHANGED <<fired, age>>
      BY <2>7 DEF SetAlert
    <2>. QED
      BY <1>1, <2>1, <2>2, <2>3, <2>4, <2>5, <2>6, <2>7, AlertSteps DEF alerts
  <1>2. StreamInv /\ [Next]_vars => [\A c \in Conns : Fires(c) => off <= RefreshEvery]_vars
    BY <1>1
  <1>. QED
    BY <1>2, StreamIsInvariant, PTL DEF Spec, SilentSoon

-----------------------------------------------------------------------------
(***************************************************************************)
(* Types.                                                                  *)
(***************************************************************************)
ShutdownType == shutdown \in BOOLEAN
BlindType == blind \subseteq Conns

LEMMA BlindIsSet == Spec => []BlindType
  <1>1. Init => BlindType
    BY DEF Init, BlindType
  <1>2. BlindType /\ [Next]_vars => BlindType'
    <2> SUFFICES ASSUME BlindType, [Next]_vars PROVE BlindType'
      OBVIOUS
    <2> USE DEF BlindType
    <2>1. ASSUME NEW c \in Conns,
                 Begin(c) \/ Lookup(c) \/ Store(c) \/ Skip(c) \/ Check(c)
          PROVE  BlindType'
      BY <2>1 DEF Begin, Lookup, Store, Skip, Check, tickers
    <2>2. ASSUME NEW c \in Conns, NoData(c) \/ Ends(c) \/ Cancelled(c) PROVE BlindType'
      BY <2>2 DEF NoData, Ends, Cancelled, Finally
    <2>3. ASSUME NEW c \in Conns, \/ TicketFails(c) \/ TicketGranted(c)
                                  \/ HandleError(c) \/ NeverBegins(c)
          PROVE  BlindType'
      BY <2>3 DEF TicketFails, TicketGranted, HandleError, NeverBegins, tickers
    <2>4. ASSUME Edited \/ Synced PROVE BlindType'
      BY <2>4 DEF Edited, Synced, Change
    <2>5. ASSUME Rerun \/ Invalidate \/ SetAlert \/ Tick \/ Shutdown PROVE BlindType'
      BY <2>5 DEF Rerun, Invalidate, SetAlert, Tick, Shutdown, tickers
    <2>. QED
      BY <2>1, <2>2, <2>3, <2>4, <2>5 DEF Next, vars, tickers, Serve, Round
  <1>. QED
    BY <1>1, <1>2, PTL DEF Spec

LEMMA ShutdownIsFlag == Spec => []ShutdownType
  <1>1. Init => ShutdownType
    BY DEF Init, ShutdownType
  <1>2. ShutdownType /\ [Next]_vars => ShutdownType'
    <2> SUFFICES ASSUME ShutdownType, [Next]_vars PROVE ShutdownType'
      OBVIOUS
    <2>1. ASSUME NEW c \in Conns, Serve(c) PROVE shutdown' = shutdown
      BY <2>1 DEF Serve, Round, Begin, NoData, Ends, Finally, Lookup, Store, Skip, Check
    <2>2. ASSUME NEW c \in Conns, TicketFails(c) \/ TicketGranted(c) \/ HandleError(c)
          PROVE  shutdown' = shutdown
      BY <2>2 DEF TicketFails, TicketGranted, HandleError
    <2>3. ASSUME NEW c \in Conns, NeverBegins(c) \/ Cancelled(c) PROVE shutdown' = shutdown
      BY <2>3 DEF NeverBegins, Cancelled, Finally
    <2>4. ASSUME Rerun \/ Edited \/ Synced \/ Invalidate \/ SetAlert \/ Tick
          PROVE  shutdown' = shutdown
      BY <2>4 DEF Rerun, Edited, Synced, Change, Invalidate, SetAlert, Tick
    <2>5. ASSUME Shutdown PROVE shutdown' = TRUE
      BY <2>5 DEF Shutdown
    <2>. QED
      BY <2>1, <2>2, <2>3, <2>4, <2>5 DEF Next, vars, ShutdownType
  <1>. QED
    BY <1>1, <1>2, PTL DEF Spec

\* The types of PriceStream; slots that are lost are at most those there are.
THEOREM TypeCorrect == Spec => []TypeOK
  <1>1. ASSUME StreamInv, SlotInv, MapInv, ShutdownType, BlindType PROVE TypeOK
    <2>1. slots \in 0..MaxConn /\ lost \in 0..MaxConn
      <3>1. Cardinality(Streams) \in Nat
        BY StreamAssumption, FS_Subset, FS_CardinalityType DEF Streams
      <3>. QED
        BY <1>1, <3>1, StreamAssumption DEF SlotInv
    <2>2. fired \in [Conns -> 0..2]
      <3>1. ASSUME NEW c \in Conns PROVE fired[c] \in 0..2
        BY <1>1 DEF StreamInv, AlertInv, AlertTypes, OncePerLoad
      <3>. QED
        BY <1>1, <3>1 DEF StreamInv, AlertInv, AlertTypes
    <2>3. srv \in [Conns -> Running \cup {"none", "admitted"}]
      BY <1>1 DEF StreamInv, PlaceInv, PlaceTypes, Running, InRound, Busy
    <2>. QED
      BY <1>1, <2>1, <2>2, <2>3
      DEF TypeOK, StreamInv, HookInv, HookTypes, PlaceInv, PlaceTypes, AlertInv, AlertTypes,
          MapInv, CacheSet, ShutdownType, BlindType
  <1>2. Init => SlotInv /\ MapInv
    BY InitSlots, InitMap
  <1>3. StreamInv /\ SlotInv /\ MapInv /\ [Next]_vars => SlotInv' /\ MapInv'
    BY NextSlots, NextMap DEF StreamInv
  <1>. QED
    BY <1>1, <1>2, <1>3, StreamIsInvariant, ShutdownIsFlag, BlindIsSet, PTL DEF Spec

-----------------------------------------------------------------------------
(***************************************************************************)
(* The single flight.                                                      *)
(***************************************************************************)

\* A quote is no older than the fetch that holds it, and the entry no older than
\* its time in the cache and one fetch.
QuoteInv ==
    /\ FlightTypeOK
    /\ FreshEnough
    /\ \A c \in Callers : pc[c] \in {"fetch", "store"} => spent[c] <= FetchMax
    /\ \A c \in Callers : pc[c] = "store" => quoted[c] <= spent[c]

LEMMA InitQuotes == FlightInit => QuoteInv
  BY FlightAssumption DEF FlightInit, QuoteInv, FlightTypeOK, FreshEnough, AgeMax, SpentMax

\* A call that returns clears its own places alone.
LEMMA ReturnType ==
  ASSUME FlightTypeOK, NEW c \in Callers, Return(c)
  PROVE  /\ pc' = [pc EXCEPT ![c] = "idle"]
         /\ pc' \in [Callers -> {"idle", "miss", "poll", "fetch", "store", "release"}]
         /\ led' \in [Callers -> BOOLEAN]
         /\ spent' \in [Callers -> 0..SpentMax]
         /\ quoted' \in [Callers -> 0..FetchMax]
         /\ \A d \in Callers : d # c => quoted'[d] = quoted[d] /\ spent'[d] = spent[d]
  BY FlightAssumption DEF FlightTypeOK, Return, Goto, SpentMax

LEMMA NextQuotes == QuoteInv /\ [FlightNext]_flightVars => QuoteInv'
  <1> SUFFICES ASSUME QuoteInv, [FlightNext]_flightVars PROVE QuoteInv'
    OBVIOUS
  <1> USE FlightAssumption
  <1>1. CASE FlightTick
    <2>1. /\ entry' \in 0..EntryTtl /\ lock' \in 0..LockTtl
          /\ entry' = IF entry = 0 THEN 0 ELSE entry - 1
      BY <1>1 DEF QuoteInv, FlightTypeOK, FlightTick, Less1
    <2>2. quoteAge' \in 0..AgeMax /\ FreshEnough'
      BY <1>1, <2>1 DEF QuoteInv, FlightTypeOK, FreshEnough, FlightTick, AgeMax
    <2>3. /\ spent' \in [Callers -> 0..SpentMax]
          /\ \A c \in Callers : pc[c] = "store" => spent'[c] = spent[c] + 1 /\ spent[c] < FetchMax
      BY <1>1 DEF QuoteInv, FlightTypeOK, FlightTick, Flying, SpentMax
    <2>4. /\ quoted' \in [Callers -> 0..FetchMax]
          /\ \A c \in Callers : pc[c] = "store" => quoted'[c] = quoted[c] + 1
      BY <1>1 DEF QuoteInv, FlightTypeOK, FlightTick, Flying
    <2>. QED
      BY <1>1, <2>1, <2>2, <2>3, <2>4 DEF QuoteInv, FlightTypeOK, FlightTick
  <1>2. ASSUME NEW c \in Callers, Ask(c) PROVE QuoteInv'
    BY <1>2 DEF QuoteInv, FlightTypeOK, FreshEnough, Ask, Goto
  <1>3. ASSUME NEW c \in Callers, TryLock(c) PROVE QuoteInv'
    <2>1. /\ lock' \in 0..LockTtl /\ led' \in [Callers -> BOOLEAN]
          /\ UNCHANGED <<entry, quoteAge, quoted, prompt>>
      <3>1. \/ lock' = LockTtl /\ led' = [led EXCEPT ![c] = TRUE]
            \/ lock' = lock /\ led' = [led EXCEPT ![c] = FALSE]
        BY <1>3 DEF TryLock
      <3>2. led \in [Callers -> BOOLEAN] /\ lock \in 0..LockTtl
        BY DEF QuoteInv, FlightTypeOK
      <3>3. led' \in [Callers -> BOOLEAN]
        BY <3>1, <3>2
      <3>4. lock' \in 0..LockTtl
        BY <3>1, <3>2
      <3>. QED
        BY <1>3, <3>3, <3>4 DEF TryLock
    <2>2. /\ spent' = [spent EXCEPT ![c] = 0]
          /\ pc' = [pc EXCEPT ![c] = "fetch"] \/ pc' = [pc EXCEPT ![c] = "poll"]
      BY <1>3 DEF TryLock, StartClock, Goto
    <2>3. spent' \in [Callers -> 0..SpentMax]
      BY <2>2 DEF QuoteInv, FlightTypeOK, SpentMax
    <2>. QED
      BY <2>1, <2>2, <2>3 DEF QuoteInv, FlightTypeOK, FreshEnough
  <1>4. ASSUME NEW c \in Callers, Poll(c) PROVE QuoteInv'
    BY <1>4, ReturnType DEF QuoteInv, FlightTypeOK, FreshEnough, Poll
  <1>5. ASSUME NEW c \in Callers, GiveUp(c) PROVE QuoteInv'
    BY <1>5 DEF QuoteInv, FlightTypeOK, FreshEnough, GiveUp, Goto, StartClock, SpentMax
  <1>6. ASSUME NEW c \in Callers, Quote(c) PROVE QuoteInv'
    BY <1>6 DEF QuoteInv, FlightTypeOK, FreshEnough, Quote, Goto, Flying
  <1>7. ASSUME NEW c \in Callers, FetchFails(c) PROVE QuoteInv'
    <2>1. CASE Return(c)
      BY <1>7, <2>1, ReturnType DEF QuoteInv, FlightTypeOK, FreshEnough, FetchFails
    <2>2. CASE Goto(c, "release") /\ UNCHANGED <<led, spent, quoted>>
      BY <1>7, <2>2 DEF QuoteInv, FlightTypeOK, FreshEnough, FetchFails, Goto
    <2>. QED
      BY <1>7, <2>1, <2>2 DEF FetchFails, Leave
  <1>8. ASSUME NEW c \in Callers, StorePrice(c) PROVE QuoteInv'
    <2>1. CASE Return(c)
      BY <1>8, <2>1, ReturnType DEF QuoteInv, FlightTypeOK, FreshEnough, StorePrice, AgeMax
    <2>2. CASE Goto(c, "release") /\ UNCHANGED <<led, spent, quoted>>
      BY <1>8, <2>2 DEF QuoteInv, FlightTypeOK, FreshEnough, StorePrice, Goto, AgeMax
    <2>. QED
      BY <1>8, <2>1, <2>2 DEF StorePrice, Leave
  <1>9. ASSUME NEW c \in Callers, Release(c) PROVE QuoteInv'
    BY <1>9, ReturnType DEF QuoteInv, FlightTypeOK, FreshEnough, Release
  <1>10. CASE UNCHANGED flightVars
    BY <1>10 DEF QuoteInv, FlightTypeOK, FreshEnough, flightVars, caller
  <1>. QED
    BY <1>1, <1>2, <1>3, <1>4, <1>5, <1>6, <1>7, <1>8, <1>9, <1>10 DEF FlightNext, Step

\* The variables keep their bounds: nothing is cached for longer than its TTL,
\* and no call polls or fetches beyond its limits.
THEOREM FlightTypeCorrect == FlightSpec => []FlightTypeOK
  <1>1. QuoteInv => FlightTypeOK
    BY DEF QuoteInv
  <1>. QED
    BY <1>1, InitQuotes, NextQuotes, PTL DEF FlightSpec

\* get_or_fetch_domestic_price_detail: whoever stores the price, and however
\* late, a cached price is as old as its entry and one fetch at most.
THEOREM QuotesStayFresh == FlightSpec => []FreshEnough
  <1>1. QuoteInv => FreshEnough
    BY DEF QuoteInv
  <1>. QED
    BY <1>1, InitQuotes, NextQuotes, PTL DEF FlightSpec

\* While prompt, the leader is the only one who flies, its lock and the entry
\* it stored last it out, and whoever polls began after it.
LeaderInv ==
    prompt =>
      /\ \A c \in Flying : led[c] /\ spent[c] < PollTtl /\ lock = LockTtl - spent[c]
      /\ \A c, d \in Flying : c = d
      /\ lock > 0 => Flying # {}
      /\ \A c \in Callers : pc[c] = "release" => entry >= EntryTtl - spent[c]
      /\ \A c \in Callers : pc[c] = "poll" =>
           entry > 0 \/ \E d \in Fetching : spent[c] <= spent[d]

LEMMA InitLeader == FlightInit => LeaderInv
  BY DEF FlightInit, LeaderInv, Flying, Fetching

\* Who returns no longer flies; nobody else is touched.
LEMMA ReturnOf ==
  ASSUME FlightTypeOK, NEW c \in Callers, Return(c)
  PROVE  /\ Flying' = Flying \ {c} /\ Fetching' = Fetching \ {c}
         /\ \A d \in Callers : d # c => led'[d] = led[d] /\ spent'[d] = spent[d] /\ pc'[d] = pc[d]
         /\ pc'[c] = "idle"
  BY DEF FlightTypeOK, Return, Goto, Flying, Fetching

LEMMA NextLeader ==
  ASSUME PollTtl <= EntryTtl, FlightTypeOK, LeaderInv, [FlightNext]_flightVars
  PROVE  LeaderInv'
  <1> SUFFICES ASSUME prompt' PROVE LeaderInv'
    BY DEF LeaderInv
  <1> USE FlightAssumption
  <1>0. prompt
    BY DEF FlightNext, Step, flightVars, FlightTick, Ask, TryLock, Poll, GiveUp, Quote, FetchFails,
      StorePrice, Release, FlightTypeOK
  <1>a. /\ \A c \in Flying : led[c] /\ spent[c] \in Nat /\ spent[c] < PollTtl
             /\ lock = LockTtl - spent[c] /\ lock > 0
        /\ \A c, d \in Flying : c = d
        /\ lock > 0 => Flying # {}
        /\ \A c \in Callers : pc[c] = "release" => entry >= EntryTtl - spent[c] /\ entry > 0
        /\ \A c \in Callers : pc[c] = "poll" =>
             entry > 0 \/ \E d \in Fetching : spent[c] <= spent[d]
    BY <1>0 DEF LeaderInv, FlightTypeOK, Flying
  <1>b. Fetching \subseteq Flying /\ Flying \subseteq Callers
    BY DEF Fetching, Flying
  <1>1. CASE FlightTick
    <2>1. /\ Flying' = Flying /\ Fetching' = Fetching /\ pc' = pc /\ led' = led
      BY <1>1 DEF FlightTick, Flying, Fetching
    <2>2. /\ \A c \in Callers : pc[c] = "poll" \/ c \in Flying => spent'[c] = spent[c] + 1
          /\ \A c \in Flying : spent'[c] < PollTtl
          /\ entry' = (IF entry = 0 THEN 0 ELSE entry - 1)
               /\ lock' = (IF lock = 0 THEN 0 ELSE lock - 1)
          /\ \A c \in Callers : pc[c] = "poll" => entry = 0
      BY <1>1 DEF FlightTick, Less1, FlightTypeOK, Flying, SpentMax
    <2>3. \A c \in Flying : led'[c] /\ lock' = LockTtl - spent'[c]
      BY <1>a, <1>b, <2>1, <2>2 DEF FlightTypeOK
    <2>4. \A c \in Callers : pc[c] = "release" => c \in Flying /\ entry' >= EntryTtl - spent'[c]
      BY <1>a, <2>2 DEF FlightTypeOK, Flying
    <2>5. \A c \in Callers : pc[c] = "poll" => \E d \in Fetching : spent'[c] <= spent'[d]
      BY <1>a, <1>b, <2>2 DEF FlightTypeOK
    <2>6. lock' > 0 => Flying # {}
      BY <1>a, <2>2 DEF FlightTypeOK
    <2>. QED
      BY <1>a, <2>1, <2>2, <2>3, <2>4, <2>5, <2>6 DEF LeaderInv
  <1>2. ASSUME NEW c \in Callers, Ask(c) PROVE LeaderInv'
    BY <1>0, <1>2 DEF LeaderInv, Ask, Goto, Flying, Fetching, FlightTypeOK
  <1>3. ASSUME NEW c \in Callers, TryLock(c) PROVE LeaderInv'
    <2>0. c \notin Flying /\ c \notin Fetching /\ pc[c] = "miss"
      BY <1>3 DEF TryLock, Flying, Fetching
    <2>1. CASE lock = 0 /\ lock' = LockTtl /\ led' = [led EXCEPT ![c] = TRUE] /\ Goto(c, "fetch")
      <3>1. Flying = {}
        BY <1>a, <2>1
      <3>2. Flying' = {c} /\ Fetching' = {c}
        BY <1>b, <2>0, <2>1, <3>1 DEF Flying, Fetching, Goto, FlightTypeOK
      <3>3. led'[c] /\ spent'[c] = 0 /\ entry' = entry
        BY <1>3, <2>1 DEF TryLock, StartClock, FlightTypeOK
      <3>4. \A d \in Callers : d # c => pc'[d] = pc[d]
        BY <2>1 DEF Goto, FlightTypeOK
      <3>5. \A d \in Callers : pc[d] = "poll" => entry > 0
        BY <1>a, <1>b, <3>1
      <3>6. \A d \in Callers : pc'[d] \notin {"release"} /\ (pc'[d] = "poll" => entry' > 0)
        BY <3>1, <3>2, <3>3, <3>4, <3>5, <2>1 DEF Flying, Goto, FlightTypeOK
      <3>7. spent'[c] < PollTtl /\ lock' = LockTtl - spent'[c]
        BY <2>1, <3>3
      <3>. QED
        BY <3>2, <3>3, <3>6, <3>7 DEF LeaderInv
    <2>2. CASE lock > 0 /\ led' = [led EXCEPT ![c] = FALSE] /\ Goto(c, "poll") /\ UNCHANGED lock
      <3>1. Flying' = Flying /\ Fetching' = Fetching
        BY <2>0, <2>2 DEF Flying, Fetching, Goto, FlightTypeOK
      <3>2. /\ spent'[c] = 0 /\ entry' = entry
            /\ \A d \in Callers : d # c =>
                  pc'[d] = pc[d] /\ spent'[d] = spent[d] /\ led'[d] = led[d]
        BY <1>3, <2>2 DEF TryLock, StartClock, Goto, FlightTypeOK
      <3>3. PICK d \in Flying : TRUE
        BY <1>a, <2>2
      <3>4. pc[d] = "release" \/ d \in Fetching
        BY <1>b, <3>3 DEF Flying, Fetching
      <3>5. entry > 0 \/ (d \in Fetching /\ spent'[c] <= spent'[d])
        BY <1>a, <1>b, <2>0, <3>2, <3>3, <3>4
      <3>6. pc'[c] = "poll"
        BY <2>2 DEF Goto, FlightTypeOK
      <3>7. \A e \in Callers : pc'[e] = "poll" =>
               entry' > 0 \/ \E g \in Fetching' : spent'[e] <= spent'[g]
        BY <1>a, <1>b, <2>0, <3>1, <3>2, <3>5
      <3>8. \A e \in Callers : pc'[e] = "release" => entry' >= EntryTtl - spent'[e]
        BY <1>a, <3>2, <3>6
      <3>9. \A e \in Flying : led'[e] /\ spent'[e] < PollTtl /\ lock' = LockTtl - spent'[e]
        BY <1>a, <1>b, <2>0, <2>2, <3>2
      <3>. QED
        BY <1>a, <2>2, <3>1, <3>7, <3>8, <3>9 DEF LeaderInv
    <2>. QED
      BY <1>3, <2>1, <2>2 DEF TryLock
  <1>4. ASSUME NEW c \in Callers, Poll(c) PROVE LeaderInv'
    <2>1. c \notin Flying /\ c \notin Fetching /\ Return(c) /\ entry > 0
            /\ UNCHANGED <<entry, lock>>
      BY <1>4 DEF Poll, Flying, Fetching
    <2>. QED
      BY <1>a, <1>b, <2>1, ReturnOf DEF LeaderInv
  <1>5. ASSUME NEW c \in Callers, GiveUp(c) PROVE LeaderInv'
    <2>1. PICK d \in Fetching : spent[c] <= spent[d]
      BY <1>5, <1>a DEF GiveUp
    <2>2. spent[d] < PollTtl /\ spent[d] \in Nat /\ spent[c] \in Nat
      BY <1>a, <1>b, <2>1 DEF FlightTypeOK, SpentMax
    <2>. QED
      BY <1>5, <2>1, <2>2 DEF GiveUp
  <1>6. ASSUME NEW c \in Callers, Quote(c) PROVE LeaderInv'
    BY <1>0, <1>6 DEF LeaderInv, Quote, Goto, Flying, Fetching, FlightTypeOK
  <1>7. ASSUME NEW c \in Callers, FetchFails(c) PROVE LeaderInv'
    BY <1>7 DEF FetchFails
  <1>8. ASSUME NEW c \in Callers, StorePrice(c) PROVE LeaderInv'
    <2>1. c \in Flying /\ c \in Fetching /\ led[c]
      BY <1>8, <1>a DEF StorePrice, Flying, Fetching
    <2>2. pc' = [pc EXCEPT ![c] = "release"] /\ UNCHANGED <<led, spent, lock>> /\ entry' = EntryTtl
      BY <1>8, <2>1 DEF StorePrice, Leave, Goto
    <2>3. Flying' = Flying /\ \A d \in Callers : pc'[d] = "release" => d = c \/ pc[d] = "release"
      BY <2>1, <2>2 DEF Flying, FlightTypeOK
    <2>4. \A d \in Callers : pc'[d] = "release" => d \in Flying
      BY <2>3 DEF Flying
    <2>. QED
      BY <1>a, <2>2, <2>3, <2>4 DEF LeaderInv
  <1>9. ASSUME NEW c \in Callers, Release(c) PROVE LeaderInv'
    <2>1. /\ c \in Flying /\ Return(c) /\ lock' = 0 /\ entry' = entry /\ entry > 0
      BY <1>9, <1>a DEF Release, Flying
    <2>2. Flying' = {}
      BY <1>a, <2>1, ReturnOf
    <2>3. \A d \in Callers : pc'[d] # "release"
      BY <2>2 DEF Flying
    <2>. QED
      BY <2>1, <2>2, <2>3 DEF LeaderInv
  <1>10. CASE UNCHANGED flightVars
    BY <1>10, <1>0 DEF LeaderInv, flightVars, caller, Flying, Fetching
  <1>. QED
    BY <1>1, <1>2, <1>3, <1>4, <1>5, <1>6, <1>7, <1>8, <1>9, <1>10 DEF FlightNext, Step

\* While fetches succeed in good time, KIS sees one of them at a time, however
\* many callers miss.  An entry must outlive the polling (60 and 300 seconds
\* against 3): else a follower can find the leader's entry gone again.
THEOREM OneLeader ==
  ASSUME PollTtl <= EntryTtl
  PROVE  FlightSpec => []OneAtATime
  <1>1. QuoteInv /\ LeaderInv /\ [FlightNext]_flightVars => LeaderInv'
    BY NextLeader DEF QuoteInv
  <1>2. LeaderInv => OneAtATime
    <2> SUFFICES ASSUME LeaderInv, prompt PROVE Cardinality(Fetching) <= 1
      BY DEF OneAtATime
    <2>1. CASE Fetching = {}
      BY <2>1, FS_EmptySet
    <2>2. ASSUME NEW c \in Fetching PROVE Fetching = {c}
      BY <2>2 DEF LeaderInv, Fetching, Flying
    <2>3. ASSUME NEW c \in Fetching PROVE Cardinality(Fetching) = 1
      BY <2>2, <2>3, FS_Singleton
    <2>. QED
      BY <2>1, <2>3
  <1>. QED
    BY <1>1, <1>2, InitQuotes, NextQuotes, InitLeader, PTL DEF FlightSpec
==============================================================================
