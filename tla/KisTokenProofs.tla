--------------------------- MODULE KisTokenProofs ---------------------------
(***************************************************************************)
(* Theorems about KisToken, for every set of callers and every number of   *)
(* tokens.                                                                 *)
(***************************************************************************)
EXTENDS KisToken, TLAPS, FiniteSetTheorems

Places == Issuing \cup {"idle", "look", "evict", "lock", "using", "invalidate"}

-----------------------------------------------------------------------------
(***************************************************************************)
(* Types, and the lock.                                                    *)
(***************************************************************************)

\* The functions over callers and stores keep their types when one is moved.
LEMMA PlaceWrite ==
  ASSUME pc \in [Callers -> Places], NEW c \in Callers, NEW p \in Places
  PROVE  [pc EXCEPT ![c] = p] \in [Callers -> Places]
  OBVIOUS

LEMMA CacheDelete ==
  ASSUME cache \in [Stores -> 0..issued], issued \in Nat
  PROVE  [cache EXCEPT ![Store] = 0] \in [Stores -> 0..issued]
  BY DEF Stores, Store

\* What names tokens goes on naming tokens when there are more.
LEMMA MoreTokens ==
  ASSUME issued \in Nat, issued' \in {issued, issued + 1}, NEW S
  PROVE  /\ 0..issued \subseteq 0..issued'
         /\ [S -> 0..issued] \subseteq [S -> 0..issued']
  OBVIOUS

\* Leaving the lock at its head, and standing in line for it.
LEMMA LineMoves ==
  ASSUME line \in Seq(Callers), NEW c \in Callers
  PROVE  /\ Append(line, c) \in Seq(Callers)
         /\ line # <<>> => Tail(line) \in Seq(Callers)
         /\ line # <<>> => Head(Append(line, c)) = Head(line) /\ Append(line, c) # <<>>
  OBVIOUS

LEMMA InitTypeOK == Init => TypeOK
  BY TokenAssumption DEF Init, TypeOK, HolderLeads, Leads, Stores, Issuing

LEMMA NextTypeOK == TypeOK /\ [Next]_vars => TypeOK'
  <1> SUFFICES ASSUME TypeOK, [Next]_vars PROVE TypeOK'
    OBVIOUS
  <1> USE TokenAssumption DEF kisState, redis, Leads
  <1>0. /\ issued \in Nat /\ MaxIssued \in Nat /\ stale \in Nat /\ issued <= MaxIssued
        /\ stale <= issued
        /\ pc \in [Callers -> Places] /\ line \in Seq(Callers)
        /\ cache \in [Stores -> 0..issued] /\ got \in [Callers -> 0..issued]
        /\ retried \in [Callers -> BOOLEAN] /\ up \in BOOLEAN /\ steady \in BOOLEAN
        /\ (steady => up)
        /\ refused \subseteq 0..issued /\ dropped \subseteq 0..issued
    BY DEF TypeOK, Places
  <1>1. CASE Age
    <2>1. stale' \in 0..issued'
      BY <1>0, <1>1 DEF Age
    <2>. QED
      BY <1>1, <2>1 DEF Age, TypeOK, HolderLeads
  <1>2. ASSUME NEW s \in Stores, EntryExpires(s) PROVE TypeOK'
    <2>1. cache' \in [Stores -> 0..issued']
      BY <1>0, <1>2 DEF EntryExpires
    <2>. QED
      BY <1>2, <2>1 DEF EntryExpires, TypeOK, HolderLeads
  <1>3. CASE RedisToggles
    BY <1>3 DEF RedisToggles, TypeOK, HolderLeads
  <1>4. ASSUME NEW c \in Callers, Ask(c) PROVE TypeOK'
    <2>1. pc' \in [Callers -> Places]
      BY <1>0, <1>4, PlaceWrite DEF Ask, Goto, Places
    <2>2. HolderLeads'
      BY <1>0, <1>4 DEF Ask, Goto, TypeOK, HolderLeads, Issuing
    <2>. QED
      BY <1>4, <2>1, <2>2 DEF Ask, TypeOK, Places
  <1>5. ASSUME NEW c \in Callers, Look(c) PROVE TypeOK'
    <2>1. pc' \in [Callers -> Places]
      BY <1>0, <1>5, PlaceWrite DEF Look, Hand, Goto, Places
    <2>2. got' \in [Callers -> 0..issued]
      BY <1>0, <1>5 DEF Look, Hand, Cached, Store, Stores
    <2>3. line' \in Seq(Callers)
      BY <1>0, <1>5, LineMoves DEF Look
    <2>4. \A d \in Callers : pc'[d] \in Issuing => d # c /\ pc[d] \in Issuing
      BY <1>0, <1>5 DEF Look, Hand, Goto, Issuing
    <2>5. line # <<>> => line' # <<>> /\ Head(line') = Head(line)
      <3>1. line' = line \/ line' = Append(line, c)
        BY <1>5 DEF Look
      <3>2. line # <<>> => Append(line, c) # <<>> /\ Head(Append(line, c)) = Head(line)
        BY <1>0, LineMoves
      <3>. QED
        BY <3>1, <3>2
    <2>6. HolderLeads'
      BY <2>4, <2>5 DEF TypeOK, HolderLeads
    <2>. QED
      BY <1>5, <2>1, <2>2, <2>3, <2>6 DEF Look, TypeOK, Places
  <1>6. ASSUME NEW c \in Callers, Evict(c) PROVE TypeOK'
    <2>1. pc' \in [Callers -> Places]
      BY <1>0, <1>6, PlaceWrite DEF Evict, Goto, Places
    <2>2. cache' \in [Stores -> 0..issued]
      BY <1>0, <1>6, CacheDelete DEF Evict, Delete
    <2>3. line' \in Seq(Callers) /\ (line # <<>> => line' # <<>> /\ Head(line') = Head(line))
      BY <1>0, <1>6, LineMoves DEF Evict
    <2>4. \A d \in Callers : pc'[d] \in Issuing => d # c /\ pc[d] \in Issuing
      BY <1>0, <1>6 DEF Evict, Goto, Issuing
    <2>5. HolderLeads'
      BY <2>3, <2>4 DEF TypeOK, HolderLeads
    <2>. QED
      BY <1>6, <2>1, <2>2, <2>3, <2>5 DEF Evict, TypeOK, Places
  <1>7. ASSUME NEW c \in Callers, Recheck(c) PROVE TypeOK'
    <2>1. pc' \in [Callers -> Places]
      BY <1>0, <1>7, PlaceWrite DEF Recheck, Hand, Goto, Places, Issuing
    <2>2. got' \in [Callers -> 0..issued]
      BY <1>0, <1>7 DEF Recheck, Hand, Cached, Store, Stores
    <2>3. line' \in Seq(Callers)
      BY <1>0, <1>7, LineMoves DEF Recheck
    <2>4. ASSUME NEW d \in Callers, pc'[d] \in Issuing PROVE d = c /\ line' = line
      <3>1. d # c => pc[d] \in Issuing
        BY <1>0, <1>7, <2>4 DEF Recheck, Hand, Goto
      <3>2. d = c
        BY <1>7, <3>1 DEF Recheck, TypeOK, HolderLeads
      <3>3. line' = line
        BY <1>0, <1>7, <2>4, <3>2 DEF Recheck, Hand, Goto, Issuing
      <3>. QED
        BY <3>2, <3>3
    <2>5. HolderLeads'
      BY <1>7, <2>4 DEF Recheck, HolderLeads
    <2>. QED
      BY <1>7, <2>1, <2>2, <2>3, <2>5 DEF Recheck, TypeOK, Places
  <1>8. ASSUME NEW c \in Callers, EvictLocked(c) PROVE TypeOK'
    <2>1. pc' \in [Callers -> Places]
      BY <1>0, <1>8, PlaceWrite DEF EvictLocked, Goto, Places, Issuing
    <2>2. cache' \in [Stores -> 0..issued]
      BY <1>0, <1>8, CacheDelete DEF EvictLocked, Delete
    <2>3. HolderLeads'
      BY <1>0, <1>8 DEF EvictLocked, Goto, TypeOK, HolderLeads, Issuing
    <2>. QED
      BY <1>8, <2>1, <2>2, <2>3 DEF EvictLocked, TypeOK, Places
  <1>9. ASSUME NEW c \in Callers, Issue(c) PROVE TypeOK'
    <2>1. issued' = issued + 1 /\ issued' \in 0..MaxIssued
      BY <1>0, <1>9 DEF Issue
    <2>2. /\ stale' \in 0..issued' /\ refused' \subseteq 0..issued'
          /\ dropped' \subseteq 0..issued' /\ cache' \in [Stores -> 0..issued']
      BY <1>0, <1>9, <2>1, MoreTokens DEF Issue
    <2>3. got' \in [Callers -> 0..issued']
      BY <1>0, <1>9, <2>1 DEF Issue
    <2>4. pc' \in [Callers -> Places]
      BY <1>0, <1>9, PlaceWrite DEF Issue, Goto, Places, Issuing
    <2>5. HolderLeads'
      BY <1>0, <1>9 DEF Issue, Goto, TypeOK, HolderLeads, Issuing
    <2>. QED
      BY <1>9, <2>1, <2>2, <2>3, <2>4, <2>5 DEF Issue, TypeOK, Places
  <1>10. ASSUME NEW c \in Callers, IssueFails(c) \/ IssueLost(c) \/ Put(c) PROVE TypeOK'
    <2>1. /\ pc[c] \in Issuing
          /\ line' = Tail(line)
          /\ \E p \in {"idle", "using"} : pc' = [pc EXCEPT ![c] = p]
          /\ UNCHANGED <<stale, refused, redis, got, retried>>
          /\ dropped' \in {dropped, dropped \cup {issued'}}
      BY <1>10 DEF IssueFails, IssueLost, Put, Goto, Issuing
    <2>2. pc' \in [Callers -> Places]
      BY <1>0, <2>1, PlaceWrite DEF Places
    <2>3. line' \in Seq(Callers)
      BY <1>0, <2>1, LineMoves DEF TypeOK, HolderLeads
    <2>4. HolderLeads'
      <3>1. ASSUME NEW d \in Callers, pc'[d] \in Issuing PROVE FALSE
        <4>1. d # c /\ pc[d] \in Issuing
          BY <1>0, <2>1, <3>1 DEF Issuing
        <4>. QED
          BY <2>1, <4>1 DEF TypeOK, HolderLeads
      <3>. QED
        BY <3>1 DEF HolderLeads
    <2>5. /\ issued' \in 0..MaxIssued /\ issued' \in {issued, issued + 1}
          /\ cache' \in [Stores -> 0..issued']
      <3>1. CASE IssueFails(c)
        BY <1>0, <3>1 DEF IssueFails
      <3>2. CASE IssueLost(c)
        BY <1>0, <3>2, MoreTokens DEF IssueLost
      <3>3. CASE Put(c)
        <4>1. got[c] \in 0..issued
          BY <1>0
        <4>. QED
          <5>1. issued' = issued /\ cache' = [cache EXCEPT ![Store] = got[c]]
            BY <3>3 DEF Put
          <5>2. cache' \in [Stores -> 0..issued]
            BY <1>0, <4>1, <5>1
          <5>. QED
            BY <1>0, <5>1, <5>2
      <3>. QED
        BY <1>10, <3>1, <3>2, <3>3
    <2>6. /\ stale' \in 0..issued' /\ refused' \subseteq 0..issued'
          /\ dropped' \subseteq 0..issued' /\ got' \in [Callers -> 0..issued']
      BY <1>0, <2>1, <2>5, MoreTokens
    <2>. QED
      BY <1>0, <2>1, <2>2, <2>3, <2>4, <2>5, <2>6 DEF TypeOK, Places
  <1>11. ASSUME NEW c \in Callers, Served(c) \/ Refused(c) \/ Invalidate(c) PROVE TypeOK'
    <2>1. /\ pc[c] \in {"using", "invalidate"}
          /\ \E p \in {"idle", "invalidate", "look"} : pc' = [pc EXCEPT ![c] = p]
          /\ UNCHANGED <<issued, stale, redis, line, got>>
          /\ refused' \in {refused, refused \cup {got[c]}}
          /\ dropped' \in {dropped, dropped \cup {got[c]}}
      BY <1>11 DEF Served, Refused, Invalidate, Goto
    <2>2. pc' \in [Callers -> Places]
      BY <1>0, <2>1, PlaceWrite DEF Places
    <2>3. HolderLeads'
      BY <1>0, <2>1 DEF TypeOK, HolderLeads, Issuing
    <2>4. cache' \in [Stores -> 0..issued]
      BY <1>0, <1>11, CacheDelete DEF Served, Refused, Invalidate, Delete
    <2>5. retried' \in [Callers -> BOOLEAN]
      BY <1>0, <1>11 DEF Served, Refused, Invalidate
    <2>6. got[c] \in 0..issued
      BY <1>0
    <2>. QED
      BY <1>0, <2>1, <2>2, <2>3, <2>4, <2>5, <2>6 DEF TypeOK, Places
  <1>12. CASE UNCHANGED vars
    BY <1>12 DEF vars, TypeOK, HolderLeads
  <1>. QED
    BY <1>1, <1>2, <1>3, <1>4, <1>5, <1>6, <1>7, <1>8, <1>9, <1>10, <1>11, <1>12
    DEF Next, Step

\* Every table and every caller keeps its type, and whoever issues leads the line.
THEOREM TypeCorrect == Spec => []TypeOK
  <1>. QED
    BY InitTypeOK, NextTypeOK, PTL DEF Spec

LEMMA LeadsAlone == TypeOK => OneIssuer
  <1> SUFFICES ASSUME TypeOK PROVE OneIssuer
    OBVIOUS
  <1> DEFINE Holders == {c \in Callers : pc[c] \in Issuing}
  <1>1. CASE Holders = {}
    BY <1>1, FS_EmptySet DEF OneIssuer
  <1>2. ASSUME NEW c \in Holders PROVE OneIssuer
    <2>1. Holders = {c}
      <3>1. \A d \in Holders : d = Head(line)
        BY DEF TypeOK, HolderLeads, Leads
      <3>. QED
        BY <1>2, <3>1
    <2>2. Cardinality({c}) = 1
      BY FS_Singleton
    <2>. QED
      BY <2>1, <2>2 DEF OneIssuer
  <1>. QED
    BY <1>1, <1>2

\* The per-key lock lets one issuance through at a time, for any number of
\* callers, whatever Redis and KIS do (kis_token.py, lines 94 to 107).
THEOREM OneAtATime == Spec => []OneIssuer
  <1>. QED
    BY TypeCorrect, LeadsAlone, PTL

-----------------------------------------------------------------------------
(***************************************************************************)
(* No token inside its rotation buffer is handed out.                      *)
(***************************************************************************)

\* What has been issued and not yet stored is still good.
NewIsGood == \A c \in Callers : pc[c] = "store" => Valid(got[c])

LEMMA NextNewIsGood == TypeOK /\ NewIsGood /\ [Next]_vars => NewIsGood'
  <1> SUFFICES ASSUME TypeOK, NewIsGood, [Next]_vars,
                      NEW c \in Callers, pc'[c] = "store"
               PROVE  got'[c] > stale'
    BY DEF NewIsGood, Valid
  <1> USE DEF kisState, redis
  <1>0. issued \in Nat /\ stale \in Nat /\ stale <= issued
        /\ pc \in [Callers -> Places] /\ got \in [Callers -> 0..issued]
    BY TokenAssumption DEF TypeOK, Places
  <1>1. CASE Age
    BY <1>0, <1>1 DEF Age, NewIsGood, Valid
  <1>2. CASE \/ RedisToggles \/ UNCHANGED vars
             \/ \E s \in Stores : EntryExpires(s)
    BY <1>2 DEF RedisToggles, EntryExpires, vars, NewIsGood, Valid
  <1>3. ASSUME NEW d \in Callers, Issue(d) PROVE got'[c] > stale'
    <2>1. CASE d = c
      BY <1>0, <1>3, <2>1 DEF Issue
    <2>2. CASE d # c
      BY <1>0, <1>3, <2>2 DEF Issue, Goto, NewIsGood, Valid
    <2>. QED
      BY <2>1, <2>2
  <1>4. ASSUME NEW d \in Callers, Ask(d) \/ Step(d), ~Issue(d) PROVE got'[c] > stale'
    <2>1. \E p \in Places \ {"store"} : pc' = [pc EXCEPT ![d] = p]
      BY <1>4 DEF Ask, Step, Look, Evict, Recheck, EvictLocked, IssueFails, IssueLost,
                  Put, Served, Refused, Invalidate, Hand, Goto, Places, Issuing
    <2>2. d # c /\ pc[c] = "store"
      BY <1>0, <2>1
    <2>3. stale' = stale /\ got'[c] = got[c]
      BY <1>0, <1>4, <2>2 DEF Ask, Step, Look, Evict, Recheck, EvictLocked, IssueFails,
                              IssueLost, Put, Served, Refused, Invalidate, Hand
    <2>. QED
      BY <2>2, <2>3 DEF NewIsGood, Valid
  <1>. QED
    BY <1>1, <1>2, <1>3, <1>4 DEF Next, Step

\* A step that hands out a token gives the one in the cache, if it is good, or
\* the one just stored.
LEMMA Handing ==
  ASSUME TypeOK, [Next]_vars, NEW c \in Callers, pc'[c] = "using", pc[c] # "using"
  PROVE  \/ got'[c] = Cached /\ Valid(Cached)
         \/ Put(c) /\ got'[c] = got[c]
  <1>0. pc \in [Callers -> Places]
    BY DEF TypeOK, Places
  <1>0a. got \in [Callers -> 0..issued]
    BY DEF TypeOK
  <1>1. ASSUME NEW d \in Callers, Look(d) \/ Recheck(d)
        PROVE  got'[c] = Cached /\ Valid(Cached)
    <2>1. CASE Look(d)
      BY <1>0, <1>0a, <2>1 DEF Look, Hand, Goto
    <2>2. CASE Recheck(d)
      BY <1>0, <1>0a, <2>2 DEF Recheck, Hand, Goto
    <2>. QED
      BY <1>1, <2>1, <2>2
  <1>2. ASSUME NEW d \in Callers, Put(d) PROVE Put(c) /\ got'[c] = got[c]
    BY <1>0, <1>2 DEF Put, Goto
  <1>3. ASSUME NEW d \in Callers,
               \/ Ask(d) \/ Evict(d) \/ EvictLocked(d) \/ Issue(d) \/ IssueFails(d)
               \/ IssueLost(d) \/ Served(d) \/ Refused(d) \/ Invalidate(d)
        PROVE  FALSE
    <2>1. \E p \in Places \ {"using"} : pc' = [pc EXCEPT ![d] = p]
      BY <1>3 DEF Ask, Evict, EvictLocked, Issue, IssueFails, IssueLost, Served, Refused,
                  Invalidate, Goto, Places, Issuing
    <2>. QED
      BY <1>0, <2>1
  <1>4. CASE \/ Age \/ RedisToggles \/ UNCHANGED vars
             \/ \E s \in Stores : EntryExpires(s)
    BY <1>4 DEF Age, RedisToggles, EntryExpires, vars
  <1>. QED
    BY <1>1, <1>2, <1>3, <1>4 DEF Next, Step

\* No caller is ever handed a token inside its rotation buffer, whatever Redis
\* brings back and however long an entry outlives its TTL.
THEOREM NeverStale == Spec => HandsOutValid
  <1>1. Init => NewIsGood
    BY DEF Init, NewIsGood
  <1>2. ASSUME TypeOK, NewIsGood, [Next]_vars
        PROVE  [\A c \in Callers : Handed(c) => got'[c] > stale]_vars
    <2>1. ASSUME NEW c \in Callers, pc'[c] = "using", pc[c] # "using"
          PROVE  got'[c] > stale
      <3>1. CASE got'[c] = Cached /\ Valid(Cached)
        BY <3>1 DEF Valid
      <3>2. CASE Put(c) /\ got'[c] = got[c]
        BY <1>2, <3>2 DEF Put, NewIsGood, Valid
      <3>. QED
        BY <1>2, <2>1, <3>1, <3>2, Handing
    <2>. QED
      BY <2>1 DEF Handed
  <1>. QED
    BY <1>1, <1>2, TypeCorrect, NextNewIsGood, PTL DEF Spec, HandsOutValid

-----------------------------------------------------------------------------
(***************************************************************************)
(* While Redis answers, an invalidated token is gone.                      *)
(***************************************************************************)
OneOwner(c) ==
    /\ got[c] \notin dropped
    /\ cache["redis"] # got[c]
    /\ \A d \in Callers \ {c} : got[d] # got[c]

DroppedInv ==
    /\ cache["redis"] # 0 => cache["redis"] \notin dropped
    /\ \A c \in Callers : pc[c] = "store" => OneOwner(c)

LEMMA NextDroppedInv ==
  ASSUME steady, TypeOK, NewIsGood, DroppedInv, [Next]_vars
  PROVE  DroppedInv'
  <1> USE DEF kisState, redis
  <1>0. /\ issued \in Nat /\ stale \in Nat /\ stale <= issued
        /\ pc \in [Callers -> Places] /\ got \in [Callers -> 0..issued]
        /\ cache \in [Stores -> 0..issued] /\ dropped \subseteq 0..issued
        /\ up /\ Store = "redis" /\ Cached = cache["redis"] /\ "redis" \in Stores
    BY TokenAssumption DEF TypeOK, Places, Store, Cached, Stores
  <1>1. CASE Age \/ RedisToggles \/ UNCHANGED vars
    BY <1>1 DEF Age, RedisToggles, vars, DroppedInv, OneOwner
  <1>2. ASSUME NEW s \in Stores, EntryExpires(s) PROVE DroppedInv'
    <2>1. cache'["redis"] \in {cache["redis"], 0}
      BY <1>0, <1>2 DEF EntryExpires
    <2>2. \A c \in Callers : pc[c] = "store" => got[c] # 0
      BY <1>0 DEF NewIsGood, Valid
    <2>. QED
      BY <1>2, <2>1, <2>2 DEF EntryExpires, DroppedInv, OneOwner
  <1>3. ASSUME NEW d \in Callers, Issue(d) PROVE DroppedInv'
    <2>1. got' = [got EXCEPT ![d] = issued + 1] /\ UNCHANGED <<up, cache, dropped>>
      BY <1>3 DEF Issue
    <2>2. got'[d] = issued + 1 /\ issued + 1 \notin dropped
          /\ cache["redis"] # issued + 1 /\ \A c \in Callers : got[c] # issued + 1
      BY <1>0, <2>1
    <2>3. ASSUME NEW c \in Callers, pc'[c] = "store" PROVE OneOwner(c)'
      <3>1. CASE c = d
        BY <1>0, <2>1, <2>2, <3>1 DEF OneOwner
      <3>2. CASE c # d
        <4>1. pc[c] = "store"
          BY <1>0, <1>3, <2>3, <3>2 DEF Issue, Goto
        <4>. QED
          BY <1>0, <2>1, <2>2, <3>2, <4>1 DEF DroppedInv, OneOwner
      <3>. QED
        BY <3>1, <3>2
    <2>. QED
      BY <2>1, <2>3 DEF DroppedInv
  <1>4. ASSUME NEW d \in Callers, Look(d) \/ Recheck(d) PROVE DroppedInv'
    <2>1. /\ UNCHANGED <<up, cache, dropped>>
          /\ got' = got \/ (got' = [got EXCEPT ![d] = Cached] /\ pc[d] # "store")
          /\ \E p \in Places \ {"store"} : pc' = [pc EXCEPT ![d] = p]
      BY <1>4 DEF Look, Recheck, Hand, Goto, Places, Issuing
    <2>2. ASSUME NEW c \in Callers, pc'[c] = "store" PROVE OneOwner(c)'
      <3>1. c # d /\ pc[c] = "store" /\ OneOwner(c)
        BY <1>0, <2>1, <2>2 DEF DroppedInv
      <3>2. got'[c] = got[c] /\ got'[d] # got[c]
        BY <1>0, <2>1, <3>1 DEF OneOwner
      <3>3. \A e \in Callers \ {c} : got'[e] # got[c]
        BY <1>0, <2>1, <3>1, <3>2 DEF OneOwner
      <3>. QED
        BY <2>1, <3>1, <3>2, <3>3 DEF OneOwner
    <2>. QED
      BY <2>1, <2>2 DEF DroppedInv
  <1>5. ASSUME NEW d \in Callers, Put(d) PROVE DroppedInv'
    <2>1. /\ pc[d] = "store" /\ pc' = [pc EXCEPT ![d] = "using"]
          /\ cache' = [cache EXCEPT !["redis"] = got[d]]
          /\ UNCHANGED <<up, dropped, got>>
      BY <1>0, <1>5 DEF Put, Goto
    <2>2. \A c \in Callers : pc'[c] # "store"
      <3>1. ASSUME NEW c \in Callers, pc[c] = "store" PROVE c = d
        BY <2>1, <3>1 DEF TypeOK, HolderLeads, Leads, Issuing
      <3>. QED
        BY <1>0, <2>1, <3>1
    <2>3. cache'["redis"] = got[d] /\ got[d] \notin dropped
      BY <1>0, <2>1 DEF DroppedInv, OneOwner
    <2>. QED
      BY <1>0, <2>1, <2>2, <2>3 DEF DroppedInv
  <1>6. ASSUME NEW d \in Callers,
               \/ Ask(d) \/ Evict(d) \/ EvictLocked(d) \/ IssueFails(d)
               \/ Served(d) \/ Refused(d) \/ Invalidate(d)
        PROVE  DroppedInv'
    <2>1. /\ UNCHANGED <<up, got>>
          /\ pc[d] # "store"
          /\ \E p \in Places \ {"store"} : pc' = [pc EXCEPT ![d] = p]
          /\ \/ UNCHANGED <<cache, dropped>>
             \/ Delete /\ dropped' \in {dropped, dropped \cup {got[d]}}
      BY <1>6 DEF Ask, Evict, EvictLocked, IssueFails, Served, Refused,
                  Invalidate, Goto, Places, Issuing
    <2>2. \/ UNCHANGED <<cache, dropped>>
          \/ cache'["redis"] = 0 /\ dropped' \in {dropped, dropped \cup {got[d]}}
      BY <1>0, <2>1 DEF Delete
    <2>3. ASSUME NEW c \in Callers, pc'[c] = "store" PROVE OneOwner(c)'
      <3>1. c # d /\ pc[c] = "store" /\ OneOwner(c) /\ got[c] # 0
        BY <1>0, <2>1, <2>3 DEF DroppedInv, NewIsGood, Valid
      <3>. QED
        BY <2>1, <2>2, <3>1 DEF OneOwner
    <2>. QED
      BY <1>0, <2>1, <2>2, <2>3 DEF DroppedInv
  <1>7. ASSUME NEW d \in Callers, IssueLost(d) PROVE DroppedInv'
    <2>1. /\ UNCHANGED <<cache, got>>
          /\ dropped' = dropped \cup {issued + 1}
          /\ pc[d] = "issue" /\ pc' = [pc EXCEPT ![d] = "idle"]
      BY <1>7 DEF IssueLost, Goto
    <2>2. \A c \in Callers : pc'[c] # "store"
      <3>1. ASSUME NEW c \in Callers, pc[c] = "store" PROVE FALSE
        BY <2>1, <3>1 DEF TypeOK, HolderLeads, Leads, Issuing
      <3>. QED
        BY <1>0, <2>1, <3>1
    <2>. QED
      BY <1>0, <2>1, <2>2 DEF DroppedInv
  <1>. QED
    BY <1>1, <1>2, <1>3, <1>4, <1>5, <1>6, <1>7 DEF Next, Step

\* While Redis answers, a token that invalidate_kis_token dropped is handed to
\* nobody again, for any number of callers and tokens.
THEOREM DroppedAlways == Spec => DroppedStaysOut
  <1>1. Init => NewIsGood /\ (steady => DroppedInv)
    BY DEF Init, NewIsGood, DroppedInv, Stores
  <1>2. ASSUME TypeOK, NewIsGood, steady => DroppedInv, [Next]_vars
        PROVE  NewIsGood' /\ (steady => DroppedInv)'
    <2>1. steady' = steady
      BY <1>2 DEF Next, Step, Age, EntryExpires, RedisToggles, Ask, Look, Evict, Recheck,
                  EvictLocked, Issue, IssueFails, IssueLost, Put, Served, Refused,
                  Invalidate, vars, redis
    <2>. QED
      BY <1>2, <2>1, NextNewIsGood, NextDroppedInv
  <1>3. ASSUME TypeOK, NewIsGood, steady => DroppedInv, [Next]_vars
        PROVE  [steady => \A c \in Callers : Handed(c) => got'[c] \notin dropped]_vars
    <2>1. ASSUME steady, NEW c \in Callers, Handed(c) PROVE got'[c] \notin dropped
      <3>1. CASE got'[c] = Cached /\ Valid(Cached)
        <4>1. Cached = cache["redis"] /\ Cached # 0
          BY <1>3, <2>1, <3>1 DEF Cached, Store, Valid, TypeOK
        <4>. QED
          BY <1>3, <2>1, <3>1, <4>1 DEF DroppedInv
      <3>2. CASE Put(c) /\ got'[c] = got[c]
        BY <1>3, <2>1, <3>2 DEF Put, DroppedInv, OneOwner
      <3>. QED
        BY <1>3, <2>1, <3>1, <3>2, Handing DEF Handed
    <2>. QED
      BY <2>1
  <1>. QED
    BY <1>1, <1>2, <1>3, TypeCorrect, PTL DEF Spec, DroppedStaysOut

-----------------------------------------------------------------------------
(***************************************************************************)
(* One token for all who find the cache empty.                             *)
(***************************************************************************)
Cold == steady /\ stale = 0 /\ dropped = {}

\* Nothing is evicted, and the first token is on its way to the cache or in it before
\* anybody else may issue.
ColdInv ==
    /\ issued <= 1
    /\ \A c \in Callers : pc[c] \notin {"evict", "evictLocked"}
    /\ \A c \in Callers : pc[c] = "issue" => issued = 0
    /\ \A c \in Callers : pc[c] = "store" => got[c] = 1
    /\ issued = 1 => cache["redis"] = 1 \/ \E c \in Callers : pc[c] = "store"

LEMMA ColdBefore == TypeOK /\ [Next]_vars /\ Cold' => Cold
  <1> SUFFICES ASSUME TypeOK, [Next]_vars, Cold' PROVE Cold
    OBVIOUS
  <1>1. steady' = steady /\ (stale' = stale \/ Age) /\ dropped \subseteq dropped'
    BY DEF Next, Step, Age, EntryExpires, RedisToggles, Ask, Look, Evict, Recheck, EvictLocked,
           Issue, IssueFails, IssueLost, Put, Served, Refused, Invalidate, vars, redis, kisState
  <1>2. ~Age
    <2>1. stale \in Nat
      BY TokenAssumption DEF TypeOK
    <2>. QED
      BY <2>1 DEF Age, Cold
  <1>. QED
    BY <1>1, <1>2 DEF Cold

LEMMA NextColdInv ==
  ASSUME TypeOK, Cold, ColdInv, [Next]_vars, Cold'
  PROVE  ColdInv'
  <1> USE DEF kisState, redis
  <1>0. /\ issued \in Nat /\ stale = 0 /\ dropped = {} /\ steady
        /\ pc \in [Callers -> Places] /\ got \in [Callers -> 0..issued]
        /\ cache \in [Stores -> 0..issued] /\ "redis" \in Stores
        /\ Store = "redis" /\ Cached = cache["redis"] /\ Cached \in Nat
        /\ Valid(Cached) <=> Cached # 0
    <2>1. /\ issued \in Nat /\ cache \in [Stores -> 0..issued] /\ "redis" \in Stores
          /\ Store = "redis" /\ Cached = cache["redis"]
      BY TokenAssumption DEF TypeOK, Cold, Store, Cached, Stores
    <2>2. Cached \in Nat
      BY <2>1
    <2>. QED
      BY <2>1, <2>2 DEF TypeOK, Cold, Places, Valid
  <1>1. CASE Age \/ RedisToggles \/ UNCHANGED vars
    BY <1>1 DEF Age, RedisToggles, vars, ColdInv
  <1>2. ASSUME NEW s \in Stores, EntryExpires(s) PROVE ColdInv'
    <2>1. cache[s] \in Nat /\ cache[s] # 0 /\ ~(cache[s] > 0)
      BY <1>0, <1>2 DEF EntryExpires, Valid
    <2>. QED
      BY <2>1
  <1>3. \A c, d \in Callers : pc[c] \in Issuing /\ pc[d] \in Issuing \cup {"lock"} /\ Leads(d) => c = d
    BY DEF TypeOK, HolderLeads, Leads
  <1>4. \A c \in Callers : pc[c] \in Issuing => Leads(c)
    BY DEF TypeOK, HolderLeads
  <1>5. ASSUME NEW d \in Callers, NEW p \in Places \ {"evict", "evictLocked", "issue", "store"},
               pc' = [pc EXCEPT ![d] = p], pc[d] # "store", UNCHANGED <<issued, cache>>,
               \A c \in Callers \ {d} : got'[c] = got[c]
        PROVE  ColdInv'
    <2>1. \A c \in Callers : pc'[c] # p => c # d /\ pc'[c] = pc[c] /\ got'[c] = got[c]
      BY <1>0, <1>5
    <2>2. \A c \in Callers : pc[c] = "store" => pc'[c] = "store"
      BY <1>0, <1>5
    <2>. QED
      BY <1>5, <2>1, <2>2 DEF ColdInv
  <1>6. ASSUME NEW d \in Callers, Ask(d) \/ Served(d) \/ Refused(d) \/ IssueFails(d) PROVE ColdInv'
    BY <1>0, <1>5, <1>6 DEF Ask, Served, Refused, IssueFails, Goto, Places, Issuing
  <1>7. ASSUME NEW d \in Callers, Look(d) PROVE ColdInv'
    <2>1. Goto(d, "using") \/ Goto(d, "lock")
      BY <1>0, <1>7 DEF Look, Hand
    <2>2. UNCHANGED <<issued, cache>> /\ pc[d] # "store" /\ \A c \in Callers \ {d} : got'[c] = got[c]
      BY <1>0, <1>7 DEF Look, Hand
    <2>. QED
      BY <1>5, <2>1, <2>2 DEF Goto, Places
  <1>8. ASSUME NEW d \in Callers, Recheck(d) PROVE ColdInv'
    <2>1. CASE Hand(d, Cached)
      <3>1. UNCHANGED <<issued, cache>> /\ pc[d] # "store" /\ \A c \in Callers \ {d} : got'[c] = got[c]
        BY <1>0, <1>8, <2>1 DEF Recheck, Hand
      <3>. QED
        BY <1>5, <2>1, <3>1 DEF Hand, Goto, Places
    <2>2. CASE ~Hand(d, Cached)
      <3>1. /\ Cached = 0 /\ pc[d] = "lock" /\ Leads(d) /\ UNCHANGED <<issued, cache, got>>
            /\ pc' = [pc EXCEPT ![d] = "issue"]
        BY <1>0, <1>8, <2>2 DEF Recheck, Goto
      <3>2. \A c \in Callers : pc[c] \notin Issuing
        <4>1. ASSUME NEW c \in Callers, pc[c] \in Issuing PROVE FALSE
          <5>1. c = d
            BY <1>3, <3>1, <4>1
          <5>. QED
            BY <3>1, <4>1, <5>1 DEF Issuing
        <4>. QED
          BY <4>1
      <3>3. issued = 0
        BY <1>0, <3>1, <3>2 DEF ColdInv, Issuing
      <3>. QED
        BY <1>0, <3>1, <3>2, <3>3 DEF ColdInv, Issuing
    <2>. QED
      BY <2>1, <2>2
  <1>9. ASSUME NEW d \in Callers, Evict(d) \/ EvictLocked(d) PROVE FALSE
    BY <1>9 DEF Evict, EvictLocked, ColdInv
  <1>10. ASSUME NEW d \in Callers, Issue(d) PROVE ColdInv'
    <2>1. /\ pc[d] = "issue" /\ issued = 0 /\ issued' = 1 /\ got' = [got EXCEPT ![d] = 1]
          /\ pc' = [pc EXCEPT ![d] = "store"]
      <3>1. pc[d] = "issue" /\ issued = 0
        BY <1>10 DEF Issue, ColdInv
      <3>2. issued + 1 = 1
        BY <3>1
      <3>. QED
        BY <1>10, <3>1, <3>2 DEF Issue, Goto
    <2>2. ASSUME NEW c \in Callers \ {d} PROVE pc'[c] = pc[c] /\ pc[c] \notin Issuing
      <3>1. pc[d] \in Issuing /\ Leads(d)
        BY <1>4, <2>1 DEF Issuing
      <3>. QED
        BY <1>0, <1>3, <2>1, <3>1
    <2>. QED
      BY <1>0, <2>1, <2>2 DEF ColdInv, Issuing
  <1>11. ASSUME NEW d \in Callers, IssueLost(d) \/ Invalidate(d) PROVE FALSE
    BY <1>11 DEF IssueLost, Invalidate, Cold
  <1>12. ASSUME NEW d \in Callers, Put(d) PROVE ColdInv'
    <2>1. /\ pc[d] = "store" /\ got[d] = 1 /\ issued' = issued /\ got' = got
          /\ cache' = [cache EXCEPT !["redis"] = 1] /\ pc' = [pc EXCEPT ![d] = "using"]
      BY <1>0, <1>12 DEF Put, Goto, ColdInv
    <2>2. cache'["redis"] = 1
      BY <1>0, <2>1
    <2>3. \A c \in Callers : pc'[c] \in Issuing => pc'[c] = pc[c]
      BY <1>0, <2>1 DEF Issuing
    <2>. QED
      BY <1>0, <2>1, <2>2, <2>3 DEF ColdInv, Issuing
  <1>. QED
    BY <1>1, <1>2, <1>6, <1>7, <1>8, <1>9, <1>10, <1>11, <1>12 DEF Next, Step

\* However many callers find the cache empty at once, the second check of the lock
\* lets one token be issued for all of them.
THEOREM OneForAll == Spec => []ColdStartOnce
  <1>1. Init => (Cold => ColdInv)
    BY DEF Init, ColdInv
  <1>2. TypeOK /\ (Cold => ColdInv) /\ [Next]_vars => (Cold => ColdInv)'
    BY ColdBefore, NextColdInv
  <1>3. (Cold => ColdInv) => ColdStartOnce
    BY DEF Cold, ColdInv, ColdStartOnce
  <1>. QED
    BY <1>1, <1>2, <1>3, TypeCorrect, PTL DEF Spec
=============================================================================
