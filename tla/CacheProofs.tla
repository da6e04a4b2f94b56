----------------------------- MODULE CacheProofs -----------------------------
(***************************************************************************)
(* Theorems about entries of RedisCache, for any times to live: the cash   *)
(* of accounts and its summary (CashSummary), for any accounts, views and  *)
(* requests, and the count and the locks of orders (OrderAdmission), for   *)
(* any orders.                                                             *)
(***************************************************************************)
EXTENDS CashSummary, OrderAdmission, FiniteSetTheorems, TLAPS

\* A reading is in a view's hands from the moment KIS gave it.
Given == {"balance", "answered", "held"}

\* How long a reading can have been old, where it is: in a view since KIS gave
\* it, in an entry, in a view that took it from an entry, in the summary.
Aged ==
    /\ \A a \in entryOld :
         Live(a) /\ since[a] <= (AccountTtl - entry[a]) + ViewMax
    /\ \A v \in Views : \A a \in partOld[v] :
         /\ part[v][a] \in Given
         /\ since[a] <= (AccountTtl - 1) + ViewMax + spent[v]
         /\ part[v][a] # "held" => since[a] <= spent[v]
    /\ \A a \in summaryOld :
         /\ summary > 0
         /\ since[a] <= (SummaryTtl - summary) + (AccountTtl - 1) + 2 * ViewMax

\* Some request has yet to drop the account's entry.
EntryDue(a) == \E r \in Requests : stage[r] = "entry" /\ target[r] = a

\* While calm, whatever is old will be dropped by a request under way: the
\* entry, and the summary after it.
Owed ==
    calm => \A a \in Accounts :
              /\ ~EntryDue(a) =>
                   a \notin entryOld /\ \A v \in Views : a \notin partOld[v]
              /\ ~Pending(a) => a \notin summaryOld

-----------------------------------------------------------------------------
(***************************************************************************)
(* Types.                                                                  *)
(***************************************************************************)

\* One account of one view moves; a whole view does.
LEMMA PartMove ==
  ASSUME TypeOK, NEW v \in Views, NEW a \in Accounts, NEW p \in Places,
         Move(v, a, p)
  PROVE  /\ part' \in [Views -> [Accounts -> Places]]
         /\ part'[v][a] = p
         /\ \A w \in Views, b \in Accounts :
              w # v \/ b # a => part'[w][b] = part[w][b]
  BY DEF TypeOK, Move

LEMMA SomePlaces ==
  /\ "asking" \in Places /\ "balance" \in Places /\ "answered" \in Places
  /\ "held" \in Places /\ "failed" \in Places
  BY DEF Places

LEMMA PartReset ==
  ASSUME part \in [Views -> [Accounts -> Places]],
         NEW v \in Views, NEW p \in Places
  PROVE  [part EXCEPT ![v] = [a \in Accounts |-> p]]
            \in [Views -> [Accounts -> Places]]
  OBVIOUS

LEMMA Consts ==
  /\ AccountTtl \in Nat \ {0} /\ SummaryTtl \in Nat \ {0}
  /\ ViewMax \in Nat \ {0} /\ LifeMax \in Nat
  BY CashAssumption DEF LifeMax

LEMMA InitTypeOK == Init => TypeOK
  BY Consts DEF Init, TypeOK, Places

LEMMA NextTypeOK == TypeOK /\ [Next]_vars => TypeOK'
  <1> SUFFICES ASSUME TypeOK, [Next]_vars PROVE TypeOK'
    OBVIOUS
  <1> USE Consts DEF cache, view, request
  <1>1. CASE Tick
    <2>1. entry' \in [Accounts -> 0..AccountTtl] /\ summary' \in 0..SummaryTtl
      BY <1>1 DEF Tick, TypeOK, Less1
    <2>2. spent' \in [Views -> 0..ViewMax]
      BY <1>1 DEF Tick, TypeOK
    <2>3. since' \in [Accounts -> 0..LifeMax + 1]
      BY <1>1 DEF Tick, TypeOK
    <2>4. entryOld' \in SUBSET Accounts /\ summaryOld' \in SUBSET Accounts
      BY <1>1 DEF Tick, TypeOK
    <2>. QED
      BY <1>1, <2>1, <2>2, <2>3, <2>4 DEF Tick, TypeOK
  <1>2. ASSUME NEW a \in Accounts, NEW S, Outdate(a, S)
        PROVE  /\ entryOld' \in SUBSET Accounts /\ summaryOld' \in SUBSET Accounts
               /\ partOld' \in [Views -> SUBSET Accounts]
               /\ since' \in [Accounts -> 0..LifeMax + 1]
    BY <1>2 DEF Outdate, TypeOK
  <1>3. ASSUME NEW a \in Accounts, Fill(a) PROVE TypeOK'
    BY <1>2, <1>3 DEF Fill, TypeOK
  <1>4. ASSUME NEW v \in Views, OfView(v) PROVE TypeOK'
    <2>1. CASE Miss(v)
      BY <2>1, PartReset DEF Miss, TypeOK, Places
    <2>2. CASE StoreSummary(v)
      BY <2>2, PartReset DEF StoreSummary, TypeOK, Places
    <2>3. ASSUME NEW a \in Accounts, ReadEntry(v, a) PROVE TypeOK'
      <3>1. part' \in [Views -> [Accounts -> Places]]
        BY <2>3, PartMove, SomePlaces DEF ReadEntry
      <3>2. partOld' \in [Views -> SUBSET Accounts]
        BY <2>3 DEF ReadEntry, TypeOK
      <3>. QED
        BY <2>3, <3>1, <3>2 DEF ReadEntry, TypeOK
    <2>4. ASSUME NEW a \in Accounts, ReadBalance(v, a) \/ ReadPending(v, a) \/ AccountFails(v, a)
          PROVE  TypeOK'
      <3>1. part' \in [Views -> [Accounts -> Places]]
        BY <2>4, PartMove, SomePlaces DEF ReadBalance, ReadPending, AccountFails
      <3>2. partOld' \in [Views -> SUBSET Accounts]
        BY <2>4 DEF ReadBalance, ReadPending, AccountFails, TypeOK
      <3>. QED
        BY <2>4, <3>1, <3>2 DEF ReadBalance, ReadPending, AccountFails, TypeOK
    <2>5. ASSUME NEW a \in Accounts, PendingFails(v, a) PROVE TypeOK'
      <3>1. part' \in [Views -> [Accounts -> Places]]
        BY <2>5, PartMove, SomePlaces DEF PendingFails
      <3>2. partOld' \in [Views -> SUBSET Accounts]
        BY <2>5 DEF PendingFails, TypeOK
      <3>3. since' \in [Accounts -> 0..LifeMax + 1]
        BY <2>5 DEF PendingFails, TypeOK
      <3>. QED
        BY <2>5, <3>1, <3>2, <3>3 DEF PendingFails, TypeOK
    <2>6. ASSUME NEW a \in Accounts, StoreEntry(v, a) PROVE TypeOK'
      <3>1. part' \in [Views -> [Accounts -> Places]]
        BY <2>6, PartMove, SomePlaces DEF StoreEntry
      <3>2. entry' \in [Accounts -> 0..AccountTtl] /\ entryOld' \in SUBSET Accounts
        BY <2>6 DEF StoreEntry, TypeOK
      <3>. QED
        BY <2>6, <3>1, <3>2 DEF StoreEntry, TypeOK
    <2>. QED
      BY <1>4, <2>1, <2>2, <2>3, <2>4, <2>5, <2>6 DEF OfView, OfAccount
  <1>5. ASSUME NEW r \in Requests, OfRequest(r) PROVE TypeOK'
    <2>1. ASSUME NEW a \in Accounts, Change(r, a) PROVE TypeOK'
      BY <1>2, <2>1 DEF Change, TypeOK
    <2>2. ASSUME NEW a \in Accounts, Settle(r, a) PROVE TypeOK'
      BY <2>2 DEF Settle, TypeOK
    <2>3. CASE DropEntry(r)
      BY <2>3 DEF DropEntry, TypeOK
    <2>4. CASE DropSummary(r)
      BY <2>4 DEF DropSummary, TypeOK
    <2>5. CASE RequestFails(r)
      BY <2>5 DEF RequestFails, TypeOK
    <2>. QED
      BY <1>5, <2>1, <2>2, <2>3, <2>4, <2>5 DEF OfRequest
  <1>6. CASE UNCHANGED vars
    BY <1>6 DEF vars, TypeOK
  <1>. QED
    BY <1>1, <1>3, <1>4, <1>5, <1>6 DEF Next

\* The caches, the views and the requests keep their types, and the clocks
\* their bounds.
THEOREM TypeCorrect == Spec => []TypeOK
  BY InitTypeOK, NextTypeOK, PTL DEF Spec

-----------------------------------------------------------------------------
(***************************************************************************)
(* No reading outlives the two caches and two views.                       *)
(***************************************************************************)

LEMMA InitAged == Init => Aged
  BY DEF Init, Aged

\* Whatever an event makes old was read before it, and the clock starts anew.
LEMMA OutdateAged ==
  ASSUME TypeOK, Aged, NEW a \in Accounts, NEW S \in SUBSET Given,
         Outdate(a, S), UNCHANGED <<entry, summary, part, spent>>
  PROVE  Aged'
  <1> USE Consts
  <1>0. since'[a] = 0 /\ \A b \in Accounts \ {a} : since'[b] = since[b]
    BY DEF Outdate, TypeOK
  <1>1. (\A b \in entryOld :
          Live(b) /\ since[b] <= (AccountTtl - entry[b]) + ViewMax)'
    BY <1>0 DEF Outdate, Aged, Live, TypeOK
  <1>2. ASSUME NEW v \in Views, NEW b \in partOld'[v]
        PROVE  /\ part'[v][b] \in Given
               /\ since'[b] <= (AccountTtl - 1) + ViewMax + spent'[v]
               /\ part'[v][b] # "held" => since'[b] <= spent'[v]
    <2>1. b \in Accounts /\ spent[v] \in 0..ViewMax
      BY <1>2 DEF Outdate, TypeOK
    <2>2. CASE b = a
      <3>1. part[v][a] \in Given
        BY <1>2, <2>2 DEF Outdate, Aged, TypeOK
      <3>. QED
        BY <1>0, <2>1, <2>2, <3>1
    <2>3. CASE b # a
      <3>1. b \in partOld[v]
        BY <1>2, <2>3 DEF Outdate, TypeOK
      <3>. QED
        BY <1>0, <2>1, <2>3, <3>1 DEF Aged
    <2>. QED
      BY <2>2, <2>3
  <1>3. (\A b \in summaryOld :
          /\ summary > 0
          /\ since[b] <= (SummaryTtl - summary) + (AccountTtl - 1) + 2 * ViewMax)'
    BY <1>0 DEF Outdate, Aged, TypeOK
  <1>. QED
    BY <1>1, <1>2, <1>3 DEF Aged

\* One account of one view: the view's reading of it, and what it stores.
LEMMA AccountAged ==
  ASSUME TypeOK, Aged, NEW v \in Views, NEW a \in Accounts, OfAccount(v, a)
  PROVE  Aged'
  <1> USE Consts DEF cache, view, request
  <1>0. /\ a \in partOld[v] => part[v][a] \in Given
        /\ spent[v] \in 0..ViewMax /\ since[a] \in Nat /\ entry[a] \in 0..AccountTtl
    BY DEF TypeOK, Aged
  <1>1. CASE ReadEntry(v, a)
    <2>1. PICK p \in {"held", "asking"} :
            /\ Move(v, a, p)
            /\ p = "held" => Live(a)
            /\ p = "asking" => ~Live(a)
      BY <1>1 DEF ReadEntry
    <2>2. /\ part'[v][a] = p
          /\ \A w \in Views, b \in Accounts :
               w # v \/ b # a => part'[w][b] = part[w][b]
      BY <2>1, PartMove, SomePlaces
    <2>3. /\ \A w \in Views \ {v} : partOld'[w] = partOld[w]
          /\ partOld'[v] = partOld[v] \cup ({a} \cap entryOld)
      BY <1>1 DEF ReadEntry, TypeOK
    <2>4. a \notin partOld[v]
      BY <1>0, <1>1 DEF ReadEntry, Given
    <2>5. a \in entryOld => p = "held" /\ since[a] <= (AccountTtl - 1) + ViewMax
      BY <2>1, <1>0 DEF Aged, Live
    <2>6. ASSUME NEW w \in Views, NEW b \in partOld'[w]
          PROVE  /\ part'[w][b] \in Given
                 /\ since'[b] <= (AccountTtl - 1) + ViewMax + spent'[w]
                 /\ part'[w][b] # "held" => since'[b] <= spent'[w]
      <3>1. b \in Accounts
        BY <2>6, <2>3 DEF TypeOK
      <3>2. CASE w = v /\ b = a
        <4>1. a \in entryOld
          BY <2>6, <2>3, <2>4, <3>2
        <4>. QED
          BY <1>0, <1>1, <2>2, <2>5, <3>2, <4>1 DEF ReadEntry, Given
      <3>3. CASE w # v \/ b # a
        <4>1. b \in partOld[w]
          BY <2>6, <2>3, <3>3
        <4>. QED
          BY <1>1, <2>2, <3>1, <3>3, <4>1 DEF ReadEntry, Aged
      <3>. QED
        BY <3>2, <3>3
    <2>. QED
      BY <1>1, <2>6 DEF ReadEntry, Aged, Live
  <1>2. CASE ReadBalance(v, a) \/ AccountFails(v, a)
    <2>1. PICK p \in {"balance", "failed"} : Move(v, a, p)
      BY <1>2 DEF ReadBalance, AccountFails
    <2>2. \A w \in Views, b \in Accounts :
            w # v \/ b # a => part'[w][b] = part[w][b]
      BY <2>1, PartMove, SomePlaces
    <2>3. a \notin partOld'[v] /\ \A w \in Views : partOld'[w] \subseteq partOld[w]
      BY <1>0, <1>2 DEF ReadBalance, AccountFails, Given, TypeOK
    <2>4. ASSUME NEW w \in Views, NEW b \in partOld'[w]
          PROVE  b \in partOld[w] /\ part'[w][b] = part[w][b]
      BY <2>2, <2>3, <2>4 DEF TypeOK
    <2>5. UNCHANGED <<cache, spent, since>>
      BY <1>2 DEF ReadBalance, AccountFails
    <2>. QED
      BY <2>4, <2>5 DEF Aged, Live
  <1>3. CASE ReadPending(v, a)
    <2>1. /\ part'[v][a] = "answered"
          /\ \A w \in Views, b \in Accounts :
               w # v \/ b # a => part'[w][b] = part[w][b]
      BY <1>3, PartMove, SomePlaces DEF ReadPending
    <2>2. ASSUME NEW w \in Views, NEW b \in partOld[w]
          PROVE  /\ part'[w][b] \in Given
                 /\ since[b] <= (AccountTtl - 1) + ViewMax + spent[w]
                 /\ part'[w][b] # "held" => since[b] <= spent[w]
      <3>1. b \in Accounts
        BY <2>2 DEF TypeOK
      <3>2. CASE w = v /\ b = a
        BY <1>3, <2>1, <2>2, <3>2 DEF ReadPending, Aged, Given
      <3>3. CASE w # v \/ b # a
        BY <2>1, <2>2, <3>1, <3>3 DEF Aged
      <3>. QED
        BY <3>2, <3>3
    <2>. QED
      BY <1>3, <2>2 DEF ReadPending, Aged, Live
  <1>4. CASE PendingFails(v, a)
    <2>1. /\ part'[v][a] = "answered"
          /\ \A w \in Views, b \in Accounts :
               w # v \/ b # a => part'[w][b] = part[w][b]
      BY <1>4, PartMove, SomePlaces DEF PendingFails
    <2>2. since'[a] = 0 /\ \A b \in Accounts \ {a} : since'[b] = since[b]
      BY <1>4 DEF PendingFails, TypeOK
    <2>3. ASSUME NEW w \in Views, NEW b \in partOld'[w]
          PROVE  /\ part'[w][b] \in Given
                 /\ since'[b] <= (AccountTtl - 1) + ViewMax + spent'[w]
                 /\ part'[w][b] # "held" => since'[b] <= spent'[w]
      <3>1. b \in Accounts /\ spent'[w] = spent[w] /\ spent[w] \in 0..ViewMax
        BY <1>4, <2>3 DEF PendingFails, TypeOK
      <3>2. CASE w = v /\ b = a
        BY <2>1, <2>2, <3>1, <3>2 DEF Given
      <3>3. CASE w # v \/ b # a
        <4>1. b \in partOld[w]
          BY <1>4, <2>3, <3>3 DEF PendingFails, TypeOK
        <4>2. since'[b] <= since[b]
          BY <2>2, <3>1 DEF TypeOK
        <4>3. since[b] \in Nat /\ since'[b] \in Nat
          BY <2>2, <3>1 DEF TypeOK
        <4>. QED
          BY <2>1, <3>1, <3>3, <4>1, <4>2, <4>3 DEF Aged
      <3>. QED
        BY <3>2, <3>3
    <2>4. \A b \in Accounts : since'[b] <= since[b] /\ since[b] \in Nat /\ since'[b] \in Nat
      BY <2>2 DEF TypeOK
    <2>5. (\A b \in entryOld :
            Live(b) /\ since[b] <= (AccountTtl - entry[b]) + ViewMax)'
      BY <1>4, <2>4 DEF PendingFails, Aged, Live, TypeOK
    <2>6. (\A b \in summaryOld :
            /\ summary > 0
            /\ since[b] <= (SummaryTtl - summary) + (AccountTtl - 1) + 2 * ViewMax)'
      BY <1>4, <2>4 DEF PendingFails, Aged, TypeOK
    <2>. QED
      BY <2>3, <2>5, <2>6 DEF Aged
  <1>5. CASE StoreEntry(v, a)
    <2>1. /\ part'[v][a] = "held"
          /\ \A w \in Views, b \in Accounts :
               w # v \/ b # a => part'[w][b] = part[w][b]
      BY <1>5, PartMove, SomePlaces DEF StoreEntry
    <2>2. a \in partOld[v] => since[a] <= spent[v]
      BY <1>5 DEF StoreEntry, Aged
    <2>3. ASSUME NEW w \in Views, NEW b \in partOld[w]
          PROVE  /\ part'[w][b] \in Given
                 /\ since[b] <= (AccountTtl - 1) + ViewMax + spent[w]
                 /\ part'[w][b] # "held" => since[b] <= spent[w]
      <3>1. b \in Accounts
        BY <2>3 DEF TypeOK
      <3>2. CASE w = v /\ b = a
        BY <1>5, <2>1, <2>3, <3>2 DEF Aged, Given
      <3>3. CASE w # v \/ b # a
        BY <2>1, <2>3, <3>1, <3>3 DEF Aged
      <3>. QED
        BY <3>2, <3>3
    <2>4. entry'[a] = AccountTtl /\ \A b \in Accounts \ {a} : entry'[b] = entry[b]
      BY <1>5 DEF StoreEntry, TypeOK
    <2>5. ASSUME NEW b \in entryOld'
          PROVE  entry'[b] > 0 /\ since[b] <= (AccountTtl - entry'[b]) + ViewMax
      <3>1. CASE b = a
        <4>1. a \in partOld[v]
          BY <1>5, <2>5, <3>1 DEF StoreEntry
        <4>. QED
          BY <1>0, <2>2, <2>4, <3>1, <4>1
      <3>2. CASE b # a
        BY <1>5, <2>4, <2>5, <3>2 DEF StoreEntry, Aged, Live, TypeOK
      <3>. QED
        BY <3>1, <3>2
    <2>. QED
      BY <1>5, <2>3, <2>5 DEF StoreEntry, Aged, Live
  <1>. QED
    BY <1>1, <1>2, <1>3, <1>4, <1>5 DEF OfAccount

\* A summary is made of what the view holds, of entries or of its own reading.
LEMMA SummaryAged ==
  ASSUME TypeOK, Aged, NEW v \in Views, StoreSummary(v)
  PROVE  Aged'
  <1> USE Consts
  <1>1. ASSUME NEW b \in summaryOld'
        PROVE  since[b] <= (AccountTtl - 1) + 2 * ViewMax
    <2>1. b \in partOld[v] /\ b \in Accounts /\ spent[v] \in 0..ViewMax /\ since[b] \in Nat
      BY <1>1 DEF StoreSummary, TypeOK
    <2>2. since[b] <= (AccountTtl - 1) + ViewMax + spent[v]
      BY <2>1 DEF Aged
    <2>. QED
      BY <2>1, <2>2
  <1>2. ASSUME NEW w \in Views, NEW b \in partOld'[w]
        PROVE  w # v /\ b \in partOld[w] /\ part'[w][b] = part[w][b] /\ spent'[w] = spent[w]
    BY <1>2 DEF StoreSummary, TypeOK
  <1>. QED
    BY <1>1, <1>2 DEF StoreSummary, Aged, Live

LEMMA TickAged == TypeOK /\ Aged /\ Tick => Aged'
  <1> SUFFICES ASSUME TypeOK, Aged, Tick PROVE Aged'
    OBVIOUS
  <1> USE Consts
  <1>0. \A b \in Accounts : since[b] \in Nat /\ since'[b] \in Nat /\ since'[b] <= since[b] + 1
    BY DEF Tick, TypeOK
  <1>1. (\A b \in entryOld :
          Live(b) /\ since[b] <= (AccountTtl - entry[b]) + ViewMax)'
    BY <1>0 DEF Tick, Aged, Live, Less1, TypeOK
  <1>2. ASSUME NEW v \in Views, NEW b \in partOld'[v]
        PROVE  /\ part'[v][b] \in Given
               /\ since'[b] <= (AccountTtl - 1) + ViewMax + spent'[v]
               /\ part'[v][b] # "held" => since'[b] <= spent'[v]
    <2>1. b \in partOld[v] /\ b \in Accounts /\ spent[v] \in 0..ViewMax
      BY <1>2 DEF Tick, view, TypeOK
    <2>2. part'[v][b] = part[v][b] /\ part[v][b] \in Given
      BY <2>1 DEF Tick, Aged
    <2>3. spent'[v] = spent[v] + 1
      BY <2>1, <2>2 DEF Tick, Flying, Given
    <2>. QED
      BY <1>0, <2>1, <2>2, <2>3 DEF Aged
  <1>3. (\A b \in summaryOld :
          /\ summary > 0
          /\ since[b] <= (SummaryTtl - summary) + (AccountTtl - 1) + 2 * ViewMax)'
    <2> SUFFICES ASSUME NEW b \in summaryOld'
                 PROVE  /\ summary' > 0
                        /\ since'[b] <= (SummaryTtl - summary') + (AccountTtl - 1) + 2 * ViewMax
      OBVIOUS
    <2>1. b \in summaryOld /\ b \in Accounts /\ summary > 1 /\ summary' = summary - 1
      BY DEF Tick, Less1, TypeOK
    <2>2. since[b] <= (SummaryTtl - summary) + (AccountTtl - 1) + 2 * ViewMax
      BY <2>1 DEF Aged
    <2>. QED
      BY <1>0, <2>1, <2>2 DEF TypeOK
  <1>. QED
    BY <1>1, <1>2, <1>3 DEF Aged

LEMMA NextAged == TypeOK /\ Aged /\ [Next]_vars => Aged'
  <1> SUFFICES ASSUME TypeOK, Aged, [Next]_vars PROVE Aged'
    OBVIOUS
  <1> USE DEF cache, view, request
  <1>1. ASSUME NEW a \in Accounts, Fill(a) PROVE Aged'
    BY <1>1, OutdateAged DEF Fill, Given
  <1>2. ASSUME NEW v \in Views, OfView(v) PROVE Aged'
    <2>1. CASE Miss(v)
      <3>1. ASSUME NEW w \in Views, NEW b \in partOld[w] PROVE w # v /\ b \in Accounts
        BY <2>1, <3>1 DEF Miss, Flying, Aged, Given, TypeOK
      <3>2. ASSUME NEW w \in Views, NEW b \in partOld[w]
            PROVE  part'[w][b] = part[w][b] /\ spent'[w] = spent[w]
        BY <2>1, <3>1, <3>2 DEF Miss, TypeOK
      <3>. QED
        BY <2>1, <3>2 DEF Miss, Aged, Live
    <2>. QED
      BY <1>2, <2>1, AccountAged, SummaryAged DEF OfView
  <1>3. ASSUME NEW r \in Requests, OfRequest(r) PROVE Aged'
    <2>1. ASSUME NEW a \in Accounts, Change(r, a) PROVE Aged'
      BY <2>1, OutdateAged DEF Change, Given
    <2>2. ASSUME NEW a \in Accounts, Settle(r, a) PROVE Aged'
      BY <2>2 DEF Settle, Aged, Live
    <2>3. CASE DropEntry(r)
      BY <2>3 DEF DropEntry, Aged, Live, TypeOK
    <2>4. CASE DropSummary(r)
      BY <2>4 DEF DropSummary, Aged, Live
    <2>5. CASE RequestFails(r)
      BY <2>5 DEF RequestFails, Aged, Live
    <2>. QED
      BY <1>3, <2>1, <2>2, <2>3, <2>4, <2>5 DEF OfRequest
  <1>4. CASE UNCHANGED vars
    BY <1>4 DEF vars, Aged, Live
  <1>. QED
    BY <1>1, <1>2, <1>3, <1>4, TickAged DEF Next

LEMMA AgedSuffices == TypeOK /\ Aged => GoneInTime
  BY Consts DEF TypeOK, Aged, GoneInTime, LifeMax, Live

\* Whatever the times to live and however many views and requests meet, an old
\* reading is gone from both caches within the two times to live and two views.
THEOREM OldReadingsGo == Spec => []GoneInTime
  BY InitTypeOK, NextTypeOK, InitAged, NextAged, AgedSuffices, PTL DEF Spec

-----------------------------------------------------------------------------
(***************************************************************************)
(* An order shows at once, in calm.                                        *)
(***************************************************************************)

LEMMA InitOwed == Init => Owed
  BY DEF Init, Owed

\* Who owes a drop goes on owing it, and what is old stays or goes.
LEMMA LessOldOwed ==
  ASSUME Owed, calm' => calm, UNCHANGED request,
         entryOld' \subseteq entryOld, summaryOld' \subseteq summaryOld,
         \A v \in Views : partOld'[v] \subseteq partOld[v]
  PROVE  Owed'
  BY DEF Owed, EntryDue, Pending, request

LEMMA ChangeOwed ==
  ASSUME TypeOK, Owed, NEW r \in Requests, NEW a \in Accounts, Change(r, a)
  PROVE  Owed'
  <1>1. EntryDue(a)' /\ Pending(a)'
    BY DEF Change, EntryDue, Pending, TypeOK
  <1>2. ASSUME NEW b \in Accounts
        PROVE  (EntryDue(b) => EntryDue(b)') /\ (Pending(b) => Pending(b)')
    BY DEF Change, EntryDue, Pending, TypeOK
  <1>3. ASSUME NEW b \in Accounts, b # a
        PROVE  /\ b \in entryOld' => b \in entryOld
               /\ b \in summaryOld' => b \in summaryOld
               /\ \A v \in Views : b \in partOld'[v] => b \in partOld[v]
    BY <1>3 DEF Change, Outdate, TypeOK
  <1>. QED
    BY <1>1, <1>2, <1>3 DEF Owed, Change

LEMMA SettleOwed ==
  ASSUME TypeOK, Owed, NEW r \in Requests, NEW a \in Accounts, Settle(r, a)
  PROVE  Owed'
  <1>1. ASSUME NEW b \in Accounts
        PROVE  (EntryDue(b) => EntryDue(b)') /\ (Pending(b) => Pending(b)')
    BY DEF Settle, EntryDue, Pending, TypeOK
  <1>. QED
    BY <1>1 DEF Owed, Settle, cache, view

\* Nothing old of the account is left but in the summary, which is next.
LEMMA DropEntryOwed ==
  ASSUME TypeOK, Owed, NEW r \in Requests, DropEntry(r)
  PROVE  Owed'
  <1>1. ASSUME NEW b \in Accounts
        PROVE  /\ Pending(b) => Pending(b)'
               /\ b # target[r] /\ EntryDue(b) => EntryDue(b)'
    <2>1. stage'[r] = "summary" /\ target' = target
          /\ \A q \in Requests : q # r => stage'[q] = stage[q]
      BY DEF DropEntry, view, TypeOK
    <2>2. Pending(b) => Pending(b)'
      BY <2>1 DEF Pending
    <2>3. b # target[r] /\ EntryDue(b) => EntryDue(b)'
      BY <2>1 DEF EntryDue
    <2>. QED
      BY <2>2, <2>3
  <1>2. target[r] \notin entryOld'
        /\ (calm' => \A v \in Views : target[r] \notin partOld'[v])
    BY DEF DropEntry, view
  <1>3. entryOld' \subseteq entryOld /\ summaryOld' = summaryOld
        /\ partOld' = partOld /\ (calm' => calm)
    BY DEF DropEntry, view
  <1>. QED
    BY <1>1, <1>2, <1>3 DEF Owed

LEMMA DropSummaryOwed ==
  ASSUME TypeOK, Owed, NEW r \in Requests, DropSummary(r)
  PROVE  Owed'
  <1>1. ASSUME NEW b \in Accounts PROVE EntryDue(b) => EntryDue(b)'
    BY DEF DropSummary, EntryDue, TypeOK
  <1>. QED
    BY <1>1 DEF Owed, DropSummary, view

\* What a view reads, holds and stores is old only if the entry or its reading
\* was, and then a request owes the drop.
LEMMA ViewOwed ==
  ASSUME TypeOK, Owed, NEW v \in Views, OfView(v)
  PROVE  Owed'
  <1> USE DEF cache, view, request
  <1>0. UNCHANGED request
        /\ \A b \in Accounts : EntryDue(b)' = EntryDue(b) /\ Pending(b)' = Pending(b)
    <2>1. UNCHANGED request
      BY DEF OfView, Miss, StoreSummary, OfAccount, ReadEntry, ReadBalance,
             ReadPending, PendingFails, AccountFails, StoreEntry
    <2>. QED
      BY <2>1 DEF EntryDue, Pending
  <1>1. CASE Miss(v)
    BY <1>1, LessOldOwed DEF Miss
  <1>2. CASE StoreSummary(v)
    <2>1. \A w \in Views : partOld'[w] \subseteq partOld[w]
      BY <1>2 DEF StoreSummary, TypeOK
    <2>2. summaryOld' = partOld[v] /\ entryOld' = entryOld /\ calm' = calm
      BY <1>2 DEF StoreSummary
    <2>3. \A b \in Accounts : ~Pending(b) => ~EntryDue(b)
      BY DEF Pending, EntryDue
    <2>. QED
      BY <1>0, <2>1, <2>2, <2>3 DEF Owed
  <1>3. ASSUME NEW a \in Accounts, ReadEntry(v, a) PROVE Owed'
    <2>1. \A w \in Views, b \in Accounts :
            b \in partOld'[w] => b \in partOld[w] \/ b \in entryOld
      BY <1>3 DEF ReadEntry, TypeOK
    <2>. QED
      BY <1>0, <1>3, <2>1 DEF Owed, ReadEntry
  <1>4. ASSUME NEW a \in Accounts, ReadBalance(v, a) \/ ReadPending(v, a) \/ AccountFails(v, a)
        PROVE  Owed'
    <2>1. \A w \in Views : partOld'[w] \subseteq partOld[w]
      BY <1>4 DEF ReadBalance, ReadPending, AccountFails, TypeOK
    <2>. QED
      BY <1>4, <2>1, LessOldOwed DEF ReadBalance, ReadPending, AccountFails
  <1>5. ASSUME NEW a \in Accounts, PendingFails(v, a) PROVE Owed'
    BY <1>5 DEF PendingFails, Owed
  <1>6. ASSUME NEW a \in Accounts, StoreEntry(v, a) PROVE Owed'
    <2>1. \A b \in Accounts :
            b \in entryOld' => b \in partOld[v] \/ b \in entryOld
      BY <1>6 DEF StoreEntry
    <2>. QED
      BY <1>0, <1>6, <2>1 DEF Owed, StoreEntry
  <1>. QED
    BY <1>1, <1>2, <1>3, <1>4, <1>5, <1>6 DEF OfView, OfAccount

LEMMA NextOwed == TypeOK /\ Owed /\ [Next]_vars => Owed'
  <1> SUFFICES ASSUME TypeOK, Owed, [Next]_vars PROVE Owed'
    OBVIOUS
  <1>1. CASE Tick
    <2>1. entryOld' \subseteq entryOld /\ summaryOld' \subseteq summaryOld
          /\ UNCHANGED <<partOld, request, calm>>
      BY <1>1 DEF Tick
    <2>. QED
      BY <2>1, LessOldOwed
  <1>2. ASSUME NEW a \in Accounts, Fill(a) PROVE Owed'
    BY <1>2 DEF Fill, Owed
  <1>3. ASSUME NEW r \in Requests, RequestFails(r) PROVE Owed'
    BY <1>3 DEF RequestFails, Owed
  <1>4. CASE UNCHANGED vars
    BY <1>4, LessOldOwed DEF vars, cache, view
  <1>. QED
    BY <1>1, <1>2, <1>3, <1>4, ChangeOwed, SettleOwed, DropEntryOwed,
       DropSummaryOwed, ViewOwed DEF Next, OfRequest

LEMMA OwedSuffices == Owed => AtOnce
  BY DEF Owed, AtOnce, EntryDue, Pending

\* However many accounts, views and requests meet, a request that has dropped
\* the entry and then the summary leaves nothing older than its order in
\* either, unless a view had it in hand.
THEOREM OrdersShow == Spec => []AtOnce
  BY InitTypeOK, NextTypeOK, InitOwed, NextOwed, OwedSuffices, PTL DEF Spec

-----------------------------------------------------------------------------
(***************************************************************************)
(* Order admission.  What needs requests to be checked one after the other *)
(* assumes ~Overlap.                                                       *)
(***************************************************************************)

\* Whoever is about to write the count has found room.
Room == \A o \in Orders : pc[o] = "counting" => seen[o] < RateMax

\* The entry is as old as the order that wrote it last, and no order that was
\* counted is younger.
Youngest ==
    /\ count > 0 => countLeft > 0
    /\ count > 0 => \E o \in Orders : counted[o] = RateTtl - countLeft
    /\ \A o \in Orders : counted[o] + countLeft >= RateTtl

\* The entry counts every recent order.
Covers == Cardinality(Recent) <= count

\* One request at a time is between its first GET and its last SETEX.
Alone ==
    \A o, x \in Orders : pc[o] \in Checking /\ pc[x] \in Checking => o = x

\* What that request has read is still so.
SeenNow == \A o \in Orders : pc[o] = "counting" => seen[o] >= count

\* A lock is as old as some order of the ticker that took it.
Owned ==
    \A t \in Tickers : lockLeft[t] > 0 =>
        \E o \in Orders : TickerOf[o] = t /\ sent[o] = LockTtl - lockLeft[t]

-----------------------------------------------------------------------------
LEMMA NextAdmissionType == AdmissionTypeOK /\ Room /\ [AdmissionNext]_admissionVars =>
   AdmissionTypeOK'
<1> SUFFICES ASSUME AdmissionTypeOK, Room, [AdmissionNext]_admissionVars PROVE AdmissionTypeOK'
  OBVIOUS
<1> USE AdmissionAssumption
<1>1. CASE AdmissionTick
  <2>1. LongAgo \in Nat
    BY DEF LongAgo
  <2>2. counted' \in [Orders -> 0..LongAgo] /\ sent' \in [Orders -> 0..LongAgo]
    BY <1>1, <2>1 DEF AdmissionTypeOK, AdmissionTick, Older
  <2>3. lockLeft' \in [Tickers -> 0..LockTtl]
    BY <1>1 DEF AdmissionTypeOK, AdmissionTick
  <2> QED
    BY <1>1, <2>2, <2>3 DEF AdmissionTypeOK, AdmissionTick
<1>2. CASE \E o \in Orders : ReadCount(o)
  BY <1>2 DEF AdmissionTypeOK, ReadCount, Goto, entries, ages, Checking
<1>3. CASE \E o \in Orders : WriteCount(o)
  <2> PICK o \in Orders : WriteCount(o)
    BY <1>3
  <2>1. seen[o] + 1 \in 0..RateMax
    BY DEF Room, AdmissionTypeOK, WriteCount
  <2>2. LongAgo \in Nat
    BY DEF LongAgo
  <2> QED
    BY <2>1, <2>2 DEF AdmissionTypeOK, WriteCount, Goto, Checking
<1>4. CASE \E o \in Orders : ReadLock(o)
  BY <1>4 DEF AdmissionTypeOK, ReadLock, Goto, entries, ages, Checking
<1>5. CASE \E o \in Orders : WriteLock(o)
  <2> PICK o \in Orders : WriteLock(o)
    BY <1>5
  <2>1. LongAgo \in Nat
    BY DEF LongAgo
  <2> QED
    BY <2>1 DEF AdmissionTypeOK, WriteLock, Goto, Checking
<1>6. CASE \E o \in Orders : Answered(o)
  BY <1>6 DEF AdmissionTypeOK, Answered, Goto, entries, ages
<1>7. CASE UNCHANGED admissionVars
  BY <1>7 DEF AdmissionTypeOK, admissionVars, entries, ages
<1> QED
  BY <1>1, <1>2, <1>3, <1>4, <1>5, <1>6, <1>7 DEF AdmissionNext

LEMMA RoomStays == AdmissionTypeOK /\ Room /\ [AdmissionNext]_admissionVars => Room'
<1> SUFFICES ASSUME AdmissionTypeOK, Room, [AdmissionNext]_admissionVars, NEW x \in Orders,
                    pc'[x] = "counting"
             PROVE  seen'[x] < RateMax
  BY DEF Room
<1> USE AdmissionAssumption
<1>1. CASE AdmissionTick
  BY <1>1 DEF Room, AdmissionTick
<1>2. CASE \E o \in Orders : ReadCount(o)
  BY <1>2 DEF AdmissionTypeOK, Room, ReadCount, Goto, entries
<1>3. CASE \E o \in Orders : WriteCount(o)
  BY <1>3 DEF AdmissionTypeOK, Room, WriteCount, Goto
<1>4. CASE \E o \in Orders : ReadLock(o)
  BY <1>4 DEF AdmissionTypeOK, Room, ReadLock, Goto
<1>5. CASE \E o \in Orders : WriteLock(o)
  BY <1>5 DEF AdmissionTypeOK, Room, WriteLock, Goto
<1>6. CASE \E o \in Orders : Answered(o)
  BY <1>6 DEF AdmissionTypeOK, Room, Answered, Goto
<1>7. CASE UNCHANGED admissionVars
  BY <1>7 DEF Room, admissionVars
<1> QED
  BY <1>1, <1>2, <1>3, <1>4, <1>5, <1>6, <1>7 DEF AdmissionNext

LEMMA AdmissionTyped == AdmissionSpec => [](AdmissionTypeOK /\ Room)
<1>1. AdmissionInit => AdmissionTypeOK /\ Room
  BY AdmissionAssumption DEF AdmissionInit, AdmissionTypeOK, Room, LongAgo
<1>2. AdmissionTypeOK /\ Room /\ [AdmissionNext]_admissionVars => (AdmissionTypeOK /\ Room)'
  BY NextAdmissionType, RoomStays
<1> QED
  BY <1>1, <1>2, PTL DEF AdmissionSpec

\* The count, its life, the locks and the ages keep their bounds.
THEOREM AdmissionTypeCorrect == AdmissionSpec => []AdmissionTypeOK
BY AdmissionTyped, PTL

-----------------------------------------------------------------------------
LEMMA YoungestStays == AdmissionTypeOK /\ Youngest /\ [AdmissionNext]_admissionVars => Youngest'
<1> SUFFICES ASSUME AdmissionTypeOK, Youngest, [AdmissionNext]_admissionVars PROVE Youngest'
  OBVIOUS
<1> USE AdmissionAssumption
<1>0. LongAgo \in Nat /\ LongAgo > RateTtl
  BY DEF LongAgo
<1>1. CASE AdmissionTick
  <2>1. ASSUME NEW o \in Orders PROVE counted'[o] + countLeft' >= RateTtl
    <3>1. counted'[o] = IF counted[o] < LongAgo THEN counted[o] + 1 ELSE LongAgo
      BY <1>1 DEF AdmissionTick, Older
    <3>2. counted[o] + countLeft >= RateTtl /\ counted[o] \in 0..LongAgo
          /\ countLeft \in 0..RateTtl
      BY DEF Youngest, AdmissionTypeOK
    <3>3. countLeft' = IF countLeft = 0 THEN 0 ELSE countLeft - 1
      BY <1>1 DEF AdmissionTick
    <3> QED
      BY <1>0, <3>1, <3>2, <3>3
  <2>2. ASSUME count' > 0
        PROVE  countLeft' > 0 /\ \E o \in Orders : counted'[o] = RateTtl - countLeft'
    <3>1. count > 0 /\ countLeft > 1 /\ countLeft \in 0..RateTtl /\ countLeft' = countLeft - 1
      BY <1>1, <2>2 DEF AdmissionTick, AdmissionTypeOK
    <3>2. PICK o \in Orders : counted[o] = RateTtl - countLeft
      BY <3>1 DEF Youngest
    <3>3. counted'[o] = counted[o] + 1
      BY <1>0, <1>1, <3>1, <3>2 DEF AdmissionTick, Older
    <3> QED
      BY <3>1, <3>2, <3>3
  <2> QED
    BY <2>1, <2>2 DEF Youngest
<1>2. CASE \E o \in Orders : WriteCount(o)
  <2> PICK o \in Orders : WriteCount(o)
    BY <1>2
  <2>1. countLeft' = RateTtl /\ counted' = [counted EXCEPT ![o] = 0]
    BY DEF WriteCount
  <2>2. \A x \in Orders : counted'[x] \in Nat
    BY <1>0, <2>1 DEF AdmissionTypeOK
  <2>3. counted'[o] = RateTtl - countLeft'
    BY <2>1 DEF AdmissionTypeOK
  <2> QED
    BY <2>1, <2>2, <2>3 DEF Youngest
<1>3. CASE UNCHANGED <<count, countLeft, counted>>
  BY <1>3 DEF Youngest
<1> QED
  BY <1>1, <1>2, <1>3 DEF AdmissionNext, ReadCount, ReadLock, WriteLock, Answered, admissionVars,
    entries, ages

LEMMA OwnedStays == AdmissionTypeOK /\ Owned /\ [AdmissionNext]_admissionVars => Owned'
<1> SUFFICES ASSUME AdmissionTypeOK, Owned, [AdmissionNext]_admissionVars,
                    NEW t \in Tickers, lockLeft'[t] > 0
             PROVE  \E o \in Orders : TickerOf[o] = t /\ sent'[o] = LockTtl - lockLeft'[t]
  BY DEF Owned
<1> USE AdmissionAssumption
<1>0. lockLeft[t] \in 0..LockTtl /\ LongAgo \in Nat /\ LongAgo > LockTtl
  BY DEF AdmissionTypeOK, LongAgo
<1>1. CASE AdmissionTick
  <2>1. lockLeft[t] > 1 /\ lockLeft'[t] = lockLeft[t] - 1
    BY <1>0, <1>1 DEF AdmissionTick
  <2>2. PICK o \in Orders : TickerOf[o] = t /\ sent[o] = LockTtl - lockLeft[t]
    BY <1>0, <2>1 DEF Owned
  <2>3. sent[o] < LongAgo
    BY <1>0, <2>1, <2>2
  <2>4. sent' = Older(sent)
    BY <1>1 DEF AdmissionTick
  <2>5. sent'[o] = sent[o] + 1
    BY <2>3, <2>4 DEF Older
  <2> QED
    BY <1>0, <2>1, <2>2, <2>5
<1>2. CASE \E o \in Orders : WriteLock(o)
  <2> PICK o \in Orders : WriteLock(o)
    BY <1>2
  <2>1. CASE TickerOf[o] = t
    <3>1. lockLeft'[t] = LockTtl /\ sent'[o] = 0
      BY <2>1 DEF WriteLock, AdmissionTypeOK
    <3> QED
      BY <2>1, <3>1
  <2>2. CASE TickerOf[o] # t
    <3>1. lockLeft'[t] = lockLeft[t]
      BY <2>2 DEF WriteLock, AdmissionTypeOK
    <3>2. PICK x \in Orders : TickerOf[x] = t /\ sent[x] = LockTtl - lockLeft[t]
      BY <3>1 DEF Owned
    <3>3. sent'[x] = sent[x]
      BY <2>2, <3>2 DEF WriteLock, AdmissionTypeOK
    <3> QED
      BY <3>1, <3>2, <3>3
  <2> QED
    BY <2>1, <2>2
<1>3. CASE UNCHANGED <<lockLeft, sent>>
  BY <1>3 DEF Owned
<1> QED
  BY <1>1, <1>2, <1>3 DEF AdmissionNext, ReadCount, WriteCount, ReadLock, Answered, admissionVars,
    entries, ages

\* Whether requests overlap or not, who is refused for the rate was let through
\* in the last RateTtl ticks, and a duplicate follows an order of the ticker that
\* took the lock in the last LockTtl: refusals never feed on themselves.
THEOREM RefusalsEnd == AdmissionSpec => RefusalIsRecent
<1> USE AdmissionAssumption
<1>1. AdmissionInit => Youngest /\ Owned
  BY DEF AdmissionInit, Youngest, Owned, LongAgo
<1> DEFINE Refused(o) ==
      /\ pc[o] = "new" /\ pc'[o] = "over" => Recent # {}
      /\ pc[o] = "lock" /\ pc'[o] = "duplicate" => LockedBy(TickerOf[o]) # {}
<1>2. AdmissionTypeOK /\ Youngest /\ Owned /\ [AdmissionNext]_admissionVars =>
        [\A o \in Orders : Refused(o)]_admissionVars
  <2> SUFFICES ASSUME AdmissionTypeOK, Youngest, Owned, [AdmissionNext]_admissionVars,
                      NEW o \in Orders
               PROVE  Refused(o)
    OBVIOUS
  <2>1. ASSUME pc[o] = "new", pc'[o] = "over" PROVE Recent # {}
    <3>1. PICK x \in Orders : ReadCount(x)
      BY <2>1 DEF AdmissionNext, AdmissionTick, WriteCount, ReadLock, WriteLock, Answered, Goto,
        admissionVars, AdmissionTypeOK
    <3>2. o = x
      BY <2>1, <3>1 DEF ReadCount, Goto, AdmissionTypeOK
    <3>3. count >= RateMax
      BY <2>1, <3>1, <3>2 DEF ReadCount, Goto, AdmissionTypeOK
    <3>4. count > 0
      BY <3>3 DEF AdmissionTypeOK
    <3>5. countLeft > 0 /\ countLeft \in 0..RateTtl
      BY <3>4 DEF Youngest, AdmissionTypeOK
    <3>6. PICK y \in Orders : counted[y] = RateTtl - countLeft
      BY <3>4 DEF Youngest
    <3>7. y \in Recent
      BY <3>5, <3>6 DEF Recent
    <3> QED
      BY <3>7
  <2>2. ASSUME pc[o] = "lock", pc'[o] = "duplicate" PROVE LockedBy(TickerOf[o]) # {}
    <3>1. PICK x \in Orders : ReadLock(x)
      BY <2>2 DEF AdmissionNext, AdmissionTick, ReadCount, WriteCount, WriteLock, Answered, Goto,
        admissionVars, AdmissionTypeOK
    <3>2. o = x
      BY <2>2, <3>1 DEF ReadLock, Goto, AdmissionTypeOK
    <3>3. TickerOf[o] \in Tickers /\ lockLeft[TickerOf[o]] \in 0..LockTtl
          /\ lockLeft[TickerOf[o]] > 0
      BY <2>2, <3>1, <3>2 DEF ReadLock, Goto, AdmissionTypeOK
    <3>4. PICK y \in Orders :
            TickerOf[y] = TickerOf[o] /\ sent[y] = LockTtl - lockLeft[TickerOf[o]]
      BY <3>3 DEF Owned
    <3>5. y \in LockedBy(TickerOf[o])
      BY <3>3, <3>4 DEF LockedBy
    <3> QED
      BY <3>5
  <2> QED
    BY <2>1, <2>2
<1> QED
  BY <1>1, <1>2, AdmissionTyped, YoungestStays, OwnedStays, PTL DEF AdmissionSpec, RefusalIsRecent

-----------------------------------------------------------------------------
LEMMA AloneStays ==
    ASSUME ~Overlap
    PROVE  AdmissionTypeOK /\ Alone /\ [AdmissionNext]_admissionVars => Alone'
<1> SUFFICES ASSUME AdmissionTypeOK, Alone, [AdmissionNext]_admissionVars PROVE Alone'
  OBVIOUS
<1>1. CASE \E o \in Orders : ReadCount(o)
  <2> PICK o \in Orders : ReadCount(o)
    BY <1>1
  <2>1. \A x \in Orders : pc[x] \notin Checking
    BY DEF ReadCount
  <2>2. \A x \in Orders : x # o => pc'[x] = pc[x]
    BY DEF ReadCount, Goto, AdmissionTypeOK
  <2> QED
    BY <2>1, <2>2 DEF Alone
<1>2. CASE \A x \in Orders : pc'[x] \in Checking => pc[x] \in Checking
  BY <1>2 DEF Alone
<1>3. ASSUME NEW o \in Orders, WriteCount(o) \/ ReadLock(o) \/ WriteLock(o) \/ Answered(o)
      PROVE  \A x \in Orders : pc'[x] \in Checking => pc[x] \in Checking
  BY <1>3 DEF WriteCount, ReadLock, WriteLock, Answered, Goto, Checking, AdmissionTypeOK
<1>4. CASE UNCHANGED pc
  BY <1>4, <1>2
<1> QED
  BY <1>1, <1>2, <1>3, <1>4 DEF AdmissionNext, AdmissionTick, admissionVars

LEMMA SeenNowStays ==
    ASSUME ~Overlap
    PROVE  AdmissionTypeOK /\ Alone /\ SeenNow /\ [AdmissionNext]_admissionVars => SeenNow'
<1> SUFFICES ASSUME AdmissionTypeOK, Alone, SeenNow, [AdmissionNext]_admissionVars, NEW x \in Orders
             PROVE  pc'[x] = "counting" => seen'[x] >= count'
  BY DEF SeenNow
<1> USE AdmissionAssumption
<1>1. CASE AdmissionTick
  <2>1. count' <= count /\ {count, count', seen[x]} \subseteq Nat
    BY <1>1 DEF AdmissionTick, AdmissionTypeOK
  <2>2. UNCHANGED <<pc, seen>>
    BY <1>1 DEF AdmissionTick
  <2> QED
    BY <2>1, <2>2 DEF SeenNow
<1>2. CASE \E o \in Orders : ReadCount(o)
  BY <1>2 DEF ReadCount, Goto, AdmissionTypeOK, SeenNow, entries
<1>3. CASE \E o \in Orders : WriteCount(o)
  BY <1>3 DEF WriteCount, Goto, AdmissionTypeOK, SeenNow, Alone, Checking
<1>4. CASE \E o \in Orders : ReadLock(o)
  BY <1>4 DEF ReadLock, Goto, AdmissionTypeOK, SeenNow, entries
<1>5. CASE \E o \in Orders : WriteLock(o)
  BY <1>5 DEF WriteLock, Goto, AdmissionTypeOK, SeenNow, Alone, Checking
<1>6. CASE \E o \in Orders : Answered(o)
  BY <1>6 DEF Answered, Goto, AdmissionTypeOK, SeenNow, entries
<1>7. CASE UNCHANGED admissionVars
  BY <1>7 DEF admissionVars, entries, SeenNow
<1> QED
  BY <1>1, <1>2, <1>3, <1>4, <1>5, <1>6, <1>7 DEF AdmissionNext

LEMMA CoversStays ==
    AdmissionTypeOK /\ Youngest /\ SeenNow /\ Covers /\ [AdmissionNext]_admissionVars => Covers'
<1> SUFFICES ASSUME AdmissionTypeOK, Youngest, SeenNow, Covers, [AdmissionNext]_admissionVars
             PROVE  Covers'
  OBVIOUS
<1> USE AdmissionAssumption
<1>0. IsFiniteSet(Recent) /\ Cardinality(Recent) \in Nat
  BY FS_Subset, FS_CardinalityType DEF Recent
<1>1. CASE AdmissionTick
  <2>1. CASE countLeft <= 1
    <3>1. \A o \in Orders : counted'[o] >= RateTtl
      <4> TAKE o \in Orders
      <4>1. counted'[o] = IF counted[o] < LongAgo THEN counted[o] + 1 ELSE LongAgo
        BY <1>1 DEF AdmissionTick, Older
      <4>2. counted[o] + countLeft >= RateTtl /\ counted[o] \in 0..LongAgo
            /\ countLeft \in 0..RateTtl
        BY DEF Youngest, AdmissionTypeOK
      <4> QED
        BY <2>1, <4>1, <4>2 DEF LongAgo
    <3>2. \A o \in Orders : ~(counted'[o] < RateTtl)
      <4>1. \A o \in Orders : counted'[o] \in 0..LongAgo
        BY <1>1 DEF AdmissionTick, Older, AdmissionTypeOK, LongAgo
      <4> QED
        BY <3>1, <4>1 DEF LongAgo
    <3>3. Recent' = {}
      BY <3>2 DEF Recent
    <3>4. count' = 0
      BY <1>1, <2>1 DEF AdmissionTick
    <3> QED
      BY <3>3, <3>4, FS_EmptySet DEF Covers
  <2>2. CASE countLeft > 1
    <3>1. count' = count
      BY <1>1, <2>2 DEF AdmissionTick, AdmissionTypeOK
    <3>2. Recent' \subseteq Recent
      BY <1>1 DEF Recent, AdmissionTick, Older, AdmissionTypeOK, LongAgo
    <3>3. Cardinality(Recent') <= Cardinality(Recent) /\ Cardinality(Recent') \in Nat
      BY <1>0, <3>2, FS_Subset, FS_CardinalityType
    <3> QED
      BY <1>0, <3>1, <3>3 DEF Covers, AdmissionTypeOK
  <2> QED
    BY <2>1, <2>2 DEF AdmissionTypeOK
<1>2. CASE \E o \in Orders : WriteCount(o)
  <2> PICK o \in Orders : WriteCount(o)
    BY <1>2
  <2>1. Recent' = Recent \cup {o}
    BY DEF Recent, WriteCount, AdmissionTypeOK
  <2>2. Cardinality(Recent') \in {Cardinality(Recent), Cardinality(Recent) + 1}
    BY <1>0, <2>1, FS_AddElement
  <2>3. count' = seen[o] + 1 /\ seen[o] >= count
    BY DEF WriteCount, SeenNow
  <2> QED
    BY <1>0, <2>2, <2>3 DEF Covers, AdmissionTypeOK
<1>3. CASE UNCHANGED <<count, counted>>
  BY <1>3 DEF Covers, Recent
<1> QED
  BY <1>1, <1>2, <1>3 DEF AdmissionNext, ReadCount, ReadLock, WriteLock, Answered, admissionVars,
    entries, ages

\* With requests checked one after the other: in any RateTtl ticks at most
\* RateMax orders of the user pass _check_rate_limit.
THEOREM FiveAMinute == ASSUME ~Overlap PROVE AdmissionSpec => []WindowLimit
<1> USE AdmissionAssumption
<1> DEFINE IInv == AdmissionTypeOK /\ Youngest /\ Alone /\ SeenNow /\ Covers
<1>1. AdmissionInit => Youngest /\ Alone /\ SeenNow /\ Covers
  <2> SUFFICES ASSUME AdmissionInit PROVE Youngest /\ Alone /\ SeenNow /\ Covers
    OBVIOUS
  <2>1. Youngest /\ Alone /\ SeenNow
    BY DEF AdmissionInit, Youngest, Alone, SeenNow, Checking, LongAgo
  <2>2. Recent = {}
    BY DEF AdmissionInit, Recent, LongAgo
  <2> QED
    BY <2>1, <2>2, FS_EmptySet DEF Covers, AdmissionInit
<1>2. IInv /\ [AdmissionNext]_admissionVars => (Youngest /\ Alone /\ SeenNow /\ Covers)'
  BY YoungestStays, AloneStays, SeenNowStays, CoversStays
<1>3. IInv => WindowLimit
  <2>1. AdmissionTypeOK => IsFiniteSet(Recent) /\ Cardinality(Recent) \in Nat
    BY FS_Subset, FS_CardinalityType DEF Recent
  <2> QED
    BY <2>1 DEF Covers, WindowLimit, AdmissionTypeOK
<1>4. AdmissionSpec => []IInv
  BY <1>1, <1>2, AdmissionTyped, PTL DEF AdmissionSpec
<1> QED
  BY <1>3, <1>4, PTL

==============================================================================
