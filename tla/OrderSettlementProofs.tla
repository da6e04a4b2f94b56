----------------------- MODULE OrderSettlementProofs -----------------------
(***************************************************************************)
(* Theorems about OrderSettlement, for every set of orders, tickers and    *)
(* sessions.                                                               *)
(***************************************************************************)
EXTENDS OrderSettlement, FiniteSetTheorems, TLAPS

\* In the stage phase an order is still to do, or flushed, only because the
\* broker reported more than the row said: NewlyFilled is positive.
StageIsNew ==
    \A p \in Settlers : pc[p] = "stage" =>
        \A o \in todo[p] \cup dirty[p] : report[p][o] > seen[p][o].filled

\* Only a session in its stage phase has flushed anything.
FlushedInStage == \A p \in Settlers : pc[p] # "stage" => dirty[p] = {}

TypeInv == TypeOK /\ StageIsNew /\ FlushedInStage

LEMMA InitTypeInv == Init => TypeInv
  BY OrderAssumption, SessionAssumption
  DEF Init, TypeInv, TypeOK, Ops, StageIsNew, FlushedInStage, OrderRow, Status, OpenStatus, Row,
      NothingSeen, NothingReported, NoOps, Sessions

KisRow == [state : {"none", "open", "closed"}, filled : Nat]

\* Changing an order's state at the broker leaves its book well-typed.
LEMMA BrokerWriteType ==
  ASSUME NEW k \in [Orders -> KisRow], NEW o \in Orders,
         NEW st \in {"none", "open", "closed"}
  PROVE  [k EXCEPT ![o].state = st] \in [Orders -> KisRow]
  <1>1. [k[o] EXCEPT !.state = st] \in KisRow
    BY DEF KisRow
  <1>. QED
    BY <1>1

LEMMA RequestWriteType ==
  ASSUME NEW o \in Orders, NEW S, request \in [Orders -> S], NEW r \in S
  PROVE  [request EXCEPT ![o] = r] \in [Orders -> S]
  OBVIOUS

\* Writing a status leaves the table well-typed.
LEMMA StatusWriteType ==
  ASSUME order \in [Orders -> OrderRow], NEW o \in Orders, NEW st \in Status
  PROVE  [order EXCEPT ![o].status = st] \in [Orders -> OrderRow]
  <1>1. [order[o] EXCEPT !.status = st] \in OrderRow
    BY DEF OrderRow
  <1>. QED
    BY <1>1

\* Work on a ticker keeps its type: rows hold a positive number of shares.
LEMMA AfterFillType ==
  ASSUME NEW w \in Ops,
         NEW rs \in SUBSET Row,
         NEW side \in {"BUY", "SELL"}, NEW n \in Nat \ {0}
  PROVE  AfterFill(w, rs, side, n) \in Ops
  BY DEF AfterFill, Row, Ids, Ops

\* A commit of holding rows keeps the types of the two columns it writes.
LEMMA ApplyOpsType ==
  ASSUME TypeOK, NEW s \in Sessions, ApplyOps(s)
  PROVE  /\ holdings' \in [Tickers -> SUBSET Row]
         /\ nextId' \in [Tickers -> Nat \ {0}]
  <1> DEFINE done == ops[s]
  <1>1. done \in [Tickers -> Ops]
    BY DEF TypeOK
  <1>2. nextId' \in [Tickers -> Nat \ {0}]
    BY <1>1 DEF TypeOK, ApplyOps
  <1>3. ASSUME NEW t \in Tickers
        PROVE  holdings'[t] \in SUBSET Row
    <2>1. done[t].put \in SUBSET Row /\ holdings[t] \in SUBSET Row
      BY <1>1 DEF TypeOK, Ops
    <2>2. nextId[t] \in Nat
      BY DEF TypeOK
    <2>. QED
      BY <2>1, <2>2 DEF ApplyOps, Row
  <1>. QED
    BY <1>2, <1>3 DEF ApplyOps

\* Committed orders keep their type.
LEMMA CommitFillsType ==
  ASSUME TypeOK, StageIsNew, NEW p \in Settlers, NEW done \in SUBSET Orders,
         pc[p] = "stage", done \subseteq todo[p] \cup dirty[p], CommitFills(p, done)
  PROVE  /\ order' \in [Orders -> OrderRow]
         /\ booked' \in [Orders -> Nat]
  <1>1. \A o \in done : NewlyFilled(p, o) \in Nat
    <2> SUFFICES ASSUME NEW o \in done PROVE NewlyFilled(p, o) \in Nat
      OBVIOUS
    <2>1. report[p][o] > seen[p][o].filled
      BY DEF StageIsNew
    <2>2. seen[p][o] \in OrderRow /\ report[p][o] \in Nat
      BY DEF TypeOK
    <2>. QED
      BY <2>1, <2>2 DEF NewlyFilled, OrderRow
  <1>2. booked' \in [Orders -> Nat]
    BY <1>1 DEF TypeOK, CommitFills
  <1>3. order' \in [Orders -> OrderRow]
    <2>1. ASSUME NEW o \in Orders PROVE order'[o] \in OrderRow
      <3>1. order[o] \in OrderRow /\ report[p][o] \in Nat
        BY DEF TypeOK
      <3>. QED
        BY <3>1 DEF CommitFills, OrderRow, Status, OpenStatus
    <2>. QED
      BY <2>1 DEF CommitFills
  <1>. QED
    BY <1>2, <1>3

\* What a reconciliation plans for a ticker is well-typed.
LEMMA SyncReadType ==
  ASSUME TypeOK, NEW s \in Syncs, SyncRead(s)
  PROVE  ops' \in [Sessions -> [Tickers -> Ops]]
  <1>1. PICK pick \in [Tickers -> SUBSET UNION {holdings[t] : t \in Tickers}] :
           /\ \A t \in Tickers : pick[t] \subseteq holdings[t]
           /\ ops' = [ops EXCEPT ![s] = [t \in Tickers |->
                IF view[s][t] = 0 THEN [gone |-> Ids(pick[t]), put |-> {}]
                ELSE [gone |-> {},
                      put |-> IF pick[t] = {}
                              THEN {[id |-> 0, qty |-> view[s][t]]}
                              ELSE {[r EXCEPT !.qty = view[s][t]] :
                                      r \in {x \in pick[t] : x.qty # view[s][t]}}]]]
    BY DEF SyncRead
  <1>2. ASSUME NEW t \in Tickers
        PROVE  IF view[s][t] = 0 THEN [gone |-> Ids(pick[t]), put |-> {}] \in Ops
               ELSE [gone |-> {},
                     put |-> IF pick[t] = {}
                             THEN {[id |-> 0, qty |-> view[s][t]]}
                             ELSE {[r EXCEPT !.qty = view[s][t]] :
                                     r \in {x \in pick[t] : x.qty # view[s][t]}}]
                    \in Ops
    <2>1. pick[t] \in SUBSET Row /\ view[s][t] \in Nat
      BY <1>1 DEF TypeOK
    <2>2. Ids(pick[t]) \in SUBSET Nat
      BY <2>1 DEF Ids, Row
    <2>3. CASE view[s][t] = 0
      BY <2>2, <2>3 DEF Ops
    <2>4. CASE view[s][t] # 0
      <3>1. {[id |-> 0, qty |-> view[s][t]]} \in SUBSET Row
        BY <2>1, <2>4 DEF Row
      <3>2. ASSUME NEW r \in pick[t]
            PROVE  [r EXCEPT !.qty = view[s][t]] \in Row
        BY <2>1, <2>4 DEF Row
      <3>. QED
        BY <2>4, <3>1, <3>2 DEF Ops
    <2>. QED
      BY <2>3, <2>4
  <1>. QED
    BY <1>1, <1>2 DEF TypeOK, Sessions

\* A settler that closes is back at the types and leaves nothing flushed.
LEMMA CloseSettlerType ==
  ASSUME TypeInv, NEW p \in Settlers, CloseSettler(p)
  PROVE  /\ pc' \in [Sessions -> {"idle", "query", "stage", "read", "commit"}]
         /\ seen' \in [Settlers -> [Orders -> OrderRow]]
         /\ todo' \in [Settlers -> SUBSET Orders]
         /\ report' \in [Settlers -> [Orders -> Nat]]
         /\ dirty' \in [Settlers -> SUBSET Orders]
         /\ ops' \in [Sessions -> [Tickers -> Ops]]
         /\ StageIsNew' /\ FlushedInStage'
  <1> USE DEF TypeInv, TypeOK
  <1>1. NothingSeen \in [Orders -> OrderRow] /\ NothingReported \in [Orders -> Nat]
    BY DEF NothingSeen, NothingReported, OrderRow, Status
  <1>2. [t \in Tickers |-> NoOps] \in [Tickers -> Ops]
    BY DEF NoOps, Ops
  <1>3. /\ pc' \in [Sessions -> {"idle", "query", "stage", "read", "commit"}]
        /\ todo' \in [Settlers -> SUBSET Orders]
        /\ dirty' \in [Settlers -> SUBSET Orders]
    BY DEF CloseSettler, Sessions
  <1>4. /\ seen' \in [Settlers -> [Orders -> OrderRow]]
        /\ report' \in [Settlers -> [Orders -> Nat]]
    BY <1>1 DEF CloseSettler
  <1>5. ops' \in [Sessions -> [Tickers -> Ops]]
    BY <1>2 DEF CloseSettler
  <1>6. StageIsNew' /\ FlushedInStage'
    BY DEF CloseSettler, StageIsNew, FlushedInStage, Sessions
  <1>. QED
    BY <1>3, <1>4, <1>5, <1>6

LEMMA NextTypeInv == TypeInv /\ [Next]_vars => TypeInv'
  <1> SUFFICES ASSUME TypeInv, [Next]_vars PROVE TypeInv'
    OBVIOUS
  <1> USE OrderAssumption, SessionAssumption
      DEF TypeInv, StageIsNew, FlushedInStage, exchange, ledger, rows, settling
  <1>1. CASE Broker
    <2>1. CASE EndOfDay
      <3>1. listed' \subseteq Reported
        BY <2>1 DEF EndOfDay, TypeOK
      <3>2. ASSUME NEW o \in Orders
            PROVE  kis'[o] \in [state : {"none", "open", "closed"}, filled : Nat]
        <4>1. kis[o] \in [state : {"none", "open", "closed"}, filled : Nat]
          BY DEF TypeOK
        <4>2. [kis[o] EXCEPT !.state = "closed"]
                 \in [state : {"none", "open", "closed"}, filled : Nat]
          BY <4>1
        <4>. QED
          BY <2>1, <4>1, <4>2 DEF EndOfDay
      <3>3. kis' \in [Orders -> [state : {"none", "open", "closed"}, filled : Nat]]
        BY <2>1, <3>2 DEF EndOfDay
      <3>4. UNCHANGED <<position, ledger, rows, request, pc, settling, view, ops>>
        BY <2>1 DEF EndOfDay
      <3>. QED
        BY <3>1, <3>3, <3>4 DEF TypeOK
    <2>2. ASSUME NEW o \in Orders, Fill(o) PROVE TypeInv'
      <3>1. position' \in [Tickers -> Nat]
        <4>1. TickerOf[o] \in Tickers /\ SideOf[o] \in {"BUY", "SELL"}
          OBVIOUS
        <4>. QED
          BY <2>2, <4>1 DEF Fill, TypeOK
      <3>2. kis' \in [Orders -> [state : {"none", "open", "closed"}, filled : Nat]]
        BY <2>2 DEF Fill, TypeOK
      <3>3. UNCHANGED <<listed, ledger, rows, request, pc, settling, view, ops>>
        BY <2>2 DEF Fill
      <3>. QED
        BY <3>1, <3>2, <3>3 DEF TypeOK
    <2>3. ASSUME NEW o \in Orders, KisAccepts(o) \/ KisRefuses(o) PROVE TypeInv'
      <3>1. /\ kis' \in [Orders -> [state : {"none", "open", "closed"}, filled : Nat]]
            /\ request' \in [Orders -> {"new", "sent", "accepted", "refused", "done",
                                         "cancelling"}]
        <4>. kis \in [Orders -> KisRow]
          BY DEF TypeOK, KisRow
        <4>1. CASE KisAccepts(o)
          <5>1. /\ kis' = [kis EXCEPT ![o].state = "open"]
                /\ request' = [request EXCEPT ![o] = "accepted"]
            BY <4>1 DEF KisAccepts
          <5>2. kis' \in [Orders -> KisRow]
            BY <5>1, BrokerWriteType
          <5>. QED
            BY <5>1, <5>2, RequestWriteType DEF TypeOK, KisRow
        <4>2. CASE KisRefuses(o)
          BY <4>2, RequestWriteType DEF KisRefuses, TypeOK
        <4>. QED
          BY <2>3, <4>1, <4>2
      <3>2. UNCHANGED <<position, listed, ledger, rows, pc, settling, view, ops>>
        BY <2>3 DEF KisAccepts, KisRefuses
      <3>. QED
        BY <3>1, <3>2 DEF TypeOK
    <2>. QED
      BY <1>1, <2>1, <2>2, <2>3 DEF Broker
  <1>2. ASSUME NEW o \in Orders,
               \/ Submit(o) \/ Record(o) \/ RecordNothing(o)
               \/ CancelAtKis(o) \/ CancelMark(o) \/ CancelLost(o)
        PROVE  TypeInv'
    <2>1. CASE Submit(o) \/ RecordNothing(o) \/ CancelLost(o)
      <3>1. request' \in [Orders -> {"new", "sent", "accepted", "refused", "done",
                                      "cancelling"}]
        <4>1. PICK st \in {"sent", "done"} : request' = [request EXCEPT ![o] = st]
          BY <2>1 DEF Submit, RecordNothing, CancelLost
        <4>. QED
          BY <4>1 DEF TypeOK
      <3>2. UNCHANGED <<exchange, ledger, rows, pc, settling, view, ops>>
        BY <2>1 DEF Submit, RecordNothing, CancelLost
      <3>. QED
        BY <3>1, <3>2 DEF TypeOK
    <2>2. CASE Record(o)
      <3>1. order' \in [Orders -> OrderRow]
        <4>1. PICK st \in Status : order' = [order EXCEPT ![o].status = st]
          BY <2>2 DEF Record, Status, OpenStatus
        <4>. QED
          BY <4>1, StatusWriteType DEF TypeOK
      <3>. QED
        BY <2>2, <3>1 DEF Record, TypeOK
    <2>3. CASE CancelAtKis(o)
      <3>1. /\ kis' = [kis EXCEPT ![o].state = "closed"]
            /\ request' = [request EXCEPT ![o] = "cancelling"]
            /\ UNCHANGED <<position, listed, ledger, rows, pc, settling, view, ops>>
        BY <2>3 DEF CancelAtKis
      <3>2. kis' \in [Orders -> KisRow]
        BY <3>1, BrokerWriteType DEF TypeOK, KisRow
      <3>3. request' \in [Orders -> {"new", "sent", "accepted", "refused", "done",
                                      "cancelling"}]
        BY <3>1, RequestWriteType DEF TypeOK
      <3>. QED
        BY <3>1, <3>2, <3>3 DEF TypeOK, KisRow
    <2>4. CASE CancelMark(o)
      <3>1. order' \in [Orders -> OrderRow]
        <4>1. "cancelled" \in Status
          BY DEF Status
        <4>2. order' = order \/ order' = [order EXCEPT ![o].status = "cancelled"]
          BY <2>4 DEF CancelMark
        <4>3. [order EXCEPT ![o].status = "cancelled"] \in [Orders -> OrderRow]
          BY <4>1, StatusWriteType DEF TypeOK
        <4>. QED
          BY <4>2, <4>3 DEF TypeOK
      <3>. QED
        BY <2>4, <3>1 DEF CancelMark, TypeOK
    <2>. QED
      BY <1>2, <2>1, <2>2, <2>3, <2>4
  <1>3. ASSUME NEW p \in Settlers, SettleRead(p) PROVE TypeInv'
    BY <1>3 DEF SettleRead, MayStart, TypeOK, Sessions
  <1>4. ASSUME NEW p \in Settlers, SettleQuery(p) PROVE TypeInv'
    <2>1. report' \in [Settlers -> [Orders -> Nat]]
      BY <1>4 DEF SettleQuery, TypeOK
    <2>2. todo' \in [Settlers -> SUBSET Orders]
      BY <1>4 DEF SettleQuery, TypeOK
    <2>3. pc' \in [Sessions -> {"idle", "query", "stage", "read", "commit"}]
      BY <1>4 DEF SettleQuery, TypeOK
    <2>4. TypeOK'
      BY <1>4, <2>1, <2>2, <2>3 DEF SettleQuery, TypeOK
    <2>5. StageIsNew' /\ FlushedInStage'
      BY <1>4 DEF SettleQuery, TypeOK, Sessions
    <2>. QED
      BY <2>4, <2>5
  <1>5. ASSUME NEW p \in Settlers, SettleQueryFails(p) \/ SettleAborts(p)
        PROVE  TypeInv'
    <2>1. CloseSettler(p) /\ UNCHANGED <<exchange, ledger, rows, request, view>>
      BY <1>5 DEF SettleQueryFails, SettleAborts
    <2>. QED
      BY <2>1, CloseSettlerType DEF TypeOK
  <1>6. ASSUME NEW p \in Settlers, NEW o \in Orders, SettleStage(p, o)
        PROVE  TypeInv'
    <2>1. Visible(p, TickerOf[o]) \in SUBSET Row
      BY DEF Visible, TypeOK, Sessions, Ops
    <2>2. NewlyFilled(p, o) \in Nat \ {0}
      BY <1>6 DEF SettleStage, NewlyFilled, TypeOK, OrderRow
    <2>3. AfterFill(ops[p][TickerOf[o]], Visible(p, TickerOf[o]), SideOf[o],
                    NewlyFilled(p, o)) \in Ops
      <3>1. ops[p][TickerOf[o]] \in Ops /\ SideOf[o] \in {"BUY", "SELL"}
        BY DEF TypeOK, Sessions
      <3>. QED
        BY <2>1, <2>2, <3>1, AfterFillType
    <2>4. ops' \in [Sessions -> [Tickers -> Ops]]
      BY <1>6, <2>3 DEF SettleStage, TypeOK, Sessions
    <2>. QED
      BY <1>6, <2>4 DEF SettleStage, TypeOK, Sessions
  <1>7. ASSUME NEW p \in Settlers, SettleCommit(p) PROVE TypeInv'
    <2>1. order' \in [Orders -> OrderRow] /\ booked' \in [Orders -> Nat]
      BY <1>7, CommitFillsType DEF SettleCommit, TypeOK
    <2>2. holdings' \in [Tickers -> SUBSET Row] /\ nextId' \in [Tickers -> Nat \ {0}]
      BY <1>7, ApplyOpsType DEF SettleCommit, Sessions
    <2>. QED
      BY <1>7, <2>1, <2>2, CloseSettlerType DEF SettleCommit, TypeOK
  <1>8. ASSUME NEW p \in Settlers, NEW o \in Orders, SettleMeetsTwoRows(p, o)
        PROVE  TypeInv'
    <2>1. order' \in [Orders -> OrderRow] /\ booked' \in [Orders -> Nat]
      <3>1. CASE UNCHANGED <<ledger, rows>>
        BY <3>1 DEF TypeOK
      <3>2. CASE CommitFills(p, dirty[p] \cup {o})
        BY <1>8, <3>2, CommitFillsType DEF SettleMeetsTwoRows, TypeOK
      <3>. QED
        BY <1>8, <3>1, <3>2 DEF SettleMeetsTwoRows
    <2>2. holdings' \in [Tickers -> SUBSET Row] /\ nextId' \in [Tickers -> Nat \ {0}]
      <3>1. CASE UNCHANGED <<ledger, rows>>
        BY <3>1 DEF TypeOK
      <3>2. CASE ApplyOps(p)
        BY <3>2, ApplyOpsType DEF Sessions
      <3>. QED
        BY <1>8, <3>1, <3>2 DEF SettleMeetsTwoRows
    <2>. QED
      BY <1>8, <2>1, <2>2, CloseSettlerType DEF SettleMeetsTwoRows, TypeOK
  <1>9. ASSUME NEW s \in Syncs, Sync(s) PROVE TypeInv'
    <2>1. CASE SyncFetch(s)
      BY <2>1 DEF SyncFetch, MayStart, TypeOK, Sessions
    <2>2. CASE SyncRead(s)
      <3>1. ops' \in [Sessions -> [Tickers -> Ops]]
        BY <2>2, SyncReadType DEF Sessions
      <3>. QED
        BY <2>2, <3>1 DEF SyncRead, TypeOK, Sessions
    <2>3. CASE SyncCommit(s)
      <3>1. holdings' \in [Tickers -> SUBSET Row] /\ nextId' \in [Tickers -> Nat \ {0}]
        BY <2>3, ApplyOpsType DEF SyncCommit, Sessions
      <3>. QED
        BY <2>3, <3>1 DEF SyncCommit, CloseSync, TypeOK, Sessions, NoOps, Ops
    <2>4. CASE SyncAborts(s)
      BY <2>4 DEF SyncAborts, CloseSync, TypeOK, Sessions, NoOps, Ops
    <2>. QED
      BY <1>9, <2>1, <2>2, <2>3, <2>4 DEF Sync
  <1>10. CASE UNCHANGED vars
    BY <1>10 DEF vars, TypeOK
  <1>. QED
    BY <1>1, <1>2, <1>3, <1>4, <1>5, <1>6, <1>7, <1>8, <1>9, <1>10
    DEF Next, Users, Settle

\* TypeOK holds in every reachable state: no column leaves its type, and in
\* particular no settlement or reconciliation leaves a holding at zero or fewer
\* shares.
THEOREM TypeCorrect == Spec => []TypeOK
  <1>1. TypeInv => TypeOK
    BY DEF TypeInv
  <1>. QED
    BY <1>1, InitTypeInv, NextTypeInv, PTL DEF Spec

-----------------------------------------------------------------------------
(***************************************************************************)
(* Kinds of steps.  The invariants of the ledger look at a step only as    *)
(* one of these.                                                           *)
(***************************************************************************)

SameFills ==
    /\ UNCHANGED booked
    /\ \A o \in Orders : order'[o].filled = order[o].filled

\* A settler commits the fills of the orders in done ...
Commits(p, done) ==
    /\ pc[p] = "stage"
    /\ done \subseteq todo[p] \cup dirty[p]
    /\ CommitFills(p, done)
    /\ CloseSettler(p)
    /\ UNCHANGED <<kis, request>>

\* ... or rolls back; every other step leaves the settlers and the fills alone.
Rollback(p) == CloseSettler(p) /\ UNCHANGED <<kis, ledger, request>>

Quiet ==
    /\ UNCHANGED settling
    /\ \A p \in Settlers : pc'[p] = pc[p]
    /\ SameFills
    /\ \A o \in Orders :
         order'[o] = order[o] \/ request[o] \in {"accepted", "refused", "cancelling"}

SettlerMoves(p) ==
    \/ SettleRead(p) \/ SettleQuery(p) \/ \E o \in Orders : SettleStage(p, o)
    \/ Rollback(p) \/ \E done \in SUBSET Orders : Commits(p, done)

LEMMA StepKinds ==
  ASSUME TypeInv, [Next]_vars
  PROVE  Quiet \/ \E p \in Settlers : SettlerMoves(p)
  <1> USE DEF exchange, ledger, rows, settling, SameFills
  <1>1. CASE UNCHANGED vars
    BY <1>1 DEF vars, Quiet
  <1>2. CASE Broker
    BY <1>2 DEF Broker, EndOfDay, Fill, KisAccepts, KisRefuses, Quiet
  <1>3. ASSUME NEW o \in Orders,
               \/ Submit(o) \/ Record(o) \/ RecordNothing(o)
               \/ CancelAtKis(o) \/ CancelMark(o) \/ CancelLost(o)
        PROVE  Quiet
    <2>1. /\ \/ order' = order
             \/ \E st \in Status : order' = [order EXCEPT ![o].status = st]
          /\ UNCHANGED <<booked, settling, pc>>
      BY <1>3 DEF Submit, Record, RecordNothing, CancelAtKis, CancelMark, CancelLost,
                  Status, OpenStatus
    <2>2. order' = order \/ request[o] \in {"accepted", "refused", "cancelling"}
      BY <1>3 DEF Submit, Record, RecordNothing, CancelAtKis, CancelMark, CancelLost
    <2>3. ASSUME NEW st \in Status, order' = [order EXCEPT ![o].status = st],
                 NEW x \in Orders
          PROVE  /\ order'[x].filled = order[x].filled
                 /\ x # o => order'[x] = order[x]
      BY <2>3 DEF TypeInv, TypeOK, OrderRow
    <2>. QED
      BY <2>1, <2>2, <2>3 DEF Quiet
  <1>4. ASSUME NEW p \in Settlers, Settle(p) PROVE SettlerMoves(p)
    <2>1. CASE SettleCommit(p)
      <3>1. Commits(p, dirty[p]) /\ dirty[p] \in SUBSET Orders
        BY <2>1 DEF SettleCommit, Commits, TypeInv, TypeOK
      <3>. QED
        BY <3>1 DEF SettlerMoves
    <2>2. ASSUME NEW o \in Orders, SettleMeetsTwoRows(p, o) PROVE SettlerMoves(p)
      <3>1. dirty[p] \cup {o} \in SUBSET Orders
        BY DEF TypeInv, TypeOK
      <3>2. Rollback(p) \/ Commits(p, dirty[p] \cup {o})
        BY <2>2 DEF SettleMeetsTwoRows, Commits, Rollback
      <3>. QED
        BY <3>1, <3>2 DEF SettlerMoves
    <2>3. CASE SettleQueryFails(p) \/ SettleAborts(p)
      BY <2>3 DEF SettleQueryFails, SettleAborts, Rollback, SettlerMoves
    <2>. QED
      BY <1>4, <2>1, <2>2, <2>3 DEF Settle, SettlerMoves
  <1>5. ASSUME NEW s \in Syncs, Sync(s) PROVE Quiet
    <2>1. UNCHANGED <<ledger, settling>>
      BY <1>5 DEF Sync, SyncFetch, SyncRead, SyncCommit, SyncAborts
    <2>2. \/ pc' = [pc EXCEPT ![s] = "read"]
          \/ pc' = [pc EXCEPT ![s] = "commit"]
          \/ pc' = [pc EXCEPT ![s] = "idle"]
      BY <1>5 DEF Sync, SyncFetch, SyncRead, SyncCommit, SyncAborts, CloseSync
    <2>3. \A p \in Settlers : p # s
      BY SessionAssumption
    <2>4. \A p \in Settlers : pc'[p] = pc[p]
      BY <2>2, <2>3 DEF TypeInv, TypeOK, Sessions
    <2>. QED
      BY <2>1, <2>4 DEF Quiet
  <1>. QED
    BY <1>1, <1>2, <1>3, <1>4, <1>5 DEF Next, Users

\* What the broker filled grows one share at a time, up to the quantity, and
\* never while the program writes its ledger.
FillStep(o) ==
    /\ kis[o].filled < Qty[o]
    /\ \A x \in Orders :
         kis'[x].filled = IF x = o THEN kis[x].filled + 1 ELSE kis[x].filled
    /\ UNCHANGED ledger

SameKis == \A x \in Orders : kis'[x].filled = kis[x].filled

LEMMA BrokerStep ==
  ASSUME TypeInv, [Next]_vars
  PROVE  SameKis \/ \E o \in Orders : FillStep(o)
  <1> USE DEF exchange, ledger, rows, settling, KisRow
  <1>1. kis \in [Orders -> KisRow]
    BY DEF TypeInv, TypeOK
  <1>2. ASSUME NEW o \in Orders, Fill(o) PROVE FillStep(o)
    BY <1>1, <1>2 DEF Fill, FillStep
  <1>3. CASE EndOfDay
    <2>1. ASSUME NEW x \in Orders PROVE kis'[x].filled = kis[x].filled
      <3>1. kis'[x] = kis[x] \/ kis'[x] = [kis[x] EXCEPT !.state = "closed"]
        BY <1>3 DEF EndOfDay
      <3>. QED
        BY <1>1, <3>1
    <2>. QED
      BY <2>1 DEF SameKis
  <1>4. ASSUME NEW o \in Orders, KisAccepts(o) \/ CancelAtKis(o) PROVE SameKis
    <2>1. \/ kis' = [kis EXCEPT ![o].state = "open"]
          \/ kis' = [kis EXCEPT ![o].state = "closed"]
          \/ kis' = kis
      BY <1>4 DEF KisAccepts, CancelAtKis
    <2>2. ASSUME NEW x \in Orders PROVE kis'[x].filled = kis[x].filled
      <3>1. CASE kis' = kis
        BY <3>1
      <3>2. ASSUME NEW st, kis' = [kis EXCEPT ![o].state = st]
            PROVE  kis'[x].filled = kis[x].filled
        <4>1. kis'[x] = IF x = o THEN [kis[x] EXCEPT !.state = st] ELSE kis[x]
          BY <1>1, <3>2
        <4>. QED
          BY <1>1, <4>1
      <3>. QED
        BY <2>1, <3>1, <3>2
    <2>. QED
      BY <2>2 DEF SameKis
  <1>5. CASE UNCHANGED kis
    BY <1>5 DEF SameKis
  <1>6. UNCHANGED kis \/ EndOfDay
        \/ \E o \in Orders : Fill(o) \/ KisAccepts(o) \/ CancelAtKis(o)
    <2>1. CASE Broker
      BY <2>1 DEF Broker, KisRefuses
    <2>2. CASE Users
      BY <2>2 DEF Users, Submit, Record, RecordNothing, CancelMark, CancelLost
    <2>3. ASSUME NEW p \in Settlers, Settle(p) PROVE UNCHANGED kis
      BY <2>3 DEF Settle, SettleRead, SettleQuery, SettleQueryFails, SettleStage,
                  SettleCommit, SettleAborts, SettleMeetsTwoRows
    <2>4. ASSUME NEW s \in Syncs, Sync(s) PROVE UNCHANGED kis
      BY <2>4 DEF Sync, SyncFetch, SyncRead, SyncCommit, SyncAborts
    <2>. QED
      BY <2>1, <2>2, <2>3, <2>4 DEF Next, vars
  <1>. QED
    BY <1>2, <1>3, <1>4, <1>5, <1>6

-----------------------------------------------------------------------------
(***************************************************************************)
(* What holds whatever runs at the same time.                              *)
(***************************************************************************)

\* A report is at most what the broker has filled, which is at most what was
\* ordered.
ReportTruthful ==
    /\ \A p \in Settlers : \A o \in Orders : report[p][o] <= kis[o].filled
    /\ \A o \in Orders : kis[o].filled <= Qty[o]

LEMMA ReportStep ==
  ASSUME TypeInv, ReportTruthful, [Next]_vars
  PROVE  ReportTruthful'
  <1>1. \A o \in Orders :
           kis[o].filled \in Nat /\ Qty[o] \in Nat /\ kis[o].filled <= Qty[o]
    BY OrderAssumption DEF TypeInv, TypeOK, ReportTruthful
  <1>2. /\ \A o \in Orders : kis'[o].filled \in Nat
        /\ \A o \in Orders : kis[o].filled <= kis'[o].filled
        /\ \A o \in Orders : kis'[o].filled <= Qty[o]
    BY <1>1, BrokerStep DEF SameKis, FillStep
  <1>3. ASSUME NEW p \in Settlers, NEW o \in Orders
        PROVE  report'[p][o] = report[p][o] \/ report'[p][o] \in {0, kis[o].filled}
    <2>1. CASE Quiet
      BY <2>1 DEF Quiet, settling
    <2>2. ASSUME NEW q \in Settlers, SettlerMoves(q)
          PROVE  report'[p][o] = report[p][o] \/ report'[p][o] \in {0, kis[o].filled}
      <3>1. CASE SettleRead(q) \/ \E x \in Orders : SettleStage(q, x)
        BY <3>1 DEF SettleRead, SettleStage
      <3>2. CASE SettleQuery(q)
        BY <3>2 DEF SettleQuery, TypeInv, TypeOK
      <3>3. CASE CloseSettler(q)
        BY <3>3 DEF CloseSettler, NothingReported, TypeInv, TypeOK
      <3>. QED
        BY <2>2, <3>1, <3>2, <3>3 DEF SettlerMoves, Rollback, Commits
    <2>. QED
      BY StepKinds, <2>1, <2>2
  <1>4. ASSUME NEW p \in Settlers, NEW o \in Orders
        PROVE  report'[p][o] <= kis'[o].filled
    <2>1. report[p][o] \in Nat /\ report[p][o] <= kis[o].filled
      BY DEF TypeInv, TypeOK, ReportTruthful
    <2>. QED
      BY <1>1, <1>2, <1>3, <2>1
  <1>. QED
    BY <1>2, <1>4 DEF ReportTruthful

\* How one step may move the request, the row's status and the broker's state
\* of an order.
RequestMoves(o) ==
    \/ request'[o] = request[o]
    \/ request[o] \in {"new", "sent"} /\ request'[o] \in {"sent", "accepted", "refused"}
    \/ request[o] \in {"accepted", "refused", "cancelling"} /\ request'[o] = "done"
    \/ /\ request[o] = "done" /\ request'[o] = "cancelling"
       /\ kis'[o].state = "closed" /\ kis'[o].filled < Qty[o]

StatusMoves(o) ==
    \/ order'[o].status = order[o].status
    \/ /\ request[o] \in {"accepted", "refused"} /\ request'[o] = "done"
       /\ order'[o].status \in {"pending", "failed"}
    \/ /\ request[o] = "cancelling" /\ request'[o] = "done"
       /\ order'[o].status = "cancelled" /\ UNCHANGED kis
    \/ \E p \in Settlers :
         /\ o \in todo[p] \cup dirty[p]
         /\ UNCHANGED <<kis, request>>
         /\ \/ order'[o].status = "partial"
            \/ /\ order'[o].status = "filled"
               /\ report[p][o] >= Qty[o] /\ order'[o].filled = report[p][o]

KisMoves(o) ==
    \/ kis'[o] = kis[o]
    \/ kis'[o].state = "open" /\ (kis[o].state = "open" \/ request[o] = "sent")
    \/ kis'[o].state = "closed" /\ kis'[o].filled = kis[o].filled

LEMMA OrderStep ==
  ASSUME TypeInv, [Next]_vars, NEW o \in Orders
  PROVE  RequestMoves(o) /\ StatusMoves(o) /\ KisMoves(o)
  <1> USE DEF exchange, ledger, rows, settling, KisRow
  <1> DEFINE Goal == RequestMoves(o) /\ StatusMoves(o) /\ KisMoves(o)
             Requests == {"new", "sent", "accepted", "refused", "done", "cancelling"}
  <1>1. /\ kis \in [Orders -> KisRow]
        /\ order \in [Orders -> OrderRow]
        /\ request \in [Orders -> Requests]
    BY DEF TypeInv, TypeOK
  <1>2. ASSUME UNCHANGED <<kis, request, order>> PROVE Goal
    BY <1>2 DEF RequestMoves, StatusMoves, KisMoves
  <1>3. ASSUME NEW x \in Orders, Fill(x) PROVE Goal
    BY <1>1, <1>3 DEF Fill, RequestMoves, StatusMoves, KisMoves
  <1>4. CASE EndOfDay
    <2>1. kis'[o] = kis[o] \/ kis'[o] = [kis[o] EXCEPT !.state = "closed"]
      BY <1>4 DEF EndOfDay
    <2>2. KisMoves(o)
      BY <1>1, <2>1 DEF KisMoves
    <2>3. UNCHANGED <<request, order>>
      BY <1>4 DEF EndOfDay
    <2>. QED
      BY <2>2, <2>3 DEF RequestMoves, StatusMoves
  <1>5. ASSUME NEW x \in Orders, Submit(x) \/ RecordNothing(x) \/ KisRefuses(x)
                                 \/ CancelLost(x)
        PROVE  Goal
    <2>1. UNCHANGED <<kis, order>>
      BY <1>5 DEF Submit, RecordNothing, KisRefuses, CancelLost
    <2>2. RequestMoves(o)
      BY <1>1, <1>5 DEF Submit, RecordNothing, KisRefuses, CancelLost, RequestMoves
    <2>. QED
      BY <2>1, <2>2 DEF StatusMoves, KisMoves
  <1>6. ASSUME NEW x \in Orders, KisAccepts(x) PROVE Goal
    BY <1>1, <1>6 DEF KisAccepts, RequestMoves, StatusMoves, KisMoves
  <1>7. ASSUME NEW x \in Orders, CancelAtKis(x) PROVE Goal
    BY <1>1, <1>7, OrderAssumption DEF CancelAtKis, RequestMoves, StatusMoves, KisMoves
  <1>8. ASSUME NEW x \in Orders, Record(x) PROVE Goal
    <2>1. PICK st \in {"pending", "failed"} : order' = [order EXCEPT ![x].status = st]
      BY <1>8 DEF Record
    <2>2. /\ request[x] \in {"accepted", "refused"}
          /\ request' = [request EXCEPT ![x] = "done"]
          /\ UNCHANGED kis
      BY <1>8 DEF Record
    <2>3. RequestMoves(o)
      BY <1>1, <2>2 DEF RequestMoves
    <2>4. StatusMoves(o)
      <3>1. CASE o = x
        BY <1>1, <2>1, <2>2, <3>1 DEF StatusMoves, OrderRow
      <3>2. CASE o # x
        BY <1>1, <2>1, <3>2 DEF StatusMoves
      <3>. QED
        BY <3>1, <3>2
    <2>. QED
      BY <2>2, <2>3, <2>4 DEF KisMoves
  <1>9. ASSUME NEW x \in Orders, CancelMark(x) PROVE Goal
    <2>1. /\ request[x] = "cancelling"
          /\ request' = [request EXCEPT ![x] = "done"]
          /\ UNCHANGED kis
          /\ order' = order \/ order' = [order EXCEPT ![x].status = "cancelled"]
      BY <1>9 DEF CancelMark
    <2>2. RequestMoves(o)
      BY <1>1, <2>1 DEF RequestMoves
    <2>3. StatusMoves(o)
      <3>1. CASE o = x
        BY <1>1, <2>1, <3>1 DEF StatusMoves, OrderRow
      <3>2. CASE o # x
        BY <1>1, <2>1, <3>2 DEF StatusMoves
      <3>. QED
        BY <3>1, <3>2
    <2>. QED
      BY <2>1, <2>2, <2>3 DEF KisMoves
  <1>10. ASSUME NEW p \in Settlers, Settle(p) PROVE UNCHANGED <<kis, request>>
    BY <1>10 DEF Settle, SettleRead, SettleQuery, SettleQueryFails, SettleStage,
                 SettleCommit, SettleAborts, SettleMeetsTwoRows
  <1>11. ASSUME NEW p \in Settlers, NEW done \in SUBSET Orders,
                done \subseteq todo[p] \cup dirty[p], CommitFills(p, done),
                UNCHANGED <<kis, request>>
         PROVE  Goal
    <2>1. CASE o \in done
      <3>1. report[p][o] \in Nat /\ Qty[o] \in Nat
        BY OrderAssumption DEF TypeInv, TypeOK
      <3>2. \/ order'[o].status = order[o].status
            \/ order'[o].status = "partial"
            \/ /\ order'[o].status = "filled"
               /\ report[p][o] >= Qty[o] /\ order'[o].filled = report[p][o]
        BY <1>11, <2>1, <3>1 DEF CommitFills
      <3>. QED
        BY <1>11, <2>1, <3>2 DEF StatusMoves, RequestMoves, KisMoves
    <2>2. CASE o \notin done
      BY <1>11, <2>2 DEF CommitFills, StatusMoves, RequestMoves, KisMoves
    <2>. QED
      BY <2>1, <2>2
  <1>12. ASSUME NEW p \in Settlers, Settle(p) PROVE Goal
    <2>1. CASE UNCHANGED order
      BY <1>2, <1>10, <1>12, <2>1
    <2>2. CASE SettleCommit(p)
      <3>1. dirty[p] \in SUBSET Orders
        BY DEF TypeInv, TypeOK
      <3>. QED
        BY <1>11, <2>2, <3>1 DEF SettleCommit
    <2>3. ASSUME NEW x \in Orders, SettleMeetsTwoRows(p, x) PROVE Goal
      <3>1. dirty[p] \cup {x} \in SUBSET Orders
        BY DEF TypeInv, TypeOK
      <3>2. UNCHANGED order \/ CommitFills(p, dirty[p] \cup {x})
        BY <2>3 DEF SettleMeetsTwoRows
      <3>3. dirty[p] \cup {x} \subseteq todo[p] \cup dirty[p]
        BY <2>3 DEF SettleMeetsTwoRows
      <3>. QED
        BY <1>10, <1>11, <1>12, <2>1, <3>1, <3>2, <3>3
    <2>. QED
      BY <1>12, <2>1, <2>2, <2>3
      DEF Settle, SettleRead, SettleQuery, SettleQueryFails, SettleStage, SettleAborts
  <1>13. ASSUME NEW s \in Syncs, Sync(s) PROVE Goal
    <2>1. UNCHANGED <<kis, request, order>>
      BY <1>13 DEF Sync, SyncFetch, SyncRead, SyncCommit, SyncAborts
    <2>. QED
      BY <1>2, <2>1
  <1>14. CASE UNCHANGED vars
    BY <1>2, <1>14 DEF vars
  <1>. QED
    BY <1>3, <1>4, <1>5, <1>6, <1>7, <1>8, <1>9, <1>12, <1>13, <1>14
    DEF Next, Broker, Users

\* Until its request is answered and recorded, an order has no row and nobody
\* loads it; while a cancellation is being recorded the broker has closed it.
RequestInv ==
    /\ \A o \in Orders : request[o] \notin {"done", "cancelling"} =>
         /\ order[o].status = "absent"
         /\ \A p \in Settlers : o \notin todo[p] \cup dirty[p]
    /\ \A o \in Orders : request[o] = "cancelling" =>
         kis[o].state = "closed" /\ kis[o].filled < Qty[o]

RowInv ==
    TypeInv /\ ReportTruthful /\ RequestInv /\ FilledIsFull /\ CancelledIsClosed

\* What a settler has to do or has flushed was an open row when it was loaded.
LEMMA LoadedStep ==
  ASSUME TypeInv, [Next]_vars, NEW p \in Settlers
  PROVE  todo'[p] \cup dirty'[p] \subseteq
             todo[p] \cup dirty[p] \cup {o \in Orders : order[o].status \in OpenStatus}
  <1> DEFINE old == todo[p] \cup dirty[p]
             open == {o \in Orders : order[o].status \in OpenStatus}
  <1>1. CASE Quiet
    BY <1>1 DEF Quiet, settling
  <1>2. ASSUME NEW q \in Settlers, SettlerMoves(q)
        PROVE  todo'[p] \cup dirty'[p] \subseteq old \cup open
    <2>1. CASE SettleRead(q)
      BY <2>1 DEF SettleRead, TypeInv, TypeOK
    <2>2. CASE SettleQuery(q)
      BY <2>2 DEF SettleQuery, TypeInv, TypeOK
    <2>3. ASSUME NEW x \in Orders, SettleStage(q, x)
          PROVE  todo'[p] \cup dirty'[p] \subseteq old \cup open
      BY <2>3 DEF SettleStage, TypeInv, TypeOK
    <2>4. CASE CloseSettler(q)
      BY <2>4 DEF CloseSettler, TypeInv, TypeOK
    <2>. QED
      BY <1>2, <2>1, <2>2, <2>3, <2>4 DEF SettlerMoves, Rollback, Commits
  <1>. QED
    BY StepKinds, <1>1, <1>2

LEMMA RowStep == RowInv /\ [Next]_vars => RowInv'
  <1> SUFFICES ASSUME RowInv, [Next]_vars PROVE RowInv'
    OBVIOUS
  <1>1. TypeInv' /\ ReportTruthful'
    BY NextTypeInv, ReportStep DEF RowInv
  <1>2. ASSUME NEW o \in Orders PROVE RequestMoves(o) /\ StatusMoves(o) /\ KisMoves(o)
    BY OrderStep DEF RowInv
  <1>3. \A o \in Orders :
          /\ kis[o].filled \in Nat /\ kis'[o].filled \in Nat /\ Qty[o] \in Nat
          /\ kis[o].filled <= kis'[o].filled
          /\ kis'[o].filled <= Qty[o]
    <2> SUFFICES ASSUME NEW o \in Orders
                 PROVE  /\ kis[o].filled \in Nat /\ kis'[o].filled \in Nat
                        /\ Qty[o] \in Nat
                        /\ kis[o].filled <= kis'[o].filled
                        /\ kis'[o].filled <= Qty[o]
      OBVIOUS
    <2>1. kis[o].filled \in Nat /\ kis'[o].filled \in Nat /\ Qty[o] \in Nat
      BY <1>1, OrderAssumption DEF RowInv, TypeInv, TypeOK
    <2>2. kis'[o].filled <= Qty[o]
      BY <1>1 DEF ReportTruthful
    <2>3. kis'[o].filled = kis[o].filled \/ kis'[o].filled = kis[o].filled + 1
      BY BrokerStep DEF RowInv, SameKis, FillStep
    <2>. QED
      BY <2>1, <2>2, <2>3
  <1>4. ASSUME NEW o \in Orders, request'[o] \notin {"done", "cancelling"}
        PROVE  /\ order'[o].status = "absent"
               /\ \A p \in Settlers : o \notin todo'[p] \cup dirty'[p]
    <2>1. request[o] \notin {"done", "cancelling"}
      BY <1>2, <1>4 DEF RequestMoves
    <2>2. /\ order[o].status = "absent"
          /\ \A p \in Settlers : o \notin todo[p] \cup dirty[p]
      BY <2>1 DEF RowInv, RequestInv
    <2>3. order'[o].status = "absent"
      BY <1>2, <1>4, <2>1, <2>2 DEF StatusMoves
    <2>4. \A p \in Settlers : o \notin todo'[p] \cup dirty'[p]
      BY <2>2, LoadedStep DEF RowInv, OpenStatus
    <2>. QED
      BY <2>3, <2>4
  <1>5. ASSUME NEW o \in Orders, request'[o] = "cancelling"
        PROVE  kis'[o].state = "closed" /\ kis'[o].filled < Qty[o]
    <2>1. CASE request[o] = "cancelling"
      <3>1. kis[o].state = "closed" /\ kis[o].filled < Qty[o]
        BY <2>1 DEF RowInv, RequestInv
      <3>. QED
        BY <1>2, <2>1, <3>1 DEF KisMoves
    <2>2. CASE request[o] # "cancelling"
      BY <1>2, <1>5, <2>2 DEF RequestMoves
    <2>. QED
      BY <2>1, <2>2
  <1>6. ASSUME NEW o \in Orders, order'[o].status = "filled"
        PROVE  kis'[o].filled = Qty[o]
    <2>1. CASE order[o].status = "filled"
      BY <1>3, <2>1 DEF RowInv, FilledIsFull
    <2>2. CASE order[o].status # "filled"
      <3>1. PICK p \in Settlers : UNCHANGED kis /\ report[p][o] >= Qty[o]
        BY <1>2, <1>6, <2>2 DEF StatusMoves
      <3>2. report[p][o] \in Nat /\ report[p][o] <= kis[o].filled
        BY DEF RowInv, ReportTruthful, TypeInv, TypeOK
      <3>. QED
        BY <1>3, <3>1, <3>2
    <2>. QED
      BY <2>1, <2>2
  <1>7. ASSUME NEW o \in Orders, order'[o].status = "cancelled"
        PROVE  kis'[o].state = "closed"
    <2>1. CASE order[o].status = "cancelled"
      <3>1. kis[o].state = "closed" /\ request[o] # "sent"
        BY <2>1 DEF RowInv, CancelledIsClosed, RequestInv
      <3>. QED
        BY <1>2, <3>1 DEF KisMoves
    <2>2. CASE order[o].status # "cancelled"
      <3>1. request[o] = "cancelling" /\ UNCHANGED kis
        BY <1>2, <1>7, <2>2 DEF StatusMoves
      <3>. QED
        BY <3>1 DEF RowInv, RequestInv
    <2>. QED
      BY <2>1, <2>2
  <1>. QED
    BY <1>1, <1>4, <1>5, <1>6, <1>7 DEF RowInv, RequestInv, FilledIsFull, CancelledIsClosed

LEMMA InitRowInv == Init => RowInv
  BY InitTypeInv, OrderAssumption
  DEF Init, RowInv, ReportTruthful, RequestInv, FilledIsFull, CancelledIsClosed,
      NothingSeen, NothingReported

\* However many settlements and cancellations overlap, a row marked filled is
\* an order the broker filled completely (settle_pending_orders compares the
\* reported quantity with the ordered one).
THEOREM FullyFilled == Spec => []FilledIsFull
  <1>1. RowInv => FilledIsFull
    BY DEF RowInv
  <1>. QED
    BY <1>1, InitRowInv, RowStep, PTL DEF Spec

\* An order the user sees as cancelled is one the broker no longer works, in
\* every interleaving (cancel_order_endpoint asks the broker first).
THEOREM CancelledAtBroker == Spec => []CancelledIsClosed
  <1>1. RowInv => CancelledIsClosed
    BY DEF RowInv
  <1>. QED
    BY <1>1, InitRowInv, RowStep, PTL DEF Spec

\* In every interleaving of any number of settlements, an order row marked
\* cancelled or filled is an order the broker has closed or filled.
THEOREM RowsAreTrue == Spec => []RowsTellTheTruth
  <1>1. FilledIsFull /\ CancelledIsClosed => RowsTellTheTruth
    BY DEF RowsTellTheTruth
  <1>. QED
    BY <1>1, FullyFilled, CancelledAtBroker, PTL

-----------------------------------------------------------------------------
(***************************************************************************)
(* What holds when one session settles.                                    *)
(***************************************************************************)

\* The scheduler's job alone, with no manual settlement beside it.
OneSettler == \A p, q \in Settlers : p = q

\* While the settler waits for the report and works through it, the rows it
\* loaded keep their filled_quantity: no one else writes that column.
Faithful ==
    \A p \in Settlers : pc[p] \in {"query", "stage"} =>
        \A o \in Orders : seen[p][o].filled = order[o].filled

\* The table follows behind the broker, and has all of a filled order.
Behind ==
    \A o \in Orders :
        /\ order[o].filled <= kis[o].filled
        /\ order[o].status = "filled" => order[o].filled = Qty[o]

LedgerInv == RowInv /\ Faithful /\ Behind /\ BookedOnce

LEMMA InitLedgerInv == Init => LedgerInv
  BY InitRowInv
  DEF Init, LedgerInv, Faithful, Behind, BookedOnce, NothingSeen, NothingReported,
      Sessions

\* What a commit writes for an order, when the loaded row is still accurate.
LEMMA CommitWrites ==
  ASSUME LedgerInv, NEW p \in Settlers, NEW done \in SUBSET Orders,
         Commits(p, done), NEW o \in Orders
  PROVE  IF o \in done
         THEN /\ order'[o].filled = report[p][o]
              /\ booked'[o] = report[p][o]
              /\ order[o].filled < report[p][o] /\ report[p][o] <= kis[o].filled
              /\ order[o].status # "filled"
              /\ order'[o].status = "filled" => report[p][o] = Qty[o]
         ELSE order'[o] = order[o] /\ booked'[o] = booked[o]
  <1> USE DEF LedgerInv, RowInv
  <1>1. CASE o \notin done
    BY <1>1 DEF Commits, CommitFills
  <1>2. CASE o \in done
    <2>1. /\ seen[p][o].filled = order[o].filled
          /\ booked[o] = order[o].filled
      BY DEF Commits, Faithful, BookedOnce
    <2>2. report[p][o] > seen[p][o].filled
      BY <1>2 DEF Commits, TypeInv, StageIsNew
    <2>3. /\ report[p][o] \in Nat /\ order[o].filled \in Nat
          /\ kis[o].filled \in Nat /\ Qty[o] \in Nat
      BY OrderAssumption DEF TypeInv, TypeOK, OrderRow
    <2>4. report[p][o] <= kis[o].filled /\ kis[o].filled <= Qty[o]
      BY DEF ReportTruthful
    <2>5. order[o].status # "filled"
      BY <2>1, <2>2, <2>3, <2>4 DEF Behind
    <2>6. /\ order'[o].filled = report[p][o]
          /\ order'[o].status = "filled" => report[p][o] >= Qty[o]
      BY <1>2, <2>3, <2>5 DEF Commits, CommitFills
    <2>7. booked'[o] = report[p][o]
      <3>1. booked'[o] = booked[o] + (report[p][o] - seen[p][o].filled)
        BY <1>2 DEF Commits, CommitFills, NewlyFilled
      <3>. QED
        BY <2>1, <2>3, <3>1
    <2>. QED
      BY <1>2, <2>1, <2>2, <2>3, <2>4, <2>5, <2>6, <2>7
  <1>. QED
    BY <1>1, <1>2

LEMMA LedgerStep == OneSettler /\ LedgerInv /\ [Next]_vars => LedgerInv'
  <1> SUFFICES ASSUME OneSettler, LedgerInv, [Next]_vars PROVE LedgerInv'
    OBVIOUS
  <1>1. RowInv /\ RowInv' /\ TypeInv
    BY RowStep DEF LedgerInv, RowInv
  <1>2. ASSUME NEW o \in Orders
        PROVE  /\ order[o].filled \in Nat /\ kis[o].filled \in Nat
               /\ kis'[o].filled \in Nat /\ Qty[o] \in Nat
               /\ kis[o].filled <= kis'[o].filled
    <2>1. /\ order[o].filled \in Nat /\ kis[o].filled \in Nat
          /\ kis'[o].filled \in Nat /\ Qty[o] \in Nat
      BY <1>1, OrderAssumption DEF RowInv, TypeInv, TypeOK, OrderRow
    <2>2. kis'[o].filled = kis[o].filled \/ kis'[o].filled = kis[o].filled + 1
      BY <1>1, BrokerStep DEF SameKis, FillStep
    <2>. QED
      BY <2>1, <2>2
  <1>3. ASSUME NEW o \in Orders, order'[o].status = "filled",
               order[o].status # "filled"
        PROVE  order'[o].filled = Qty[o]
    <2>1. PICK p \in Settlers :
             report[p][o] >= Qty[o] /\ order'[o].filled = report[p][o]
      BY <1>1, <1>3, OrderStep DEF StatusMoves
    <2>2. /\ report[p][o] \in Nat /\ report[p][o] <= kis[o].filled
          /\ kis[o].filled <= Qty[o]
      BY <1>1 DEF RowInv, ReportTruthful, TypeInv, TypeOK
    <2>. QED
      BY <1>2, <2>1, <2>2
  <1>4. ASSUME SameFills PROVE BookedOnce' /\ Behind'
    <2>1. BookedOnce'
      BY <1>4 DEF SameFills, LedgerInv, BookedOnce
    <2>2. ASSUME NEW o \in Orders PROVE order'[o].filled <= kis'[o].filled
      BY <1>2, <1>4 DEF SameFills, LedgerInv, Behind
    <2>3. ASSUME NEW o \in Orders, order'[o].status = "filled"
          PROVE  order'[o].filled = Qty[o]
      BY <1>3, <1>4, <2>3 DEF SameFills, LedgerInv, Behind
    <2>. QED
      BY <2>1, <2>2, <2>3 DEF Behind
  <1>5. CASE Quiet
    <2>1. Faithful'
      BY <1>5 DEF Quiet, settling, SameFills, LedgerInv, Faithful
    <2>. QED
      BY <1>1, <1>4, <1>5, <2>1 DEF Quiet, LedgerInv
  <1>6. ASSUME NEW p \in Settlers, SettlerMoves(p) PROVE LedgerInv'
    <2>1. \A q \in Settlers : q = p
      BY DEF OneSettler
    <2>2. CASE SettleRead(p)
      <3>1. Faithful'
        BY <2>1, <2>2, <1>1 DEF SettleRead, ledger, Faithful, TypeInv, TypeOK
      <3>. QED
        BY <1>1, <1>4, <2>2, <3>1 DEF SettleRead, ledger, SameFills, LedgerInv
    <2>3. CASE SettleQuery(p)
      <3>1. Faithful'
        BY <2>1, <2>3, <1>1 DEF SettleQuery, ledger, LedgerInv, Faithful
      <3>. QED
        BY <1>1, <1>4, <2>3, <3>1 DEF SettleQuery, ledger, SameFills, LedgerInv
    <2>4. ASSUME NEW o \in Orders, SettleStage(p, o) PROVE LedgerInv'
      <3>1. Faithful'
        BY <2>1, <2>4 DEF SettleStage, ledger, LedgerInv, Faithful
      <3>. QED
        BY <1>1, <1>4, <2>4, <3>1 DEF SettleStage, ledger, SameFills, LedgerInv
    <2>5. ASSUME CloseSettler(p) PROVE Faithful'
      BY <1>1, <2>1, <2>5 DEF CloseSettler, Faithful, TypeInv, TypeOK, Sessions
    <2>6. CASE Rollback(p)
      BY <1>1, <1>4, <2>5, <2>6 DEF Rollback, ledger, SameFills, LedgerInv
    <2>7. ASSUME NEW done \in SUBSET Orders, Commits(p, done) PROVE LedgerInv'
      <3>1. ASSUME NEW o \in Orders
            PROVE  /\ booked'[o] = order'[o].filled
                   /\ order'[o].filled <= kis'[o].filled
                   /\ order'[o].status = "filled" => order'[o].filled = Qty[o]
        <4>1. kis' = kis
          BY <2>7 DEF Commits
        <4>2. CASE o \in done
          BY <1>3, <2>7, <4>1, <4>2, CommitWrites
        <4>3. CASE o \notin done
          BY <2>7, <4>1, <4>3, CommitWrites DEF LedgerInv, Behind, BookedOnce
        <4>. QED
          BY <4>2, <4>3
      <3>. QED
        BY <1>1, <2>5, <2>7, <3>1 DEF Commits, LedgerInv, BookedOnce, Behind
    <2>. QED
      BY <1>6, <2>2, <2>3, <2>4, <2>6, <2>7 DEF SettlerMoves
  <1>. QED
    BY <1>1, <1>5, <1>6, StepKinds

\* With one settler, the transactions of every order add up to its
\* filled_quantity: no fill is written twice or lost between the two, whatever
\* is cancelled, reconciled or rolled back meanwhile.
THEOREM BookedExactly == OneSettler /\ Spec => []BookedOnce
  <1> SUFFICES ASSUME OneSettler PROVE Spec => []BookedOnce
    OBVIOUS
  <1>1. LedgerInv => BookedOnce
    BY DEF LedgerInv
  <1>2. LedgerInv /\ [Next]_vars => LedgerInv'
    BY LedgerStep
  <1>. QED
    BY <1>1, <1>2, InitLedgerInv, PTL DEF Spec

\* With one settler, the transactions of an order never exceed what the broker
\* filled.
THEOREM NeverTooMuch == OneSettler /\ Spec => []NeverOverbooked
  <1> SUFFICES ASSUME OneSettler PROVE Spec => []NeverOverbooked
    OBVIOUS
  <1>1. LedgerInv => NeverOverbooked
    BY DEF LedgerInv, BookedOnce, Behind, NeverOverbooked
  <1>2. LedgerInv /\ [Next]_vars => LedgerInv'
    BY LedgerStep
  <1>. QED
    BY <1>1, <1>2, InitLedgerInv, PTL DEF Spec

\* With one settler, a row marked filled is never touched again: no later
\* settlement finds more to book and no cancellation reaches it.
THEOREM FilledStays == OneSettler /\ Spec => FilledIsFinal
  <1> SUFFICES ASSUME OneSettler PROVE Spec => FilledIsFinal
    OBVIOUS
  <1> DEFINE Stays == \A o \in Orders : order[o].status = "filled" => order'[o] = order[o]
  <1>1. LedgerInv /\ [Next]_vars => Stays
    <2> SUFFICES ASSUME LedgerInv, [Next]_vars, NEW o \in Orders,
                        order[o].status = "filled"
                 PROVE  order'[o] = order[o]
      OBVIOUS
    <2>1. TypeInv /\ kis[o].filled = Qty[o] /\ Qty[o] \in Nat
      BY OrderAssumption DEF LedgerInv, RowInv, FilledIsFull
    <2>2. request[o] \notin {"accepted", "refused", "cancelling"}
      BY <2>1 DEF LedgerInv, RowInv, RequestInv
    <2>3. CASE Quiet
      BY <2>2, <2>3 DEF Quiet
    <2>4. ASSUME NEW p \in Settlers, SettlerMoves(p) PROVE order'[o] = order[o]
      <3>1. ASSUME NEW done \in SUBSET Orders, Commits(p, done)
            PROVE  order'[o] = order[o]
        BY <3>1, CommitWrites
      <3>2. CASE \/ SettleRead(p) \/ SettleQuery(p) \/ Rollback(p)
                 \/ \E x \in Orders : SettleStage(p, x)
        BY <3>2 DEF SettleRead, SettleQuery, Rollback, SettleStage, ledger
      <3>. QED
        BY <2>4, <3>1, <3>2 DEF SettlerMoves
    <2>. QED
      BY <2>1, <2>3, <2>4, StepKinds
  <1>2. LedgerInv /\ [Next]_vars => LedgerInv'
    BY LedgerStep
  <1>. QED
    BY <1>1, <1>2, InitLedgerInv, PTL DEF Spec, FilledIsFinal

\* With one settler, settlement implements the abstract ledger: each fill of the
\* broker is a Fill, each commit of the settler a Book, everything else a
\* stutter.
THEOREM ImplementsLedger == OneSettler /\ Spec => LedgerSpec
  <1> SUFFICES ASSUME OneSettler PROVE Spec => LedgerSpec
    OBVIOUS
  <1> DEFINE filled == [o \in Orders |-> kis[o].filled]
  <1>1. Init => Ledger!Init
    BY DEF Init, Ledger!Init, NothingReported
  <1>2. LedgerInv /\ [Next]_vars => [Ledger!Next]_(Ledger!vars)
    <2> SUFFICES ASSUME LedgerInv, [Next]_vars PROVE [Ledger!Next]_(Ledger!vars)
      OBVIOUS
    <2>1. TypeInv /\ TypeInv'
      BY NextTypeInv DEF LedgerInv, RowInv
    <2>2. CASE UNCHANGED booked
      <3>1. CASE SameKis
        BY <2>2, <3>1 DEF SameKis, Ledger!vars
      <3>2. ASSUME NEW o \in Orders, FillStep(o) PROVE Ledger!Fill(o)
        <4>1. filled' = [filled EXCEPT ![o] = @ + 1]
          BY <3>2 DEF FillStep
        <4>. QED
          BY <2>2, <3>2, <4>1 DEF FillStep, Ledger!Fill
      <3>. QED
        BY <2>1, <3>1, <3>2, BrokerStep DEF Ledger!Next
    <2>3. ASSUME NEW p \in Settlers, NEW done \in SUBSET Orders, Commits(p, done)
          PROVE  Ledger!Book
      <3>1. booked' \in [Orders -> Nat] /\ UNCHANGED filled
        BY <2>1, <2>3 DEF TypeInv, TypeOK, Commits
      <3>2. ASSUME NEW o \in Orders
            PROVE  booked[o] <= booked'[o] /\ booked'[o] <= kis[o].filled
        <4>1. /\ booked[o] = order[o].filled /\ order[o].filled <= kis[o].filled
              /\ order[o].filled \in Nat /\ kis[o].filled \in Nat
              /\ report[p][o] \in Nat
          BY <2>1 DEF LedgerInv, BookedOnce, Behind, TypeInv, TypeOK, OrderRow
        <4>2. CASE o \in done
          BY <2>3, <4>1, <4>2, CommitWrites
        <4>3. CASE o \notin done
          BY <2>3, <4>1, <4>3, CommitWrites
        <4>. QED
          BY <4>2, <4>3
      <3>. QED
        BY <3>1, <3>2 DEF Ledger!Book
    <2>4. CASE Quiet
      BY <2>2, <2>4 DEF Quiet, SameFills
    <2>5. ASSUME NEW p \in Settlers, SettlerMoves(p)
          PROVE  UNCHANGED booked \/ \E done \in SUBSET Orders : Commits(p, done)
      BY <2>5 DEF SettlerMoves, SettleRead, SettleQuery, Rollback, SettleStage, ledger
    <2>. QED
      BY <2>1, <2>2, <2>3, <2>4, <2>5, StepKinds DEF Ledger!Next
  <1>3. LedgerInv /\ [Next]_vars => LedgerInv'
    BY LedgerStep
  <1>. QED
    BY <1>1, <1>2, <1>3, InitLedgerInv, PTL DEF Spec, LedgerSpec, Ledger!Spec

-----------------------------------------------------------------------------
(***************************************************************************)
(* What holds when one session runs at a time.                             *)
(***************************************************************************)
Single(S) == \A x, y \in S : x = y

\* What a session has in hand leaves a ticker at most one row, and overwrites none
\* that is not there.
Sound(s, t) ==
    /\ Single(Visible(s, t))
    /\ \A r \in ops[s][t].put : r.id = 0 \/ r.id \in Ids(holdings[t])

Alone == \A s, q \in Sessions : pc[s] # "idle" /\ pc[q] # "idle" => s = q

RestIsClean == \A s \in Sessions : pc[s] = "idle" => ops[s] = [t \in Tickers |-> NoOps]

HoldingInv ==
    /\ TypeInv /\ Alone /\ RestIsClean
    /\ \A t \in Tickers : Single(holdings[t])
    /\ \A s \in Sessions, t \in Tickers : Sound(s, t)

\* How a step may touch the holdings: not at all, though a session begins or goes
\* on; it plans; or it closes, with a commit or without.
Passes(s) ==
    /\ pc[s] # "idle" \/ MayStart(s)
    /\ \E x \in {"query", "stage", "read"} : pc' = [pc EXCEPT ![s] = x]
    /\ UNCHANGED <<rows, ops>>

Closes(s) ==
    /\ pc[s] # "idle" /\ pc' = [pc EXCEPT ![s] = "idle"]
    /\ ops' = [ops EXCEPT ![s] = [t \in Tickers |-> NoOps]]
    /\ UNCHANGED rows \/ ApplyOps(s)

LEMMA RowSteps ==
  [Next]_vars =>
    \/ UNCHANGED <<rows, ops, pc>>
    \/ \E s \in Sessions : Passes(s) \/ Closes(s)
    \/ \E p \in Settlers, o \in Orders : SettleStage(p, o)
    \/ \E s \in Syncs : SyncRead(s)
  <1> SUFFICES ASSUME [Next]_vars
               PROVE  \/ UNCHANGED <<rows, ops, pc>>
                      \/ \E s \in Sessions : Passes(s) \/ Closes(s)
                      \/ \E p \in Settlers, o \in Orders : SettleStage(p, o)
                      \/ \E s \in Syncs : SyncRead(s)
    OBVIOUS
  <1>1. ASSUME Broker \/ Users \/ UNCHANGED vars PROVE UNCHANGED <<rows, ops, pc>>
    BY <1>1 DEF Broker, Users, EndOfDay, Fill, KisAccepts, KisRefuses, Submit, Record,
       RecordNothing, CancelAtKis, CancelMark, CancelLost, vars
  <1>2. ASSUME NEW p \in Settlers, Settle(p)
        PROVE  Passes(p) \/ Closes(p) \/ \E o \in Orders : SettleStage(p, o)
    <2>1. SettleRead(p) \/ SettleQuery(p) => Passes(p)
      BY DEF SettleRead, SettleQuery, Passes
    <2>2. SettleQueryFails(p) \/ SettleCommit(p) \/ SettleAborts(p) => Closes(p)
      BY DEF SettleQueryFails, SettleCommit, SettleAborts, CloseSettler, Closes
    <2>3. ASSUME NEW o \in Orders, SettleMeetsTwoRows(p, o) PROVE Closes(p)
      BY <2>3 DEF SettleMeetsTwoRows, CloseSettler, Closes
    <2>. QED
      BY <1>2, <2>1, <2>2, <2>3 DEF Settle
  <1>3. ASSUME NEW s \in Syncs, Sync(s) PROVE Passes(s) \/ Closes(s) \/ SyncRead(s)
    BY <1>3 DEF Sync, SyncFetch, SyncCommit, SyncAborts, CloseSync, Passes, Closes
  <1>. QED
    BY <1>1, <1>2, <1>3 DEF Next, Sessions

\* Without work in hand, what a session sees are the rows.
LEMMA CleanIsSound ==
  ASSUME NEW s \in Sessions, NEW t \in Tickers, ops[s][t] = NoOps, Single(holdings[t])
  PROVE  Sound(s, t)
  BY DEF Sound, Visible, NoOps, Ids, Single

\* A fill changes the one row there is, inserts the only one, or deletes it.
LEMMA AfterFillSound ==
  ASSUME NEW hs \in SUBSET Row, NEW w \in Ops, NEW side \in {"BUY", "SELL"}, NEW n \in Nat \ {0},
         NEW seenRows, seenRows = {r \in hs : r.id \notin w.gone \cup Ids(w.put)} \cup w.put,
         Single(seenRows),
         \A r \in w.put : r.id = 0 \/ r.id \in Ids(hs),
         NEW v, v = AfterFill(w, seenRows, side, n)
  PROVE  /\ Single({r \in hs : r.id \notin v.gone \cup Ids(v.put)} \cup v.put)
         /\ \A r \in v.put : r.id = 0 \/ r.id \in Ids(hs)
  <1>0. seenRows \in SUBSET Row /\ v \in Ops
    BY AfterFillType DEF Ops
  <1>1. \A r \in seenRows : r.id = 0 \/ r.id \in Ids(hs)
    BY DEF Ids
  <1>2. CASE seenRows = {}
    <2>1. w.put = {} /\ (\A r \in hs : r.id \in w.gone)
      BY <1>2 DEF Ids
    <2>2. CASE side = "BUY"
      <3>1. v.gone = w.gone /\ v.put = {[id |-> 0, qty |-> n]}
        BY <1>2, <2>2 DEF AfterFill, Ops
      <3>2. {r \in hs : r.id \notin v.gone \cup Ids(v.put)} = {}
        BY <2>1, <3>1
      <3>3. {r \in hs : r.id \notin v.gone \cup Ids(v.put)} \cup v.put = {[id |-> 0, qty |-> n]}
        BY <3>1, <3>2
      <3>. QED
        BY <3>1, <3>3 DEF Single
    <2>3. CASE side = "SELL"
      <3>1. v.gone = w.gone /\ v.put = {}
        BY <1>2, <2>3 DEF AfterFill, Ids
      <3>. QED
        BY <2>1, <3>1 DEF Single
    <2>. QED
      BY <2>2, <2>3
  <1>3. ASSUME NEW x \in seenRows
        PROVE  /\ Single({r \in hs : r.id \notin v.gone \cup Ids(v.put)} \cup v.put)
               /\ \A r \in v.put : r.id = 0 \/ r.id \in Ids(hs)
    <2>1. seenRows = {x} /\ x \in Row
      BY <1>0 DEF Single
    <2>2. ASSUME NEW r \in hs, r.id \notin w.gone PROVE r.id = x.id
      BY <2>1, <2>2 DEF Ids
    <2>3. w.gone \subseteq v.gone /\ x.id \in v.gone \cup Ids(v.put)
      <3>1. CASE side = "BUY"
        <4>1. v.gone = w.gone /\ v.put = {[x EXCEPT !.qty = @ + n]}
          BY <2>1, <3>1 DEF AfterFill, Ops
        <4>2. [x EXCEPT !.qty = @ + n].id = x.id
          BY <2>1 DEF Row
        <4>. QED
          BY <4>1, <4>2 DEF Ids
      <3>2. CASE side = "SELL" /\ x.qty <= n
        <4>1. v.gone = w.gone \cup {x.id}
          BY <2>1, <3>2 DEF AfterFill, Ids
        <4>. QED
          BY <4>1
      <3>3. CASE side = "SELL" /\ ~(x.qty <= n)
        <4>1. v.gone = w.gone /\ v.put = {[x EXCEPT !.qty = @ - n]}
          BY <2>1, <3>3 DEF AfterFill, Ids, Row
        <4>2. [x EXCEPT !.qty = @ - n].id = x.id
          BY <2>1 DEF Row
        <4>. QED
          BY <4>1, <4>2 DEF Ids
      <3>. QED
        BY <3>1, <3>2, <3>3
    <2>4. {r \in hs : r.id \notin v.gone \cup Ids(v.put)} = {}
      BY <2>2, <2>3
    <2>5. Single(v.put) /\ \A r \in v.put : r.id = x.id
      BY <2>1 DEF AfterFill, Single, Row
    <2>. QED
      BY <1>1, <2>4, <2>5 DEF Single
  <1>. QED
    BY <1>2, <1>3

LEMMA StageSound ==
  ASSUME HoldingInv, NEW p \in Settlers, NEW o \in Orders, SettleStage(p, o)
  PROVE  HoldingInv'
  <1> DEFINE t == TickerOf[o]
             w == ops[p][t]
             n == NewlyFilled(p, o)
             v == AfterFill(w, Visible(p, t), SideOf[o], n)
  <1> USE OrderAssumption, SessionAssumption
  <1>1. /\ t \in Tickers /\ SideOf[o] \in {"BUY", "SELL"} /\ p \in Sessions
        /\ ops \in [Sessions -> [Tickers -> Ops]] /\ w \in Ops
        /\ holdings[t] \in SUBSET Row
    BY DEF HoldingInv, TypeInv, TypeOK, Sessions
  <1>2. n \in Nat \ {0}
    BY DEF HoldingInv, TypeInv, StageIsNew, SettleStage, NewlyFilled, TypeOK, OrderRow
  <1>3. /\ ops' = [ops EXCEPT ![p][t] = v] /\ UNCHANGED <<holdings, pc>> /\ pc[p] = "stage"
    BY DEF SettleStage, rows
  <1>4. TypeInv'
    BY NextTypeInv DEF HoldingInv, Next, Settle
  <1>5. /\ Single({r \in holdings[t] : r.id \notin v.gone \cup Ids(v.put)} \cup v.put)
        /\ \A r \in v.put : r.id = 0 \/ r.id \in Ids(holdings[t])
    <2>1. /\ Visible(p, t) = {r \in holdings[t] : r.id \notin w.gone \cup Ids(w.put)} \cup w.put
          /\ Sound(p, t)
      BY <1>1 DEF Visible, HoldingInv
    <2> HIDE DEF t, w, n, v
    <2>2. v = AfterFill(w, Visible(p, t), SideOf[o], n)
      BY DEF v
    <2>3. Single(Visible(p, t)) /\ \A r \in w.put : r.id = 0 \/ r.id \in Ids(holdings[t])
      BY <2>1 DEF Sound, w
    <2>. QED
      BY <1>1, <1>2, <2>1, <2>2, <2>3, AfterFillSound
  <1> HIDE DEF v, n, w, t
  <1>6. /\ ops'[p][t] = v
        /\ \A s \in Sessions, u \in Tickers : ~(s = p /\ u = t) => ops'[s][u] = ops[s][u]
        /\ \A s \in Sessions : s # p => ops'[s] = ops[s]
    BY <1>1, <1>3
  <1>7. ASSUME NEW s \in Sessions, NEW u \in Tickers PROVE Sound(s, u)'
    <2>1. CASE s = p /\ u = t
      BY <1>3, <1>5, <1>6, <2>1 DEF Sound, Visible
    <2>2. CASE ~(s = p /\ u = t)
      <3>1. ops'[s][u] = ops[s][u] /\ Sound(s, u)
        BY <1>6, <2>2 DEF HoldingInv
      <3>. QED
        BY <1>3, <3>1 DEF Sound, Visible
    <2>. QED
      BY <2>1, <2>2
  <1>8. Alone' /\ RestIsClean'
    BY <1>3, <1>6 DEF HoldingInv, Alone, RestIsClean
  <1>. QED
    BY <1>3, <1>4, <1>7, <1>8 DEF HoldingInv

\* The reconciliation takes the one row of each ticker.
LEMMA SyncReadSound ==
  ASSUME HoldingInv, NEW s \in Syncs, SyncRead(s)
  PROVE  HoldingInv'
  <1> USE OrderAssumption, SessionAssumption
  <1>1. PICK pick \in [Tickers -> SUBSET UNION {holdings[t] : t \in Tickers}] :
           /\ \A t \in Tickers :
                /\ pick[t] \subseteq holdings[t]
                /\ Cardinality(pick[t]) = IF holdings[t] = {} THEN 0 ELSE 1
           /\ ops' = [ops EXCEPT ![s] = [t \in Tickers |->
                IF view[s][t] = 0 THEN [gone |-> Ids(pick[t]), put |-> {}]
                ELSE [gone |-> {},
                      put |-> IF pick[t] = {}
                              THEN {[id |-> 0, qty |-> view[s][t]]}
                              ELSE {[r EXCEPT !.qty = view[s][t]] :
                                      r \in {x \in pick[t] : x.qty # view[s][t]}}]]]
    BY DEF SyncRead
  <1>2. /\ pc[s] = "read" /\ pc' = [pc EXCEPT ![s] = "commit"] /\ holdings' = holdings
        /\ s \in Sessions
        /\ ops \in [Sessions -> [Tickers -> Ops]]
        /\ pc \in [Sessions -> {"idle", "query", "stage", "read", "commit"}]
    BY DEF SyncRead, rows, HoldingInv, TypeInv, TypeOK, Sessions
  <1>3. TypeInv'
    BY NextTypeInv DEF HoldingInv, Next, Sync
  <1>4. ASSUME NEW t \in Tickers PROVE pick[t] = holdings[t] /\ Single(holdings[t])
    <2>1. /\ pick[t] \subseteq holdings[t]
          /\ Cardinality(pick[t]) = IF holdings[t] = {} THEN 0 ELSE 1
      BY <1>1
    <2>2. Single(holdings[t])
      BY DEF HoldingInv
    <2>3. ASSUME holdings[t] # {} PROVE pick[t] # {}
      <3>1. Cardinality(pick[t]) = 1
        BY <2>1, <2>3
      <3>2. Cardinality({}) = 0 /\ 0 # 1
        BY FS_EmptySet
      <3>. QED
        BY <3>1, <3>2
    <2>. QED
      BY <2>1, <2>2, <2>3 DEF Single
  <1>5. ASSUME NEW t \in Tickers PROVE Sound(s, t)'
    <2>0. /\ holdings[t] \in SUBSET Row /\ view[s][t] \in Nat
      BY DEF HoldingInv, TypeInv, TypeOK
    <2>1. CASE view[s][t] = 0
      <3>1. ops'[s][t] = [gone |-> Ids(holdings[t]), put |-> {}]
        BY <1>1, <1>2, <1>4, <2>1
      <3>. QED
        BY <1>2, <3>1 DEF Sound, Visible, Single, Ids
    <2>2. CASE view[s][t] # 0 /\ holdings[t] = {}
      <3>1. ops'[s][t] = [gone |-> {}, put |-> {[id |-> 0, qty |-> view[s][t]]}]
        BY <1>1, <1>2, <1>4, <2>2
      <3>. QED
        BY <1>2, <2>2, <3>1 DEF Sound, Visible, Single
    <2>3. ASSUME view[s][t] # 0, NEW x \in holdings[t] PROVE Sound(s, t)'
      <3>1. holdings[t] = {x} /\ x \in Row
        BY <1>4, <2>0 DEF Single
      <3> DEFINE y == [x EXCEPT !.qty = view[s][t]]
      <3>2. ops'[s][t] = [gone |-> {}, put |-> {[r EXCEPT !.qty = view[s][t]] :
                                                  r \in {z \in {x} : z.qty # view[s][t]}}]
        BY <1>1, <1>2, <1>4, <2>3, <3>1
      <3>3. y.id = x.id
        BY <3>1 DEF Row
      <3>4. CASE x.qty = view[s][t]
        <4>1. ops'[s][t] = [gone |-> {}, put |-> {}]
          BY <3>2, <3>4
        <4>. QED
          BY <1>2, <3>1, <4>1 DEF Sound, Visible, Single, Ids
      <3>5. CASE x.qty # view[s][t]
        <4>1. ops'[s][t] = [gone |-> {}, put |-> {y}]
          BY <3>2, <3>5
        <4> HIDE DEF y
        <4>. QED
          BY <1>2, <3>1, <3>3, <4>1 DEF Sound, Visible, Single, Ids
      <3>. QED
        BY <3>4, <3>5
    <2>. QED
      BY <2>1, <2>2, <2>3
  <1>6. \A q \in Sessions : q # s => ops'[q] = ops[q] /\ pc'[q] = pc[q]
    BY <1>1, <1>2
  <1>7. ASSUME NEW q \in Sessions, NEW t \in Tickers PROVE Sound(q, t)'
    <2>1. CASE q # s
      BY <1>2, <1>6, <2>1 DEF HoldingInv, Sound, Visible
    <2>. QED
      BY <1>5, <2>1
  <1>8. Alone' /\ RestIsClean'
    BY <1>2, <1>6 DEF HoldingInv, Alone, RestIsClean
  <1>. QED
    BY <1>2, <1>3, <1>4, <1>7, <1>8 DEF HoldingInv

\* What a commit leaves in the table is what the session saw.
LEMMA CommitSingle ==
  ASSUME HoldingInv, NEW s \in Sessions, ApplyOps(s), NEW t \in Tickers
  PROVE  Single(holdings'[t])
  <1> DEFINE kept == {r \in holdings[t] : r.id \notin ops[s][t].gone \cup Ids(ops[s][t].put)}
  <1>1. Single(kept \cup ops[s][t].put)
    BY DEF HoldingInv, Sound, Visible
  <1>2. holdings'[t] = kept \cup {r \in ops[s][t].put : r.id # 0}
                            \cup {[id |-> nextId[t], qty |-> r.qty] :
                                    r \in {x \in ops[s][t].put : x.id = 0}}
    BY DEF ApplyOps
  <1>0. kept \cap ops[s][t].put = {}
    BY DEF Ids
  <1> HIDE DEF kept
  <1>3. ASSUME NEW x \in holdings'[t]
        PROVE  \E r \in kept \cup ops[s][t].put :
                  x = IF r \in ops[s][t].put /\ r.id = 0
                      THEN [id |-> nextId[t], qty |-> r.qty] ELSE r
    <2>1. CASE x \in kept
      BY <1>0, <2>1
    <2>2. CASE x \in ops[s][t].put /\ x.id # 0
      BY <2>2
    <2>3. ASSUME NEW r \in ops[s][t].put, r.id = 0, x = [id |-> nextId[t], qty |-> r.qty]
          PROVE  \E z \in kept \cup ops[s][t].put :
                    x = IF z \in ops[s][t].put /\ z.id = 0
                        THEN [id |-> nextId[t], qty |-> z.qty] ELSE z
      BY <2>3
    <2>. QED
      BY <1>2, <2>1, <2>2, <2>3
  <1>. QED
    BY <1>1, <1>3 DEF Single

LEMMA ClosesSound ==
  ASSUME HoldingInv, TypeInv', NEW s \in Sessions, Closes(s)
  PROVE  HoldingInv'
  <1>1. /\ pc[s] # "idle" /\ pc' = [pc EXCEPT ![s] = "idle"]
        /\ ops' = [ops EXCEPT ![s] = [t \in Tickers |-> NoOps]]
        /\ ops \in [Sessions -> [Tickers -> Ops]]
        /\ pc \in [Sessions -> {"idle", "query", "stage", "read", "commit"}]
    BY DEF Closes, HoldingInv, TypeInv, TypeOK
  <1>2. \A t \in Tickers : Single(holdings'[t])
    BY CommitSingle DEF Closes, rows, HoldingInv
  <1>3. ASSUME NEW q \in Sessions
        PROVE  pc'[q] = "idle" /\ ops'[q] = [t \in Tickers |-> NoOps]
    <2>1. CASE q # s
      BY <1>1, <2>1 DEF HoldingInv, Alone, RestIsClean
    <2>. QED
      BY <1>1, <2>1
  <1>4. ASSUME NEW q \in Sessions, NEW t \in Tickers PROVE Sound(q, t)'
    BY <1>2, <1>3 DEF Sound, Visible, NoOps, Ids, Single
  <1>. QED
    BY <1>2, <1>3, <1>4 DEF HoldingInv, Alone, RestIsClean

LEMMA PassesSound ==
  ASSUME ~Overlap, HoldingInv, TypeInv', NEW s \in Sessions, Passes(s)
  PROVE  HoldingInv'
  <1>1. /\ pc \in [Sessions -> {"idle", "query", "stage", "read", "commit"}]
        /\ UNCHANGED <<holdings, ops>>
    BY DEF Passes, rows, HoldingInv, TypeInv, TypeOK
  <1>2. \A q \in Sessions : q # s => pc'[q] = pc[q] /\ pc[q] = "idle"
    BY <1>1 DEF Passes, MayStart, HoldingInv, Alone
  <1>3. pc'[s] # "idle"
    BY <1>1 DEF Passes
  <1>4. Alone' /\ RestIsClean'
    BY <1>1, <1>2, <1>3 DEF HoldingInv, Alone, RestIsClean
  <1>5. \A q \in Sessions, t \in Tickers : Sound(q, t)'
    BY <1>1 DEF HoldingInv, Sound, Visible
  <1>. QED
    BY <1>1, <1>4, <1>5 DEF HoldingInv

LEMMA InitHolding == Init => HoldingInv
  <1> SUFFICES ASSUME Init PROVE HoldingInv
    OBVIOUS
  <1>1. /\ pc = [s \in Sessions |-> "idle"]
        /\ ops = [s \in Sessions |-> [t \in Tickers |-> NoOps]]
        /\ \A t \in Tickers : Single(holdings[t])
    BY DEF Init, Single
  <1>2. \A s \in Sessions, t \in Tickers : Sound(s, t)
    BY <1>1, CleanIsSound
  <1>. QED
    BY <1>1, <1>2, InitTypeInv DEF HoldingInv, Alone, RestIsClean

LEMMA HoldingStep == ~Overlap /\ HoldingInv /\ [Next]_vars => HoldingInv'
  <1> SUFFICES ASSUME ~Overlap, HoldingInv, [Next]_vars PROVE HoldingInv'
    OBVIOUS
  <1>1. TypeInv'
    BY NextTypeInv DEF HoldingInv
  <1>2. CASE UNCHANGED <<rows, ops, pc>>
    BY <1>1, <1>2 DEF rows, HoldingInv, Alone, RestIsClean, Sound, Visible
  <1>. QED
    BY <1>1, <1>2, RowSteps, PassesSound, ClosesSound, StageSound, SyncReadSound

\* A session that runs alone meets neither two rows of a ticker nor a row that is gone.
UndisturbedHoldings == OneRowPerTicker /\ \A s \in Sessions : ~Stale(s)

\* While sessions run one after the other, as the timetable of the jobs separates them,
\* no ticker gets a second row and no commit finds its row deleted: the premise of the
\* scalar_one_or_none of order_settlement.py, which no constraint of the table gives.
THEOREM HoldingsUndisturbed == ~Overlap /\ Spec => []UndisturbedHoldings
  <1> SUFFICES ASSUME ~Overlap PROVE Spec => []UndisturbedHoldings
    OBVIOUS
  <1>1. ASSUME HoldingInv PROVE UndisturbedHoldings
    <2>1. ASSUME NEW t \in Tickers PROVE Cardinality(holdings[t]) <= 1
      <3>1. CASE holdings[t] = {}
        BY <3>1, FS_EmptySet
      <3>2. ASSUME NEW x \in holdings[t] PROVE Cardinality(holdings[t]) = 1
        <4>1. holdings[t] = {x}
          BY <1>1 DEF HoldingInv, Single
        <4>. QED
          BY <4>1, FS_Singleton
      <3>. QED
        BY <3>1, <3>2
    <2>2. \A s \in Sessions : ~Stale(s)
      BY <1>1 DEF HoldingInv, Sound, Stale
    <2>. QED
      BY <2>1, <2>2 DEF UndisturbedHoldings, OneRowPerTicker
  <1>2. HoldingInv /\ [Next]_vars => HoldingInv'
    BY HoldingStep
  <1>. QED
    BY <1>1, <1>2, InitHolding, PTL DEF Spec
=============================================================================
