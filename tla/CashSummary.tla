----------------------------- MODULE CashSummary -----------------------------
(***************************************************************************)
(* The cash of a user's KIS accounts behind two caches                     *)
(* (services/cash_balance_aggregator.py): an entry per account, and the    *)
(* summary made of them.  Requests that change an account at KIS drop the  *)
(* account's entry, then the summary (api/orders.py); views fill both.     *)
(*                                                                         *)
(* Amounts are abstracted to whether they still show the account as it is: *)
(* what does not is old.                                                   *)
(***************************************************************************)
EXTENDS Integers, FiniteSets

CONSTANTS
    Accounts, Views, Requests,
    AccountTtl,  \* ACCOUNT_CACHE_TTL, in ticks
    SummaryTtl,  \* USER_SUMMARY_CACHE_TTL
    ViewMax      \* the longest a view takes, from its miss to its SETEX

ASSUME CashAssumption ==
    /\ IsFiniteSet(Accounts)
    /\ {AccountTtl, SummaryTtl, ViewMax} \subseteq Nat \ {0}

VARIABLES
    entry,       \* cash_balance:account:{a}: what is left of each TTL
    entryOld,    \* the accounts whose entry is old
    summary,     \* cash_summary:user:{u}: what is left of its TTL
    summaryOld,  \* the accounts whose part of the summary is old
    part,        \* where each view is with each account
    partOld,     \* the accounts of which a view holds an old reading
    spent,       \* ticks since a view missed
    stage,       \* what each request drops next
    target,      \* its account
    since,       \* ticks since something last made readings of an account old
    calm         \* old readings came of orders alone, and none was in a
                 \* view's hands when the order dropped its account's entry

cache == <<entry, entryOld, summary, summaryOld>>
view == <<part, partOld, spent>>
request == <<stage, target>>
vars == <<cache, view, request, since, calm>>

\* An entry or a summary of TTL n sees n - 1 ticks, and a view ViewMax.
LifeMax == (AccountTtl - 1) + (SummaryTtl - 1) + 2 * ViewMax

Places == {"idle", "unread", "asking", "balance", "answered", "held", "failed"}
Flying(v) == \E a \in Accounts : part[v][a] # "idle"

TypeOK ==
    /\ entry \in [Accounts -> 0..AccountTtl]
    /\ entryOld \in SUBSET Accounts
    /\ summary \in 0..SummaryTtl
    /\ summaryOld \in SUBSET Accounts
    /\ part \in [Views -> [Accounts -> Places]]
    /\ partOld \in [Views -> SUBSET Accounts]
    /\ spent \in [Views -> 0..ViewMax]
    /\ stage \in [Requests -> {"done", "entry", "summary"}]
    /\ target \in [Requests -> Accounts]
    /\ since \in [Accounts -> 0..LifeMax + 1]
    /\ calm \in BOOLEAN

Init ==
    /\ entry = [a \in Accounts |-> 0] /\ entryOld = {}
    /\ summary = 0 /\ summaryOld = {}
    /\ part = [v \in Views |-> [a \in Accounts |-> "idle"]]
    /\ partOld = [v \in Views |-> {}]
    /\ spent = [v \in Views |-> 0]
    /\ stage = [r \in Requests |-> "done"]
    /\ target \in [Requests -> Accounts]
    /\ since = [a \in Accounts |-> 0]
    /\ calm = TRUE

-----------------------------------------------------------------------------
Less1(n) == IF n = 0 THEN 0 ELSE n - 1
Live(a) == entry[a] > 0

Tick ==
    /\ \A v \in Views : Flying(v) => spent[v] < ViewMax
    /\ entry' = [a \in Accounts |-> Less1(entry[a])]
    /\ entryOld' = {a \in entryOld : entry[a] > 1}
    /\ summary' = Less1(summary)
    /\ summaryOld' = IF summary > 1 THEN summaryOld ELSE {}
    /\ spent' = [v \in Views |-> IF Flying(v) THEN spent[v] + 1 ELSE 0]
    /\ since' = [a \in Accounts |->
                   IF since[a] <= LifeMax THEN since[a] + 1 ELSE since[a]]
    /\ UNCHANGED <<part, partOld, request, calm>>

\* The account is no longer what was read of it: the entry, the summary and
\* the views that had their answer are old.
Outdate(a, answered) ==
    /\ entryOld' = IF Live(a) THEN entryOld \cup {a} ELSE entryOld
    /\ summaryOld' = IF summary > 0 THEN summaryOld \cup {a} ELSE summaryOld
    /\ partOld' = [v \in Views |->
                     IF part[v][a] \in answered THEN partOld[v] \cup {a}
                     ELSE partOld[v]]
    /\ since' = [since EXCEPT ![a] = 0]

\* KIS takes an order or a cancellation. Either shows in the list of pending
\* orders, which is what a view reads last.
Change(r, a) ==
    /\ stage[r] = "done"
    /\ stage' = [stage EXCEPT ![r] = "entry"]
    /\ target' = [target EXCEPT ![r] = a]
    /\ Outdate(a, {"answered", "held"})
    /\ UNCHANGED <<entry, summary, part, spent, calm>>

\* POST .../orders/settle drops the caches and changes nothing at KIS.
Settle(r, a) ==
    /\ stage[r] = "done"
    /\ stage' = [stage EXCEPT ![r] = "entry"]
    /\ target' = [target EXCEPT ![r] = a]
    /\ UNCHANGED <<cache, view, since, calm>>

\* A fill moves cash from the pending orders to the balance, which a view
\* reads first. The settlement job drops no cache.
Fill(a) ==
    /\ Outdate(a, {"balance", "answered", "held"})
    /\ calm' = FALSE
    /\ UNCHANGED <<entry, summary, part, spent, request>>

\* Mutant: the account's entry is forgotten.
MutantDropEntryNot(r) ==
    /\ stage[r] = "entry"
    /\ stage' = [stage EXCEPT ![r] = "summary"]
    /\ calm' = (calm /\ \A v \in Views : target[r] \notin partOld[v])
    /\ UNCHANGED <<cache, view, target, since>>

DropEntry(r) ==
    /\ stage[r] = "entry"
    /\ stage' = [stage EXCEPT ![r] = "summary"]
    /\ entry' = [entry EXCEPT ![target[r]] = 0]
    /\ entryOld' = entryOld \ {target[r]}
    /\ calm' = (calm /\ \A v \in Views : target[r] \notin partOld[v])
    /\ UNCHANGED <<summary, summaryOld, view, target, since>>

DropSummary(r) ==
    /\ stage[r] = "summary"
    /\ stage' = [stage EXCEPT ![r] = "done"]
    /\ summary' = 0 /\ summaryOld' = {}
    /\ UNCHANGED <<entry, entryOld, view, target, since, calm>>

\* The commit fails after KIS took the order, or the process stops.
RequestFails(r) ==
    /\ stage[r] # "done"
    /\ stage' = [stage EXCEPT ![r] = "done"]
    /\ calm' = FALSE
    /\ UNCHANGED <<cache, view, target, since>>

-----------------------------------------------------------------------------
Move(v, a, place) == part' = [part EXCEPT ![v][a] = place]

\* A summary that is still cached is the answer.
Miss(v) ==
    /\ ~Flying(v)
    /\ summary = 0
    /\ part' = [part EXCEPT ![v] = [a \in Accounts |-> "unread"]]
    /\ spent' = [spent EXCEPT ![v] = 0]
    /\ UNCHANGED <<cache, partOld, request, since, calm>>

\* Mutant: a hit renews the entry.
MutantReadEntrySlides(v, a) ==
    /\ part[v][a] = "unread"
    /\ \/ Live(a) /\ Move(v, a, "held")
       \/ ~Live(a) /\ Move(v, a, "asking")
    /\ partOld' = [partOld EXCEPT ![v] = @ \cup ({a} \cap entryOld)]
    /\ entry' = IF Live(a) THEN [entry EXCEPT ![a] = AccountTtl] ELSE entry
    /\ UNCHANGED <<entryOld, summary, summaryOld, spent, request, since, calm>>

ReadEntry(v, a) ==
    /\ part[v][a] = "unread"
    /\ \/ Live(a) /\ Move(v, a, "held")
       \/ ~Live(a) /\ Move(v, a, "asking")
    /\ partOld' = [partOld EXCEPT ![v] = @ \cup ({a} \cap entryOld)]
    /\ UNCHANGED <<cache, spent, request, since, calm>>

\* get_cash_balance, and then compute_pending_buy_reservation.
ReadBalance(v, a) ==
    /\ part[v][a] = "asking"
    /\ Move(v, a, "balance")
    /\ UNCHANGED <<cache, partOld, spent, request, since, calm>>

ReadPending(v, a) ==
    /\ part[v][a] = "balance"
    /\ Move(v, a, "answered")
    /\ UNCHANGED <<cache, partOld, spent, request, since, calm>>

\* The reservation counts as zero: pending orders do not show.
PendingFails(v, a) ==
    /\ part[v][a] = "balance"
    /\ Move(v, a, "answered")
    /\ partOld' = [partOld EXCEPT ![v] = @ \cup {a}]
    /\ since' = [since EXCEPT ![a] = 0]
    /\ calm' = FALSE
    /\ UNCHANGED <<cache, spent, request>>

\* Decryption or the balance fails, or what comes after raises: the account is
\* listed with its error and no amounts, and its entry stays empty.
AccountFails(v, a) ==
    /\ part[v][a] \in {"asking", "balance"}
    /\ Move(v, a, "failed")
    /\ partOld' = [partOld EXCEPT ![v] = @ \ {a}]
    /\ UNCHANGED <<cache, spent, request, since, calm>>

StoreEntry(v, a) ==
    /\ part[v][a] = "answered"
    /\ Move(v, a, "held")
    /\ entry' = [entry EXCEPT ![a] = AccountTtl]
    /\ entryOld' = (entryOld \ {a}) \cup ({a} \cap partOld[v])
    /\ UNCHANGED <<summary, summaryOld, partOld, spent, request, since, calm>>

\* Every account is in, with its amounts or its error.
StoreSummary(v) ==
    /\ \A a \in Accounts : part[v][a] \in {"held", "failed"}
    /\ summary' = SummaryTtl
    /\ summaryOld' = partOld[v]
    /\ part' = [part EXCEPT ![v] = [a \in Accounts |-> "idle"]]
    /\ partOld' = [partOld EXCEPT ![v] = {}]
    /\ spent' = [spent EXCEPT ![v] = 0]
    /\ UNCHANGED <<entry, entryOld, request, since, calm>>

-----------------------------------------------------------------------------
OfAccount(v, a) ==
    \/ ReadEntry(v, a) \/ ReadBalance(v, a) \/ ReadPending(v, a)
    \/ PendingFails(v, a) \/ AccountFails(v, a) \/ StoreEntry(v, a)

OfView(v) == Miss(v) \/ StoreSummary(v) \/ \E a \in Accounts : OfAccount(v, a)

OfRequest(r) ==
    \/ \E a \in Accounts : Change(r, a) \/ Settle(r, a)
    \/ DropEntry(r) \/ DropSummary(r) \/ RequestFails(r)

Next ==
    \/ Tick
    \/ \E a \in Accounts : Fill(a)
    \/ \E v \in Views : OfView(v)
    \/ \E r \in Requests : OfRequest(r)

Spec == Init /\ [][Next]_vars

-----------------------------------------------------------------------------
(***************************************************************************)
(* What the caches promise.                                                *)
(***************************************************************************)

Pending(a) == \E r \in Requests : stage[r] # "done" /\ target[r] = a

\* An order shows at once: "주문 placement/취소/체결 시 ... invalidate 하면 즉시
\* 반영된다" (cash_balance_aggregator.py:275). Once its request has dropped both
\* caches neither holds a reading older than the order, provided no view held
\* one when the entry was dropped.
AtOnce ==
    calm => \A a \in Accounts :
              ~Pending(a) => a \notin entryOld /\ a \notin summaryOld

\* The caches are stacked, a summary can be made of an entry about to expire,
\* and a slow view stores what it read long ago: still no reading outlives the
\* two TTLs and two views.
GoneInTime == \A a \in entryOld \cup summaryOld : since[a] <= LifeMax
=============================================================================
