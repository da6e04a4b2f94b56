----------------------------- MODULE AccountSync -----------------------------
(***************************************************************************)
(* Synchronisation of a user's KIS accounts: api/sync.py, the background   *)
(* synchronisation of a login in api/auth.py, and sync_all_accounts, the   *)
(* scheduler's.                                                            *)
(*                                                                         *)
(* Each fetches the balance of an account, finds the portfolio linked to   *)
(* it, all but the scheduler's creating one where there is none, writes    *)
(* its holdings and a row of sync_logs.  They run beside each other, and   *)
(* beside requests that delete accounts and portfolios.  What is written   *)
(* is the subject of OrderSettlement; here, a portfolio has been filled or *)
(* not.                                                                    *)
(*                                                                         *)
(* A session whose flush or commit raises is not rolled back: every later  *)
(* statement raises too, so the accounts that are left only ask KIS in     *)
(* vain, and the session is taken to end there.                            *)
(***************************************************************************)
EXTENDS KisHealth, FxRate, FiniteSets

CONSTANTS
    Accounts,   \* rows of kis_accounts, each of them created once
    Early,      \* bound: those that are there at the start
    Ids,        \* bound: rows of portfolios, each of them created once
    none

ASSUME SyncAssumption ==
    /\ Early \subseteq Accounts
    /\ Accounts \cap {none, "unused", "deleted"} = {}
    /\ none \notin Ids /\ none \notin {"unused", "deleted"}

Syncs == {"login", "balance", "manual", "job"}

VARIABLES
    db,       \* Postgres answers
    acct,     \* "new", "registered" or "deleted"
    owner,    \* of an id: "unused", "deleted", its account, or none after SET NULL
    filled,   \* portfolios whose holdings were written
    sess,     \* the sessions
    missed,   \* the job's run could not synchronise an account
    jobs      \* the scheduler around that run, in the module Scheduler

rows == <<acct, owner, filled>>
sync == <<db, acct, owner, filled, sess, missed>>
rest == <<health, fx, jobs>>

Rest == [pc |-> "idle", todo |-> {}, at |-> none, id |-> none]

SyncTypeOK ==
    /\ db \in BOOLEAN /\ missed \in BOOLEAN
    /\ acct \in [Accounts -> {"new", "registered", "deleted"}]
    /\ owner \in [Ids -> Accounts \cup {none, "unused", "deleted"}]
    /\ filled \subseteq Ids
    /\ sess \in [Syncs -> [pc : {"idle", "fetch", "look", "create", "write", "log",
                                 "done", "failed"},
                           todo : SUBSET Accounts, at : Accounts \cup {none},
                           id : Ids \cup {none}]]

SyncInit ==
    /\ db = TRUE
    /\ acct = [a \in Accounts |-> IF a \in Early THEN "registered" ELSE "new"]
    /\ owner = [p \in Ids |-> "unused"]
    /\ filled = {}
    /\ sess = [s \in Syncs |-> Rest]
    /\ missed = FALSE

Registered == {a \in Accounts : acct[a] = "registered"}
Linked(a) == {p \in Ids : owner[p] = a}
Exists(p) == owner[p] \notin {"unused", "deleted"}

-----------------------------------------------------------------------------
(***************************************************************************)
(* Users, and the database.                                                *)
(***************************************************************************)
AddAccount(a) ==
    /\ db /\ Spend
    /\ acct[a] = "new"
    /\ acct' = [acct EXCEPT ![a] = "registered"]
    /\ UNCHANGED <<db, owner, filled, sess, missed, rest>>

\* The portfolio of a deleted account stays, linked to none.
DeleteAccount(a) ==
    /\ db /\ Spend
    /\ acct[a] = "registered"
    /\ acct' = [acct EXCEPT ![a] = "deleted"]
    /\ owner' = [p \in Ids |-> IF owner[p] = a THEN none ELSE owner[p]]
    /\ UNCHANGED <<db, filled, sess, missed, rest>>

DeletePortfolio(p) ==
    /\ db /\ Spend
    /\ Exists(p)
    /\ owner' = [owner EXCEPT ![p] = "deleted"]
    /\ filled' = filled \ {p}
    /\ UNCHANGED <<db, acct, sess, missed, rest>>

DbGoesDown == db /\ Spend /\ db' = FALSE /\ UNCHANGED <<rows, sess, missed, rest>>
DbComesBack == ~db /\ Free /\ db' = TRUE /\ UNCHANGED <<rows, sess, missed, rest>>

-----------------------------------------------------------------------------
(***************************************************************************)
(* The steps of a session.                                                 *)
(***************************************************************************)
Becomes(s, r) == sess' = [sess EXCEPT ![s] = r]
Goes(s, pc) == Becomes(s, [sess[s] EXCEPT !.pc = pc])

Finished(s) == IF s = "job" THEN [Rest EXCEPT !.pc = "done"] ELSE Rest
Broken(s) == IF s = "job" THEN [Rest EXCEPT !.pc = "failed"] ELSE Rest

\* On with one of the accounts in todo, in the order the query returned them.
OnWith(s, pc, todo) ==
    IF todo = {} THEN Becomes(s, Finished(s))
    ELSE \E a \in todo : Becomes(s, [pc |-> pc, todo |-> todo, at |-> a, id |-> none])

First(s) == IF s = "login" THEN "fetch" ELSE "look"
OnToNext(s) == OnWith(s, First(s), sess[s].todo \ {sess[s].at})

\* _bg_sync_user, after the answer to a login.
Login ==
    /\ sess["login"] = Rest
    /\ flag /\ db /\ Registered # {}
    /\ Spend
    /\ OnWith("login", "fetch", Registered)
    /\ UNCHANGED <<db, rows, missed, rest>>

\* _fetch_balance_raw: what KIS answers is converted with the rate.
BalanceRead == up /\ AskRate

\* fetch_account_holdings
HoldingsRead == up /\ UNCHANGED fx

\* fetch_overseas_account_holdings, like each call before it, may be refused, after
\* one retry with a new token, or find KIS out of reach: nothing of the rest is used.
Refuses == IF up THEN Spend ELSE Free

\* POST /sync/balance: the accounts are asked for together, and those that
\* answered are gone through.
Balance ==
    /\ sess["balance"] = Rest
    /\ db /\ Registered # {}
    /\ Spend
    /\ \E got \in SUBSET Registered :
          /\ OnWith("balance", "look", got)
          /\ IF got = {} THEN UNCHANGED fx ELSE BalanceRead
    /\ UNCHANGED <<db, rows, missed, health, jobs>>

\* POST /sync/{portfolio_id}
Manual(p) ==
    /\ sess["manual"] = Rest
    /\ db
    /\ owner[p] \in Accounts
    /\ Spend
    /\ Becomes("manual", [pc |-> "fetch", todo |-> {owner[p]}, at |-> owner[p], id |-> p])
    /\ UNCHANGED <<db, rows, missed, rest>>

\* sync_all_accounts begins.
JobBegins ==
    /\ sess["job"] = Rest
    /\ missed' = FALSE
    /\ IF db THEN OnWith("job", "look", Registered) ELSE Becomes("job", Broken("job"))
    /\ UNCHANGED <<db, rows>>

Fetch(s) ==
    /\ sess[s].pc = "fetch"
    /\ \/ s = "login" /\ BalanceRead /\ Goes(s, "look")
       \/ s # "login" /\ HoldingsRead /\ Goes(s, "write")
    /\ UNCHANGED <<db, rows, missed, health, jobs>> /\ Free

\* The login goes on with the next account, the job after a row of sync_logs.
FetchFails(s) ==
    /\ sess[s].pc = "fetch"
    /\ Refuses
    /\ IF s = "job" /\ ~(db /\ Exists(sess[s].id))
       THEN Becomes(s, Broken(s)) ELSE OnToNext(s)
    /\ missed' = (missed \/ s = "job")
    /\ UNCHANGED <<db, rows, rest>>

\* Mutant: the job passes over portfolios without holdings.
MutantLookSkipsEmpty(s) ==
    LET found == IF s = "job" THEN Linked(sess[s].at) \cap filled ELSE Linked(sess[s].at) IN
    /\ sess[s].pc = "look"
    /\ db
    /\ IF found # {}
       THEN \E p \in found :
               Becomes(s, [sess[s] EXCEPT !.id = p, !.pc = IF s = "job" THEN "fetch" ELSE "write"])
       ELSE IF s = "job" THEN OnToNext(s) ELSE Goes(s, "create")
    /\ UNCHANGED <<db, rows, missed, rest>> /\ Free

\* The portfolio of the account.  The job, which looks before it fetches, passes
\* over an account without one.
Look(s) ==
    LET found == Linked(sess[s].at) IN
    /\ sess[s].pc = "look"
    /\ db
    /\ IF found # {}
       THEN \E p \in found :
               Becomes(s, [sess[s] EXCEPT !.id = p, !.pc = IF s = "job" THEN "fetch" ELSE "write"])
       ELSE IF s = "job" THEN OnToNext(s) ELSE Goes(s, "create")
    /\ UNCHANGED <<db, rows, missed, rest>> /\ Free

\* _ensure_portfolio_for_account commits.  The unique kis_account_id and the
\* foreign key make it raise when another session was first, or the account is gone.
Create(s) ==
    /\ sess[s].pc = "create"
    /\ db
    /\ IF sess[s].at \in Registered /\ Linked(sess[s].at) = {}
       THEN LET p == CHOOSE q \in Ids : owner[q] = "unused" IN
            /\ \E q \in Ids : owner[q] = "unused"
            /\ owner' = [owner EXCEPT ![p] = sess[s].at]
            /\ Becomes(s, [sess[s] EXCEPT !.id = p, !.pc = "write"])
       ELSE Becomes(s, Broken(s)) /\ UNCHANGED owner
    /\ UNCHANGED <<db, acct, filled, missed, rest>> /\ Free

\* reconcile_holdings commits.  Of a portfolio that is gone it can insert nothing,
\* and raises unless the balance is empty.
Write(s) ==
    /\ sess[s].pc = "write"
    /\ db
    /\ \/ Exists(sess[s].id) /\ filled' = filled \cup {sess[s].id} /\ Goes(s, "log")
       \/ ~Exists(sess[s].id) /\ Goes(s, "log") /\ UNCHANGED filled
       \/ ~Exists(sess[s].id) /\ Becomes(s, Broken(s)) /\ UNCHANGED filled
    /\ UNCHANGED <<db, acct, owner, missed, rest>> /\ Free

\* The row of sync_logs is committed.
Log(s) ==
    /\ sess[s].pc = "log"
    /\ db
    /\ IF Exists(sess[s].id) THEN OnToNext(s) ELSE Becomes(s, Broken(s))
    /\ UNCHANGED <<db, rows, missed, rest>> /\ Free

DbFails(s) ==
    /\ sess[s].pc \in {"look", "create", "write", "log"}
    /\ ~db
    /\ Becomes(s, Broken(s))
    /\ UNCHANGED <<db, rows, missed, rest>> /\ Free

\* The process dies: what was committed stays.
SessionsDie ==
    /\ sess' = [s \in Syncs |-> Rest]
    /\ missed' = FALSE
    /\ UNCHANGED <<db, rows>>

-----------------------------------------------------------------------------
\* "KIS 계좌에 연결된 포트폴리오가 없으면 자동 생성": a portfolio that was created for
\* an account is filled in the end, or deleted, or its account is, whatever fails
\* after its creation; at the latest the scheduler sees to it.
FilledInTheEnd ==
    \A p \in Ids : owner[p] \in Accounts ~> p \in filled \/ owner[p] \notin Accounts
=============================================================================
