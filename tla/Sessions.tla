------------------------------ MODULE Sessions ------------------------------
(***************************************************************************)
(* One user's sessions (core/security.py, api/auth.py, api/users.py): a    *)
(* refresh token works once, against an entry of Redis that a refresh      *)
(* reads, deletes and replaces by the next in three commands; logout and   *)
(* changes of password, email or account scan for the entries and delete   *)
(* them.  The client is one browser (lib/api.ts, store/auth.ts, proxy.ts): *)
(* its tabs share a cookie jar, the requests of a tab share one refresh,   *)
(* and the dashboard has a refresh of its own.                             *)
(*                                                                         *)
(* A refresh token is its jti.  A number is taken again only when nobody   *)
(* refers to it, as a new uuid would be; 0 is no token.                    *)
(***************************************************************************)
EXTENDS Integers, FiniteSets

CONSTANTS
    Tabs,
    Requests,
    TabOf,      \* the tab of each request
    Together,   \* may a page's requests be under way while entries are scanned?
    MaxJti,     \* bound: sessions, and references to old ones, at a time
    MaxLogins   \* bound: live sessions beyond which nobody logs in again

ASSUME SessionsAssumption ==
    /\ IsFiniteSet(Tabs) /\ IsFiniteSet(Requests)
    /\ Tabs \cap Requests = {} /\ "none" \notin Requests
    /\ TabOf \in [Requests -> Tabs]
    /\ Together \in BOOLEAN
    /\ MaxJti \in Nat /\ MaxLogins \in 0..MaxJti

VARIABLES
    entry,     \* refresh:{user}:*, and how a scan under way sees each
    exists,    \* the row of the user
    jar,       \* the cookies: is the access token good, and the refresh token
    flow,      \* where each POST to /auth/refresh or /auth/login is
    given,     \* the token it presented, or was given
    heard,     \* is its page still there to hear the answer?
    page,      \* what each tab shows
    shared,    \* refreshInflight of each tab
    req,       \* where each request of the API is
    scan,      \* the request that goes through refresh:{user}:*
    calm       \* has nothing but rotation happened to the browser's session?

server == <<entry, exists>>
client == <<page, shared, req>>
flows == <<flow, given, heard>>
vars == <<server, jar, flows, client, scan, calm>>

\* A request leads its tab's shared refresh; a tab has the refresh of its
\* dashboard, or its login.
Flows == Requests \cup Tabs
Home(f) == IF f \in Requests THEN TabOf[f] ELSE f
Of(t) == {q \in Requests : TabOf[q] = t}
Jti == 1..MaxJti
none == "none"
Revocations == {"logout", "change"}
Idle == [stage |-> "none", kind |-> "list"]

\* An entry is due when it was there as the scan began or, for a change, as the
\* change was committed, and no page has had it yet.
Live(j) == entry[j] # "gone"
Store(e, j) == [e EXCEPT ![j] = "live"]
Delete(e, j) == [e EXCEPT ![j] = "gone"]
Mark(now) == [j \in Jti |-> IF Live(j) THEN now ELSE "gone"]

Active(f) == flow[f] # "none"

\* A promise in refreshInflight is that of a request under way, and whoever
\* waits, waits for it.
PromiseKept ==
    /\ \A t \in Tabs : shared[t] # none =>
          LET q == shared[t] IN TabOf[q] = t /\ Active(q) /\ heard[q]
    /\ \A q \in Requests : req[q] = "wait" => shared[TabOf[q]] # none

TypeOK ==
    /\ entry \in [Jti -> {"gone", "live", "due"}]
    /\ exists \in BOOLEAN
    /\ jar \in [access : BOOLEAN, refresh : Jti \cup {0}]
    /\ flow \in [Flows -> {"none", "get", "del", "user", "store", "ok", "fail", "error"}]
    /\ given \in [Flows -> Jti \cup {0}]
    /\ heard \in [Flows -> BOOLEAN]
    /\ page \in [Tabs -> {"closed", "login", "app", "leaving"}]
    /\ shared \in [Tabs -> Requests \cup {none}]
    /\ req \in [Requests -> {"idle", "final", "denied", "wait"}]
    /\ scan \in [stage : {"none", "commit", "scan", "answer"},
                 kind : Revocations \cup {"list"}]
    /\ calm \in BOOLEAN
    /\ PromiseKept

Empty == [access |-> FALSE, refresh |-> 0]

Init ==
    /\ entry = [j \in Jti |-> "gone"]
    /\ exists = TRUE
    /\ jar = Empty
    /\ flow = [f \in Flows |-> "none"]
    /\ given = [f \in Flows |-> 0]
    /\ heard = [f \in Flows |-> FALSE]
    /\ page = [t \in Tabs |-> "closed"]
    /\ shared = [t \in Tabs |-> none]
    /\ req = [q \in Requests |-> "idle"]
    /\ scan = Idle
    /\ calm = FALSE

Held(j) == j = jar.refresh \/ \E f \in Flows : Active(f) /\ given[f] = j
Unused == {j \in Jti : ~Live(j) /\ ~Held(j)}
Fresh == CHOOSE j \in Jti : j \in Unused
Room == Cardinality({j \in Jti : Live(j)}) < MaxLogins /\ Unused # {}

-----------------------------------------------------------------------------
(***************************************************************************)
(* The browser.                                                            *)
(***************************************************************************)

\* proxy: where a request for a page ends.  Either cookie counts as logged in.
LoggedIn(j) == j.access \/ j.refresh # 0
Proxy(j) == IF LoggedIn(j) THEN "app" ELSE "login"

\* get_current_user: the access token alone, and the row.
Authorised(j) == j.access /\ exists

\* Leaving a page: its refreshes go on at the server, unheard.
Unload(t) == [f \in Flows |-> heard[f] /\ Home(f) # t]
Undisturbed(t) == \A f \in Flows : Home(f) = t => ~(Active(f) /\ heard[f])

\* Bound: a page sends nothing before the last page's refreshes have ended.
Settled(t) == \A f \in Flows : Home(f) = t /\ Active(f) => heard[f]

\* Somebody types an address.
Open(t) ==
    /\ page[t] # "leaving"
    /\ page' = [page EXCEPT ![t] = Proxy(jar)]
    /\ shared' = [shared EXCEPT ![t] = none]
    /\ req' = [q \in Requests |-> IF TabOf[q] = t THEN "idle" ELSE req[q]]
    /\ heard' = Unload(t)
    /\ calm' = (calm /\ Undisturbed(t))
    /\ UNCHANGED <<server, jar, flow, given, scan>>

\* Mutant: /login without reauth=1, where cookies count as everywhere.
MutantLoadKeepsCookies(t) ==
    /\ page[t] = "leaving"
    /\ page' = [page EXCEPT ![t] = Proxy(jar)]
    /\ calm' = FALSE
    /\ UNCHANGED <<server, jar, flows, shared, req, scan>>

\* window.location.replace("/login?reauth=1"): the middleware clears the
\* cookies and lets the page through.
Load(t) ==
    /\ page[t] = "leaving"
    /\ page' = [page EXCEPT ![t] = "login"]
    /\ jar' = Empty
    /\ calm' = FALSE
    /\ UNCHANGED <<server, flows, shared, req, scan>>

AccessExpires ==
    /\ jar.access
    /\ jar' = [jar EXCEPT !.access = FALSE]
    /\ UNCHANGED <<server, flows, client, scan, calm>>

Send(q) ==
    /\ page[TabOf[q]] = "app"
    /\ Settled(TabOf[q])
    /\ Together \/ scan.stage = "none"
    /\ req[q] = "idle"
    /\ req' = [req EXCEPT ![q] = IF Authorised(jar) THEN "final" ELSE "denied"]
    /\ UNCHANGED <<server, jar, flows, page, shared, scan, calm>>

\* The answer, or none.
Ends(q) ==
    /\ req[q] \in {"final", "denied"}
    /\ req' = [req EXCEPT ![q] = "idle"]
    /\ UNCHANGED <<server, jar, flows, page, shared, scan, calm>>

\* The POST to /auth/refresh leaves with the cookie the jar has, or with none.
Present(f) ==
    /\ ~Active(f)
    /\ flow' = [flow EXCEPT ![f] = "get"]
    /\ given' = [given EXCEPT ![f] = jar.refresh]
    /\ heard' = [heard EXCEPT ![f] = TRUE]
    /\ calm' = (calm /\ \A g \in Flows :
                          Active(g) => f \in Requests /\ g \in Of(TabOf[f]))

\* refreshOnce, the first to need it.
Lead(q) ==
    /\ req[q] = "denied"
    /\ shared[TabOf[q]] = none
    /\ shared' = [shared EXCEPT ![TabOf[q]] = q]
    /\ req' = [req EXCEPT ![q] = "wait"]
    /\ Present(q)
    /\ UNCHANGED <<server, jar, page, scan>>

\* Mutant: every 401 refreshes for itself.
MutantJoinAlone(q) ==
    /\ req[q] = "denied"
    /\ shared[TabOf[q]] # none
    /\ req' = [req EXCEPT ![q] = "wait"]
    /\ Present(q)
    /\ UNCHANGED <<server, jar, page, shared, scan>>

\* refreshOnce, while one is in flight.
Join(q) ==
    /\ req[q] = "denied"
    /\ shared[TabOf[q]] # none
    /\ req' = [req EXCEPT ![q] = "wait"]
    /\ UNCHANGED <<server, jar, flows, page, shared, scan, calm>>

\* The dashboard's refreshAccessToken, which does not know of refreshOnce.
Dashboard(t) ==
    /\ page[t] = "app"
    /\ Settled(t)
    /\ Present(t)
    /\ UNCHANGED <<server, jar, client, scan>>

\* POST /auth/login with the right password, which this handler has checked.
Login(t) ==
    /\ page[t] = "login"
    /\ Settled(t)
    /\ ~Active(t)
    /\ exists
    /\ Room
    /\ flow' = [flow EXCEPT ![t] = "store"]
    /\ given' = [given EXCEPT ![t] = 0]
    /\ heard' = [heard EXCEPT ![t] = TRUE]
    /\ calm' = FALSE
    /\ UNCHANGED <<server, jar, client, scan>>

-----------------------------------------------------------------------------
(***************************************************************************)
(* The server: refresh and the end of login.                               *)
(***************************************************************************)
At(f, stage, next) == flow[f] = stage /\ flow' = [flow EXCEPT ![f] = next]

\* The limiter's 429 ("20/minute"), or a GET that raises, a 500: the token stays
\* good.  The dashboard lets it be, a shared refresh takes it for the end.
Refused(f) ==
    /\ At(f, "get", "error")
    /\ calm' = (calm /\ f \in Tabs)
    /\ UNCHANGED <<server, jar, given, heard, client, scan>>

\* A 401 without a cookie; verify_and_consume_refresh_jti: GET ...
Verify(f) ==
    /\ At(f, "get", IF given[f] \in Jti /\ Live(given[f]) THEN "del" ELSE "fail")
    /\ UNCHANGED <<server, jar, given, heard, client, scan, calm>>

\* ... and DEL, whatever it finds by then.
Consume(f) ==
    /\ At(f, "del", "user")
    /\ entry' = Delete(entry, given[f])
    /\ given' = [given EXCEPT ![f] = 0]
    /\ UNCHANGED <<exists, jar, heard, client, scan, calm>>

FindUser(f) ==
    /\ At(f, "user", IF exists THEN "store" ELSE "fail")
    /\ UNCHANGED <<server, jar, given, heard, client, scan, calm>>

\* store_refresh_jti, of a refresh or a login.
StoreJti(f) ==
    /\ At(f, "store", "ok")
    /\ Unused # {}
    /\ entry' = Store(entry, Fresh)
    /\ given' = [given EXCEPT ![f] = Fresh]
    /\ UNCHANGED <<exists, jar, heard, client, scan, calm>>

\* DEL, the query of the user or SETEX raises, a 500: the command was executed,
\* or it was not.
Breaks(f) ==
    /\ \E stage \in {"del", "user", "store"} : At(f, stage, "error")
    /\ \/ UNCHANGED entry
       \/ flow[f] = "del" /\ entry' = Delete(entry, given[f])
       \/ flow[f] = "store" /\ Unused # {} /\ entry' = Store(entry, Fresh)
    /\ calm' = FALSE
    /\ UNCHANGED <<exists, jar, given, heard, client, scan>>

-----------------------------------------------------------------------------
(***************************************************************************)
(* The answers, in the browser.                                            *)
(***************************************************************************)
Over(f) ==
    /\ flow' = [flow EXCEPT ![f] = "none"]
    /\ given' = [given EXCEPT ![f] = 0]
    /\ heard' = [heard EXCEPT ![f] = FALSE]

SetCookies(f) == [access |-> TRUE, refresh |-> given[f]]

\* A 401 deletes the cookies, which some browsers keep (api.ts:61).
Cleared == {Empty, jar}

Failed(f) == flow[f] \in {"fail", "error"}

\* Those who waited for the shared refresh send their requests once more,
\* marked _retry: whatever the answer, it is the last.
SentAgain(t) ==
    [q \in Requests |-> IF TabOf[q] = t /\ req[q] = "wait" THEN "final" ELSE req[q]]

\* Mutant: who joined is not told.
MutantRenewedLeaderOnly(q) ==
    /\ q \in Requests
    /\ heard[q]
    /\ flow[q] = "ok"
    /\ Over(q)
    /\ jar' = SetCookies(q)
    /\ shared' = [shared EXCEPT ![TabOf[q]] = none]
    /\ req' = [req EXCEPT ![q] = "final"]
    /\ UNCHANGED <<server, page, scan, calm>>

\* 200 of a shared refresh.
Renewed(q) ==
    /\ q \in Requests
    /\ heard[q]
    /\ flow[q] = "ok"
    /\ Over(q)
    /\ jar' = SetCookies(q)
    /\ shared' = [shared EXCEPT ![TabOf[q]] = none]
    /\ req' = SentAgain(TabOf[q])
    /\ UNCHANGED <<server, page, scan, calm>>

\* 200 of the dashboard's refresh, or of a login, which opens the dashboard.
Entered(t) ==
    /\ t \in Tabs
    /\ heard[t]
    /\ flow[t] = "ok"
    /\ Over(t)
    /\ jar' = SetCookies(t)
    /\ page' = [page EXCEPT ![t] = "app"]
    /\ calm' = \/ calm
               \/ /\ page[t] = "login"
                  /\ \A g \in Flows \ {t} : ~Active(g)
                  /\ scan.stage = "none" \/ scan.kind = "list"
                  /\ exists /\ Live(given[t])
    /\ UNCHANGED <<server, shared, req, scan>>

\* redirectToLogin: everybody who waited is rejected, and the page goes.
RedirectToLogin(t) ==
    /\ page' = [page EXCEPT ![t] = "leaving"]
    /\ shared' = [shared EXCEPT ![t] = none]
    /\ req' = [q \in Requests |-> IF TabOf[q] = t THEN "idle" ELSE req[q]]

\* Any answer but 200 sends who shared the refresh to the login page, though a
\* 401 alone clears the cookies; the dashboard's own, or that of a login, is not
\* acted on.
Rejected(f) ==
    /\ heard[f]
    /\ Failed(f)
    /\ flow' = [flow EXCEPT ![f] = "none"]
    /\ given' = [given EXCEPT ![f] = 0]
    /\ jar' \in IF flow[f] = "fail" THEN Cleared ELSE {jar}
    /\ \/ /\ f \in Requests
          /\ RedirectToLogin(TabOf[f])
          /\ heard' = Unload(TabOf[f])
       \/ /\ f \in Tabs
          /\ heard' = [heard EXCEPT ![f] = FALSE]
          /\ UNCHANGED client
    /\ UNCHANGED <<server, scan, calm>>

\* The connection breaks, before the request arrived or after.  The server
\* goes on with what it has.
Lost(f) ==
    /\ Active(f)
    /\ heard[f]
    /\ calm' = FALSE
    /\ \/ UNCHANGED <<flow, given>>
       \/ /\ At(f, "get", "none")
          /\ given' = [given EXCEPT ![f] = 0]
    /\ \/ /\ f \in Requests
          /\ RedirectToLogin(TabOf[f])
          /\ heard' = Unload(TabOf[f])
       \/ /\ f \in Tabs
          /\ heard' = [heard EXCEPT ![f] = FALSE]
          /\ UNCHANGED client
    /\ UNCHANGED <<server, jar, scan>>

\* The answer to a page that has gone: its cookies may still be taken.
Unheard(f) ==
    /\ ~heard[f]
    /\ Failed(f) \/ flow[f] = "ok"
    /\ Over(f)
    /\ \/ UNCHANGED jar
       \/ flow[f] = "ok" /\ jar' = SetCookies(f)
       \/ flow[f] = "fail" /\ jar' = Empty
    /\ calm' = FALSE
    /\ UNCHANGED <<server, client, scan>>

-----------------------------------------------------------------------------
(***************************************************************************)
(* Revocation, and the list of sessions.                                   *)
(***************************************************************************)
Elsewhere ==    \* a login from another device
    /\ exists
    /\ Room
    /\ entry' = Store(entry, Fresh)
    /\ UNCHANGED <<exists, jar, flows, client, scan, calm>>

\* An entry's seven days are over; or revoke_session.
Drop(j) ==
    /\ Live(j)
    /\ entry' = Delete(entry, j)
    /\ calm' = (calm /\ ~Held(j))
    /\ UNCHANGED <<exists, jar, flows, client, scan>>

\* An authorised request of any device.  Logout and the list scan at once, the
\* others commit the change first.
Begin(kind) ==
    /\ exists
    /\ scan.stage = "none"
    /\ Together \/ \A q \in Requests : req[q] = "idle"
    /\ \/ /\ kind \in {"logout", "list"}
          /\ scan' = [stage |-> "scan", kind |-> kind]
          /\ entry' = Mark("due")
       \/ /\ kind \notin {"logout", "list"}
          /\ scan' = [stage |-> "commit", kind |-> kind]
          /\ UNCHANGED entry
    /\ calm' = (calm /\ kind = "list")
    /\ UNCHANGED <<exists, jar, flows, client>>

\* A new password or address, under which comes what comes from here on; or
\* the account is deleted.
Commit ==
    /\ scan.stage = "commit"
    /\ exists' \in BOOLEAN
    /\ scan' = [scan EXCEPT !.stage = "scan"]
    /\ entry' = Mark("due")
    /\ UNCHANGED <<jar, flows, client, calm>>

\* What becomes of the keys of a page: DEL; or GET of each, for the list.
Page(keys) ==
    [j \in Jti |-> CASE j \notin keys -> entry[j]
                      [] scan.kind # "list" -> "gone"
                      [] OTHER -> "live"]

\* SCAN and what follows it.  A page has any keys, none perhaps; the cursor
\* comes back as 0 when every key that was there all along has been returned,
\* of the newer ones some.  A key that goes between SCAN and DEL or GET is
\* skipped by both, as one that went before.
ScanPage ==
    /\ scan.stage = "scan"
    /\ \E keys \in SUBSET {j \in Jti : Live(j)}, cursor \in {0, 1} :
          /\ cursor = 0 => \A j \in Jti : entry[j] = "due" => j \in keys
          /\ entry' = Page(keys)
          /\ scan' = [scan EXCEPT !.stage = IF cursor = 0 THEN "answer" ELSE "scan"]
    /\ UNCHANGED <<exists, jar, flows, client, calm>>

\* The answer; that of a logout clears the cookies of the browser it came from
\* and its tab goes to the login page.
ScanAnswer ==
    /\ scan.stage = "answer"
    /\ scan' = Idle
    /\ entry' = Mark("live")
    /\ \/ UNCHANGED <<jar, page>>
       \/ /\ scan.kind = "logout"
          /\ jar' \in Cleared
          /\ \E t \in Tabs : page[t] = "app" /\ page' = [page EXCEPT ![t] = Proxy(jar')]
    /\ UNCHANGED <<exists, flows, shared, req, calm>>

\* Redis fails or the process stops between the commands: no answer but 500.
ScanAborts ==
    /\ scan.stage # "none"
    /\ scan' = Idle
    /\ entry' = Mark("live")
    /\ UNCHANGED <<exists, jar, flows, client, calm>>

-----------------------------------------------------------------------------
Serve(f) ==
    \/ Refused(f) \/ Verify(f) \/ Consume(f) \/ FindUser(f) \/ StoreJti(f) \/ Breaks(f)
    \/ Renewed(f) \/ Entered(f) \/ Rejected(f) \/ Unheard(f)

Answer(q) == Ends(q) \/ Lead(q) \/ Join(q)

Next ==
    \/ \E t \in Tabs : Open(t) \/ Load(t) \/ Dashboard(t) \/ Login(t)
    \/ \E q \in Requests : Send(q) \/ Answer(q)
    \/ \E f \in Flows : Serve(f) \/ Lost(f)
    \/ AccessExpires
    \/ Elsewhere
    \/ \E j \in Jti : Drop(j)
    \/ \E kind \in Revocations \cup {"list"} : Begin(kind)
    \/ Commit \/ ScanPage \/ ScanAnswer \/ ScanAborts

Spec == Init /\ [][Next]_vars

\* Coroutines and pages run on, and every request is answered or times out.
Fairness ==
    /\ \A t \in Tabs : WF_vars(Load(t))
    /\ \A q \in Requests : WF_vars(Answer(q))
    /\ \A f \in Flows : WF_vars(Serve(f))

FairSpec == Spec /\ Fairness

-----------------------------------------------------------------------------
(***************************************************************************)
(* What sessions promise.                                                  *)
(***************************************************************************)

\* However many of its requests find the access token expired, a tab is not sent
\* to the login page unless the session was revoked or expired, the server
\* refused or failed to refresh it (429, 500), an answer got lost, or two refreshes
\* of the browser overlapped that do not share one.
StaysIn ==
    [][\A t \in Tabs : page[t] = "app" /\ page'[t] = "leaving" => ~calm']_vars

\* Nobody hangs: every request of a page ends, answered after at most one
\* refresh and one repetition, or rejected; and who is redirected arrives at the
\* login page, "preventing a loop on browsers ... that don't honor
\* cross-subdomain Set-Cookie deletions".
NobodyHangs ==
    /\ \A q \in Requests : req[q] # "idle" ~> req[q] = "idle"
    /\ \A t \in Tabs : page[t] = "leaving" ~> page[t] = "login"

\* A tab that goes to the login page for ever is one whose user logs in, or whose
\* session is refreshed, for ever: failing refreshes alone, and cookies a browser
\* does not give up, are no "login↔dashboard redirect ping-pong" (auth.py:259).
NoPingPong ==
    \A t \in Tabs : []<>(page[t] = "leaving") => []<>(\E f \in Flows : flow[f] = "ok")
=============================================================================
