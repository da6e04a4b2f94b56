--------------------------- MODULE SessionsProofs ---------------------------
(***************************************************************************)
(* Theorems about Sessions, for every number of tabs, requests, tokens and *)
(* logins.                                                                 *)
(***************************************************************************)
EXTENDS Sessions, TLAPS

Stages == {"none", "get", "del", "user", "store", "ok", "fail", "error"}

-----------------------------------------------------------------------------
(***************************************************************************)
(* The entries, and a scan of them.                                        *)
(***************************************************************************)
EntryTypes ==
    /\ entry \in [Jti -> {"gone", "live", "due"}]
    /\ scan \in [stage : {"none", "commit", "scan", "answer"}, kind : Revocations \cup {"list"}]

\* Only a change is committed.
EntryInv ==
    /\ EntryTypes
    /\ scan.stage = "commit" => scan.kind # "list"

LEMMA EntrySteps ==
  [Next]_vars =>
    \/ \E j : entry' = Delete(entry, j) /\ UNCHANGED scan
    \/ \E j : entry' = Store(entry, j) /\ UNCHANGED scan
    \/ \E kind \in Revocations \cup {"list"} : Begin(kind)
    \/ Commit \/ ScanPage \/ ScanAnswer \/ ScanAborts
    \/ UNCHANGED <<entry, scan>>
  <1> DEFINE Goal == \/ \E j : entry' = Delete(entry, j) /\ UNCHANGED scan
                     \/ \E j : entry' = Store(entry, j) /\ UNCHANGED scan
                     \/ UNCHANGED <<entry, scan>>
  <1>1. ASSUME NEW t \in Tabs, Open(t) \/ Load(t) \/ Dashboard(t) \/ Login(t) PROVE Goal
    BY <1>1 DEF Open, Load, Dashboard, Login, server
  <1>2. ASSUME NEW q \in Requests, Send(q) \/ Answer(q) PROVE Goal
    BY <1>2 DEF Send, Answer, Ends, Lead, Join, server
  <1>3. ASSUME NEW f \in Flows, Serve(f) \/ Lost(f) PROVE Goal
    BY <1>3 DEF Serve, Refused, Verify, Consume, FindUser, StoreJti, Breaks, Renewed, Entered,
       Rejected, Unheard, Lost, server
  <1>4. ASSUME AccessExpires \/ Elsewhere PROVE Goal
    BY <1>4 DEF AccessExpires, Elsewhere, server
  <1>5. ASSUME NEW j \in Jti, Drop(j) PROVE Goal
    BY <1>5 DEF Drop
  <1>6. ASSUME UNCHANGED vars PROVE Goal
    BY <1>6 DEF vars, server
  <1>. QED
    BY <1>1, <1>2, <1>3, <1>4, <1>5, <1>6 DEF Next

LEMMA InitEntries == Init => EntryInv
  BY DEF Init, EntryInv, EntryTypes, Idle

LEMMA NextEntries == EntryInv /\ [Next]_vars => EntryInv'
  <1> SUFFICES ASSUME EntryInv, [Next]_vars PROVE EntryInv'
    OBVIOUS
  <1> USE DEF EntryInv, EntryTypes
  <1>1. ASSUME NEW j, entry' = Delete(entry, j), UNCHANGED scan PROVE EntryInv'
    BY <1>1 DEF Delete
  <1>2. ASSUME NEW j, entry' = Store(entry, j), UNCHANGED scan PROVE EntryInv'
    BY <1>2 DEF Store
  <1>3. ASSUME NEW kind \in Revocations \cup {"list"}, Begin(kind) PROVE EntryInv'
    BY <1>3 DEF Begin, Mark
  <1>4. CASE Commit
    BY <1>4 DEF Commit, Mark
  <1>5. CASE ScanPage
    <2>1. PICK keys \in SUBSET {j \in Jti : Live(j)}, cursor \in {0, 1} :
            /\ cursor = 0 => \A j \in Jti : entry[j] = "due" => j \in keys
            /\ entry' = Page(keys)
            /\ scan' = [scan EXCEPT !.stage = IF cursor = 0 THEN "answer" ELSE "scan"]
      BY <1>5 DEF ScanPage
    <2>2. \A j \in Jti : entry'[j] \in {"gone", "live", "due"}
      BY <2>1 DEF Page
    <2>3. entry' \in [Jti -> {"gone", "live", "due"}]
      BY <2>1, <2>2 DEF Page
    <2>4. scan'.stage \in {"answer", "scan"} /\ scan' \in [stage : {"none", "commit", "scan", "answer"},
                                                          kind : Revocations \cup {"list"}]
      BY <2>1
    <2>. QED
      BY <2>3, <2>4
  <1>6. CASE ScanAnswer \/ ScanAborts
    BY <1>6 DEF ScanAnswer, ScanAborts, Mark, Idle
  <1>7. CASE UNCHANGED <<entry, scan>>
    BY <1>7
  <1>. QED
    BY <1>1, <1>2, <1>3, <1>4, <1>5, <1>6, <1>7, EntrySteps

-----------------------------------------------------------------------------
(***************************************************************************)
(* The browser: types.                                                     *)
(***************************************************************************)
FlowTypes ==
    /\ flow \in [Flows -> Stages]
    /\ given \in [Flows -> Jti \cup {0}]
    /\ heard \in [Flows -> BOOLEAN]
    /\ \A f \in Flows : flow[f] = "ok" => given[f] \in Jti

PageTypes ==
    /\ page \in [Tabs -> {"closed", "login", "app", "leaving"}]
    /\ shared \in [Tabs -> Requests \cup {none}]
    /\ req \in [Requests -> {"idle", "final", "denied", "wait"}]

JarTypes ==
    /\ jar \in [access : BOOLEAN, refresh : Jti \cup {0}]
    /\ exists \in BOOLEAN
    /\ calm \in BOOLEAN

ClientTypes == FlowTypes /\ PageTypes /\ JarTypes

LEMMA FreshIsUnused == Unused # {} => Fresh \in Jti /\ Fresh \in Unused
  BY DEF Unused, Fresh

LEMMA HomeIsTab == \A f \in Flows : Home(f) \in Tabs
  BY SessionsAssumption DEF Home, Flows

\* What a step may do to the flows.
LEMMA NextFlows == ClientTypes /\ [Next]_vars => FlowTypes'
  <1> SUFFICES ASSUME ClientTypes, [Next]_vars PROVE FlowTypes'
    OBVIOUS
  <1> USE DEF FlowTypes, Stages
  <1>0. FlowTypes /\ jar.refresh \in Jti \cup {0} /\ Tabs \subseteq Flows /\ Requests \subseteq Flows
    BY DEF ClientTypes, JarTypes, Flows
  <1>1. ASSUME NEW f \in Flows, Present(f) PROVE FlowTypes'
    BY <1>0, <1>1 DEF Present
  <1>2. ASSUME NEW t \in Tabs, Open(t) PROVE FlowTypes'
    BY <1>0, <1>2 DEF Open, Unload
  <1>3. ASSUME NEW t \in Tabs, Login(t) PROVE FlowTypes'
    BY <1>0, <1>3 DEF Login
  <1>4. ASSUME NEW f \in Flows, Refused(f) \/ Verify(f) \/ FindUser(f) \/ Breaks(f)
        PROVE  FlowTypes'
    BY <1>0, <1>4 DEF Refused, Verify, FindUser, Breaks, At
  <1>5. ASSUME NEW f \in Flows, Consume(f) PROVE FlowTypes'
    BY <1>0, <1>5 DEF Consume, At
  <1>6. ASSUME NEW f \in Flows, StoreJti(f) PROVE FlowTypes'
    BY <1>0, <1>6, FreshIsUnused DEF StoreJti, At
  <1>7. ASSUME NEW f \in Flows, Over(f) PROVE FlowTypes'
    BY <1>0, <1>7 DEF Over
  <1>8. ASSUME NEW f \in Flows, Rejected(f) PROVE FlowTypes'
    BY <1>0, <1>8 DEF Rejected, Unload
  <1>9. ASSUME NEW f \in Flows, Lost(f) PROVE FlowTypes'
    <2>1. heard' \in [Flows -> BOOLEAN]
      BY <1>0, <1>9 DEF Lost, Unload
    <2>. QED
      BY <1>0, <1>9, <2>1 DEF Lost, At
  <1>10. ASSUME UNCHANGED flows PROVE FlowTypes'
    BY <1>0, <1>10 DEF flows
  <1>11. ASSUME NEW t \in Tabs, Load(t) PROVE UNCHANGED flows
    BY <1>11 DEF Load
  <1>12. ASSUME NEW q \in Requests, Send(q) \/ Ends(q) \/ Join(q) PROVE UNCHANGED flows
    BY <1>12 DEF Send, Ends, Join
  <1>13. ASSUME \/ AccessExpires \/ Elsewhere \/ (\E j \in Jti : Drop(j))
                \/ (\E kind \in Revocations \cup {"list"} : Begin(kind))
                \/ Commit \/ ScanPage \/ ScanAnswer \/ ScanAborts \/ UNCHANGED vars
         PROVE  UNCHANGED flows
    BY <1>13 DEF AccessExpires, Elsewhere, Drop, Begin, Commit, ScanPage, ScanAnswer, ScanAborts, vars
  <1>. QED
    BY <1>0, <1>1, <1>2, <1>3, <1>4, <1>5, <1>6, <1>7, <1>8, <1>9, <1>10, <1>11, <1>12, <1>13
    DEF Next, Dashboard, Answer, Lead, Serve, Renewed, Entered, Unheard

LEMMA NextPages == ClientTypes /\ [Next]_vars => PageTypes'
  <1> SUFFICES ASSUME ClientTypes, [Next]_vars PROVE PageTypes'
    OBVIOUS
  <1> USE SessionsAssumption DEF PageTypes
  <1>0. PageTypes /\ \A f \in Flows : Home(f) \in Tabs
    BY HomeIsTab DEF ClientTypes
  <1>1. ASSUME NEW t \in Tabs, Open(t) \/ Load(t) PROVE PageTypes'
    BY <1>0, <1>1 DEF Open, Load, Proxy
  <1>2. ASSUME NEW q \in Requests, Send(q) \/ Ends(q) \/ Lead(q) \/ Join(q) PROVE PageTypes'
    BY <1>0, <1>2 DEF Send, Ends, Lead, Join
  <1>3. ASSUME NEW f \in Flows, Renewed(f) PROVE PageTypes'
    BY <1>0, <1>3 DEF Renewed, SentAgain
  <1>4. ASSUME NEW f \in Flows, Entered(f) PROVE PageTypes'
    BY <1>0, <1>4 DEF Entered
  <1>5. ASSUME NEW t \in Tabs, RedirectToLogin(t) PROVE PageTypes'
    BY <1>0, <1>5 DEF RedirectToLogin
  <1>6. ASSUME NEW f \in Flows, Rejected(f) \/ Lost(f) PROVE PageTypes'
    <2>1. f \in Requests => TabOf[f] \in Tabs
      OBVIOUS
    <2>. QED
      BY <1>0, <1>5, <1>6, <2>1 DEF Rejected, Lost, client
  <1>7. ASSUME UNCHANGED client PROVE PageTypes'
    BY <1>0, <1>7 DEF client
  <1>8. ASSUME NEW t \in Tabs, Dashboard(t) \/ Login(t) PROVE UNCHANGED client
    BY <1>8 DEF Dashboard, Login
  <1>9. ASSUME NEW f \in Flows,
               \/ Refused(f) \/ Verify(f) \/ Consume(f) \/ FindUser(f)
               \/ StoreJti(f) \/ Breaks(f) \/ Unheard(f)
        PROVE  UNCHANGED client
    BY <1>9 DEF Refused, Verify, Consume, FindUser, StoreJti, Breaks, Unheard
  <1>10. CASE ScanAnswer
    BY <1>0, <1>10 DEF ScanAnswer, Proxy
  <1>11. ASSUME \/ AccessExpires \/ Elsewhere \/ (\E j \in Jti : Drop(j))
                \/ (\E kind \in Revocations \cup {"list"} : Begin(kind))
                \/ Commit \/ ScanPage \/ ScanAborts \/ UNCHANGED vars
         PROVE  UNCHANGED client
    BY <1>11 DEF AccessExpires, Elsewhere, Drop, Begin, Commit, ScanPage, ScanAborts, vars
  <1>. QED
    BY <1>1, <1>2, <1>3, <1>4, <1>6, <1>7, <1>8, <1>9, <1>10, <1>11 DEF Next, Answer, Serve

LEMMA NextJar == ClientTypes /\ [Next]_vars => JarTypes'
  <1> SUFFICES ASSUME ClientTypes, [Next]_vars PROVE JarTypes'
    OBVIOUS
  <1> USE DEF JarTypes
  <1>0. /\ JarTypes
        /\ \A f \in Flows : given[f] \in Jti \cup {0}
        /\ Empty \in [access : BOOLEAN, refresh : Jti \cup {0}]
    BY DEF ClientTypes, FlowTypes, Empty
  <1>1. \A f \in Flows : SetCookies(f) \in [access : BOOLEAN, refresh : Jti \cup {0}]
    BY <1>0 DEF SetCookies
  <1>2. \A x \in Cleared : x \in [access : BOOLEAN, refresh : Jti \cup {0}]
    BY <1>0 DEF Cleared
  <1>3. ASSUME NEW t \in Tabs, Open(t) \/ Load(t) \/ Dashboard(t) \/ Login(t) PROVE JarTypes'
    BY <1>0, <1>3 DEF Open, Load, Dashboard, Login, Present, server
  <1>4. ASSUME NEW q \in Requests, Send(q) \/ Answer(q) PROVE JarTypes'
    BY <1>0, <1>4 DEF Send, Answer, Ends, Lead, Join, Present, server
  <1>5. ASSUME NEW f \in Flows, \/ Refused(f) \/ Verify(f) \/ Consume(f) \/ FindUser(f)
                                \/ StoreJti(f) \/ Breaks(f)
        PROVE  JarTypes'
    BY <1>0, <1>5 DEF Refused, Verify, Consume, FindUser, StoreJti, Breaks, server
  <1>6. ASSUME NEW f \in Flows, Renewed(f) PROVE JarTypes'
    BY <1>0, <1>1, <1>6 DEF Renewed, server
  <1>7. ASSUME NEW f \in Flows, Entered(f) PROVE JarTypes'
    <2>1. jar' = SetCookies(f) /\ exists' = exists /\ calm' \in BOOLEAN
      BY <1>0, <1>7 DEF Entered, server
    <2>. QED
      BY <1>0, <1>1, <2>1
  <1>8. ASSUME NEW f \in Flows, Rejected(f) \/ Lost(f) \/ Unheard(f) PROVE JarTypes'
    BY <1>0, <1>1, <1>2, <1>8 DEF Rejected, Lost, Unheard, server
  <1>9. CASE AccessExpires \/ Elsewhere \/ \E j \in Jti : Drop(j)
    BY <1>0, <1>9 DEF AccessExpires, Elsewhere, Drop, server
  <1>10. CASE ScanAnswer
    BY <1>0, <1>2, <1>10 DEF ScanAnswer
  <1>11. CASE Commit \/ ScanPage \/ ScanAborts \/ UNCHANGED vars
    BY <1>0, <1>11 DEF Commit, ScanPage, ScanAborts, vars, server
  <1>12. ASSUME NEW kind \in Revocations \cup {"list"}, Begin(kind) PROVE JarTypes'
    BY <1>0, <1>12 DEF Begin
  <1>. QED
    BY <1>3, <1>4, <1>5, <1>6, <1>7, <1>8, <1>9, <1>10, <1>11, <1>12 DEF Next, Serve

LEMMA InitClient == Init => ClientTypes
  <1> SUFFICES ASSUME Init PROVE ClientTypes
    OBVIOUS
  <1>1. FlowTypes
    BY DEF Init, FlowTypes, Stages
  <1>2. PageTypes
    BY DEF Init, PageTypes
  <1>3. JarTypes
    BY DEF Init, JarTypes, Empty
  <1>. QED
    BY <1>1, <1>2, <1>3 DEF ClientTypes

LEMMA NextClient == ClientTypes /\ [Next]_vars => ClientTypes'
  BY NextFlows, NextPages, NextJar DEF ClientTypes

-----------------------------------------------------------------------------
(***************************************************************************)
(* The shared refresh.                                                     *)
(***************************************************************************)

\* A refresh of a request that a page still hears is the one its tab shares.
PromiseInv ==
    /\ PromiseKept
    /\ \A q \in Requests : Active(q) /\ heard[q] => shared[TabOf[q]] = q

LEMMA InitPromise == Init => PromiseInv
  BY SessionsAssumption DEF Init, PromiseInv, PromiseKept, Active, Flows

\* Nothing changes for who shares and who waits.
LEMMA PromiseStays ==
  ASSUME ClientTypes, PromiseInv, UNCHANGED shared,
         \A q \in Requests : /\ heard'[q] = heard[q]
                             /\ flow'[q] = "none" <=> flow[q] = "none"
                             /\ req'[q] = "wait" => req[q] = "wait" \/ shared[TabOf[q]] # none
  PROVE  PromiseInv'
  <1>1. \A t \in Tabs : shared[t] \in Requests \cup {none}
    BY DEF ClientTypes, PageTypes
  <1>. QED
    BY <1>1, SessionsAssumption DEF PromiseInv, PromiseKept, Active

\* A page is left, and its refreshes go on unheard.
LEMMA PromiseLeft ==
  ASSUME ClientTypes, PromiseInv, NEW t \in Tabs,
         shared' = [shared EXCEPT ![t] = none],
         req' = [q \in Requests |-> IF TabOf[q] = t THEN "idle" ELSE req[q]],
         heard' = Unload(t),
         \A q \in Requests : TabOf[q] # t => flow'[q] = flow[q]
  PROVE  PromiseInv'
  <1>1. /\ shared \in [Tabs -> Requests \cup {none}] /\ Requests \subseteq Flows
        /\ \A q \in Requests : TabOf[q] \in Tabs /\ Home(q) = TabOf[q]
    BY SessionsAssumption DEF ClientTypes, PageTypes, Flows, Home
  <1>2. ASSUME NEW q \in Requests
        PROVE  /\ heard'[q] <=> heard[q] /\ TabOf[q] # t
               /\ req'[q] = "wait" => req[q] = "wait" /\ TabOf[q] # t
    BY <1>1 DEF Unload
  <1>3. ASSUME NEW u \in Tabs, shared'[u] # none
        PROVE  u # t /\ shared'[u] = shared[u]
    BY <1>1, <1>3
  <1>4. ASSUME NEW u \in Tabs, u # t PROVE shared'[u] = shared[u]
    BY <1>1, <1>4
  <1>5. \A u \in Tabs : shared[u] # none =>
            shared[u] \in Requests /\ TabOf[shared[u]] = u /\ Active(shared[u]) /\ heard[shared[u]]
    BY <1>1 DEF PromiseInv, PromiseKept
  <1>6. \A u \in Tabs : shared'[u] # none =>
            LET q == shared'[u] IN TabOf[q] = u /\ flow'[q] # "none" /\ heard'[q]
    BY <1>2, <1>3, <1>5 DEF Active
  <1>7. \A q \in Requests : req'[q] = "wait" => shared'[TabOf[q]] # none
    BY <1>1, <1>2, <1>4 DEF PromiseInv, PromiseKept
  <1>8. \A q \in Requests : flow'[q] # "none" /\ heard'[q] => shared'[TabOf[q]] = q
    BY <1>1, <1>2, <1>4 DEF PromiseInv, Active
  <1>. QED
    BY <1>6, <1>7, <1>8 DEF PromiseInv, PromiseKept, Active

LEMMA NextPromise == ClientTypes /\ PromiseInv /\ [Next]_vars => PromiseInv'
  <1> SUFFICES ASSUME ClientTypes, PromiseInv, [Next]_vars PROVE PromiseInv'
    OBVIOUS
  <1> USE SessionsAssumption
  <1>0. /\ flow \in [Flows -> Stages] /\ heard \in [Flows -> BOOLEAN]
        /\ shared \in [Tabs -> Requests \cup {none}] /\ none \notin Requests
        /\ req \in [Requests -> {"idle", "final", "denied", "wait"}]
        /\ Requests \subseteq Flows /\ Tabs \subseteq Flows /\ Tabs \cap Requests = {}
        /\ \A q \in Requests : TabOf[q] \in Tabs /\ Home(q) = TabOf[q]
    BY DEF ClientTypes, FlowTypes, PageTypes, Flows, Home, none
  <1>1. ASSUME NEW t \in Tabs, Open(t) PROVE PromiseInv'
    BY <1>1, PromiseLeft DEF Open
  <1>2. ASSUME NEW t \in Tabs, Dashboard(t) \/ Login(t) PROVE PromiseInv'
    <2>1. /\ UNCHANGED <<shared, req>>
          /\ \A q \in Requests : heard'[q] = heard[q] /\ flow'[q] = flow[q]
      BY <1>0, <1>2 DEF Dashboard, Login, Present, client
    <2>. QED
      BY <2>1, PromiseStays
  <1>3. ASSUME NEW q \in Requests, Send(q) \/ Ends(q) \/ Join(q) PROVE PromiseInv'
    <2>1. /\ UNCHANGED <<shared, flow, heard>>
          /\ \A p \in Requests : req'[p] = "wait" => req[p] = "wait" \/ shared[TabOf[p]] # none
      BY <1>0, <1>3 DEF Send, Ends, Join, flows
    <2>. QED
      BY <2>1, PromiseStays
  <1>4. ASSUME NEW q \in Requests, Lead(q) PROVE PromiseInv'
    <2>1. /\ shared[TabOf[q]] = none /\ shared' = [shared EXCEPT ![TabOf[q]] = q]
          /\ req' = [req EXCEPT ![q] = "wait"] /\ heard' = [heard EXCEPT ![q] = TRUE]
          /\ flow'[q] # "none" /\ \A p \in Requests \ {q} : flow'[p] = flow[p]
      BY <1>0, <1>4 DEF Lead, Present
    <2>2. \A t \in Tabs : shared'[t] # none =>
              LET p == shared'[t] IN TabOf[p] = t /\ flow'[p] # "none" /\ heard'[p]
      <3>1. ASSUME NEW t \in Tabs, shared'[t] # none, t # TabOf[q]
            PROVE  /\ shared'[t] = shared[t] /\ shared[t] \in Requests /\ shared[t] # q
                   /\ TabOf[shared[t]] = t /\ Active(shared[t]) /\ heard[shared[t]]
        BY <1>0, <2>1, <3>1 DEF PromiseInv, PromiseKept
      <3>2. ASSUME NEW t \in Tabs, t = TabOf[q] PROVE shared'[t] = q
        BY <1>0, <2>1, <3>2
      <3>. QED
        BY <1>0, <2>1, <3>1, <3>2 DEF Active
    <2>3. \A p \in Requests : req'[p] = "wait" => shared'[TabOf[p]] # none
      BY <1>0, <2>1 DEF PromiseInv, PromiseKept
    <2>4. ASSUME NEW p \in Requests, flow'[p] # "none", heard'[p] PROVE shared'[TabOf[p]] = p
      <3>1. CASE p = q
        BY <1>0, <2>1, <3>1
      <3>2. CASE p # q
        <4>1. shared[TabOf[p]] = p
          BY <1>0, <2>1, <2>4, <3>2 DEF PromiseInv, Active
        <4>. QED
          BY <1>0, <2>1, <4>1
      <3>. QED
        BY <3>1, <3>2
    <2>. QED
      BY <2>2, <2>3, <2>4 DEF PromiseInv, PromiseKept, Active
  <1>5. ASSUME NEW f \in Flows, \/ Refused(f) \/ Verify(f) \/ Consume(f) \/ FindUser(f)
                                \/ StoreJti(f) \/ Breaks(f)
        PROVE  PromiseInv'
    <2>1. /\ UNCHANGED <<shared, req, heard>>
          /\ \A q \in Requests : flow'[q] = "none" <=> flow[q] = "none"
      BY <1>0, <1>5 DEF Refused, Verify, Consume, FindUser, StoreJti, Breaks, At, client
    <2>. QED
      BY <2>1, PromiseStays
  <1>6. ASSUME NEW q \in Flows, Renewed(q) PROVE PromiseInv'
    <2>1. /\ q \in Requests /\ heard[q] /\ flow[q] = "ok"
          /\ shared' = [shared EXCEPT ![TabOf[q]] = none]
          /\ req' = SentAgain(TabOf[q])
          /\ flow' = [flow EXCEPT ![q] = "none"] /\ heard' = [heard EXCEPT ![q] = FALSE]
      BY <1>6 DEF Renewed, Over
    <2>2. shared[TabOf[q]] = q
      BY <2>1 DEF PromiseInv, Active
    <2>3. \A t \in Tabs : shared'[t] # none =>
              LET p == shared'[t] IN TabOf[p] = t /\ flow'[p] # "none" /\ heard'[p]
      <3>1. ASSUME NEW t \in Tabs, shared'[t] # none
            PROVE  /\ shared'[t] = shared[t] /\ shared[t] \in Requests /\ shared[t] # q
                   /\ TabOf[shared[t]] = t /\ Active(shared[t]) /\ heard[shared[t]]
        BY <1>0, <2>1, <3>1 DEF PromiseInv, PromiseKept
      <3>. QED
        BY <1>0, <2>1, <3>1 DEF Active
    <2>4. \A p \in Requests : req'[p] = "wait" => shared'[TabOf[p]] # none
      BY <1>0, <2>1 DEF SentAgain, PromiseInv, PromiseKept
    <2>5. ASSUME NEW p \in Requests, flow'[p] # "none", heard'[p] PROVE shared'[TabOf[p]] = p
      <3>1. p # q /\ shared[TabOf[p]] = p
        BY <1>0, <2>1, <2>5 DEF PromiseInv, Active
      <3>. QED
        BY <1>0, <2>1, <2>2, <3>1
    <2>. QED
      BY <2>3, <2>4, <2>5 DEF PromiseInv, PromiseKept, Active
  <1>7. ASSUME NEW t \in Flows, Entered(t) PROVE PromiseInv'
    <2>1. /\ UNCHANGED <<shared, req>>
          /\ \A q \in Requests : heard'[q] = heard[q] /\ flow'[q] = flow[q]
      BY <1>0, <1>7 DEF Entered, Over
    <2>. QED
      BY <2>1, PromiseStays
  <1>8. ASSUME NEW f \in Flows, Rejected(f) \/ Lost(f) PROVE PromiseInv'
    <2>1. \A q \in Flows \ {f} : flow'[q] = flow[q]
      BY <1>0, <1>8 DEF Rejected, Lost, At
    <2>2. CASE f \in Requests
      <3>1. RedirectToLogin(TabOf[f]) /\ heard' = Unload(TabOf[f])
        BY <1>0, <1>8, <2>2 DEF Rejected, Lost
      <3>. QED
        BY <1>0, <2>1, <2>2, <3>1, PromiseLeft DEF RedirectToLogin
    <2>3. CASE f \in Tabs
      <3>1. UNCHANGED <<shared, req>> /\ heard' = [heard EXCEPT ![f] = FALSE]
        BY <1>0, <1>8, <2>3 DEF Rejected, Lost, client
      <3>2. \A q \in Requests : heard'[q] = heard[q] /\ flow'[q] = flow[q]
        BY <1>0, <2>1, <2>3, <3>1
      <3>. QED
        BY <3>1, <3>2, PromiseStays
    <2>. QED
      BY <2>2, <2>3 DEF Flows
  <1>9. ASSUME NEW f \in Flows, Unheard(f) PROVE PromiseInv'
    <2>1. /\ UNCHANGED <<shared, req>> /\ ~heard[f]
          /\ flow' = [flow EXCEPT ![f] = "none"] /\ heard' = [heard EXCEPT ![f] = FALSE]
      BY <1>9 DEF Unheard, Over, client
    <2>2. \A q \in Requests : heard[q] => flow'[q] = flow[q] /\ q # f
      BY <1>0, <2>1
    <2>3. \A q \in Requests : heard'[q] = heard[q]
      BY <1>0, <2>1
    <2>4. \A t \in Tabs : shared[t] # none =>
              shared[t] \in Requests /\ TabOf[shared[t]] = t /\ Active(shared[t]) /\ heard[shared[t]]
      BY <1>0 DEF PromiseInv, PromiseKept
    <2>. QED
      BY <1>0, <2>1, <2>2, <2>3, <2>4 DEF PromiseInv, PromiseKept, Active
  <1>10. ASSUME UNCHANGED <<shared, req, flow, heard>> PROVE PromiseInv'
    BY <1>10, PromiseStays
  <1>11. ASSUME NEW t \in Tabs, Load(t) PROVE UNCHANGED <<shared, req, flow, heard>>
    BY <1>11 DEF Load, flows
  <1>12. ASSUME \/ AccessExpires \/ Elsewhere \/ (\E j \in Jti : Drop(j))
                \/ (\E kind \in Revocations \cup {"list"} : Begin(kind))
                \/ Commit \/ ScanPage \/ ScanAnswer \/ ScanAborts \/ UNCHANGED vars
         PROVE  UNCHANGED <<shared, req, flow, heard>>
    BY <1>12 DEF AccessExpires, Elsewhere, Drop, Begin, Commit, ScanPage, ScanAnswer, ScanAborts,
       vars, client, flows
  <1>. QED
    BY <1>1, <1>2, <1>3, <1>4, <1>5, <1>6, <1>7, <1>8, <1>9, <1>10, <1>11, <1>12
    DEF Next, Answer, Serve

BrowserInv == ClientTypes /\ PromiseInv

\* Types, and the promise in refreshInflight: it is that of a request under way,
\* which whoever waits for it waits for.
THEOREM TypeCorrect == Spec => []TypeOK
  <1>1. Init => EntryInv /\ BrowserInv
    BY InitEntries, InitClient, InitPromise DEF BrowserInv
  <1>2. EntryInv /\ BrowserInv /\ [Next]_vars => EntryInv' /\ BrowserInv'
    BY NextEntries, NextClient, NextPromise DEF BrowserInv
  <1>3. EntryInv /\ BrowserInv => TypeOK
    BY DEF EntryInv, EntryTypes, BrowserInv, ClientTypes, FlowTypes, PageTypes, JarTypes,
       PromiseInv, TypeOK, Stages
  <1>. QED
    BY <1>1, <1>2, <1>3, PTL DEF Spec

-----------------------------------------------------------------------------
(***************************************************************************)
(* Rotation alone.                                                         *)
(***************************************************************************)

\* A flow between the DEL of its token and the answer with the next.
Between == {"user", "store", "ok"}

\* While nothing but rotation happens, there is one flow at most, heard and not
\* failing, but perhaps refused to the dashboard, and the session's entry is there:
\* of the token in the jar, which the flow presented, or, once that is consumed, of
\* the one the flow will give.
Rotates ==
    /\ exists
    /\ scan.stage = "none" \/ scan.kind = "list"
    /\ \A f \in Flows : Active(f) => heard[f] /\ flow[f] # "fail" /\ (flow[f] = "error" => f \in Tabs)
    /\ \A f, g \in Flows : Active(f) /\ Active(g) => f = g
    /\ (\A f \in Flows : flow[f] \notin Between) => jar.refresh \in Jti /\ Live(jar.refresh)
    /\ \A f \in Flows : flow[f] \in {"get", "del"} => given[f] = jar.refresh
    /\ \A f \in Flows : flow[f] = "ok" => given[f] \in Jti /\ Live(given[f])

CalmInv == calm => Rotates

LEMMA InitCalm == Init => CalmInv
  BY DEF Init, CalmInv

\* The flows and the cookie stay, and so do the entries that are there.
LEMMA RotatesStays ==
  ASSUME Rotates, UNCHANGED <<flow, given, exists>>, jar'.refresh = jar.refresh,
         \A f \in Flows : Active(f) => heard'[f] = heard[f],
         \A j \in Jti : Live(j) /\ Held(j) => Live(j)',
         scan'.stage = "none" \/ scan'.kind = "list"
  PROVE  Rotates'
  <1>1. (\A f \in Flows : flow[f] \notin Between) => jar.refresh \in Jti /\ Live(jar.refresh)'
    BY DEF Rotates, Held
  <1>2. \A f \in Flows : flow[f] = "ok" => given[f] \in Jti /\ Live(given[f])'
    BY DEF Rotates, Held, Active
  <1>3. /\ exists'
        /\ \A f \in Flows : Active(f)' =>
              heard'[f] /\ flow'[f] # "fail" /\ (flow'[f] = "error" => f \in Tabs)
    BY DEF Rotates, Active
  <1>4. /\ \A f, g \in Flows : Active(f)' /\ Active(g)' => f = g
        /\ \A f \in Flows : flow'[f] \in {"get", "del"} => given'[f] = jar'.refresh
    BY DEF Rotates, Active
  <1>. QED
    BY <1>1, <1>2, <1>3, <1>4 DEF Rotates, Live

\* One flow, the only one, moves on.
LEMMA RotatesOn ==
  ASSUME FlowTypes, Rotates, UNCHANGED <<heard, exists, scan, jar>>, NEW f \in Flows, Active(f),
         NEW p \in Stages \ {"none", "fail"}, flow' = [flow EXCEPT ![f] = p],
         p = "error" => f \in Tabs,
         p \notin Between => jar.refresh \in Jti /\ Live(jar.refresh)',
         p \in {"get", "del"} => given'[f] = jar.refresh,
         p = "ok" => given'[f] \in Jti /\ Live(given[f])'
  PROVE  Rotates'
  <1>1. \A g \in Flows \ {f} : flow'[g] = "none"
    BY DEF FlowTypes, Rotates, Active
  <1>2. flow'[f] = p
    BY DEF FlowTypes
  <1>3. /\ exists' /\ (scan'.stage = "none" \/ scan'.kind = "list") /\ heard'[f]
    BY DEF Rotates
  <1>4. \A g \in Flows : Active(g)' => g = f /\ flow'[g] = p
    BY <1>1, <1>2 DEF Active
  <1>5. (\A g \in Flows : flow'[g] \notin Between) => jar'.refresh \in Jti /\ Live(jar.refresh)'
    BY <1>2
  <1>6. \A g \in Flows : flow'[g] \in {"get", "del"} => given'[g] = jar'.refresh
    BY <1>1, <1>2
  <1>7. \A g \in Flows : flow'[g] = "ok" => given'[g] \in Jti /\ Live(given[g])'
    BY <1>1, <1>2
  <1>. QED
    BY <1>3, <1>4, <1>5, <1>6, <1>7 DEF Rotates, Live

\* The answer that gives the next token.
LEMMA RotatesOver ==
  ASSUME FlowTypes, NEW f \in Flows, \A g \in Flows \ {f} : ~Active(g),
         flow' = [flow EXCEPT ![f] = "none"], jar'.refresh = given[f], given[f] \in Jti,
         Live(given[f]), UNCHANGED <<exists, entry, scan>>,
         exists, scan.stage = "none" \/ scan.kind = "list"
  PROVE  Rotates'
  <1>1. \A g \in Flows : flow'[g] = "none"
    BY DEF FlowTypes, Active
  <1>2. jar'.refresh \in Jti /\ Live(jar.refresh)'
    BY DEF Live
  <1>. QED
    BY <1>1, <1>2 DEF Rotates, Active, Between

\* A refresh leaves, and no other is under way.
LEMMA PresentCalm ==
  ASSUME BrowserInv, CalmInv, NEW f \in Flows, Present(f), calm', UNCHANGED <<server, jar, scan>>,
         f \in Requests => shared[TabOf[f]] = none
  PROVE  Rotates'
  <1> USE DEF BrowserInv, ClientTypes
  <1>1. calm /\ Rotates
    BY DEF Present, CalmInv
  <1>2. ASSUME NEW g \in Flows, Active(g) PROVE FALSE
    <2>1. f \in Requests /\ g \in Requests /\ TabOf[g] = TabOf[f]
      BY <1>2 DEF Present, Of
    <2>2. heard[g]
      BY <1>1, <1>2 DEF Rotates
    <2>3. shared[TabOf[f]] = g
      BY <1>2, <2>1, <2>2 DEF PromiseInv
    <2>. QED
      BY <2>1, <2>3, SessionsAssumption DEF none
  <1>3. jar.refresh \in Jti /\ Live(jar.refresh) /\ jar.refresh # 0
    <2>1. jar.refresh \in Jti /\ Live(jar.refresh)
      BY <1>1, <1>2 DEF Rotates, Active, Between
    <2>. QED
      BY <2>1, SessionsAssumption DEF Jti
  <1>4. /\ flow' = [flow EXCEPT ![f] = "get"] /\ given' = [given EXCEPT ![f] = jar.refresh]
        /\ heard' = [heard EXCEPT ![f] = TRUE]
    BY <1>3 DEF Present
  <1>5. /\ flow'[f] = "get" /\ given'[f] = jar.refresh /\ heard'[f]
        /\ \A g \in Flows \ {f} : flow'[g] = "none"
    BY <1>2, <1>4 DEF FlowTypes, Active
  <1>6. exists' = exists /\ entry' = entry /\ scan' = scan /\ jar' = jar
    BY DEF server
  <1>7. jar'.refresh \in Jti /\ Live(jar.refresh)'
    BY <1>3, <1>6 DEF Live
  <1>8. \A g \in Flows : Active(g)' => g = f
    BY <1>5 DEF Active
  <1>9. exists' /\ (scan'.stage = "none" \/ scan'.kind = "list")
    BY <1>1, <1>6 DEF Rotates
  <1>. QED
    BY <1>5, <1>6, <1>7, <1>8, <1>9 DEF Rotates, Between

LEMMA NextCalm == EntryInv /\ BrowserInv /\ CalmInv /\ [Next]_vars => CalmInv'
  <1> SUFFICES ASSUME EntryInv, BrowserInv, CalmInv, [Next]_vars, calm' PROVE Rotates'
    BY DEF CalmInv
  <1>0. /\ FlowTypes /\ JarTypes /\ EntryTypes /\ Tabs \subseteq Flows /\ Requests \subseteq Flows
        /\ (calm => Rotates)
    BY DEF BrowserInv, ClientTypes, EntryInv, CalmInv, Flows
  <1>1. ASSUME NEW t \in Tabs, Open(t) PROVE Rotates'
    <2>1. calm /\ Undisturbed(t) /\ UNCHANGED <<flow, given, exists, entry, jar, scan>>
          /\ heard' = Unload(t)
      BY <1>1 DEF Open, server
    <2>2. \A f \in Flows : Active(f) => heard'[f] = heard[f]
      BY <1>0, <2>1 DEF Unload, Undisturbed, Rotates, FlowTypes
    <2>3. Rotates /\ (scan'.stage = "none" \/ scan'.kind = "list") /\ \A j \in Jti : Live(j) => Live(j)'
      BY <1>0, <2>1 DEF Rotates, Live
    <2>. QED
      BY <2>1, <2>2, <2>3, RotatesStays
  <1>2. ASSUME NEW t \in Tabs, Load(t) \/ Login(t) PROVE FALSE
    BY <1>2 DEF Load, Login
  <1>3. ASSUME NEW t \in Tabs, Dashboard(t) PROVE Rotates'
    BY <1>0, <1>3, PresentCalm, SessionsAssumption DEF Dashboard
  <1>4. ASSUME NEW q \in Requests, Lead(q) PROVE Rotates'
    BY <1>0, <1>4, PresentCalm DEF Lead
  <1>5. ASSUME calm, UNCHANGED <<flows, exists, entry, scan>>, jar'.refresh = jar.refresh PROVE Rotates'
    <2>1. /\ UNCHANGED <<flow, given, exists>> /\ (\A f \in Flows : Active(f) => heard'[f] = heard[f])
          /\ \A j \in Jti : Live(j) => Live(j)'
      BY <1>5 DEF flows, Live
    <2>2. Rotates /\ (scan'.stage = "none" \/ scan'.kind = "list")
      BY <1>0, <1>5 DEF Rotates
    <2>. QED
      BY <1>5, <2>1, <2>2, RotatesStays
  <1>6. ASSUME NEW q \in Requests, Send(q) \/ Ends(q) \/ Join(q) PROVE Rotates'
    BY <1>5, <1>6 DEF Send, Ends, Join, server
  <1>7. CASE AccessExpires
    <2>1. jar'.refresh = jar.refresh
      BY <1>0, <1>7 DEF AccessExpires, JarTypes
    <2>. QED
      BY <1>5, <1>7, <2>1 DEF AccessExpires, server
  <1>8. CASE UNCHANGED vars
    BY <1>5, <1>8 DEF vars, server
  <1>9. ASSUME NEW f \in Flows, Verify(f) PROVE Rotates'
    <2>1. calm /\ flow[f] = "get" /\ UNCHANGED <<exists, entry, jar, given, heard, scan>>
          /\ flow' = [flow EXCEPT ![f] = IF given[f] \in Jti /\ Live(given[f]) THEN "del"
                                         ELSE "fail"]
      BY <1>9 DEF Verify, At, server
    <2>2. Rotates /\ Active(f) /\ given[f] = jar.refresh
      BY <1>0, <2>1 DEF Rotates, Active
    <2>3. jar.refresh \in Jti /\ Live(jar.refresh)
      BY <2>1, <2>2 DEF Rotates, Active, Between
    <2>4. flow' = [flow EXCEPT ![f] = "del"] /\ Live(jar.refresh)' /\ given'[f] = jar.refresh
      BY <2>1, <2>2, <2>3 DEF Live
    <2>. QED
      BY <1>0, <2>1, <2>2, <2>3, <2>4, RotatesOn DEF Stages
  <1>10. ASSUME NEW f \in Flows, Consume(f) PROVE Rotates'
    <2>1. calm /\ flow[f] = "del" /\ UNCHANGED <<heard, exists, scan, jar>>
          /\ flow' = [flow EXCEPT ![f] = "user"]
      BY <1>10 DEF Consume, At
    <2>. QED
      BY <1>0, <2>1, RotatesOn DEF Stages, Active, Between
  <1>11. ASSUME NEW f \in Flows, FindUser(f) PROVE Rotates'
    <2>1. calm /\ flow[f] = "user" /\ UNCHANGED <<heard, exists, scan, jar>>
          /\ flow' = [flow EXCEPT ![f] = IF exists THEN "store" ELSE "fail"]
      BY <1>11 DEF FindUser, At, server
    <2>2. flow' = [flow EXCEPT ![f] = "store"]
      BY <1>0, <2>1 DEF Rotates
    <2>. QED
      BY <1>0, <2>1, <2>2, RotatesOn DEF Stages, Active, Between
  <1>12. ASSUME NEW f \in Flows, StoreJti(f) PROVE Rotates'
    <2>1. calm /\ flow[f] = "store" /\ UNCHANGED <<heard, exists, scan, jar>>
          /\ flow' = [flow EXCEPT ![f] = "ok"]
          /\ given' = [given EXCEPT ![f] = Fresh] /\ entry' = Store(entry, Fresh) /\ Fresh \in Jti
      BY <1>12, FreshIsUnused DEF StoreJti, At
    <2>2. given'[f] = Fresh /\ entry'[Fresh] = "live"
      BY <1>0, <2>1 DEF FlowTypes, EntryTypes, Store
    <2>3. given'[f] \in Jti /\ Live(given[f])'
      BY <2>1, <2>2 DEF Live
    <2>. QED
      BY <1>0, <2>1, <2>3, RotatesOn DEF Stages, Active, Between
  <1>25. ASSUME NEW f \in Flows, Refused(f) PROVE Rotates'
    <2>1. /\ calm /\ f \in Tabs /\ flow[f] = "get"
          /\ UNCHANGED <<exists, entry, jar, given, heard, scan>>
          /\ flow' = [flow EXCEPT ![f] = "error"]
      BY <1>25 DEF Refused, At, server
    <2>2. Rotates /\ Active(f)
      BY <1>0, <2>1 DEF Active
    <2>3. jar.refresh \in Jti /\ Live(jar.refresh)
      BY <2>1, <2>2 DEF Rotates, Active, Between
    <2>4. Live(jar.refresh)'
      BY <2>1, <2>3 DEF Live
    <2>. QED
      BY <1>0, <2>1, <2>2, <2>3, <2>4, RotatesOn DEF Stages
  <1>13. ASSUME NEW f \in Flows, Breaks(f) \/ Lost(f) \/ Unheard(f) PROVE FALSE
    BY <1>13 DEF Breaks, Lost, Unheard
  <1>14. ASSUME NEW f \in Flows, Renewed(f) PROVE Rotates'
    <2>1. /\ calm /\ flow[f] = "ok" /\ flow' = [flow EXCEPT ![f] = "none"]
          /\ UNCHANGED <<exists, entry, scan>> /\ jar'.refresh = given[f]
      BY <1>14 DEF Renewed, Over, SetCookies, server
    <2>2. Rotates /\ Active(f)
      BY <1>0, <2>1 DEF Active
    <2>. QED
      BY <1>0, <2>1, <2>2, RotatesOver DEF Rotates
  <1>15. ASSUME NEW t \in Flows, Entered(t) PROVE Rotates'
    <2>1. /\ flow[t] = "ok" /\ flow' = [flow EXCEPT ![t] = "none"]
          /\ UNCHANGED <<exists, entry, scan>> /\ jar'.refresh = given[t]
      BY <1>15 DEF Entered, Over, SetCookies, server
    <2>2. CASE calm
      <3>1. Rotates /\ Active(t)
        BY <1>0, <2>1, <2>2 DEF Active
      <3>. QED
        BY <1>0, <2>1, <3>1, RotatesOver DEF Rotates
    <2>3. CASE ~calm
      <3>1. /\ \A g \in Flows \ {t} : ~Active(g)
            /\ scan.stage = "none" \/ scan.kind = "list"
            /\ exists /\ Live(given[t])
        BY <1>15, <2>3 DEF Entered
      <3>2. given[t] \in Jti
        BY <1>0, <2>1 DEF FlowTypes
      <3>. QED
        BY <1>0, <2>1, <3>1, <3>2, RotatesOver
    <2>. QED
      BY <2>2, <2>3
  <1>16. ASSUME NEW f \in Flows, Rejected(f) PROVE Rotates'
    <2>1. calm /\ Failed(f) /\ flow' = [flow EXCEPT ![f] = "none"] /\ UNCHANGED <<server, scan>>
          /\ jar' \in IF flow[f] = "fail" THEN Cleared ELSE {jar}
      BY <1>16 DEF Rejected
    <2>2. Rotates /\ flow[f] = "error" /\ Active(f)
      BY <1>0, <2>1 DEF Rotates, Active, Failed
    <2>3. \A g \in Flows : flow'[g] = "none"
      BY <1>0, <2>1, <2>2 DEF Rotates, Active, FlowTypes
    <2>4. jar.refresh \in Jti /\ Live(jar.refresh)
      BY <2>2 DEF Rotates, Active, Between
    <2>5. jar'.refresh \in Jti /\ Live(jar.refresh)'
      BY <2>1, <2>2, <2>4 DEF Live, server
    <2>6. exists' /\ (scan'.stage = "none" \/ scan'.kind = "list")
      BY <2>1, <2>2 DEF Rotates, server
    <2>. QED
      BY <2>3, <2>5, <2>6 DEF Rotates, Active
  <1>17. ASSUME calm, UNCHANGED <<flows, exists, jar>>,
                scan'.stage = "none" \/ scan'.kind = "list",
                \A j \in Jti : Live(j) /\ Held(j) => Live(j)'
         PROVE  Rotates'
    <2>1. UNCHANGED <<flow, given, exists>> /\ (\A f \in Flows : heard'[f] = heard[f])
      BY <1>17 DEF flows
    <2>. QED
      BY <1>0, <1>17, <2>1, RotatesStays
  <1>18. ASSUME calm, scan.stage # "none" PROVE scan.kind = "list" /\ scan.stage # "commit"
    BY <1>0, <1>18 DEF Rotates, EntryInv
  <1>19. CASE Elsewhere
    <2>1. calm /\ UNCHANGED <<flows, exists, jar, scan>> /\ entry' = Store(entry, Fresh)
      BY <1>19 DEF Elsewhere
    <2>2. \A j \in Jti : Live(j) => Live(j)'
      BY <1>0, <2>1 DEF Store, Live, EntryTypes
    <2>. QED
      BY <1>17, <1>18, <2>1, <2>2
  <1>20. ASSUME NEW j \in Jti, Drop(j) PROVE Rotates'
    <2>1. calm /\ ~Held(j) /\ UNCHANGED <<flows, exists, jar, scan>> /\ entry' = Delete(entry, j)
      BY <1>20 DEF Drop
    <2>2. \A k \in Jti : Live(k) /\ Held(k) => Live(k)'
      BY <1>0, <2>1 DEF Delete, Live, EntryTypes
    <2>. QED
      BY <1>17, <1>18, <2>1, <2>2
  <1>21. ASSUME NEW kind \in Revocations \cup {"list"}, Begin(kind) PROVE Rotates'
    <2>1. calm /\ kind = "list" /\ UNCHANGED <<flows, exists, jar>> /\ entry' = Mark("due")
          /\ scan' = [stage |-> "scan", kind |-> "list"]
      BY <1>21 DEF Begin
    <2>2. \A k \in Jti : Live(k) => Live(k)'
      BY <2>1 DEF Mark, Live
    <2>. QED
      BY <1>17, <2>1, <2>2
  <1>22. ASSUME Commit PROVE FALSE
    BY <1>18, <1>22 DEF Commit
  <1>23. CASE ScanPage
    <2>1. calm /\ UNCHANGED <<flows, exists, jar>> /\ scan.stage = "scan"
      BY <1>23 DEF ScanPage
    <2>2. scan.kind = "list"
      BY <1>18, <2>1
    <2>3. PICK keys, cursor : /\ entry' = Page(keys)
                              /\ scan' = [scan EXCEPT !.stage = IF cursor = 0 THEN "answer" ELSE "scan"]
      BY <1>23 DEF ScanPage
    <2>4. \A k \in Jti : Live(k) => Live(k)'
      BY <2>2, <2>3 DEF Page, Live
    <2>5. scan'.kind = "list"
      BY <1>0, <2>2, <2>3 DEF EntryTypes
    <2>. QED
      BY <1>17, <2>1, <2>4, <2>5
  <1>24. CASE ScanAnswer \/ ScanAborts
    <2>1. calm /\ UNCHANGED <<flows, exists>> /\ scan.stage # "none" /\ scan' = Idle
          /\ entry' = Mark("live")
      BY <1>24 DEF ScanAnswer, ScanAborts
    <2>2. jar' = jar
      BY <1>18, <1>24, <2>1 DEF ScanAnswer, ScanAborts
    <2>3. \A k \in Jti : Live(k) => Live(k)'
      BY <2>1 DEF Mark, Live
    <2>. QED
      BY <1>17, <2>1, <2>2, <2>3 DEF Idle
  <1>. QED
    BY <1>1, <1>2, <1>3, <1>4, <1>6, <1>7, <1>8, <1>9, <1>10, <1>11, <1>12, <1>13, <1>14, <1>15,
       <1>16, <1>19, <1>20, <1>21, <1>22, <1>23, <1>24, <1>25
    DEF Next, Answer, Serve

\* lib/api.ts and api/auth.py: however many requests of a tab find the access token
\* expired, the refresh they share keeps it logged in, unless it is refused, fails or
\* is lost, another overlaps it, or the session has ended.
THEOREM RotationKeepsUsersIn == Spec => StaysIn
  <1> DEFINE Inv == EntryInv /\ BrowserInv /\ CalmInv
  <1>1. Init => Inv
    BY InitEntries, InitClient, InitPromise, InitCalm DEF BrowserInv
  <1>2. Inv /\ [Next]_vars => Inv'
    BY NextEntries, NextClient, NextPromise, NextCalm DEF BrowserInv
  <1>3. ASSUME Inv, [Next]_vars, NEW t \in Tabs, page[t] = "app", page'[t] = "leaving" PROVE ~calm'
    <2>0. page \in [Tabs -> {"closed", "login", "app", "leaving"}]
      BY <1>3 DEF BrowserInv, ClientTypes, PageTypes
    <2>1. ASSUME NEW f \in Flows, Rejected(f) PROVE ~calm'
      <3>1. Failed(f) /\ calm' = calm /\ f \in Requests
        BY <1>3, <2>1 DEF Rejected, client
      <3>. QED
        BY <1>3, <3>1, SessionsAssumption DEF CalmInv, Rotates, Active, Failed
    <2>2. ASSUME NEW f \in Flows, Lost(f) PROVE ~calm'
      BY <2>2 DEF Lost
    <2>3. ASSUME NEW u \in Tabs, Open(u) \/ Load(u) \/ Dashboard(u) \/ Login(u) PROVE FALSE
      BY <1>3, <2>0, <2>3 DEF Open, Load, Dashboard, Login, Proxy, client
    <2>4. ASSUME NEW q \in Requests, Send(q) \/ Answer(q) PROVE FALSE
      BY <1>3, <2>4 DEF Send, Answer, Ends, Lead, Join
    <2>5. ASSUME NEW f \in Flows, \/ Refused(f) \/ Verify(f) \/ Consume(f) \/ FindUser(f) \/ StoreJti(f)
                                 \/ Breaks(f) \/ Renewed(f) \/ Entered(f) \/ Unheard(f)
          PROVE  FALSE
      BY <1>3, <2>0, <2>5 DEF Refused, Verify, Consume, FindUser, StoreJti, Breaks, Renewed,
         Entered, Unheard,
         client
    <2>6. ASSUME \/ AccessExpires \/ Elsewhere \/ (\E j \in Jti : Drop(j))
                 \/ (\E kind \in Revocations \cup {"list"} : Begin(kind))
                 \/ Commit \/ ScanPage \/ ScanAborts \/ UNCHANGED vars
          PROVE  FALSE
      BY <1>3, <2>6
         DEF AccessExpires, Elsewhere, Drop, Begin, Commit, ScanPage, ScanAborts, vars, client
    <2>7. ASSUME ScanAnswer PROVE FALSE
      BY <1>3, <2>0, <2>7 DEF ScanAnswer, Proxy
    <2>. QED
      BY <1>3, <2>1, <2>2, <2>3, <2>4, <2>5, <2>6, <2>7 DEF Next, Serve
  <1>4. Inv /\ [Next]_vars =>
          [\A t \in Tabs : page[t] = "app" /\ page'[t] = "leaving" => ~calm']_vars
    BY <1>3
  <1>. QED
    BY <1>1, <1>2, <1>4, PTL DEF Spec, StaysIn
=============================================================================
