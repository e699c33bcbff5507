------------------------- MODULE AccountSessionsProofs -------------------------
(* Proofs about AccountSessions. *)
EXTENDS AccountSessions, TLAPS

USE DEF lvars, rvars, past, Live, InProgress

--------------------------------------------------------------------------------
(* Type correctness *)

LEMMA RowsDiffer == /\ Absent \notin Sessions /\ Fresh \notin Sessions /\ Ended \notin Sessions
                    /\ \A x \in Sessions : Live(x)
                    /\ ~Live(Absent) /\ ~Live(Fresh) /\ ~Live(Ended)
                    /\ Absent # Fresh /\ Absent # Ended /\ Fresh # Ended
BY DEF Absent, Fresh, Ended, Sessions

LEMMA NewSessionTyped ==
  ASSUME TypeOK
  PROVE  [state |-> "live", password |-> account.password, ended |-> account.ended,
          started |-> now, last |-> now, lifetime |-> Inactivity, expires |-> now] \in Sessions
BY LimitsAssumption DEF TypeOK, Sessions, Accounts

LEMMA StampedTyped == ASSUME TypeOK, NEW x \in Sessions
                      PROVE  /\ Stamped(x) \in Sessions
                             /\ Stamped(x).started = x.started /\ Stamped(x).last = x.last
                             /\ Stamped(x).lifetime = x.lifetime /\ Stamped(x).ended = x.ended
                             /\ Stamped(x).expires = now + x.lifetime
BY LimitsAssumption DEF TypeOK, Sessions, Stamped

LEMMA RefreshedTyped == ASSUME TypeOK, NEW x \in Sessions, ~PastLimits(x)
                        PROVE  /\ Refreshed(x) \in Sessions
                               /\ Refreshed(x).started = x.started /\ Refreshed(x).last = now
                               /\ Refreshed(x).lifetime
                                     = Least(Inactivity, Absolute - (now - x.started))
                               /\ Refreshed(x).ended = x.ended
<1>1. /\ x.started \in Nat /\ x.last \in Nat /\ now \in Nat
      /\ Inactivity \in Nat \ {0} /\ Absolute \in Nat \ {0}
  BY LimitsAssumption DEF TypeOK, Sessions
<1>2. Least(Inactivity, Absolute - (now - x.started)) \in 1..Inactivity
  BY <1>1 DEF PastLimits, Least
<1> QED
  BY <1>1, <1>2 DEF Sessions, Refreshed

LEMMA DeletedTyped == ASSUME TypeOK, NEW ls, Delete(ls)
                      PROVE  store' \in [Logins -> Sessions \cup {Absent, Fresh, Ended}]
BY DEF TypeOK, Delete

LEMMA TypedStep == TypeOK /\ [SNext]_svars => TypeOK'
<1> SUFFICES ASSUME TypeOK, [SNext]_svars PROVE TypeOK'
  OBVIOUS
<1>1. CASE UNCHANGED svars
  BY <1>1 DEF TypeOK, svars
<1>2. CASE Tick
  <2>1. now' \in 0..MaxTime
    BY <1>2, LimitsAssumption DEF Tick, TypeOK
  <2> QED
    BY <1>2, <2>1 DEF Tick, TypeOK
<1>3. ASSUME NEW l \in Logins, Authenticate(l) PROVE TypeOK'
  BY <1>3, NewSessionTyped DEF Authenticate, TypeOK
<1>4. ASSUME NEW l \in Logins, NEW old, LogIn(l, old) PROVE TypeOK'
  <2>1. CASE lpc' = [lpc EXCEPT ![l] = "failed"]
    BY <1>4, <2>1 DEF LogIn, Note, TypeOK
  <2>2. CASE lpc' = [lpc EXCEPT ![l] = "established"]
    <3>1. login' = [login EXCEPT ![l] = [login[l] EXCEPT !.started = now, !.last = now]]
      BY <1>4, <2>2 DEF LogIn, TypeOK
    <3>2. [login[l] EXCEPT !.started = now, !.last = now] \in Sessions
      <4>1. login[l] \in Sessions /\ now \in Nat
        BY <1>4, LimitsAssumption DEF LogIn, TypeOK
      <4> QED
        BY <4>1 DEF Sessions
    <3>3. store' \in [Logins -> Sessions \cup {Absent, Fresh, Ended}]
      BY <1>4, <2>2 DEF LogIn, TypeOK
    <3> QED
      BY <1>4, <2>2, <3>1, <3>2, <3>3 DEF LogIn, Note, TypeOK
  <2> QED
    BY <1>4, <2>1, <2>2 DEF LogIn
<1>5. ASSUME NEW l \in Logins, EndLogin(l) PROVE TypeOK'
  <2>1. login[l] \in Sessions
    BY <1>5 DEF EndLogin, TypeOK
  <2>2. store' \in [Logins -> Sessions \cup {Absent, Fresh, Ended}]
    BY <1>5, <2>1, StampedTyped DEF EndLogin, Save, TypeOK
  <2>3. usedAt' \in [Logins -> Nat] /\ bornAt' \in [Logins -> Nat]
    BY <1>5, <2>1 DEF EndLogin, TypeOK, Sessions
  <2> QED
    BY <1>5, <2>2, <2>3 DEF EndLogin, TypeOK
<1>6. ASSUME NEW q \in Requests, NEW l \in Logins, Load(q, l) PROVE TypeOK'
  <2>1. store[l] \in Sessions
    BY <1>6, RowsDiffer DEF Load, TypeOK
  <2> QED
    BY <1>6, <2>1 DEF Load, TypeOK
<1>7. ASSUME NEW q \in Requests, TurnAway(q) PROVE TypeOK'
  BY <1>7, DeletedTyped DEF TurnAway, Leave, TypeOK
<1>8. ASSUME NEW q \in Requests, Expire(q) PROVE TypeOK'
  BY <1>8, DeletedTyped DEF Expire, Leave, TypeOK
<1>9. ASSUME NEW q \in Requests, Admit(q) PROVE TypeOK'
  <2>1. held[q] \in Sessions /\ key[q] \in Logins
    BY <1>9 DEF Admit, Known, TypeOK
  <2>2. Refreshed(held[q]) \in Sessions
    BY <1>9, <2>1, RefreshedTyped DEF Admit
  <2>3. held' = [held EXCEPT ![q] = Refreshed(held[q])]
    BY <1>9 DEF Admit
  <2> QED
    BY <1>9, <2>1, <2>2, <2>3 DEF Admit, TypeOK
<1>10. ASSUME NEW q \in Requests, Respond(q) PROVE TypeOK'
  <2>1. held[q] \in Sessions /\ key[q] \in Logins
    BY <1>10 DEF Respond, TypeOK
  <2>2. store' \in [Logins -> Sessions \cup {Absent, Fresh, Ended}]
    BY <1>10, <2>1, StampedTyped DEF Respond, Save, TypeOK
  <2> QED
    BY <1>10, <2>2 DEF Respond, Leave, TypeOK
<1>11. ASSUME NEW q \in Requests, LogOut(q) PROVE TypeOK'
  <2>1. store' \in [Logins -> Sessions \cup {Absent, Fresh, Ended}]
    BY <1>11, DeletedTyped DEF LogOut, TypeOK
  <2>2. audit' \in [Logins -> SUBSET {"login", "logout"}]
    BY <1>11 DEF LogOut, Note, TypeOK
  <2> QED
    BY <1>11, <2>1, <2>2 DEF LogOut, Leave, TypeOK
<1>12. ASSUME NEW kind \in {"password", "deactivate"}, BeginChange(kind) PROVE TypeOK'
  <2>1. change' \in [kind : {"none", "password", "deactivate"}, listed : SUBSET Logins]
    BY <1>12 DEF BeginChange
  <2>2. raced' \subseteq Logins
    BY <1>12 DEF BeginChange, TypeOK
  <2> QED
    BY <1>12, <2>1, <2>2 DEF BeginChange, TypeOK
<1>13. CASE EndChange
  <2>1. store' \in [Logins -> Sessions \cup {Absent, Fresh, Ended}]
    BY <1>13, DeletedTyped DEF EndChange, TypeOK
  <2>2. account' \in Accounts
    <3>1. /\ account.active \in BOOLEAN /\ account.password \in Nat /\ account.ended \in Nat
      BY DEF TypeOK, Accounts
    <3>2. \A b \in BOOLEAN, p \in Nat, e \in Nat :
             [active |-> b, password |-> p, ended |-> e] \in Accounts
      BY DEF Accounts
    <3>3. [active |-> account.active /\ change.kind # "deactivate",
           password |-> account.password + (IF change.kind = "password" THEN 1 ELSE 0),
           ended |-> account.ended + 1] \in Accounts
      <4>1. (account.active /\ change.kind # "deactivate") \in BOOLEAN
        OBVIOUS
      <4>2. /\ account.password + (IF change.kind = "password" THEN 1 ELSE 0) \in Nat
            /\ account.ended + 1 \in Nat
        BY <3>1
      <4> QED
        BY <3>2, <4>1, <4>2, Zenon
    <3> QED
      BY <1>13, <3>3, Zenon DEF EndChange, TypeOK
  <2>3. change' \in [kind : {"none", "password", "deactivate"}, listed : SUBSET Logins]
    BY <1>13 DEF EndChange, NoChange
  <2> QED
    BY <1>13, <2>1, <2>2, <2>3 DEF EndChange, TypeOK
<1>14. CASE Activate
  BY <1>14 DEF Activate, TypeOK, Accounts
<1> QED
  BY <1>1, <1>2, <1>3, <1>4, <1>5, <1>6, <1>7, <1>8, <1>9, <1>10, <1>11, <1>12, <1>13, <1>14
     DEF SNext

LEMMA TypedInit == SInit => TypeOK
BY LimitsAssumption DEF SInit, TypeOK, Accounts, NoChange

\* Every reachable state is well typed: the user, the session rows and their copies, the
\* account transaction and the clocks (apps/accounts/sessions.py, services.py, views.py).
THEOREM SessionsTyped == SSpec => []TypeOK
BY TypedInit, TypedStep, PTL DEF SSpec
--------------------------------------------------------------------------------
(* The inductive invariant: rows, copies and clocks *)

LEMMA RowsStep == ASSUME TypeOK, TypeOK', SessionInv, SNext PROVE LoginsHaveRows'
<1>2. CASE Tick
  BY <1>2, RowsDiffer DEF Tick, TypeOK, SessionInv, LoginsHaveRows, ClocksAgree, OfLogin
<1>3. ASSUME NEW l \in Logins, Authenticate(l) PROVE LoginsHaveRows'
  BY <1>3, RowsDiffer DEF Authenticate, TypeOK, SessionInv, LoginsHaveRows, ClocksAgree, OfLogin
<1>4. ASSUME NEW l \in Logins, NEW old \in {k \in Logins : lpc[k] = "done"} \cup {Nobody},
            LogIn(l, old) PROVE LoginsHaveRows'
  BY <1>4, RowsDiffer DEF LogIn, Note, TypeOK, SessionInv, LoginsHaveRows, ClocksAgree, OfLogin
<1>5. ASSUME NEW l \in Logins, EndLogin(l) PROVE LoginsHaveRows'
  <2>1. login[l] \in Sessions /\ Live(Stamped(login[l]))
    BY <1>5, StampedTyped, RowsDiffer DEF EndLogin, TypeOK
  <2> QED
    BY <1>5, <2>1, RowsDiffer DEF EndLogin, Save, TypeOK, SessionInv, LoginsHaveRows
<1>6. ASSUME NEW q \in Requests, NEW l \in Logins, Load(q, l) PROVE LoginsHaveRows'
  BY <1>6, RowsDiffer DEF Load, TypeOK, SessionInv, LoginsHaveRows, ClocksAgree, OfLogin
<1>7. ASSUME NEW q \in Requests, TurnAway(q) PROVE LoginsHaveRows'
  BY <1>7, RowsDiffer DEF TurnAway, Leave, Delete, TypeOK, SessionInv, LoginsHaveRows,
                          ClocksAgree, OfLogin
<1>8. ASSUME NEW q \in Requests, Expire(q) PROVE LoginsHaveRows'
  BY <1>8, RowsDiffer DEF Expire, Known, Leave, Delete, TypeOK, SessionInv, LoginsHaveRows,
                          ClocksAgree, OfLogin
<1>9. ASSUME NEW q \in Requests, Admit(q) PROVE LoginsHaveRows'
  BY <1>9, RowsDiffer DEF Admit, Known, TypeOK, SessionInv, LoginsHaveRows, ClocksAgree, OfLogin
<1>10. ASSUME NEW q \in Requests, Respond(q) PROVE LoginsHaveRows'
  <2>1. Live(Stamped(held[q])) /\ key[q] \in Logins
    BY <1>10, StampedTyped, RowsDiffer DEF Respond, TypeOK
  <2>2. lpc[key[q]] = "done"
    BY <1>10 DEF Respond, SessionInv, ClocksAgree, OfLogin
  <2> QED
    BY <1>10, <2>1, <2>2, RowsDiffer
       DEF Respond, Save, Leave, TypeOK, SessionInv, LoginsHaveRows
<1>11. ASSUME NEW q \in Requests, LogOut(q) PROVE LoginsHaveRows'
  BY <1>11, RowsDiffer DEF LogOut, Leave, Note, Delete, TypeOK, SessionInv, LoginsHaveRows,
                           ClocksAgree, OfLogin
<1>12. ASSUME NEW kind \in {"password", "deactivate"}, BeginChange(kind) PROVE LoginsHaveRows'
  BY <1>12, RowsDiffer DEF BeginChange, TypeOK, SessionInv, LoginsHaveRows, ClocksAgree, OfLogin
<1>13. CASE EndChange
  BY <1>13, RowsDiffer DEF EndChange, Delete, TypeOK, SessionInv, LoginsHaveRows,
                           ClocksAgree, OfLogin
<1>14. CASE Activate
  BY <1>14, RowsDiffer DEF Activate, TypeOK, SessionInv, LoginsHaveRows, ClocksAgree, OfLogin
<1> QED
  BY <1>2, <1>3, <1>4, <1>5, <1>6, <1>7, <1>8, <1>9, <1>10, <1>11, <1>12, <1>13, <1>14 DEF SNext

LEMMA ClocksStep == ASSUME TypeOK, TypeOK', SessionInv, SNext PROVE ClocksAgree'
<1>2. CASE Tick
  BY <1>2, RowsDiffer DEF Tick, TypeOK, SessionInv, LoginsHaveRows, ClocksAgree, OfLogin,
                          InOrder, SavedAt, Sessions
<1>3. ASSUME NEW l \in Logins, Authenticate(l) PROVE ClocksAgree'
  <2>1. InOrder(login[l])' /\ login'[l].started = login'[l].last
    BY <1>3, LimitsAssumption DEF Authenticate, TypeOK, InOrder, Least
  <2>2. \A k \in Logins : k # l => login'[k] = login[k] /\ lpc'[k] = lpc[k]
    BY <1>3 DEF Authenticate, TypeOK
  <2>3. \A k \in Logins : lpc[k] = "done" => lpc'[k] = "done"
    BY <1>3, <2>2 DEF Authenticate
  <2> QED
    BY <1>3, <2>1, <2>2, <2>3 DEF Authenticate, SessionInv, ClocksAgree, OfLogin, InOrder,
                                  SavedAt
<1>4. ASSUME NEW l \in Logins, NEW old \in {k \in Logins : lpc[k] = "done"} \cup {Nobody},
            LogIn(l, old) PROVE ClocksAgree'
  <2>1. ASSUME InProgress(l)' PROVE InOrder(login[l])' /\ login'[l].started = login'[l].last
    <3>1. /\ InOrder(login[l]) /\ login[l].started = login[l].last /\ login[l] \in Sessions
          /\ now \in Nat
      BY <1>4 DEF LogIn, SessionInv, ClocksAgree, TypeOK
    <3>2. login'[l] = [login[l] EXCEPT !.started = now, !.last = now] /\ now' = now
      BY <1>4, <2>1 DEF LogIn, TypeOK
    <3>3. login'[l].started = now /\ login'[l].last = now /\ login'[l].lifetime = login[l].lifetime
      BY <3>1, <3>2 DEF Sessions
    <3> QED
      BY <3>1, <3>2, <3>3 DEF InOrder, Sessions
  <2>2. \A k \in Logins : k # l => login'[k] = login[k] /\ lpc'[k] = lpc[k]
    BY <1>4 DEF LogIn, TypeOK
  <2>3. \A k \in Logins : lpc[k] = "done" => lpc'[k] = "done"
    BY <1>4, <2>2 DEF LogIn
  <2>4. \A k \in Logins : Live(store'[k]) => store'[k] = store[k]
    BY <1>4, RowsDiffer DEF LogIn, TypeOK
  <2>5. UNCHANGED <<now, rpc, key, held, loadedAt, usedAt, bornAt>>
    BY <1>4 DEF LogIn
  <2>6. ASSUME NEW x, NEW k \in Logins, OfLogin(x, k) PROVE OfLogin(x, k)'
    BY <2>3, <2>5, <2>6 DEF OfLogin, InOrder
  <2>7. \A k \in Logins : InProgress(k)' => /\ InOrder(login[k])'
                                           /\ login'[k].started = login'[k].last
    BY <2>1, <2>2, <2>5 DEF SessionInv, ClocksAgree, InOrder
  <2>8. \A q \in Requests : rpc[q] # "idle" => key[q] \in Logins
    BY DEF TypeOK
  <2> QED
    BY <2>4, <2>5, <2>6, <2>7, <2>8 DEF SessionInv, ClocksAgree, SavedAt
<1>5. ASSUME NEW l \in Logins, EndLogin(l) PROVE ClocksAgree'
  <2>1. /\ login[l] \in Sessions /\ InOrder(login[l]) /\ login[l].started = login[l].last
        /\ now \in Nat
    BY <1>5 DEF EndLogin, TypeOK, SessionInv, ClocksAgree
  <2>2. \A k \in Logins : k # l => /\ store'[k] = store[k] /\ lpc'[k] = lpc[k]
                                   /\ login'[k] = login[k]
                                   /\ usedAt'[k] = usedAt[k] /\ bornAt'[k] = bornAt[k]
    BY <1>5 DEF EndLogin, Save, TypeOK
  <2>3. ~InProgress(l)' /\ lpc[l] # "done"
    BY <1>5 DEF EndLogin, TypeOK
  <2>4. ASSUME Live(store'[l])
        PROVE  OfLogin(store[l], l)' /\ store'[l].last <= SavedAt(store'[l])
    <3>1. ~Live(store[l])
      BY <2>3 DEF SessionInv, ClocksAgree, OfLogin
    <3>2. /\ store'[l] = Stamped(login[l]) /\ lpc'[l] = "done" /\ now' = now
          /\ usedAt'[l] = login[l].last /\ bornAt'[l] = login[l].started
      BY <1>5, <2>4, <3>1 DEF EndLogin, Save, TypeOK
    <3>3. /\ store'[l].started = login[l].started /\ store'[l].last = login[l].last
          /\ store'[l].lifetime = login[l].lifetime
          /\ store'[l].expires = now + login[l].lifetime
      BY <2>1, <3>2, StampedTyped
    <3>4. login[l].lifetime \in Nat /\ login[l].last \in Nat
      BY <2>1, LimitsAssumption DEF Sessions
    <3> QED
      BY <2>1, <3>2, <3>3, <3>4 DEF OfLogin, InOrder, SavedAt
  <2>5. UNCHANGED <<now, rpc, key, held, loadedAt>>
    BY <1>5 DEF EndLogin
  <2>6. \A q \in Requests : rpc[q] # "idle" => key[q] \in Logins \ {l}
    BY <2>3 DEF TypeOK, SessionInv, ClocksAgree, OfLogin
  <2> QED
    BY <2>2, <2>3, <2>4, <2>5, <2>6 DEF SessionInv, ClocksAgree, OfLogin, InOrder, SavedAt
<1>6. ASSUME NEW q \in Requests, NEW l \in Logins, Load(q, l) PROVE ClocksAgree'
  BY <1>6, RowsDiffer DEF Load, TypeOK, SessionInv, LoginsHaveRows, ClocksAgree, OfLogin,
                          InOrder, SavedAt, Sessions
<1>7. ASSUME NEW q \in Requests, TurnAway(q) PROVE ClocksAgree'
  BY <1>7, RowsDiffer DEF TurnAway, Leave, Delete, TypeOK, SessionInv, LoginsHaveRows,
                          ClocksAgree, OfLogin, InOrder, SavedAt, Sessions
<1>8. ASSUME NEW q \in Requests, Expire(q) PROVE ClocksAgree'
  BY <1>8, RowsDiffer DEF Expire, Known, Leave, Delete, TypeOK, SessionInv, LoginsHaveRows,
                          ClocksAgree, OfLogin, InOrder, SavedAt, Sessions
<1>9. ASSUME NEW q \in Requests, Admit(q) PROVE ClocksAgree'
  <2>1. /\ held[q] \in Sessions /\ key[q] \in Logins /\ ~PastLimits(held[q])
        /\ OfLogin(held[q], key[q]) /\ now \in Nat
    BY <1>9 DEF Admit, Known, TypeOK, SessionInv, ClocksAgree
  <2>2. /\ held'[q].started = held[q].started /\ held'[q].last = now
        /\ held'[q].lifetime = Least(Inactivity, Absolute - (now - held[q].started))
    BY <1>9, <2>1, RefreshedTyped DEF Admit, TypeOK
  <2>3. /\ UNCHANGED <<now, store, lpc, login, key, bornAt>>
        /\ \A p \in Requests : p # q => /\ rpc'[p] = rpc[p] /\ held'[p] = held[p]
                                        /\ loadedAt'[p] = loadedAt[p]
        /\ rpc'[q] = "view"
        /\ \A l \in Logins : usedAt'[l] = IF l = key[q] THEN now ELSE usedAt[l]
    BY <1>9, <2>1 DEF Admit, TypeOK
  <2>4. OfLogin(held[q], key[q])'
    BY <2>1, <2>2, <2>3 DEF OfLogin, InOrder, Sessions
  <2>5. ASSUME NEW x \in Sessions, NEW l \in Logins, OfLogin(x, l) PROVE OfLogin(x, l)'
    BY <2>3, <2>5 DEF OfLogin, InOrder
  <2>6. \A l \in Logins : Live(store[l]) => store[l] \in Sessions
    BY RowsDiffer DEF TypeOK
  <2>7. \A p \in Requests : rpc[p] # "idle" => held[p] \in Sessions /\ key[p] \in Logins
    BY DEF TypeOK
  <2> QED
    BY <2>3, <2>4, <2>5, <2>6, <2>7 DEF SessionInv, ClocksAgree, InOrder, SavedAt
<1>10. ASSUME NEW q \in Requests, Respond(q) PROVE ClocksAgree'
  <2>1. /\ held[q] \in Sessions /\ key[q] \in Logins /\ OfLogin(held[q], key[q]) /\ now \in Nat
    BY <1>10 DEF Respond, TypeOK, SessionInv, ClocksAgree
  <2>2. /\ UNCHANGED <<now, lpc, login, usedAt, bornAt>>
        /\ \A p \in Requests : rpc'[p] # "idle" =>
              /\ rpc'[p] = rpc[p] /\ held'[p] = held[p]
              /\ loadedAt'[p] = loadedAt[p] /\ key'[p] = key[p]
        /\ \A l \in Logins : store'[l] = store[l] \/ (l = key[q] /\ store'[l] = Stamped(held[q]))
    BY <1>10 DEF Respond, Save, Leave, TypeOK
  <2>3. OfLogin(Stamped(held[q]), key[q]) /\ held[q].last <= SavedAt(Stamped(held[q]))
    <3>1. held[q].lifetime \in Nat /\ held[q].last \in Nat
      BY <2>1, LimitsAssumption DEF Sessions
    <3> QED
      BY <2>1, <3>1, StampedTyped DEF OfLogin, InOrder, SavedAt
  <2>4. Stamped(held[q]).last = held[q].last
    BY <2>1, StampedTyped
  <2> QED
    BY <2>2, <2>3, <2>4 DEF SessionInv, ClocksAgree, OfLogin, InOrder, SavedAt
<1>11. ASSUME NEW q \in Requests, LogOut(q) PROVE ClocksAgree'
  BY <1>11, RowsDiffer DEF LogOut, Leave, Note, Delete, TypeOK, SessionInv, LoginsHaveRows,
                           ClocksAgree, OfLogin, InOrder, SavedAt, Sessions
<1>12. ASSUME NEW kind \in {"password", "deactivate"}, BeginChange(kind) PROVE ClocksAgree'
  BY <1>12, RowsDiffer DEF BeginChange, TypeOK, SessionInv, LoginsHaveRows, ClocksAgree,
                           OfLogin, InOrder, SavedAt, Sessions
<1>13. CASE EndChange
  BY <1>13, RowsDiffer DEF EndChange, Delete, TypeOK, SessionInv, LoginsHaveRows,
                           ClocksAgree, OfLogin, InOrder, SavedAt, Sessions
<1>14. CASE Activate
  BY <1>14, RowsDiffer DEF Activate, TypeOK, SessionInv, LoginsHaveRows, ClocksAgree,
                           OfLogin, InOrder, SavedAt, Sessions
<1> QED
  BY <1>2, <1>3, <1>4, <1>5, <1>6, <1>7, <1>8, <1>9, <1>10, <1>11, <1>12, <1>13, <1>14 DEF SNext

LEMMA CopiesStep == ASSUME TypeOK, TypeOK', SessionInv, SNext PROVE RowsOutliveCopies'
<1>2. CASE Tick
  BY <1>2, RowsDiffer DEF Tick, TypeOK, SessionInv, RowsOutliveCopies, ClocksAgree, OfLogin
<1>3. ASSUME NEW l \in Logins, Authenticate(l) PROVE RowsOutliveCopies'
  BY <1>3, RowsDiffer DEF Authenticate, TypeOK, SessionInv, RowsOutliveCopies, ClocksAgree,
                          OfLogin
<1>4. ASSUME NEW l \in Logins, NEW old \in {k \in Logins : lpc[k] = "done"} \cup {Nobody},
            LogIn(l, old) PROVE RowsOutliveCopies'
  BY <1>4, RowsDiffer DEF LogIn, Note, TypeOK, SessionInv, RowsOutliveCopies, ClocksAgree,
                          OfLogin
<1>5. ASSUME NEW l \in Logins, EndLogin(l) PROVE RowsOutliveCopies'
  <2>1. \A k \in Logins : k # l => store'[k] = store[k]
    BY <1>5 DEF EndLogin, Save, TypeOK
  <2>2. \A q \in Requests : rpc[q] # "idle" => key[q] \in Logins \ {l}
    BY <1>5 DEF EndLogin, TypeOK, SessionInv, ClocksAgree, OfLogin
  <2> QED
    BY <1>5, <2>1, <2>2 DEF EndLogin, SessionInv, RowsOutliveCopies
<1>6. ASSUME NEW q \in Requests, NEW l \in Logins, Load(q, l) PROVE RowsOutliveCopies'
  <2>1. store[l] \in Sessions /\ OfLogin(store[l], l) /\ store[l].last <= SavedAt(store[l])
    BY <1>6, RowsDiffer DEF Load, TypeOK, SessionInv, ClocksAgree
  <2>2. \/ store[l].last + Inactivity <= store[l].expires
        \/ store[l].started + Absolute <= store[l].expires
    BY <2>1, LimitsAssumption DEF OfLogin, InOrder, SavedAt, Least, Sessions
  <2> QED
    BY <1>6, <2>2 DEF Load, TypeOK, SessionInv, RowsOutliveCopies
<1>7. ASSUME NEW q \in Requests, TurnAway(q) PROVE RowsOutliveCopies'
  BY <1>7, RowsDiffer DEF TurnAway, Leave, Delete, TypeOK, SessionInv, RowsOutliveCopies,
                          ClocksAgree, OfLogin
<1>8. ASSUME NEW q \in Requests, Expire(q) PROVE RowsOutliveCopies'
  BY <1>8, RowsDiffer DEF Expire, Known, Leave, Delete, TypeOK, SessionInv,
                          RowsOutliveCopies, ClocksAgree, OfLogin
<1>9. ASSUME NEW q \in Requests, Admit(q) PROVE RowsOutliveCopies'
  BY <1>9, RowsDiffer DEF Admit, Known, TypeOK, SessionInv, RowsOutliveCopies, ClocksAgree,
                          OfLogin
<1>10. ASSUME NEW q \in Requests, Respond(q) PROVE RowsOutliveCopies'
  <2>1. held[q] \in Sessions /\ key[q] \in Logins /\ OfLogin(held[q], key[q]) /\ now \in Nat
    BY <1>10 DEF Respond, TypeOK, SessionInv, ClocksAgree
  <2>2. ASSUME NEW p \in Requests, rpc'[p] = "loaded", Live(store'[key'[p]])
        PROVE  \/ held'[p].last + Inactivity <= store'[key'[p]].expires
               \/ held'[p].started + Absolute <= store'[key'[p]].expires
    <3>1. /\ rpc[p] = "loaded" /\ held'[p] = held[p] /\ key'[p] = key[p] /\ key[p] \in Logins
          /\ store'[key[p]] = store[key[p]] \/ (key[p] = key[q] /\ store'[key[p]] = Stamped(held[q]))
      BY <1>10, <2>1, <2>2 DEF Respond, Save, Leave, TypeOK
    <3>2. CASE store'[key[p]] = store[key[p]]
      BY <2>2, <3>1, <3>2 DEF SessionInv, RowsOutliveCopies
    <3>3. CASE key[p] = key[q] /\ store'[key[p]] = Stamped(held[q])
      <4>1. OfLogin(held[p], key[p]) /\ held[p] \in Sessions
        BY <3>1 DEF TypeOK, SessionInv, ClocksAgree
      <4>2. store'[key[p]].expires = now + held[q].lifetime
        BY <2>1, <3>3, StampedTyped
      <4>3. held[p].started = held[q].started /\ held[p].last <= now
        BY <2>1, <3>3, <4>1 DEF OfLogin, InOrder
      <4>4. held[q].last <= now
            /\ held[q].lifetime = Least(Inactivity, Absolute - (held[q].last - held[q].started))
        BY <2>1 DEF OfLogin, InOrder
      <4>5. \/ held[p].last + Inactivity <= now + held[q].lifetime
            \/ held[p].started + Absolute <= now + held[q].lifetime
        BY <2>1, <4>1, <4>3, <4>4, LimitsAssumption DEF Least, Sessions
      <4> QED
        BY <3>1, <3>3, <4>2, <4>5
    <3> QED
      BY <3>1, <3>2, <3>3
  <2> QED
    BY <2>2 DEF RowsOutliveCopies
<1>11. ASSUME NEW q \in Requests, LogOut(q) PROVE RowsOutliveCopies'
  BY <1>11, RowsDiffer DEF LogOut, Leave, Note, Delete, TypeOK, SessionInv,
                           RowsOutliveCopies, ClocksAgree, OfLogin
<1>12. ASSUME NEW kind \in {"password", "deactivate"}, BeginChange(kind) PROVE RowsOutliveCopies'
  BY <1>12, RowsDiffer DEF BeginChange, TypeOK, SessionInv, RowsOutliveCopies, ClocksAgree,
                           OfLogin
<1>13. CASE EndChange
  BY <1>13, RowsDiffer DEF EndChange, Delete, TypeOK, SessionInv, RowsOutliveCopies,
                           ClocksAgree, OfLogin
<1>14. CASE Activate
  BY <1>14, RowsDiffer DEF Activate, TypeOK, SessionInv, RowsOutliveCopies, ClocksAgree, OfLogin
<1> QED
  BY <1>2, <1>3, <1>4, <1>5, <1>6, <1>7, <1>8, <1>9, <1>10, <1>11, <1>12, <1>13, <1>14 DEF SNext

\* A request whose row is past its expiry date is not let through.
LEMMA OverdueIsPastLimits ==
  ASSUME TypeOK, SessionInv, NEW q \in Requests, rpc[q] = "loaded",
         Live(store[key[q]]), store[key[q]].expires <= now
  PROVE  PastLimits(held[q])
<1>1. /\ held[q] \in Sessions /\ key[q] \in Logins /\ now \in Nat
      /\ store[key[q]] \in Sessions
  BY RowsDiffer DEF TypeOK
<1>2. \/ held[q].last + Inactivity <= store[key[q]].expires
      \/ held[q].started + Absolute <= store[key[q]].expires
  BY DEF SessionInv, RowsOutliveCopies
<1> QED
  BY <1>1, <1>2, LimitsAssumption DEF PastLimits, Sessions

LEMMA SurvivorsStep == ASSUME TypeOK, TypeOK', SessionInv, SNext PROVE SurvivorsAreExcused'
<1>2. CASE Tick
  <2>1. /\ now \in Nat /\ now' = now + 1
        /\ \A l \in Logins : Live(store[l]) => store[l].expires \in Nat
    BY <1>2, RowsDiffer DEF Tick, TypeOK, Sessions
  <2> QED
    BY <1>2, <2>1 DEF Tick, SessionInv, SurvivorsAreExcused, Outlasts, Excused
<1>3. ASSUME NEW l \in Logins, Authenticate(l) PROVE SurvivorsAreExcused'
  <2>1. store[l] = Absent /\ store' = store
    BY <1>3 DEF Authenticate, SessionInv, LoginsHaveRows
  <2>2. login'[l].ended = account.ended /\ account.ended \in Nat
    BY <1>3 DEF Authenticate, TypeOK, Accounts
  <2>3. l \in raced' \/ change.kind = "none"
    BY <1>3 DEF Authenticate
  <2>4. \A k \in Logins : k # l => login'[k] = login[k] /\ lpc'[k] = lpc[k]
    BY <1>3 DEF Authenticate, TypeOK
  <2>5. \A k \in Logins : lpc[k] = "done" => lpc'[k] = "done"
    BY <1>3, <2>4 DEF Authenticate
  <2>6. raced \subseteq raced' /\ UNCHANGED <<now, account, change, rpc, key, held>>
    BY <1>3 DEF Authenticate
  <2>7. change.listed \subseteq Logins
    BY DEF TypeOK
  <2>8. \A k \in Logins : InProgress(k)' /\ Outlasts(login[k], k)' => k \in raced'
    BY <2>2, <2>3, <2>4, <2>6 DEF SessionInv, SurvivorsAreExcused, Outlasts
  <2>9. \A k \in Logins : Live(store[k]) /\ Outlasts(store[k], k)' => Excused(k)'
    BY <2>1, <2>6 DEF SessionInv, SurvivorsAreExcused, Outlasts, Excused
  <2> QED
    BY <2>1, <2>5, <2>6, <2>7, <2>8, <2>9 DEF SessionInv, SurvivorsAreExcused
<1>4. ASSUME NEW l \in Logins, NEW old \in {k \in Logins : lpc[k] = "done"} \cup {Nobody},
            LogIn(l, old) PROVE SurvivorsAreExcused'
  <2>1. /\ \A k \in Logins : k # l => login'[k] = login[k] /\ lpc'[k] = lpc[k]
        /\ UNCHANGED <<now, account, change, rpc, key, held, raced>>
        /\ InProgress(l)
    BY <1>4 DEF LogIn, TypeOK
  <2>2. ASSUME InProgress(l)' PROVE login'[l].ended = login[l].ended
    <3>1. login[l] \in Sessions
      BY <1>4 DEF LogIn, TypeOK
    <3>2. login'[l] = [login[l] EXCEPT !.started = now, !.last = now]
      BY <1>4, <2>2 DEF LogIn, TypeOK
    <3> QED
      BY <3>1, <3>2 DEF Sessions
  <2>3. \A k \in Logins : Live(store'[k]) => store'[k] = store[k]
    BY <1>4, RowsDiffer DEF LogIn, TypeOK
  <2>4. \A k \in change.listed : k \in Logins \ {l}
    BY <2>1 DEF TypeOK, SessionInv, SurvivorsAreExcused
  <2>5. \A q \in Requests : rpc[q] # "idle" => key[q] \in Logins
    BY DEF TypeOK
  <2>6. \A k \in Logins : InProgress(k)' /\ Outlasts(login[k], k)' => k \in raced'
    BY <2>1, <2>2 DEF SessionInv, SurvivorsAreExcused, Outlasts
  <2>7. \A k \in Logins : Live(store'[k]) /\ Outlasts(store[k], k)' => Excused(k)'
    BY <2>1, <2>3 DEF SessionInv, SurvivorsAreExcused, Outlasts, Excused
  <2> QED
    BY <2>1, <2>3, <2>4, <2>5, <2>6, <2>7 DEF SessionInv, SurvivorsAreExcused
<1>5. ASSUME NEW l \in Logins, EndLogin(l) PROVE SurvivorsAreExcused'
  <2>1. /\ \A k \in Logins : k # l => /\ login'[k] = login[k] /\ lpc'[k] = lpc[k]
                                      /\ store'[k] = store[k]
        /\ UNCHANGED <<now, account, change, rpc, key, held, raced>>
        /\ ~InProgress(l)' /\ InProgress(l) /\ lpc[l] # "done" /\ login[l] \in Sessions
    BY <1>5 DEF EndLogin, Save, TypeOK
  <2>2. \A q \in Requests : rpc[q] # "idle" => key[q] \in Logins \ {l}
    BY <2>1 DEF TypeOK, SessionInv, ClocksAgree, OfLogin
  <2>3. ASSUME Live(store'[l]) PROVE store'[l].ended = login[l].ended
    <3>1. ~Live(store[l])
      BY <2>1 DEF SessionInv, ClocksAgree, OfLogin
    <3>2. store'[l] = Stamped(login[l])
      BY <1>5, <2>3, <3>1 DEF EndLogin, Save, TypeOK
    <3> QED
      BY <2>1, <3>2, StampedTyped
  <2>4. \A k \in change.listed : k \in Logins \ {l}
    BY <2>1 DEF TypeOK, SessionInv, SurvivorsAreExcused
  <2>5. Live(store'[l]) /\ Outlasts(store[l], l)' => l \in raced
    BY <2>1, <2>3 DEF SessionInv, SurvivorsAreExcused, Outlasts
  <2>6. \A k \in Logins : Live(store'[k]) /\ Outlasts(store[k], k)' => Excused(k)'
    BY <2>1, <2>5 DEF SessionInv, SurvivorsAreExcused, Outlasts, Excused
  <2> QED
    BY <2>1, <2>2, <2>4, <2>6 DEF SessionInv, SurvivorsAreExcused, Outlasts
<1>6. ASSUME NEW q \in Requests, NEW l \in Logins, Load(q, l) PROVE SurvivorsAreExcused'
  BY <1>6, RowsDiffer DEF Load, TypeOK, SessionInv, SurvivorsAreExcused, Outlasts, Excused
<1>7. ASSUME NEW q \in Requests, TurnAway(q) PROVE SurvivorsAreExcused'
  BY <1>7, RowsDiffer DEF TurnAway, Leave, Delete, TypeOK, SessionInv, SurvivorsAreExcused,
                          Outlasts, Excused
<1>8. ASSUME NEW q \in Requests, Expire(q) PROVE SurvivorsAreExcused'
  BY <1>8, RowsDiffer DEF Expire, Known, Leave, Delete, TypeOK, SessionInv,
                          SurvivorsAreExcused, Outlasts, Excused
<1>9. ASSUME NEW q \in Requests, Admit(q) PROVE SurvivorsAreExcused'
  <2>1. /\ held[q] \in Sessions /\ key[q] \in Logins /\ ~PastLimits(held[q])
        /\ rpc[q] = "loaded"
    BY <1>9 DEF Admit, Known, TypeOK
  <2>2. /\ UNCHANGED <<now, account, store, lpc, login, change, key, raced>>
        /\ \A p \in Requests : p # q => rpc'[p] = rpc[p] /\ held'[p] = held[p]
        /\ held'[q].ended = held[q].ended
    BY <1>9, <2>1, RefreshedTyped DEF Admit, TypeOK
  <2>3. Live(store[key[q]]) /\ Outlasts(store[key[q]], key[q]) => key[q] \in raced
    BY <2>1, OverdueIsPastLimits DEF SessionInv, SurvivorsAreExcused, Excused
  <2>4. \A k \in Logins : Live(store[k]) /\ Outlasts(store[k], k)' => Excused(k)'
    BY <2>2, <2>3 DEF SessionInv, SurvivorsAreExcused, Outlasts, Excused
  <2> QED
    BY <2>1, <2>2, <2>4 DEF SessionInv, SurvivorsAreExcused, Outlasts
<1>10. ASSUME NEW q \in Requests, Respond(q) PROVE SurvivorsAreExcused'
  <2>1. /\ held[q] \in Sessions /\ key[q] \in Logins /\ rpc[q] = "view"
        /\ lpc[key[q]] = "done"
    BY <1>10 DEF Respond, TypeOK, SessionInv, ClocksAgree, OfLogin
  <2>2. /\ UNCHANGED <<now, account, lpc, login, change, raced>>
        /\ \A p \in Requests : rpc'[p] # "idle" => /\ rpc'[p] = rpc[p] /\ held'[p] = held[p]
                                                   /\ key'[p] = key[p]
        /\ \A l \in Logins : \/ store'[l] = store[l]
                             \/ l = key[q] /\ store[l] # Ended /\ store'[l] = Stamped(held[q])
    BY <1>10 DEF Respond, Save, Leave, TypeOK
  <2>3. ASSUME NEW l \in Logins, Live(store'[l])
        PROVE  Live(store[l]) /\ store'[l].ended = store[l].ended
               /\ (store'[l] = store[l] \/ l = key[q])
    <3>1. CASE store'[l] = store[l]
      BY <2>3, <3>1
    <3>2. CASE l = key[q] /\ store[l] # Ended /\ store'[l] = Stamped(held[q])
      <4>1. Live(store[l])
        BY <2>1, <3>2 DEF SessionInv, LoginsHaveRows
      <4>2. held[q].ended = store[l].ended
        BY <2>1, <3>2, <4>1 DEF SessionInv, SurvivorsAreExcused
      <4> QED
        BY <2>1, <3>2, <4>1, <4>2, StampedTyped
    <3> QED
      BY <2>2, <3>1, <3>2
  <2>4. ASSUME NEW l \in Logins, Live(store'[l]), Outlasts(store[l], l)' PROVE Excused(l)'
    <3>1. Excused(l)
      BY <2>2, <2>3, <2>4 DEF SessionInv, SurvivorsAreExcused, Outlasts
    <3> QED
      BY <2>1, <2>2, <2>3, <2>4, <3>1 DEF Excused
  <2>5. \A p \in Requests : rpc[p] # "idle" => key[p] \in Logins
    BY DEF TypeOK
  <2> QED
    BY <2>2, <2>3, <2>4, <2>5 DEF SessionInv, SurvivorsAreExcused, Outlasts
<1>11. ASSUME NEW q \in Requests, LogOut(q) PROVE SurvivorsAreExcused'
  BY <1>11, RowsDiffer DEF LogOut, Leave, Note, Delete, TypeOK, SessionInv,
                           SurvivorsAreExcused, Outlasts, Excused
<1>12. ASSUME NEW kind \in {"password", "deactivate"}, BeginChange(kind) PROVE SurvivorsAreExcused'
  <2>1. /\ UNCHANGED <<now, account, store, lpc, login, rpc, key, held>>
        /\ change'.listed = {l \in Logins : Live(store[l]) /\ now < store[l].expires}
        /\ raced' = raced \cup {l \in Logins : lpc[l] \in {"accepted", "established"}}
                        \cup ({key[q] : q \in {p \in Requests : rpc[p] = "view"}}
                                 \ change'.listed)
    BY <1>12 DEF BeginChange
  <2>2. \A l \in Logins : InProgress(l) => l \in raced'
    BY <2>1
  <2>3. ASSUME NEW l \in Logins, Live(store[l]), Outlasts(store[l], l)' PROVE Excused(l)'
    <3>1. CASE store[l].ended < account.ended
      <4>1. Excused(l)
        BY <2>3, <3>1 DEF SessionInv, SurvivorsAreExcused, Outlasts
      <4> QED
        BY <2>1, <4>1 DEF Excused
    <3>2. CASE l \notin change'.listed
      <4>1. store[l].expires \in Nat /\ now \in Nat
        <5>1. store[l] \in Sessions /\ now \in Nat
          BY <2>3, RowsDiffer DEF TypeOK
        <5> QED
          BY <5>1 DEF Sessions
      <4>2. store[l].expires <= now
        BY <2>1, <2>3, <3>2, <4>1
      <4>3. \A q \in Requests : rpc[q] = "view" /\ key[q] = l => l \in raced'
        BY <2>1, <3>2
      <4> QED
        BY <2>1, <4>2, <4>3 DEF Excused
    <3> QED
      BY <2>1, <2>3, <3>1, <3>2 DEF Outlasts
  <2>4. \A l \in change'.listed : lpc[l] = "done"
    BY <2>1 DEF SessionInv, ClocksAgree, OfLogin
  <2> QED
    BY <2>1, <2>2, <2>3, <2>4 DEF SessionInv, SurvivorsAreExcused
<1>13. CASE EndChange
  <2>1. /\ UNCHANGED <<now, lpc, login, rpc, key, held, raced>>
        /\ change.kind # "none" /\ change' = NoChange /\ account.ended \in Nat
        /\ change.listed \subseteq Logins
    BY <1>13 DEF EndChange, TypeOK, Accounts
  <2>2. \A l \in Logins : Live(store'[l]) => store'[l] = store[l]
    BY <1>13, RowsDiffer DEF EndChange, Delete, TypeOK
  <2>3. ASSUME NEW l \in Logins, NEW x, Outlasts(x, l)', l \notin change.listed \/ account' = account
        PROVE  Outlasts(x, l)
    BY <2>1, <2>3 DEF Outlasts, NoChange
  <2>4. \A l \in Logins : Live(store'[l]) => l \notin change.listed \/ account' = account
    BY <1>13, RowsDiffer DEF EndChange, Delete, TypeOK
  <2>5. \A l \in Logins : InProgress(l) => l \notin change.listed
    BY DEF SessionInv, SurvivorsAreExcused
  <2>6. \A l \in Logins : Live(store'[l]) /\ Outlasts(store[l], l)' => Excused(l)'
    BY <2>1, <2>2, <2>3, <2>4 DEF SessionInv, SurvivorsAreExcused, Excused
  <2>7. \A l \in Logins : InProgress(l) /\ Outlasts(login[l], l)' => l \in raced'
    BY <2>1, <2>3, <2>5 DEF SessionInv, SurvivorsAreExcused
  <2>8. change'.listed = {}
    BY <2>1 DEF NoChange
  <2>9. \A q \in Requests : rpc[q] # "idle" => key[q] \in Logins
    BY DEF TypeOK
  <2> QED
    BY <2>1, <2>2, <2>6, <2>7, <2>8, <2>9 DEF SessionInv, SurvivorsAreExcused
<1>14. CASE Activate
  BY <1>14, RowsDiffer DEF Activate, TypeOK, SessionInv, SurvivorsAreExcused, Outlasts, Excused
<1> QED
  BY <1>2, <1>3, <1>4, <1>5, <1>6, <1>7, <1>8, <1>9, <1>10, <1>11, <1>12, <1>13, <1>14 DEF SNext

LEMMA SessionStep == TypeOK /\ TypeOK' /\ SessionInv /\ [SNext]_svars => SessionInv'
<1> SUFFICES ASSUME TypeOK, TypeOK', SessionInv, [SNext]_svars PROVE SessionInv'
  OBVIOUS
<1>1. CASE SNext
  BY <1>1, RowsStep, ClocksStep, CopiesStep, SurvivorsStep DEF SessionInv
<1>2. CASE UNCHANGED svars
  BY <1>2 DEF svars, SessionInv, LoginsHaveRows, ClocksAgree, RowsOutliveCopies,
              SurvivorsAreExcused, OfLogin, InOrder, SavedAt, Outlasts, Excused
<1> QED
  BY <1>1, <1>2

LEMMA SessionInit == SInit => SessionInv
BY RowsDiffer DEF SInit, NoChange, SessionInv, LoginsHaveRows, ClocksAgree, RowsOutliveCopies,
                  SurvivorsAreExcused

\* The invariant of the session rows, of the copies that requests hold and of the clocks.
THEOREM SessionsInOrder == SSpec => []SessionInv
BY SessionInit, SessionStep, SessionsTyped, PTL DEF SSpec

--------------------------------------------------------------------------------
(* What sessions promise *)

\* A session that has ended stays ended, and what the trail calls a logout ended one: saves
\* update existing rows only (sessions.py, the logout view, the middleware's flush).
THEOREM EndedForEver == SSpec => EndedSessionsStayEnded
<1>1. ASSUME TypeOK, TypeOK', SessionInv, SessionInv', [SNext]_svars
      PROVE  [\A l \in Logins : /\ store[l] = Ended => store'[l] = Ended
                                /\ "logout" \in audit'[l] => store'[l] = Ended]_svars
  <2>1. \A l \in Logins : "logout" \in audit'[l] => store'[l] = Ended
    BY <1>1 DEF SessionInv, LoginsHaveRows
  <2>2. CASE UNCHANGED svars
    BY <2>2
  <2>3. ASSUME SNext, NEW l \in Logins, store[l] = Ended PROVE store'[l] = Ended
    <3>1. lpc[l] \notin {"idle", "accepted"}
      BY <1>1, <2>3, RowsDiffer DEF SessionInv, LoginsHaveRows
    <3>2. ASSUME NEW k \in Logins, NEW old, LogIn(k, old) PROVE store'[l] = Ended
      BY <1>1, <2>3, <3>1, <3>2, RowsDiffer DEF LogIn, TypeOK
    <3>3. ASSUME NEW k \in Logins, EndLogin(k) PROVE store'[l] = Ended
      BY <1>1, <2>3, <3>3 DEF EndLogin, Save, TypeOK
    <3>4. ASSUME NEW q \in Requests, Respond(q) PROVE store'[l] = Ended
      BY <1>1, <2>3, <3>4 DEF Respond, Save, TypeOK
    <3>5. ASSUME NEW ls, Delete(ls) PROVE store'[l] = Ended
      BY <2>3, <3>5 DEF Delete
    <3>6. CASE UNCHANGED store
      BY <2>3, <3>6
    <3> QED
      BY <2>3, <3>2, <3>3, <3>4, <3>5, <3>6
         DEF SNext, Tick, Authenticate, Load, TurnAway, Expire, Admit, LogOut, BeginChange,
             EndChange, Activate
  <2> QED
    BY <1>1, <2>1, <2>2, <2>3
<1> QED
  BY <1>1, SessionsTyped, SessionsInOrder, PTL DEF SSpec, EndedSessionsStayEnded

\* No request is let through at or after a limit, counted from the login and from the last
\* request that was let through (_expiry_reason), although copies overwrite one another.
THEOREM LimitsAlwaysHold == SSpec => LimitsHold
<1>1. ASSUME TypeOK, SessionInv, [SNext]_svars
      PROVE  [\A q \in Requests :
                 rpc[q] = "loaded" /\ rpc'[q] = "view" =>
                    /\ now < bornAt[key[q]] + Absolute
                    /\ now < usedAt[key[q]] + Inactivity]_svars
  <2>1. ASSUME NEW q \in Requests, rpc[q] = "loaded", rpc'[q] = "view", SNext
        PROVE  now < bornAt[key[q]] + Absolute /\ now < usedAt[key[q]] + Inactivity
    <3>1. Admit(q)
      BY <1>1, <2>1 DEF SNext, Tick, Authenticate, LogIn, EndLogin, Load, TurnAway, Expire,
                        Admit,
                        Respond, LogOut, BeginChange, EndChange, Activate, Leave, TypeOK
    <3>2. /\ ~PastLimits(held[q]) /\ OfLogin(held[q], key[q])
          /\ held[q] \in Sessions /\ key[q] \in Logins
      BY <1>1, <2>1, <3>1 DEF Admit, TypeOK, SessionInv, ClocksAgree
    <3>3. now \in Nat /\ usedAt[key[q]] \in Nat /\ bornAt[key[q]] \in Nat
      BY <1>1, <3>2 DEF TypeOK
    <3> QED
      BY <3>2, <3>3, LimitsAssumption DEF PastLimits, OfLogin, Sessions
  <2>2. CASE UNCHANGED svars
    BY <2>2
  <2> QED
    BY <1>1, <2>1, <2>2
<1> QED
  BY <1>1, SessionsTyped, SessionsInOrder, PTL DEF SSpec, LimitsHold

\* The middleware flushes and announces an expired session only after a slow request: the
\* expiry date of the row, set by each write, otherwise hides the session first.
THEOREM OnlySlowRequestsAnnounce == SSpec => AnnouncementsNeedASlowRequest
<1>1. ASSUME TypeOK, SessionInv
      PROVE  \A q \in Requests :
                (rpc[q] = "loaded" /\ PastLimits(held[q]) /\ Known(q) /\ rpc'[q] = "idle") =>
                   loadedAt[q] < now \/ held[q].last < SavedAt(held[q])
  <2>1. SUFFICES ASSUME NEW q \in Requests, rpc[q] = "loaded", PastLimits(held[q]),
                        ~(loadedAt[q] < now), ~(held[q].last < SavedAt(held[q]))
                 PROVE  FALSE
    OBVIOUS
  <2>2. /\ held[q] \in Sessions /\ OfLogin(held[q], key[q]) /\ now \in Nat /\ loadedAt[q] \in Nat
        /\ loadedAt[q] <= now /\ loadedAt[q] < held[q].expires
        /\ held[q].last <= SavedAt(held[q])
    BY <1>1, <2>1 DEF TypeOK, SessionInv, ClocksAgree
  <2> QED
    BY <2>1, <2>2, LimitsAssumption DEF PastLimits, OfLogin, InOrder, SavedAt, Least, Sessions
<1> QED
  BY <1>1, SessionsTyped, SessionsInOrder, PTL DEF SSpec, AnnouncementsNeedASlowRequest

\* Whoever survives a change of the account was in the making during the change, or is
\* overdue (invalidate_user_sessions lists unexpired rows once, inside the transaction).
THEOREM SurvivorsWere == SSpec => []SurvivorsWereLoggingIn
<1>1. SessionInv => SurvivorsWereLoggingIn
  BY DEF SessionInv, SurvivorsAreExcused, SurvivorsWereLoggingIn, Outlasts, Excused
<1> QED
  BY <1>1, SessionsInOrder, PTL
=================================================================================
