---------------------------- MODULE AccountSessions ----------------------------
(* The sessions of one administrator (apps/accounts/sessions.py, views.py and     *)
(* services.py over Django's database-backed sessions): logins, requests, logouts, *)
(* the two limits, and account changes that are to end every session.             *)
(*                                                                                *)
(* Every login draws a fresh session key and so names it: store[l] is the row of  *)
(* the session that login l began.  A request carries the key of any session whose *)
(* cookie was handed out, ended or not.  Requests are not in a transaction; a     *)
(* request works on a copy of the session and writes all of it back at its end.   *)
EXTENDS Integers

CONSTANTS Logins, Requests, Nobody,
          Inactivity,    \* INACTIVITY_SESSION_LIMIT
          Absolute,      \* ABSOLUTE_SESSION_LIMIT
          MaxTime,       \* bound: the last instant
          MaxChanges     \* bound: account changes

ASSUME LimitsAssumption == /\ {Inactivity, Absolute} \subseteq Nat \ {0}
                           /\ Inactivity < Absolute
                           /\ MaxTime \in Nat /\ MaxChanges \in Nat

VARIABLES now,       \* the clock
          account,   \* the committed User row
          store,     \* the committed Session rows
          audit,     \* the committed identity events of each session
          lpc,       \* where each login is
          login,     \* the session a login has built so far
          change,    \* the running account transaction and the keys it has listed
          rpc,       \* where each request is
          key,       \* the session key that its cookie names
          held,      \* the session as it was loaded, and as it will be written
          loadedAt,  \* history: when a session that is to be checked was loaded
          usedAt,    \* history: when a request of a session was last let through
          bornAt,    \* history: when a session was established
          raced      \* history: sessions in the making, or overdue, during a change

past   == <<usedAt, bornAt, raced>>
lvars  == <<lpc, login>>
rvars  == <<rpc, key, held, loadedAt>>
svars  == <<now, account, store, audit, lpc, login, change, rpc, key, held, loadedAt,
            usedAt, bornAt, raced>>

\* The User row: whether it is active, its password, and how often its sessions were ended.
Accounts == [active : BOOLEAN, password : Nat, ended : Nat]

\* A session row.  "new" is the empty row that cycle_key inserts, "ended" a deleted one.
Absent  == [state |-> "absent"]
Fresh   == [state |-> "new"]
Ended   == [state |-> "ended"]
Live(x) == x.state = "live"

NoChange == [kind |-> "none", listed |-> {}]

SInit == /\ now = 0
         /\ account = [active |-> TRUE, password |-> 0, ended |-> 0]
         /\ store = [l \in Logins |-> Absent]
         /\ audit = [l \in Logins |-> {}]
         /\ lpc = [l \in Logins |-> "idle"]
         /\ login = [l \in Logins |-> Absent]
         /\ change = NoChange
         /\ rpc = [q \in Requests |-> "idle"]
         /\ key = [q \in Requests |-> Nobody]
         /\ held = [q \in Requests |-> Absent]
         /\ loadedAt = [q \in Requests |-> 0]
         /\ usedAt = [l \in Logins |-> 0]
         /\ bornAt = [l \in Logins |-> 0]
         /\ raced = {}

--------------------------------------------------------------------------------
Least(x, y) == IF x < y THEN x ELSE y

\* Session.save(force_update=True): a row that was deleted meanwhile is not written again.
Save(l, x) == store[l] # Ended /\ store' = [store EXCEPT ![l] = x]
Delete(ls) == store' = [l \in Logins |-> IF l \in ls /\ store[l] # Absent THEN Ended ELSE store[l]]
Note(l, e) == audit' = [audit EXCEPT ![l] = @ \cup {e}]

\* A loaded session is written with an expiry date counted from the moment of the write.
Stamped(x) == [x EXCEPT !.expires = now + x.lifetime]

Tick == /\ now < MaxTime
        /\ now' = now + 1
        /\ UNCHANGED <<account, store, audit, lvars, change, rvars, past>>

--------------------------------------------------------------------------------
(* The login view                                                                 *)

\* The form accepts the credentials of an active administrator: the user as it reads it.
Authenticate(l) ==
    /\ lpc[l] = "idle" /\ account.active
    /\ lpc' = [lpc EXCEPT ![l] = "accepted"]
    /\ login' = [login EXCEPT ![l] = [state |-> "live", password |-> account.password,
                                      ended |-> account.ended, started |-> now, last |-> now,
                                      lifetime |-> Inactivity, expires |-> now]]
    /\ raced' = IF change.kind # "none" THEN raced \cup {l} ELSE raced
    /\ UNCHANGED <<now, account, store, audit, change, rvars, usedAt, bornAt>>

\* The success event first; then auth_login cycles the key: an empty row under a new key, and
\* the session the browser had is deleted; then both clocks start.  A login that fails
\* before its event is as if it had not been tried.
LogIn(l, old) ==
    /\ lpc[l] = "accepted"
    /\ Note(l, "login")
    /\ \/ /\ store' = [k \in Logins |-> IF k = l THEN Fresh
                                        ELSE IF k = old /\ store[k] # Absent THEN Ended
                                        ELSE store[k]]
          /\ login' = [login EXCEPT ![l].started = now, ![l].last = now]
          /\ lpc' = [lpc EXCEPT ![l] = "established"]
       \/ /\ lpc' = [lpc EXCEPT ![l] = "failed"]
          /\ login' = [login EXCEPT ![l] = Absent]
          /\ UNCHANGED store
    /\ UNCHANGED <<now, account, change, rvars, past>>

\* The response writes the session and hands out the cookie.
EndLogin(l) ==
    /\ lpc[l] = "established"
    /\ \/ /\ Save(l, Stamped(login[l]))
          /\ lpc' = [lpc EXCEPT ![l] = "done"]
          /\ usedAt' = [usedAt EXCEPT ![l] = login[l].last]
          /\ bornAt' = [bornAt EXCEPT ![l] = login[l].started]
       \/ /\ lpc' = [lpc EXCEPT ![l] = "failed"]
          /\ UNCHANGED <<store, usedAt, bornAt>>
    /\ login' = [login EXCEPT ![l] = Absent]
    /\ UNCHANGED <<now, account, audit, change, rvars, raced>>

--------------------------------------------------------------------------------
(* A request of a session                                                         *)

Leave(q) == /\ rpc' = [rpc EXCEPT ![q] = "idle"]
            /\ key' = [key EXCEPT ![q] = Nobody]
            /\ held' = [held EXCEPT ![q] = Absent]
            /\ loadedAt' = [loadedAt EXCEPT ![q] = 0]

\* SessionStore.load finds rows that are not past their expiry date; without one the request
\* is anonymous and ends at the login page.
Load(q, l) == /\ rpc[q] = "idle" /\ lpc[l] = "done"
              /\ Live(store[l]) /\ now < store[l].expires
              /\ rpc' = [rpc EXCEPT ![q] = "loaded"]
              /\ key' = [key EXCEPT ![q] = l]
              /\ held' = [held EXCEPT ![q] = store[l]]
              /\ loadedAt' = [loadedAt EXCEPT ![q] = now]
              /\ UNCHANGED <<now, account, store, audit, lvars, change, past>>

\* Mutant: the limits are exceeded only after their last instant.
PastLimitsExclusive(x) == now - x.started > Absolute \/ now - x.last > Inactivity

\* _expiry_reason
PastLimits(x) == now - x.started >= Absolute \/ now - x.last >= Inactivity

\* Mutant: the remaining absolute time does not bound the next expiry.
RefreshedUnbounded(x) == [x EXCEPT !.last = now, !.expires = now, !.lifetime = Inactivity]

\* The middleware's refresh of a session within its limits, for the write at the end.
Refreshed(x) == [x EXCEPT !.last = now, !.expires = now,
                          !.lifetime = Least(Inactivity, Absolute - (now - x.started))]

\* An inactive user is anonymous; a session with another password is flushed.
TurnAway(q) == /\ rpc[q] = "loaded"
               /\ \/ ~account.active /\ UNCHANGED store
                  \/ /\ account.active /\ held[q].password # account.password
                     /\ Delete({key[q]})
               /\ Leave(q)
               /\ UNCHANGED <<now, account, audit, lvars, change, past>>

Known(q) == rpc[q] = "loaded" /\ account.active /\ held[q].password = account.password

\* process_view flushes an expired session; then it records why, or fails to: the session has
\* ended either way.
Expire(q) == /\ Known(q) /\ PastLimits(held[q])
             /\ Delete({key[q]})
             /\ Leave(q)
             /\ UNCHANGED <<now, account, audit, lvars, change, past>>

Admit(q) == /\ Known(q) /\ ~PastLimits(held[q])
            /\ held' = [held EXCEPT ![q] = Refreshed(@)]
            /\ rpc' = [rpc EXCEPT ![q] = "view"]
            /\ usedAt' = [usedAt EXCEPT ![key[q]] = now]
            /\ loadedAt' = [loadedAt EXCEPT ![q] = 0]
            /\ UNCHANGED <<now, account, store, audit, lvars, change, key, bornAt, raced>>

\* The response writes the session; if its row is gone, the request is interrupted; a
\* response of 500 and above writes nothing.
Respond(q) == /\ rpc[q] = "view"
              /\ Save(key[q], Stamped(held[q])) \/ UNCHANGED store
              /\ Leave(q)
              /\ UNCHANGED <<now, account, audit, lvars, change, past>>

\* Mutant: the session is emptied in memory only.
LogOutWithoutFlush(q) ==
    /\ rpc[q] = "view"
    /\ Note(key[q], "logout")
    /\ Leave(q)
    /\ UNCHANGED <<now, account, store, lvars, change, past>>

\* The logout view: first the event, then the session is flushed.
LogOut(q) == /\ rpc[q] = "view"
             /\ \/ Note(key[q], "logout") /\ Delete({key[q]})
                \/ UNCHANGED <<audit, store>>
             /\ Leave(q)
             /\ UNCHANGED <<now, account, lvars, change, past>>

--------------------------------------------------------------------------------
(* The account services                                                           *)

\* change_password, complete_password_reset and deactivate_account write the user and list
\* the unexpired sessions that are the user's ...
BeginChange(kind) ==
    /\ change.kind = "none" /\ account.ended < MaxChanges
    /\ kind = "deactivate" => account.active
    /\ change' = [kind |-> kind,
                  listed |-> {l \in Logins : Live(store[l]) /\ now < store[l].expires}]
    /\ raced' = raced \cup {l \in Logins : lpc[l] \in {"accepted", "established"}}
                     \cup ({key[q] : q \in {p \in Requests : rpc[p] = "view"}}
                              \ change'.listed)
    /\ UNCHANGED <<now, account, store, audit, lvars, rvars, usedAt, bornAt>>

\* Mutant: the sessions stay.
EndChangeOnly ==
    /\ change.kind # "none"
    /\ account' = [active |-> account.active /\ change.kind # "deactivate",
                   password |-> account.password + (IF change.kind = "password" THEN 1 ELSE 0),
                   ended |-> account.ended + 1]
    /\ change' = NoChange
    /\ UNCHANGED <<now, store, audit, lvars, rvars, past>>

\* ... delete them and commit, or roll everything back.
EndChange ==
    /\ change.kind # "none"
    /\ \/ /\ account' = [active |-> account.active /\ change.kind # "deactivate",
                         password |-> account.password
                                         + (IF change.kind = "password" THEN 1 ELSE 0),
                         ended |-> account.ended + 1]
          /\ Delete(change.listed)
       \/ UNCHANGED <<account, store>>
    /\ change' = NoChange
    /\ UNCHANGED <<now, audit, lvars, rvars, past>>

\* activate_account ends no session.
Activate == /\ change.kind = "none" /\ ~account.active
            /\ account' = [account EXCEPT !.active = TRUE]
            /\ UNCHANGED <<now, store, audit, lvars, change, rvars, past>>

--------------------------------------------------------------------------------
SNext == \/ Tick
         \/ \E l \in Logins : \/ Authenticate(l) \/ EndLogin(l)
                              \/ \E old \in {k \in Logins : lpc[k] = "done"} \cup {Nobody} :
                                    LogIn(l, old)
         \/ \E q \in Requests : \/ \E l \in Logins : Load(q, l)
                                \/ TurnAway(q) \/ Expire(q) \/ Admit(q)
                                \/ Respond(q) \/ LogOut(q)
         \/ \E kind \in {"password", "deactivate"} : BeginChange(kind)
         \/ EndChange \/ Activate

SSpec == SInit /\ [][SNext]_svars

--------------------------------------------------------------------------------
(* Properties                                                                     *)

\* The login has a session that is not handed out yet.
InProgress(l) == lpc[l] \in {"accepted", "established"}

Sessions == [state : {"live"}, password : Nat, ended : Nat, started : Nat, last : Nat,
             lifetime : 1..Inactivity, expires : Nat]

\* Every variable holds a value of its kind; who is at work has a session to work on.
TypeOK ==
    /\ now \in 0..MaxTime
    /\ account \in Accounts
    /\ store \in [Logins -> Sessions \cup {Absent, Fresh, Ended}]
    /\ audit \in [Logins -> SUBSET {"login", "logout"}]
    /\ lpc \in [Logins -> {"idle", "accepted", "established", "done", "failed"}]
    /\ login \in [Logins -> Sessions \cup {Absent}]
    /\ \A l \in Logins : InProgress(l) => login[l] \in Sessions
    /\ change \in [kind : {"none", "password", "deactivate"}, listed : SUBSET Logins]
    /\ rpc \in [Requests -> {"idle", "loaded", "view"}]
    /\ key \in [Requests -> Logins \cup {Nobody}]
    /\ held \in [Requests -> Sessions \cup {Absent}]
    /\ \A q \in Requests : rpc[q] # "idle" => key[q] \in Logins /\ held[q] \in Sessions
    /\ loadedAt \in [Requests -> Nat]
    /\ usedAt \in [Logins -> Nat] /\ bornAt \in [Logins -> Nat]
    /\ raced \subseteq Logins

\* When a session was last written.
SavedAt(x) == x.expires - x.lifetime

\* A session, or a copy of it: its clocks are in order, and its lifetime is what they leave.
InOrder(x) == /\ x.started <= x.last /\ x.last <= now
              /\ x.lifetime = Least(Inactivity, Absolute - (x.last - x.started))

\* x is the session of login l, as it was at some time since.
OfLogin(x, l) == /\ InOrder(x)
                 /\ lpc[l] = "done"
                 /\ x.started = bornAt[l] /\ x.last <= usedAt[l]

\* A row is there from its login until it is ended.
LoginsHaveRows ==
    \A l \in Logins :
        /\ lpc[l] \in {"idle", "accepted"} => store[l] = Absent
        /\ lpc[l] = "done" => Live(store[l]) \/ store[l] = Ended
        /\ "logout" \in audit[l] => store[l] = Ended

\* What is stored, and what requests work on, belongs to a login and is no newer than the
\* last request that was let through.
ClocksAgree ==
    /\ \A l \in Logins : InProgress(l) => /\ InOrder(login[l])
                                          /\ login[l].started = login[l].last
    /\ \A l \in Logins : Live(store[l]) => /\ OfLogin(store[l], l)
                                           /\ store[l].last <= SavedAt(store[l])
    /\ \A q \in Requests : rpc[q] # "idle" => OfLogin(held[q], key[q])
    /\ \A q \in Requests : rpc[q] = "loaded" => /\ loadedAt[q] <= now
                                                /\ loadedAt[q] < held[q].expires
                                                /\ held[q].last <= SavedAt(held[q])

\* A row outlives the copy that a request has loaded: once it is past its expiry date, so is
\* the copy past the limits.
RowsOutliveCopies ==
    \A q \in Requests :
        /\ rpc[q] = "loaded" /\ Live(store[key[q]])
        => \/ held[q].last + Inactivity <= store[key[q]].expires
           \/ held[q].started + Absolute <= store[key[q]].expires

\* Why a session may outlive a change of the account: it was in the making, or it is overdue
\* and nobody works on it.
Excused(l) == \/ l \in raced
              \/ /\ store[l].expires <= now
                 /\ \A q \in Requests : rpc[q] = "view" => key[q] # l

\* A change has committed since x was made, or is about to without ending it.
Outlasts(x, l) == x.ended < account.ended \/ (change.kind # "none" /\ l \notin change.listed)

SurvivorsAreExcused ==
    /\ \A l \in Logins : InProgress(l) /\ Outlasts(login[l], l) => l \in raced
    /\ \A l \in Logins : Live(store[l]) /\ Outlasts(store[l], l) => Excused(l)
    /\ \A l \in change.listed : lpc[l] = "done"
    /\ \A q \in Requests :
          rpc[q] # "idle" /\ Live(store[key[q]]) => held[q].ended = store[key[q]].ended

\* The inductive invariant of the sessions.
SessionInv == LoginsHaveRows /\ ClocksAgree /\ RowsOutliveCopies /\ SurvivorsAreExcused

\* A session that has ended stays ended: after a logout, an expiry or an account change no
\* request that still works on a copy of it brings it back (AC-01, LGD_001_SPEC.md:729), and
\* what the trail calls a logout was one.
EndedSessionsStayEnded ==
    [][\A l \in Logins : /\ store[l] = Ended => store'[l] = Ended
                         /\ "logout" \in audit'[l] => store'[l] = Ended]_svars

\* A request is let through less than Absolute after its session's login and less than
\* Inactivity after a request that was let through before it (AC-04), although requests of
\* one session overlap and the last to end overwrites what the others wrote.
LimitsHold ==
    [][\A q \in Requests :
          rpc[q] = "loaded" /\ rpc'[q] = "view" =>
             /\ now < bornAt[key[q]] + Absolute
             /\ now < usedAt[key[q]] + Inactivity]_svars

\* What ends an idle session is the expiry date of its row, which comes no later than the
\* limits that the middleware checks: the middleware announces and records an expiry only
\* if some request of the session took time, between its load and its check or between
\* its check and its write.
AnnouncementsNeedASlowRequest ==
    [][\A q \in Requests :
          (rpc[q] = "loaded" /\ PastLimits(held[q]) /\ Known(q) /\ rpc'[q] = "idle") =>
             loadedAt[q] < now \/ held[q].last < SavedAt(held[q])]_svars

\* A session that outlives a change that is to end all sessions of the user was not there
\* to be listed: its login overlapped the change, or its row was past its expiry date while
\* a request still worked on a copy of it and wrote it again later.
SurvivorsWereLoggingIn ==
    \A l \in Logins : Live(store[l]) /\ store[l].ended < account.ended
                         => l \in raced \/ store[l].expires <= now
=================================================================================
