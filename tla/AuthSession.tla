---------------------------- MODULE AuthSession -----------------------------
(***************************************************************************)
(* AuthManager (src/core/auth_manager.py): the threads that log in,        *)
(* refresh the session when it is old, call the broker through the proxy   *)
(* and log out.  _auth_lock and _api_lock are plain locks: who holds one   *)
(* and asks for it again waits for ever.                                   *)
(*                                                                         *)
(* The tokens and the SmartConnect they belong to are always written       *)
(* together, under _lock; they are one session here, known by its number.  *)
(* A thread is where it is in the method it runs, with the methods that    *)
(* wait for that one to return.  Network calls time out.                   *)
(***************************************************************************)
EXTENDS SessionLocks

CONSTANTS
    MaxAttempts,    \* max_retries of authenticate
    MaxSessions,    \* bound: sessions the broker grants
    MaxCalls        \* bound: calls of all threads

VARIABLES
    granted,    \* sessions granted so far
    calls,
    renewed     \* history: every refresh that returned True for an old session
                \* had replaced it

vars == <<held, old, authLock, apiLock, th, granted, calls, renewed>>

\* in: the methods that wait for the running one; a refresh that waits for
\* authenticate is the innermost.  saw: the session a refresh set out from;
\* attempt: of the running login.
Places == {"idle", "get", "aged", "got", "auth", "authWait", "authAgain", "login",
           "refresh", "refreshWait", "refreshAgain", "exchange", "logoutWait",
           "clear", "apiWait", "terminate", "callWait", "call"}
Thread == [pc : Places, in : SUBSET {"get", "refresh"}, saw : 0..MaxSessions,
           attempt : 0..MaxAttempts]
Idle == [pc |-> "idle", in |-> {}, saw |-> 0, attempt |-> 0]
Lock == {{}} \cup {{t} : t \in Threads}

TypeOK ==
    /\ held \in 0..MaxSessions /\ granted \in 0..MaxSessions
    /\ held <= granted
    /\ old \in BOOLEAN /\ renewed \in BOOLEAN
    /\ authLock \in Lock /\ apiLock \in Lock
    /\ th \in [Threads -> Thread]
    /\ calls \in 0..MaxCalls

-----------------------------------------------------------------------------
At(t, pc) == th[t].pc = pc
To(t, pc) == th' = [th EXCEPT ![t].pc = pc]

\* The running method is done, and get_smart_api goes on from pc when it was
\* what called.
Done(t, pc) ==
    th' = [th EXCEPT ![t] =
              IF "get" \in @.in /\ pc # "idle"
              THEN [Idle EXCEPT !.pc = pc] ELSE Idle]

-----------------------------------------------------------------------------
(* authenticate.                                                           *)

\* The fast path, which is the only one a refresh that failed can take: the
\* refresh returns True with it, and gives the lock back.
Auth(t) ==
    /\ At(t, "auth")
    /\ \/ held = 0 /\ To(t, "authWait") /\ UNCHANGED <<authLock, renewed>>
       \/ held # 0 /\ "refresh" \notin th[t].in /\ Done(t, "aged") /\ UNCHANGED <<authLock, renewed>>
       \/ /\ held # 0 /\ "refresh" \in th[t].in
          /\ authLock' = {} /\ renewed' = (renewed /\ held # th[t].saw)
          /\ Done(t, "got")
    /\ UNCHANGED <<held, old, apiLock, granted, calls>>

AuthWait(t) ==
    /\ At(t, "authWait") /\ authLock = {}
    /\ authLock' = {t}
    /\ To(t, "authAgain")
    /\ UNCHANGED <<held, old, apiLock, granted, calls, renewed>>

\* Faulty variant: nobody is expected to have logged in while this thread waited.
LoggedInNever == FALSE
LoggedInMeanwhile == held # 0

\* Every end of authenticate that took the lock gives it back; get_smart_api
\* looks only at its result.
Leave(t, value) ==
    /\ authLock' = {}
    /\ Done(t, IF value THEN "aged" ELSE "idle")
    /\ UNCHANGED renewed

AuthAgain(t) ==
    /\ At(t, "authAgain")
    /\ \/ LoggedInMeanwhile /\ Leave(t, TRUE)
       \/ /\ ~LoggedInMeanwhile
          /\ th' = [th EXCEPT ![t].pc = "login", ![t].attempt = 1]
          /\ UNCHANGED <<authLock, renewed>>
    /\ UNCHANGED <<held, old, apiLock, granted, calls>>

\* generateSession: granted; refused for good, or answered without one of the
\* tokens; or failed, to be tried again.
Login(t) ==
    /\ At(t, "login")
    /\ \/ /\ granted < MaxSessions
          /\ granted' = granted + 1 /\ held' = granted' /\ old' = FALSE
          /\ Leave(t, TRUE)
       \/ Leave(t, FALSE) /\ UNCHANGED <<granted, held, old>>
       \/ /\ th[t].attempt < MaxAttempts
          /\ th' = [th EXCEPT ![t].attempt = @ + 1]
          /\ UNCHANGED <<granted, held, old, authLock, renewed>>
    /\ UNCHANGED <<apiLock, calls>>

-----------------------------------------------------------------------------
(* refresh_session.                                                        *)

Refresh(t) ==
    /\ At(t, "refresh")
    /\ \/ held = 0 /\ Done(t, "got") /\ UNCHANGED <<authLock, renewed>>
       \/ held # 0 /\ To(t, "refreshWait") /\ UNCHANGED <<authLock, renewed>>
    /\ UNCHANGED <<held, old, apiLock, granted, calls>>

RefreshWait(t) ==
    /\ At(t, "refreshWait") /\ authLock = {}
    /\ authLock' = {t}
    /\ To(t, "refreshAgain")
    /\ UNCHANGED <<held, old, apiLock, granted, calls, renewed>>

\* Faulty variant: nobody is expected to have refreshed while this thread waited.
RefreshedNever == FALSE
RefreshedMeanwhile == ~old

LeaveRefresh(t) == authLock' = {} /\ Done(t, "got")

RefreshAgain(t) ==
    /\ At(t, "refreshAgain")
    /\ \/ RefreshedMeanwhile /\ LeaveRefresh(t)
       \/ ~RefreshedMeanwhile /\ held = 0 /\ LeaveRefresh(t)
       \/ /\ ~RefreshedMeanwhile /\ held # 0
          /\ th' = [th EXCEPT ![t].pc = "exchange", ![t].saw = held]
          /\ UNCHANGED authLock
    /\ UNCHANGED <<held, old, apiLock, granted, calls, renewed>>

\* generateToken: new tokens; an answer without one of them; or refused or
\* failed, and authenticate is called with the lock held.
Exchange(t) ==
    /\ At(t, "exchange")
    /\ \/ /\ granted < MaxSessions
          /\ granted' = granted + 1 /\ held' = granted' /\ old' = FALSE
          /\ LeaveRefresh(t)
       \/ LeaveRefresh(t) /\ UNCHANGED <<granted, held, old>>
       \/ /\ th' = [th EXCEPT ![t].pc = "auth", ![t].in = @ \cup {"refresh"}]
          /\ UNCHANGED <<granted, held, old, authLock>>
    /\ UNCHANGED <<apiLock, calls, renewed>>

-----------------------------------------------------------------------------
(* get_smart_api.                                                          *)

Get(t) ==
    /\ At(t, "get")
    /\ \/ held # 0 /\ To(t, "aged")
       \/ held = 0 /\ th' = [th EXCEPT ![t].pc = "auth", ![t].in = {"get"}]
    /\ UNCHANGED <<held, old, authLock, apiLock, granted, calls, renewed>>

Aged(t) ==
    /\ At(t, "aged")
    /\ \/ old /\ th' = [th EXCEPT ![t].pc = "refresh", ![t].in = {"get"}]
       \/ ~old /\ To(t, "got")
    /\ UNCHANGED <<held, old, authLock, apiLock, granted, calls, renewed>>

\* The proxy is returned, or None, and a caller with the proxy may call.
Got(t) ==
    /\ At(t, "got")
    /\ \/ held # 0 /\ To(t, "callWait")
       \/ th' = [th EXCEPT ![t] = Idle]
    /\ UNCHANGED <<held, old, authLock, apiLock, granted, calls, renewed>>

-----------------------------------------------------------------------------
(* The proxy.  Logged out meanwhile, it raises.                            *)

CallWait(t) ==
    /\ At(t, "callWait") /\ apiLock = {}
    /\ \/ held # 0 /\ apiLock' = {t} /\ To(t, "call")
       \/ held = 0 /\ UNCHANGED apiLock /\ th' = [th EXCEPT ![t] = Idle]
    /\ UNCHANGED <<held, old, authLock, granted, calls, renewed>>

Call(t) ==
    /\ At(t, "call")
    /\ apiLock' = {}
    /\ th' = [th EXCEPT ![t] = Idle]
    /\ UNCHANGED <<held, old, authLock, granted, calls, renewed>>

-----------------------------------------------------------------------------
(* logout.                                                                 *)

\* Faulty variant: the session is dropped whoever is at work on it.
AnyTime == TRUE
LockIsFree == authLock = {}

LogoutWait(t) ==
    /\ At(t, "logoutWait") /\ LockIsFree
    /\ authLock' = {t}
    /\ To(t, "clear")
    /\ UNCHANGED <<held, old, apiLock, granted, calls, renewed>>

Clear(t) ==
    /\ At(t, "clear")
    /\ \/ /\ held = 0
          /\ authLock' = {} /\ th' = [th EXCEPT ![t] = Idle]
       \/ held # 0 /\ To(t, "apiWait") /\ UNCHANGED authLock
    /\ held' = 0 /\ old' = TRUE
    /\ UNCHANGED <<apiLock, granted, calls, renewed>>

ApiWait(t) ==
    /\ At(t, "apiWait") /\ apiLock = {}
    /\ apiLock' = {t}
    /\ To(t, "terminate")
    /\ UNCHANGED <<held, old, authLock, granted, calls, renewed>>

Terminate(t) ==
    /\ At(t, "terminate")
    /\ apiLock' = {} /\ authLock' = {}
    /\ th' = [th EXCEPT ![t] = Idle]
    /\ UNCHANGED <<held, old, granted, calls, renewed>>

-----------------------------------------------------------------------------
\* The data engine logs in, the feed's thread refreshes, the pollers ask for the
\* proxy, and somebody may log out.
Begin(t) ==
    /\ At(t, "idle") /\ calls < MaxCalls
    /\ calls' = calls + 1
    /\ \E pc \in {"auth", "refresh", "get", "logoutWait"} : To(t, pc)
    /\ UNCHANGED <<held, old, authLock, apiLock, granted, renewed>>

\* 25 minutes have passed since the tokens were written.
Age ==
    /\ held # 0 /\ ~old
    /\ old' = TRUE
    /\ UNCHANGED <<held, authLock, apiLock, th, granted, calls, renewed>>

Init ==
    /\ held = 0 /\ old = TRUE
    /\ authLock = {} /\ apiLock = {}
    /\ th = [t \in Threads |-> Idle]
    /\ granted = 0 /\ calls = 0 /\ renewed = TRUE

Step(t) ==
    \/ Auth(t) \/ AuthWait(t) \/ AuthAgain(t) \/ Login(t)
    \/ Refresh(t) \/ RefreshWait(t) \/ RefreshAgain(t) \/ Exchange(t)
    \/ Get(t) \/ Aged(t) \/ Got(t) \/ CallWait(t) \/ Call(t)
    \/ LogoutWait(t) \/ Clear(t) \/ ApiWait(t) \/ Terminate(t)

Next == Age \/ (\E t \in Threads : Step(t) \/ Begin(t))

Spec == Init /\ [][Next]_vars

-----------------------------------------------------------------------------
(* Properties.                                                             *)

(* "Token refresh failed, attempting full re-authentication"               *)
(* (auth_manager.py:541): a refresh of an old session that returns True    *)
(* has replaced it.  Not kept: authenticate finds the old session and      *)
(* returns True at once.                                                   *)
RefreshReplaces == renewed
=============================================================================
