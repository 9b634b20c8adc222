---------------------------- MODULE SessionLocks -----------------------------
(* The session the threads of the backend share, its two locks, and what     *)
(* AuthManager promises of them.                                             *)
EXTENDS Integers

CONSTANT
    Threads     \* who calls the manager

VARIABLES
    held,       \* the session, 0 when logged out
    old,        \* _is_token_old, which is also said of no session
    authLock,   \* who holds _auth_lock and _api_lock: a thread or nobody
    apiLock,
    th          \* where each thread is

\* Where a thread waits for a lock.
WaitsForAuth(t) == th[t].pc \in {"authWait", "refreshWait", "logoutWait"}
WaitsForApi(t) == th[t].pc \in {"callWait", "apiWait"}

(* No thread waits for a lock it holds itself, or for one whose holder     *)
(* waits for it.  A refresh that fails calls authenticate under the lock   *)
(* authenticate takes; what saves it is that nobody logs out meanwhile.    *)
NoLockCycle ==
    \A t \in Threads :
        /\ WaitsForAuth(t) => t \notin authLock
        /\ WaitsForApi(t) => t \notin apiLock
        /\ WaitsForAuth(t) /\ t \in apiLock => \A u \in authLock : ~WaitsForApi(u)

(* A session is replaced only when it was old, and by one thread: two that *)
(* find it old, or find none, do not both fetch another.                   *)
NoSessionWasted == [][held' # held /\ held' # 0 => held = 0 \/ old]_<<held, old>>
=============================================================================
