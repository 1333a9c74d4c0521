------------------------------ MODULE DataBase ------------------------------
(***************************************************************************)
(* The one MySQL connection that all threads of the server share, and the  *)
(* recursive mutex of the class DataBase (db.cpp) that serialises its use. *)
(* query() locks the mutex and leaves it locked; free() drains the results *)
(* and unlocks it.  Every public method is a query() and, on most paths, a *)
(* free(), so a method is a Kind of call here and a thread steps through   *)
(* one call at a time.                                                     *)
(***************************************************************************)
EXTENDS Naturals

CONSTANTS
    Threads,     \* client threads
    NoThread,    \* nobody
    Kinds,       \* the kinds of call the threads make
    Refused,     \* the kinds whose query the SQL server may refuse
    MaxDepth     \* bound on the recursive locking of one thread

(***************************************************************************)
(* The kinds of call:                                                      *)
(*  - "function": storedFunctionInt, behind connect, disconnect,           *)
(*    channelCreate, channelAddOp, channelDestroy and setUserFlag;         *)
(*  - "signup": the same, but the query never succeeds: signup() names the *)
(*    stored function connect and passes three arguments to its four;      *)
(*  - "table": getChannels, getChannelOperators, getUserPropertyNo and     *)
(*    updateLocation, whose result pointer is initialised;                 *)
(*  - "update": channelUpdate, insertFeedback and updatePlayerSet, whose   *)
(*    result pointer is not.                                               *)
(***************************************************************************)
AllKinds == {"function", "signup", "table", "update"}

ASSUME KindsAssumption == Kinds \subseteq AllKinds /\ Refused \subseteq Kinds

ASSUME ThreadsAssumption == NoThread \notin Threads

ASSUME MaxDepthAssumption == MaxDepth \in Nat

VARIABLES
    running,     \* FALSE once the process has exited
    owner,       \* the thread that holds m_mutex
    depth,       \* how many times it has locked it
    leaks,       \* how many stored functions failed, a history
    pc,          \* pc[t]: where the thread t is
    kind,        \* kind[t]: the call it makes
    stored,      \* stored[t]: query() stored a result and returned true
    unread       \* whose statement has results waiting on the connection

vars == <<running, owner, depth, leaks, pc, kind, stored, unread>>

Places == {"idle", "lock", "query", "fetch", "free"}

TypeOK ==
    /\ running \in BOOLEAN
    /\ owner \in Threads \cup {NoThread}
    /\ depth \in Nat
    /\ leaks \in Nat
    /\ pc \in [Threads -> Places]
    /\ kind \in [Threads -> AllKinds]
    /\ stored \in [Threads -> BOOLEAN]
    /\ unread \in Threads \cup {NoThread}

IsFunction(k) == k \in {"function", "signup"}

Goto(t, place) == pc' = [pc EXCEPT ![t] = place]

\* A bug: query() does not lock.
NeverLocked(t) == TRUE

\* The mutex is free for this thread, which may hold it already.
MayLock(t) == owner \in {NoThread, t}

\* A bug: free() unlocks what its caller unlocked.
UnlockTwice == /\ depth' = depth - 2
               /\ owner' = NoThread

\* A bug: free() returns early.
StayLocked == UNCHANGED <<owner, depth>>

Unlock == /\ depth' = depth - 1
          /\ owner' = IF depth = 1 THEN NoThread ELSE owner

\* A bug: every caller of query() returns at once when it failed.
ReturnsAtOnce(k) == "idle"

\* What follows a query() that returned false: storedFunctionInt returns without
\* free(), everybody else calls it.
AfterFailure(k) == IF IsFunction(k) THEN "idle" ELSE "free"

-----------------------------------------------------------------------------
\* A handler calls a method of the DataBase.
Begin(t, k) ==
    /\ running
    /\ pc[t] = "idle"
    /\ owner = t => depth < MaxDepth
    /\ Goto(t, "lock")
    /\ kind' = [kind EXCEPT ![t] = k]
    /\ UNCHANGED <<running, owner, depth, leaks, stored, unread>>

\* m_mutex.lock() in query().
Lock(t) ==
    /\ running
    /\ pc[t] = "lock"
    /\ MayLock(t)
    /\ owner' = t
    /\ depth' = depth + 1
    /\ Goto(t, "query")
    /\ UNCHANGED <<running, leaks, kind, stored, unread>>

\* mysql_query and mysql_store_result succeed.
QuerySucceeds(t) ==
    /\ running
    /\ pc[t] = "query"
    /\ kind[t] # "signup"
    /\ unread = NoThread
    /\ unread' = t
    /\ stored' = [stored EXCEPT ![t] = TRUE]
    /\ Goto(t, IF IsFunction(kind[t]) THEN "fetch" ELSE "free")
    /\ UNCHANGED <<running, owner, depth, leaks, kind>>

\* query() returns false: the server refuses the statement, or the results of
\* another one are still unread.
QueryFails(t) ==
    /\ running
    /\ pc[t] = "query"
    /\ kind[t] \in Refused \cup {"signup"} \/ unread # NoThread
    /\ stored' = [stored EXCEPT ![t] = FALSE]
    /\ Goto(t, AfterFailure(kind[t]))
    /\ leaks' = IF IsFunction(kind[t]) THEN leaks + 1 ELSE leaks
    /\ UNCHANGED <<running, owner, depth, kind, unread>>

\* query() finds the connection lost and calls exit(0).
ServerLost(t) ==
    /\ running
    /\ pc[t] = "query"
    /\ running' = FALSE
    /\ UNCHANGED <<owner, depth, leaks, pc, kind, stored, unread>>

\* mysql_fetch_row in storedFunctionInt; with and without a row, free() follows.
Fetch(t) ==
    /\ running
    /\ pc[t] = "fetch"
    /\ Goto(t, "free")
    /\ UNCHANGED <<running, owner, depth, leaks, kind, stored, unread>>

\* free(): release the result, read what is left of the connection, unlock.
Free(t) ==
    /\ running
    /\ pc[t] = "free"
    /\ unread' = NoThread
    /\ Unlock
    /\ Goto(t, "idle")
    /\ UNCHANGED <<running, leaks, kind, stored>>

\* free() of a result pointer that query() never set may end the process.
FreeGarbage(t) ==
    /\ running
    /\ pc[t] = "free"
    /\ kind[t] = "update"
    /\ ~stored[t]
    /\ running' = FALSE
    /\ UNCHANGED <<owner, depth, leaks, pc, kind, stored, unread>>

-----------------------------------------------------------------------------
Init ==
    /\ running = TRUE
    /\ owner = NoThread
    /\ depth = 0
    /\ leaks = 0
    /\ pc = [t \in Threads |-> "idle"]
    /\ kind \in [Threads -> Kinds]
    /\ stored = [t \in Threads |-> FALSE]
    /\ unread = NoThread

Step(t) ==
    \/ \E k \in Kinds : Begin(t, k)
    \/ Lock(t)
    \/ QuerySucceeds(t)
    \/ QueryFails(t)
    \/ ServerLost(t)
    \/ Fetch(t)
    \/ Free(t)
    \/ FreeGarbage(t)

\* Nothing follows the exit of the process.
Exited == ~running /\ UNCHANGED vars

Next == (\E t \in Threads : Step(t)) \/ Exited

Spec == Init /\ [][Next]_vars

\* A thread inside a call goes on, and takes the mutex if it stays free for it;
\* nothing is assumed about who gets a mutex that several threads wait for, nor
\* that a handler ever begins a call.
Fairness == \A t \in Threads :
    /\ WF_vars(Lock(t))
    /\ WF_vars(QuerySucceeds(t) \/ QueryFails(t) \/ ServerLost(t))
    /\ WF_vars(Fetch(t))
    /\ WF_vars(Free(t) \/ FreeGarbage(t))

FairSpec == Spec /\ Fairness

-----------------------------------------------------------------------------
(* Properties.                                                             *)

Working(t) == pc[t] \in {"query", "fetch", "free"}

\* A thread that reads a result reads that of its own statement: nobody else has
\* issued a query, or drained the connection, since.
ResultsAreOwn ==
    \A t \in Threads : pc[t] \in {"fetch", "free"} /\ stored[t] => unread = t

\* No statement is sent while the results of another one are unread, which MySQL
\* would refuse as out of sync.
QueriesAreInSync ==
    \A t \in Threads : pc[t] = "query" => unread = NoThread

\* Only a thread inside a call holds the mutex, and it holds it once: "it then
\* gets unblocked for other threads to execute queries" (db.cpp:406).
LockIsReleased ==
    /\ \A t \in Threads : owner = t => Working(t)
    /\ depth <= 1

\* The mutex is locked once for the thread inside a call, and once more for every
\* stored function that failed: no other way through the methods, with the server
\* refusing statements of every kind, forgets an unlock or unlocks twice.
LocksAreBalanced ==
    /\ \A t \in Threads : Working(t) => owner = t
    /\ depth = leaks + (IF owner # NoThread /\ Working(owner) THEN 1 ELSE 0)

\* The data base stalls only after a stored function failed: else, when a thread
\* waits for the mutex, some thread finishes its call, or the process ends.
NeverStalls ==
    (\E t \in Threads : pc[t] = "lock") ~>
        ((\E t \in Threads : pc[t] = "free") \/ ~running \/ leaks > 0)
=============================================================================
