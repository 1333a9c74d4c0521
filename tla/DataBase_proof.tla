--------------------------- MODULE DataBase_proof ---------------------------
(***************************************************************************)
(* Proofs about DataBase, for any number of threads: the mutex keeps the   *)
(* calls apart even when it is leaked, and stored functions that failed are *)
(* all that ever leaks it.                                                 *)
(***************************************************************************)
EXTENDS DataBase, TLAPS

\* A thread at work holds the mutex, a held mutex has been locked.
MutexInv ==
    /\ \A t \in Threads : Working(t) => owner = t
    /\ owner = NoThread <=> depth = 0

\* Results wait on the connection exactly for a thread between its query() and
\* its free().
ResultsInv ==
    /\ unread # NoThread => pc[unread] \in {"fetch", "free"}
    /\ \A t \in Threads : pc[t] = "fetch" => stored[t]
    /\ ResultsAreOwn

\* The inductive invariant.
DataBaseInv == TypeOK /\ MutexInv /\ LocksAreBalanced /\ ResultsInv

LEMMA DataBaseInit == Init => DataBaseInv
  BY KindsAssumption, ThreadsAssumption
  DEF Init, DataBaseInv, TypeOK, Places, MutexInv, ResultsInv, ResultsAreOwn, Working,
      LocksAreBalanced

LEMMA DataBaseStep == DataBaseInv /\ [Next]_vars => DataBaseInv'
  <1> SUFFICES ASSUME DataBaseInv, [Next]_vars
               PROVE  DataBaseInv'
    OBVIOUS
  <1> USE ThreadsAssumption, KindsAssumption DEF DataBaseInv
  <1>1. ASSUME NEW t \in Threads, NEW k \in Kinds, Begin(t, k)
        PROVE  DataBaseInv'
    <2>1. TypeOK' /\ MutexInv' /\ ResultsInv'
      BY <1>1 DEF Begin, Goto, TypeOK, Places, MutexInv, ResultsInv, ResultsAreOwn, Working
    <2>2. LocksAreBalanced'
      BY <1>1 DEF Begin, Goto, TypeOK, LocksAreBalanced, Working
    <2> QED
      BY <2>1, <2>2
  <1>2. ASSUME NEW t \in Threads, Lock(t)
        PROVE  DataBaseInv'
    <2>1. TypeOK'
      BY <1>2 DEF Lock, MayLock, Goto, TypeOK, Places
    <2>2. MutexInv'
      BY <1>2 DEF Lock, MayLock, Goto, TypeOK, MutexInv, Working
    <2>3. LocksAreBalanced'
      BY <1>2 DEF Lock, MayLock, Goto, TypeOK, MutexInv, LocksAreBalanced, Working
    <2>4. ResultsInv'
      BY <1>2 DEF Lock, MayLock, Goto, TypeOK, ResultsInv, ResultsAreOwn
    <2> QED
      BY <2>1, <2>2, <2>3, <2>4
  <1>3. ASSUME NEW t \in Threads, QuerySucceeds(t)
        PROVE  DataBaseInv'
    <2>1. TypeOK'
      BY <1>3 DEF QuerySucceeds, Goto, TypeOK, Places
    <2>2. MutexInv' /\ LocksAreBalanced'
      BY <1>3 DEF QuerySucceeds, Goto, TypeOK, MutexInv, LocksAreBalanced, Working
    <2>3. \A u \in Threads \ {t} : ~Working(u)
      BY <1>3 DEF QuerySucceeds, MutexInv, Working
    <2>4. ResultsInv'
      BY <1>3, <2>3 DEF QuerySucceeds, Goto, TypeOK, ResultsInv, ResultsAreOwn, Working
    <2> QED
      BY <2>1, <2>2, <2>4
  <1>4. ASSUME NEW t \in Threads, QueryFails(t)
        PROVE  DataBaseInv'
    <2>1. TypeOK'
      BY <1>4 DEF QueryFails, AfterFailure, Goto, TypeOK, Places
    <2>2. owner = t /\ depth = leaks + 1
      BY <1>4 DEF QueryFails, MutexInv, LocksAreBalanced, Working
    <2>3. MutexInv'
      BY <1>4, <2>2 DEF QueryFails, AfterFailure, Goto, TypeOK, MutexInv, Working
    <2>4. LocksAreBalanced'
      BY <1>4, <2>2 DEF QueryFails, AfterFailure, Goto, TypeOK, MutexInv, LocksAreBalanced,
         Working
    <2>5. ResultsInv'
      BY <1>4 DEF QueryFails, AfterFailure, Goto, TypeOK, MutexInv, ResultsInv,
         ResultsAreOwn, Working
    <2> QED
      BY <2>1, <2>3, <2>4, <2>5
  <1>5. ASSUME NEW t \in Threads, ServerLost(t) \/ FreeGarbage(t)
        PROVE  DataBaseInv'
    BY <1>5 DEF ServerLost, FreeGarbage, TypeOK, MutexInv, LocksAreBalanced, ResultsInv,
       ResultsAreOwn, Working
  <1>6. ASSUME NEW t \in Threads, Fetch(t)
        PROVE  DataBaseInv'
    <2>1. TypeOK' /\ MutexInv' /\ ResultsInv'
      BY <1>6 DEF Fetch, Goto, TypeOK, Places, MutexInv, ResultsInv, ResultsAreOwn, Working
    <2>2. LocksAreBalanced'
      BY <1>6 DEF Fetch, Goto, TypeOK, LocksAreBalanced, Working
    <2> QED
      BY <2>1, <2>2
  <1>7. ASSUME NEW t \in Threads, Free(t)
        PROVE  DataBaseInv'
    <2>1. owner = t /\ depth = leaks + 1
      BY <1>7 DEF Free, MutexInv, LocksAreBalanced, Working
    <2>2. \A u \in Threads \ {t} : ~Working(u)
      BY <2>1 DEF MutexInv
    <2>3. TypeOK'
      BY <1>7, <2>1 DEF Free, Unlock, Goto, TypeOK, Places
    <2>4. MutexInv'
      BY <1>7, <2>1, <2>2 DEF Free, Unlock, Goto, TypeOK, MutexInv, Working
    <2>5. LocksAreBalanced'
      BY <1>7, <2>1, <2>2 DEF Free, Unlock, Goto, TypeOK, LocksAreBalanced, Working
    <2>6. ResultsInv'
      BY <1>7, <2>2 DEF Free, Unlock, Goto, TypeOK, ResultsInv, ResultsAreOwn, Working
    <2> QED
      BY <2>3, <2>4, <2>5, <2>6
  <1>8. CASE UNCHANGED vars
    BY <1>8 DEF vars, TypeOK, MutexInv, LocksAreBalanced, ResultsInv, ResultsAreOwn, Working
  <1> QED
    BY <1>1, <1>2, <1>3, <1>4, <1>5, <1>6, <1>7, <1>8 DEF Next, Step, Exited

\* The strengthening is invariant.
THEOREM DataBaseInvariance == Spec => []DataBaseInv
  BY DataBaseInit, DataBaseStep, PTL DEF Spec

\* Type correctness.
THEOREM DataBaseTypeCorrect == Spec => []TypeOK
  <1>1. DataBaseInv => TypeOK
    BY DEF DataBaseInv
  <1> QED
    BY DataBaseInvariance, <1>1, PTL

\* A thread only ever reads the results of its own statement.
THEOREM ResultsOwn == Spec => []ResultsAreOwn
  <1>1. DataBaseInv => ResultsAreOwn
    BY DEF DataBaseInv, ResultsInv
  <1> QED
    BY DataBaseInvariance, <1>1, PTL

\* No statement is sent before the results of the last one are read.
THEOREM QueriesInSync == Spec => []QueriesAreInSync
  <1>1. DataBaseInv => QueriesAreInSync
    BY ThreadsAssumption
    DEF DataBaseInv, TypeOK, MutexInv, ResultsInv, QueriesAreInSync, Working
  <1> QED
    BY DataBaseInvariance, <1>1, PTL

\* Stored functions that fail are all that leaves the mutex locked, whichever calls the
\* threads make and whatever the server refuses (query and free in db.cpp).
THEOREM LocksBalanced == Spec => []LocksAreBalanced
  <1>1. DataBaseInv => LocksAreBalanced
    BY DEF DataBaseInv
  <1> QED
    BY DataBaseInvariance, <1>1, PTL

\* Until the first of them fails, only a thread inside a call holds the mutex, and holds
\* it once (storedFunctionInt in db.cpp; signup() is one that fails).
THEOREM ReleasedUntilLeaked == Spec => [](leaks = 0 => LockIsReleased)
  <1>1. DataBaseInv => (leaks = 0 => LockIsReleased)
    BY ThreadsAssumption
    DEF DataBaseInv, TypeOK, MutexInv, LocksAreBalanced, LockIsReleased
  <1> QED
    BY DataBaseInvariance, <1>1, PTL
=============================================================================
