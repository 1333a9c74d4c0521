--------------------------- MODULE Lifecycle_proof ---------------------------
(***************************************************************************)
(* Proofs about Lifecycle, for any number of processes: one careful        *)
(* operation at a time is enough for the lock file to keep a second server *)
(* from starting, whatever crashes in between.                             *)
(***************************************************************************)
EXTENDS Lifecycle, TLAPS

\* The operator does one thing at a time.
Careful == Deviations = {}

Up(p) == pc[p] # "off"

\* What the lock file says of the only process there may be.
LockInv ==
    /\ \A p, q \in Procs : Up(p) /\ Up(q) => p = q
    /\ \A p \in Procs : pc[p] = "create" => lock = NoFile /\ seen = NoFile
    /\ \A p \in Procs : pc[p] = "daemonize" => lock = Empty /\ mode[p] = "daemon"
    /\ \A p \in Procs : Up(p) /\ pc[p] \notin {"create", "daemonize"} =>
          lock = IF mode[p] = "daemon" THEN p ELSE Empty

\* What a -k has read holds until it acts: no server starts meanwhile.
SeenInv ==
    /\ seen = Empty => \A p \in Procs : ~Up(p)
    /\ seen \in Procs => \A p \in Procs : Up(p) => p = seen

\* The inductive invariant, for a careful operator.
CarefulInv == TypeOK /\ LockInv /\ SeenInv

-----------------------------------------------------------------------------
LEMMA LifecycleInit == Init => CarefulInv
  BY LifecycleAssumption
  DEF Init, CarefulInv, TypeOK, AllModes, Stages, LockInv, SeenInv, Up

LEMMA TypeStep == TypeOK /\ [Next]_vars => TypeOK'
  <1> SUFFICES ASSUME TypeOK, [Next]_vars
               PROVE  TypeOK'
    OBVIOUS
  <1> USE LifecycleAssumption DEF TypeOK, AllModes, Stages, Goto, Ends
  <1>1. ASSUME NEW p \in Procs, NEW m \in Modes, Launch(p, m)
        PROVE  TypeOK'
    BY <1>1 DEF Launch
  <1>2. ASSUME NEW p \in Procs, CreateLock(p) \/ daemonize(p) \/ InitFails(p)
        PROVE  TypeOK'
    BY <1>2 DEF CreateLock, daemonize, InitFails
  <1>3. ASSUME NEW p \in Procs, InitSucceeds(p) \/ Wait(p)
        PROVE  TypeOK'
    BY <1>3 DEF InitSucceeds, Wait
  <1>4. ASSUME NEW p \in Procs, Join(p) \/ saveChannels(p) \/ deleteChannels(p) \/ CleanUp(p)
        PROVE  TypeOK'
    BY <1>4 DEF Join, saveChannels, deleteChannels, CleanUp
  <1>5. ASSUME NEW p \in Procs, ClientThreads(p)
        PROVE  TypeOK'
    BY <1>5 DEF ClientThreads, Accept, Enter, Leave, Leak, Depart
  <1>6. ASSUME NEW p \in Procs, SpuriousWake(p) \/ ExitCommand(p) \/ ListenersEnd(p)
        PROVE  TypeOK'
    BY <1>6 DEF SpuriousWake, ExitCommand, ListenersEnd
  <1>7. ASSUME NEW p \in Procs, Crash(p) \/ KillSignal(p)
        PROVE  TypeOK'
    <2>1. CASE Crash(p)
      BY <2>1 DEF Crash
    <2>2. CASE KillSignal(p) /\ pc[p] = "off"
      BY <2>2 DEF KillSignal
    <2>3. CASE KillSignal(p) /\ pc[p] # "off" /\ mode[p] = "daemon"
      BY <2>3 DEF KillSignal, child_handler
    <2>4. CASE KillSignal(p) /\ pc[p] # "off" /\ mode[p] # "daemon"
      BY <2>4 DEF KillSignal
    <2> QED
      BY <1>7, <2>1, <2>2, <2>3, <2>4
  <1>8. CASE KillRead \/ KillEmpty
    BY <1>8 DEF KillRead, KillEmpty
  <1>9. CASE UNCHANGED vars
    BY <1>9 DEF vars
  <1> QED
    BY <1>1, <1>2, <1>3, <1>4, <1>5, <1>6, <1>7, <1>8, <1>9 DEF Next, Main

LEMMA CarefulStep ==
    ASSUME Careful
    PROVE  CarefulInv /\ [Next]_vars => CarefulInv'
  <1> SUFFICES ASSUME CarefulInv, [Next]_vars
               PROVE  LockInv' /\ SeenInv'
    BY TypeStep DEF CarefulInv
  <1> USE LifecycleAssumption, Careful DEF Careful, CarefulInv, TypeOK, Stages
  <1>1. ASSUME NEW p \in Procs, NEW m \in Modes, Launch(p, m)
        PROVE  LockInv' /\ SeenInv'
    <2>1. \A q \in Procs : ~Up(q)
      BY <1>1 DEF Launch, Unlocked, LockInv, Up
    <2> QED
      BY <1>1, <2>1 DEF Launch, Unlocked, Goto, LockInv, SeenInv, Up
  <1>2. ASSUME NEW p \in Procs, CreateLock(p) \/ daemonize(p) \/ InitSucceeds(p)
        PROVE  LockInv' /\ SeenInv'
    BY <1>2 DEF CreateLock, daemonize, InitSucceeds, Goto, LockInv, SeenInv, Up
  <1>3. ASSUME NEW p \in Procs, Wait(p) \/ SpuriousWake(p) \/ ExitCommand(p)
        PROVE  LockInv' /\ SeenInv'
    BY <1>3 DEF Wait, SpuriousWake, ExitCommand, Goto, LockInv, SeenInv, Up
  <1>4. ASSUME NEW p \in Procs,
               ListenersEnd(p) \/ Join(p) \/ saveChannels(p) \/ deleteChannels(p)
        PROVE  LockInv' /\ SeenInv'
    BY <1>4 DEF ListenersEnd, Join, saveChannels, deleteChannels, Goto, LockInv, SeenInv, Up
  <1>5. ASSUME NEW p \in Procs, InitFails(p) \/ CleanUp(p) \/ Crash(p)
        PROVE  LockInv' /\ SeenInv'
    BY <1>5 DEF InitFails, CleanUp, Crash, Ends, Goto, LockInv, SeenInv, Up
  <1>6. ASSUME NEW p \in Procs, KillSignal(p)
        PROVE  LockInv' /\ SeenInv'
    BY <1>6 DEF KillSignal, child_handler, Ends, Goto, LockInv, SeenInv, Up
  <1>7. CASE KillRead
    BY <1>7 DEF KillRead, LockInv, SeenInv, Up
  <1>8. CASE KillEmpty
    BY <1>8 DEF KillEmpty, LockInv, SeenInv, Up
  <1>9. ASSUME NEW p \in Procs, ClientThreads(p)
        PROVE  LockInv' /\ SeenInv'
    BY <1>9 DEF ClientThreads, Accept, Enter, Leave, Leak, Depart, LockInv, SeenInv, Up
  <1>10. CASE UNCHANGED vars
    BY <1>10 DEF vars, LockInv, SeenInv, Up
  <1> QED
    BY <1>1, <1>2, <1>3, <1>4, <1>5, <1>6, <1>7, <1>8, <1>9, <1>10 DEF Next, Main

-----------------------------------------------------------------------------
\* The type invariant of Lifecycle, whatever the operator does.
THEOREM LifecycleTypeCorrect == Spec => []TypeOK
  <1>1. Init => TypeOK
    BY LifecycleInit DEF CarefulInv
  <1> QED
    BY <1>1, TypeStep, PTL DEF Spec

\* Two servers never run at once (the lock file of main()), if the operator is
\* careful.
THEOREM OneServerOnly == ASSUME Careful PROVE Spec => []OneServer
  <1>1. CarefulInv => OneServer
    BY DEF CarefulInv, LockInv, OneServer, Owns, Up
  <1> QED
    BY <1>1, LifecycleInit, CarefulStep, PTL DEF Spec

\* A careful operator always reaches the daemon with -k.
THEOREM DaemonsNamed == ASSUME Careful PROVE Spec => []DaemonsAreNamed
  <1>1. CarefulInv => DaemonsAreNamed
    BY DEF CarefulInv, LockInv, DaemonsAreNamed, Owns, Up
  <1> QED
    BY <1>1, LifecycleInit, CarefulStep, PTL DEF Spec
=============================================================================
