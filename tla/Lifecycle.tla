------------------------------ MODULE Lifecycle ------------------------------
(***************************************************************************)
(* The life of a server process (main.cpp): the lock file that lets it     *)
(* start only once, the fork into a daemon, the listeners, the wait for    *)
(* the end, and the order of the shutdown; and `-k`, a second process that *)
(* reads the lock file and sends a signal.  The file system and the        *)
(* condition variable are shared, every other step is one process's own.   *)
(*                                                                         *)
(* What the process serves meanwhile is the subject of the other modules;  *)
(* of it stays what the end waits for: the listeners, the users of         *)
(* channels and the mutex of the data base.  Threads of clients are        *)
(* detached and nobody waits for them.  What may end the process at any    *)
(* time, be it kill -9 or a thread that uses a manager which is gone, is a *)
(* Crash.                                                                  *)
(***************************************************************************)
EXTENDS Naturals

CONSTANTS
    Procs,       \* numbers of processes
    Modes,       \* how servers are started
    Deviations,  \* what the operator does beyond one careful thing at a time
    NoFile,      \* there is no lock file
    Empty        \* the lock file is empty

\* -d; -s without -d; neither.  A -d whose parent is init already is not made a
\* daemon by daemonize() and counts as a -s.
AllModes == {"daemon", "server", "console"}

(***************************************************************************)
(*  - "overlap": a server is started while another one, or a -k, is        *)
(*    between looking at the lock file and acting on it;                   *)
(*  - "blind": -k is used on a running server whose lock file is empty,    *)
(*    as it is unless -d was given;                                        *)
(*  - "early": -k is used on a daemon that is still starting.              *)
(***************************************************************************)
ASSUME LifecycleAssumption ==
    /\ Modes \subseteq AllModes
    /\ Deviations \subseteq {"overlap", "blind", "early"}
    /\ NoFile # Empty
    /\ NoFile \notin Procs /\ Empty \notin Procs

VARIABLES
    lock,        \* the lock file: none, empty, or the number in it
    pc,          \* pc[p]: where main() is
    mode,        \* mode[p]: how it was started
    exit,        \* exit[p]: g_bExit
    listening,   \* listening[p]: some listener thread is running
    serving,     \* serving[p]: threads of clients are running
    chatting,    \* chatting[p]: some user is in a channel
    leaked,      \* leaked[p]: a client keeps the mutex of the data base (db.cpp:443)
    seen         \* what -k has read, NoFile when no -k is at work

vars == <<lock, pc, mode, exit, listening, serving, chatting, leaked, seen>>

\* "create" once no lock file was found; "daemonize" and "init" before these
\* calls; "run" before cvExit.wait or in cmdline(); "wait" in cvExit.wait; "join"
\* before thread.join(); "save" and "delete" in ~ChannelManager; "clean" after it.
Stages == {"off", "create", "daemonize", "init", "run", "wait", "join", "save",
           "delete", "clean"}

TypeOK ==
    /\ lock \in Procs \cup {NoFile, Empty}
    /\ pc \in [Procs -> Stages]
    /\ mode \in [Procs -> AllModes]
    /\ exit \in [Procs -> BOOLEAN]
    /\ listening \in [Procs -> BOOLEAN]
    /\ serving \in [Procs -> BOOLEAN]
    /\ chatting \in [Procs -> BOOLEAN]
    /\ leaked \in [Procs -> BOOLEAN]
    /\ seen \in Procs \cup {NoFile, Empty}

Goto(p, stage) == pc' = [pc EXCEPT ![p] = stage]

\* The process is gone, with its threads and its memory.
Ends(p) ==
    /\ Goto(p, "off")
    /\ exit' = [exit EXCEPT ![p] = FALSE]
    /\ listening' = [listening EXCEPT ![p] = FALSE]
    /\ serving' = [serving EXCEPT ![p] = FALSE]
    /\ chatting' = [chatting EXCEPT ![p] = FALSE]
    /\ leaked' = [leaked EXCEPT ![p] = FALSE]

-----------------------------------------------------------------------------
(* The start.                                                              *)

\* A bug: the lock file is not looked for.
AlwaysUnlocked == TRUE

\* The lock file cannot be opened for reading.
Unlocked == lock = NoFile

Launch(p, m) ==
    /\ pc[p] = "off"
    /\ Unlocked
    /\ \/ "overlap" \in Deviations
       \/ seen = NoFile /\ \A q \in Procs : pc[q] # "create"
    /\ Goto(p, "create")
    /\ mode' = [mode EXCEPT ![p] = m]
    /\ UNCHANGED <<lock, exit, listening, serving, chatting, leaked, seen>>

CreateLock(p) ==
    /\ pc[p] = "create"
    /\ lock' = Empty
    /\ Goto(p, IF mode[p] = "daemon" THEN "daemonize" ELSE "init")
    /\ UNCHANGED <<mode, exit, listening, serving, chatting, leaked, seen>>

\* A bug: the number of the parent, which exits, is written.
daemonizeTooEarly(p) ==
    /\ pc[p] = "daemonize"
    /\ lock' = "parent"
    /\ Goto(p, "init")
    /\ UNCHANGED <<mode, exit, listening, serving, chatting, leaked, seen>>

\* The child writes its number; p is the child.
daemonize(p) ==
    /\ pc[p] = "daemonize"
    /\ lock' = p
    /\ Goto(p, "init")
    /\ UNCHANGED <<mode, exit, listening, serving, chatting, leaked, seen>>

\* DataBase::init or NetworkLibInit fails, the lock file is removed.
InitFails(p) ==
    /\ pc[p] = "init"
    /\ lock' = NoFile
    /\ Ends(p)
    /\ UNCHANGED <<mode, seen>>

\* The data base, the managers and the listeners are there; a listener that cannot open
\* its socket returns at once, and that may be all of them.
InitSucceeds(p) ==
    /\ pc[p] = "init"
    /\ \E some \in BOOLEAN : listening' = [listening EXCEPT ![p] = some]
    /\ Goto(p, "run")
    /\ UNCHANGED <<lock, mode, exit, serving, chatting, leaked, seen>>

-----------------------------------------------------------------------------
(* The clients, each with a thread that nobody joins.                      *)

\* startClient: a listener accepts a connection.
Accept(p) ==
    /\ listening[p]
    /\ serving' = [serving EXCEPT ![p] = TRUE]
    /\ UNCHANGED <<lock, pc, mode, exit, listening, chatting, leaked, seen>>

\* The first user enters a channel, as long as the ChannelManager exists.
Enter(p) ==
    /\ serving[p]
    /\ pc[p] \in {"run", "wait", "join", "save", "delete"}
    /\ chatting' = [chatting EXCEPT ![p] = TRUE]
    /\ UNCHANGED <<lock, pc, mode, exit, listening, serving, leaked, seen>>

\* The last one leaves.
Leave(p) ==
    /\ chatting[p]
    /\ chatting' = [chatting EXCEPT ![p] = FALSE]
    /\ UNCHANGED <<lock, pc, mode, exit, listening, serving, leaked, seen>>

\* A stored function fails, as in every signup; from now on the other threads wait.
Leak(p) ==
    /\ serving[p]
    /\ leaked' = [leaked EXCEPT ![p] = TRUE]
    /\ UNCHANGED <<lock, pc, mode, exit, listening, serving, chatting, seen>>

\* The last client's thread ends.
Depart(p) ==
    /\ serving[p]
    /\ ~chatting[p]
    /\ serving' = [serving EXCEPT ![p] = FALSE]
    /\ UNCHANGED <<lock, pc, mode, exit, listening, chatting, leaked, seen>>

-----------------------------------------------------------------------------
(* The end.                                                                *)

\* cvExit.wait, which does not look at g_bExit.
Wait(p) ==
    /\ pc[p] = "run"
    /\ mode[p] # "console"
    /\ Goto(p, "wait")
    /\ UNCHANGED <<lock, mode, exit, listening, serving, chatting, leaked, seen>>

\* wait() may return although nobody notified it.
SpuriousWake(p) ==
    /\ pc[p] = "wait"
    /\ Goto(p, "join")
    /\ UNCHANGED <<lock, mode, exit, listening, serving, chatting, leaked, seen>>

\* The command "exit" of cmdline().
ExitCommand(p) ==
    /\ pc[p] = "run"
    /\ mode[p] = "console"
    /\ exit' = [exit EXCEPT ![p] = TRUE]
    /\ Goto(p, "join")
    /\ UNCHANGED <<lock, mode, listening, serving, chatting, leaked, seen>>

\* A bug: the waiting thread is not notified.
child_handlerForgets(p) ==
    /\ exit' = [exit EXCEPT ![p] = TRUE]
    /\ UNCHANGED <<pc, listening, serving, chatting, leaked>>

\* SIGUSR2 of a process that has trapped it.
child_handler(p) ==
    /\ exit' = [exit EXCEPT ![p] = TRUE]
    /\ IF pc[p] = "wait" THEN Goto(p, "join") ELSE UNCHANGED pc
    /\ UNCHANGED <<listening, serving, chatting, leaked>>

\* The listeners see g_bExit, a second later at most.
ListenersEnd(p) ==
    /\ listening[p]
    /\ exit[p]
    /\ listening' = [listening EXCEPT ![p] = FALSE]
    /\ UNCHANGED <<lock, pc, mode, exit, serving, chatting, leaked, seen>>

Join(p) ==
    /\ pc[p] = "join"
    /\ ~listening[p]
    /\ Goto(p, "save")
    /\ UNCHANGED <<lock, mode, exit, listening, serving, chatting, leaked, seen>>

\* The GameManager is deleted; ~ChannelManager stores every channel in the data base.
saveChannels(p) ==
    /\ pc[p] = "save"
    /\ ~leaked[p]
    /\ Goto(p, "delete")
    /\ UNCHANGED <<lock, mode, exit, listening, serving, chatting, leaked, seen>>

\* Then it deletes them.  The destructor of a channel kicks its users until there is
\* none; out of the default channel they come back to it, so that it ends once they
\* have left of themselves.
deleteChannels(p) ==
    /\ pc[p] = "delete"
    /\ ~chatting[p]
    /\ Goto(p, "clean")
    /\ UNCHANGED <<lock, mode, exit, listening, serving, chatting, leaked, seen>>

\* The destructor of the guard deletes the Server and, last, the lock file.
CleanUp(p) ==
    /\ pc[p] = "clean"
    /\ lock' = NoFile
    /\ Ends(p)
    /\ UNCHANGED <<mode, seen>>

\* The process dies, or daemonize() exits: the lock file stays.
Crash(p) ==
    /\ pc[p] # "off"
    /\ Ends(p)
    /\ UNCHANGED <<lock, mode, seen>>

-----------------------------------------------------------------------------
(* -k, trytokill().                                                        *)

KillRead ==
    /\ seen = NoFile
    /\ lock = Empty => "blind" \in Deviations \/ \A p \in Procs : pc[p] = "off"
    /\ lock \in Procs => "early" \in Deviations \/ pc[lock] \notin {"init", "run"}
    /\ seen' = lock
    /\ UNCHANGED <<lock, pc, mode, exit, listening, serving, chatting, leaked>>

\* "The lockfile is empty! Just deleting it."
KillEmpty ==
    /\ seen = Empty
    /\ lock' = NoFile
    /\ seen' = NoFile
    /\ UNCHANGED <<pc, mode, exit, listening, serving, chatting, leaked>>

\* A bug: the lock file is removed whether the process was found or not.
KillSignalRemoves(p) ==
    /\ seen = p
    /\ lock' = NoFile
    /\ IF pc[p] = "off" THEN UNCHANGED <<pc, exit, listening, serving, chatting, leaked>>
       ELSE IF mode[p] = "daemon" THEN child_handler(p) ELSE Ends(p)
    /\ seen' = NoFile
    /\ UNCHANGED mode

\* kill(pid, SIGUSR2), by which a process that has not trapped it dies; the lock
\* file is removed when there is no such process.
KillSignal(p) ==
    /\ seen = p
    /\ IF pc[p] = "off"
       THEN lock' = NoFile /\ UNCHANGED <<pc, exit, listening, serving, chatting, leaked>>
       ELSE /\ IF mode[p] = "daemon" THEN child_handler(p) ELSE Ends(p)
            /\ UNCHANGED lock
    /\ seen' = NoFile
    /\ UNCHANGED mode

-----------------------------------------------------------------------------
Init ==
    /\ lock = NoFile
    /\ pc = [p \in Procs |-> "off"]
    /\ mode \in [Procs -> {"console"}]
    /\ exit = [p \in Procs |-> FALSE]
    /\ listening = [p \in Procs |-> FALSE]
    /\ serving = [p \in Procs |-> FALSE]
    /\ chatting = [p \in Procs |-> FALSE]
    /\ leaked = [p \in Procs |-> FALSE]
    /\ seen = NoFile

\* What main() does of itself.
Main(p) ==
    \/ CreateLock(p) \/ daemonize(p) \/ InitFails(p) \/ InitSucceeds(p) \/ Wait(p)
    \/ Join(p) \/ saveChannels(p) \/ deleteChannels(p) \/ CleanUp(p)

ClientThreads(p) == Accept(p) \/ Enter(p) \/ Leave(p) \/ Leak(p) \/ Depart(p)

Next ==
    \/ \E p \in Procs, m \in Modes : Launch(p, m)
    \/ \E p \in Procs : Main(p)
    \/ \E p \in Procs : ClientThreads(p)
    \/ \E p \in Procs : SpuriousWake(p) \/ ExitCommand(p)
    \/ \E p \in Procs : ListenersEnd(p) \/ Crash(p)
    \/ \E p \in Procs : KillSignal(p)
    \/ KillRead
    \/ KillEmpty

Spec == Init /\ [][Next]_vars

\* Threads are scheduled: main() goes on, and listeners come back to their test of
\* g_bExit after a second.  Nothing is assumed of clients.
Fairness == \A p \in Procs : WF_vars(ListenersEnd(p)) /\ WF_vars(Main(p))

FairSpec == Spec /\ Fairness

-----------------------------------------------------------------------------
(* Properties.                                                             *)

\* The lock file is this server's.
Owns(p) == pc[p] \notin {"off", "create"}

\* Two servers never run at once ("Lockfile checking to start only once",
\* main.cpp:163).
OneServer == \A p, q \in Procs : Owns(p) /\ Owns(q) => p = q

\* As long as a daemon runs the lock file holds its number, whatever other
\* processes did to the file, so that -k finds it.
DaemonsAreNamed ==
    \A p \in Procs :
        Owns(p) /\ mode[p] = "daemon" /\ pc[p] # "daemonize" => lock = p

\* A server that was told to exit does, also when it woke up for no reason before,
\* unless a client keeps the data base for ever, in which ~ChannelManager stores the
\* channels, or users keep coming to the default channel, which its destructor kicks
\* into the default channel (channel.cpp:33).
StopIsHeard ==
    \A p \in Procs :
        exit[p] ~> (pc[p] = "off" \/ leaked[p] \/ []<>(pc[p] = "delete" /\ chatting[p]))
=============================================================================
