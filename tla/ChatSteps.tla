------------------------------ MODULE ChatSteps ------------------------------
(***************************************************************************)
(* The chat handlers as the threads of several clients run them, cut into  *)
(* the steps between which another thread may come in.  Chat says what a   *)
(* handler does; this module says what is left of it when handlers overlap. *)
(*                                                                         *)
(* Three kinds of mutex protect the objects: that of the ChannelManager,   *)
(* one per Channel, that of the DataBase.  A section that locks one mutex  *)
(* and unlocks it again is one step.  Pointers to channels and clients are *)
(* kept across such sections, and a pointer may outlive its object: a      *)
(* thread that follows it then is undefined behaviour, and the process is  *)
(* taken to die of it.                                                     *)
(*                                                                         *)
(* A thread in which a stored function fails keeps the mutex of the data   *)
(* base: storedFunctionInt returns without free() (db.cpp:443).  Any call  *)
(* of one may fail here, and signup, which calls one that does not exist,  *)
(* always does.                                                            *)
(*                                                                         *)
(* A client is one user here, as Sessions shows that a user has one session *)
(* at a time.  Who is operator and what mottos say is left open.           *)
(***************************************************************************)
EXTENDS Integers, FiniteSets

CONSTANTS
    Clients,     \* Client objects with their threads; an object is used again
    Addrs,       \* addresses of Channel objects
    Names,       \* names of channels
    Default,     \* DSRV_DEFAULT_CHANNEL_NAME
    SystemNames, \* the channels that every start makes sure of
    System,      \* DSRV_DEFAULT_CHANNEL_ADMIN and DSRV_DEVS_CHANNEL_ADMIN
    MaxChans,    \* DSRV_MAX_CHANS_PER_USER
    NoClient,    \* a mutex that is free
    Ended,       \* a thread that ended with the mutex of the data base locked
    NoAddr,      \* a null pointer to a Channel
    NoName,      \* no name is kept
    Freed        \* there is no object at this address

ASSUME StepsAssumption ==
    /\ Default \in SystemNames
    /\ SystemNames \subseteq Names
    /\ System \notin Clients
    /\ NoClient \notin Clients
    /\ Ended \notin Clients \cup {NoClient}
    /\ NoAddr \notin Addrs
    /\ MaxChans \in Nat

ASSUME AddrsAssumption == IsFiniteSet(Addrs)

VARIABLES
    listed,      \* m_lpChannels of the ChannelManager
    chans,       \* chans[a]: the Channel at this address
    myChannel,   \* myChannel[c]: m_pMyChannel
    alive,       \* the Client objects that exist
    manager,     \* who holds the mutex of the ChannelManager
    mutex,       \* mutex[a]: who holds the mutex of the Channel
    db,          \* who holds the mutex of the DataBase
    leaked,      \* whether its holder locked it once more than it unlocks it
    pc,          \* pc[c]: where the thread is
    found,       \* found[c]: the channel its handler works on
    at,          \* at[c]: the channel its join() or quit() was called on
    held,        \* held[c]: pointers to clients it keeps outside of a mutex
    wanted,      \* wanted[c]: the name of a channel to create
    dead,        \* "no", or what the process died of: "null", "freed"
    torn         \* clients of which two handlers were at work at once

objects == <<listed, chans, myChannel, alive>>
locks == <<manager, mutex, db, leaked>>
locals == <<pc, found, at, held, wanted>>
vars == <<listed, chans, myChannel, alive, manager, mutex, db, leaked,
          pc, found, at, held, wanted, dead, torn>>

\* stored: m_iID >= 0, so that destroyDB asks the data base.
Channel == [name : Names, admin : Clients \cup {System}, users : SUBSET Clients,
            stored : BOOLEAN]

ASSUME FreedAssumption == Freed \notin Channel

JoinStages == {"count", "create", "leave", "part", "unset", "enter", "set",
               "locate"}
SaveStages == {"modify", "save", "query", "stored"}
KickStages == {"kick", "expel", "strip", "lobby", "admit", "place", "tell"}
DestroyStages == {"remove", "ask", "answered", "drop", "purge"}
OtherStages == {"idle", "whisper", "list", "names", "quit", "bye", "gone"}
Stages == JoinStages \cup SaveStages \cup KickStages \cup DestroyStages \cup OtherStages

TypeOK ==
    /\ listed \in SUBSET Addrs
    /\ chans \in [Addrs -> Channel \cup {Freed}]
    /\ myChannel \in [Clients -> Addrs \cup {NoAddr}]
    /\ alive \in SUBSET Clients
    /\ manager \in Clients \cup {NoClient}
    /\ mutex \in [Addrs -> Clients \cup {NoClient}]
    /\ db \in Clients \cup {NoClient, Ended}
    /\ leaked \in BOOLEAN
    /\ pc \in [Clients -> Stages]
    /\ found \in [Clients -> Addrs \cup {NoAddr}]
    /\ at \in [Clients -> Addrs \cup {NoAddr}]
    /\ held \in [Clients -> SUBSET Clients]
    /\ wanted \in [Clients -> Names \cup {NoName}]
    /\ dead \in {"no", "null", "freed"}
    /\ torn \in SUBSET Clients

-----------------------------------------------------------------------------
(* Steps in general.                                                       *)

Runs(c, stage) == dead = "no" /\ pc[c] = stage

Goto(c, stage) == pc' = [pc EXCEPT ![c] = stage]

\* The handler returns, its local variables are gone.
Return(c) ==
    /\ Goto(c, "idle")
    /\ found' = [found EXCEPT ![c] = NoAddr]
    /\ at' = [at EXCEPT ![c] = NoAddr]
    /\ held' = [held EXCEPT ![c] = {}]
    /\ wanted' = [wanted EXCEPT ![c] = NoName]

Dies(how) == dead' = how /\ UNCHANGED <<objects, locks, locals>>

\* A client that is served and works on no packet.
Ready(c) == Runs(c, "idle") /\ c \in alive

Live(a) == chans[a] # Freed

\* The mutex of the manager is recursive: its holder may lock it again.
ManagerFree(c) == manager \in {NoClient, c}

\* So is that of the data base.
DataBaseFree(c) == db \in {NoClient, c}

\* free(): the mutex stays locked for others if it was locked once more.
Unlocks == db' = (IF leaked THEN db ELSE NoClient) /\ UNCHANGED leaked

\* A stored function fails, and nobody calls free().
Leaks == leaked' = TRUE /\ UNCHANGED db

\* The channels that findChannel may return: the first one of that name.
Named(n) == {a \in listed : chans[a].name = n}

Owned(c) == {a \in listed : chans[a].admin = c}

SetUsers(a, S) == chans' = [chans EXCEPT ![a] = [@ EXCEPT !.users = S]]

\* The section of a thread that follows a pointer to the channel a, locks it, and
\* calls all its users: it goes on as Section says, once the mutex is free.
InLock(a, Section) ==
    IF ~Live(a) THEN Dies("freed")
    ELSE /\ mutex[a] = NoClient
         /\ IF chans[a].users \subseteq alive THEN Section ELSE Dies("freed")

-----------------------------------------------------------------------------
(* onChatJoin.                                                             *)

\* findChannel.
onChatJoin(c, n) ==
    /\ Ready(c)
    /\ ManagerFree(c)
    /\ IF Named(n) = {}
       THEN Goto(c, "count") /\ wanted' = [wanted EXCEPT ![c] = n] /\ UNCHANGED found
       ELSE /\ Goto(c, "leave")
            /\ \E a \in Named(n) : found' = [found EXCEPT ![c] = a]
            /\ UNCHANGED wanted
    /\ UNCHANGED <<objects, locks, at, held, dead>>

\* A bug: the user may have one channel more.
countUserChannelsOneMore(c) ==
    /\ Runs(c, "count")
    /\ ManagerFree(c)
    /\ IF Cardinality(Owned(c)) <= MaxChans
       THEN Goto(c, "create") /\ UNCHANGED wanted
       ELSE Goto(c, "quit") /\ wanted' = [wanted EXCEPT ![c] = NoName]
    /\ UNCHANGED <<objects, locks, found, at, held, dead>>

\* countUserChannels, which createChannel calls before it locks the mutex; with
\* the answer -100 the connection is closed.
countUserChannels(c) ==
    /\ Runs(c, "count")
    /\ ManagerFree(c)
    /\ IF Cardinality(Owned(c)) < MaxChans
       THEN Goto(c, "create") /\ UNCHANGED wanted
       ELSE Goto(c, "quit") /\ wanted' = [wanted EXCEPT ![c] = NoName]
    /\ UNCHANGED <<objects, locks, found, at, held, dead>>

\* A bug: the nickname of the creator is not in the new channel.
createChannelOfNobody(c) ==
    /\ Runs(c, "create")
    /\ manager = NoClient
    /\ \E a \in Addrs :
        /\ ~Live(a)
        /\ chans' = [chans EXCEPT ![a] = [name |-> wanted[c], admin |-> NoClient,
                                          users |-> {}, stored |-> FALSE]]
        /\ listed' = listed \cup {a}
        /\ mutex' = [mutex EXCEPT ![a] = NoClient]
        /\ found' = [found EXCEPT ![c] = a]
    /\ manager' = c
    /\ wanted' = [wanted EXCEPT ![c] = NoName]
    /\ Goto(c, "save")
    /\ UNCHANGED <<myChannel, alive, db, leaked, at, held, dead>>

\* The rest of createChannel, up to its call of save(), under the mutex.
createChannel(c) ==
    /\ Runs(c, "create")
    /\ manager = NoClient
    /\ \E a \in Addrs :
        /\ ~Live(a)
        /\ chans' = [chans EXCEPT ![a] = [name |-> wanted[c], admin |-> c,
                                          users |-> {}, stored |-> FALSE]]
        /\ listed' = listed \cup {a}
        /\ mutex' = [mutex EXCEPT ![a] = NoClient]
        /\ found' = [found EXCEPT ![c] = a]
    /\ manager' = c
    /\ wanted' = [wanted EXCEPT ![c] = NoName]
    /\ Goto(c, "save")
    /\ UNCHANGED <<myChannel, alive, db, leaked, at, held, dead>>

\* onChatJoin reads m_pMyChannel.
leave(c) ==
    /\ Runs(c, "leave")
    /\ at' = [at EXCEPT ![c] = myChannel[c]]
    /\ Goto(c, IF myChannel[c] = NoAddr THEN "enter" ELSE "part")
    /\ UNCHANGED <<objects, locks, found, held, wanted, dead>>

\* Channel::quit of the old channel, up to the end of its locked section.
part(c) ==
    /\ Runs(c, "part")
    /\ InLock(at[c], /\ SetUsers(at[c], chans[at[c]].users \ {c})
                     /\ Goto(c, "unset")
                     /\ UNCHANGED <<listed, myChannel, alive, locks,
                                    found, at, held, wanted, dead>>)

\* Its setMyChannel(nullptr).
unset(c) ==
    /\ Runs(c, "unset")
    /\ myChannel' = [myChannel EXCEPT ![c] = NoAddr]
    /\ at' = [at EXCEPT ![c] = NoAddr]
    /\ Goto(c, "enter")
    /\ UNCHANGED <<listed, chans, alive, locks, found, held, wanted, dead>>

\* Channel::join, up to the end of its locked section.
enter(c) ==
    /\ Runs(c, "enter")
    /\ InLock(found[c], /\ SetUsers(found[c], chans[found[c]].users \cup {c})
                        /\ Goto(c, "set")
                        /\ UNCHANGED <<listed, myChannel, alive, locks,
                                       found, at, held, wanted, dead>>)

\* Its setMyChannel(this).
set(c) ==
    /\ Runs(c, "set")
    /\ myChannel' = [myChannel EXCEPT ![c] = found[c]]
    /\ found' = [found EXCEPT ![c] = NoAddr]
    /\ Goto(c, "locate")
    /\ UNCHANGED <<listed, chans, alive, locks, at, held, wanted, dead>>

\* updateLocation, which locks the data base and unlocks it again.
locate(c) ==
    /\ Runs(c, "locate")
    /\ DataBaseFree(c)
    /\ Return(c)
    /\ UNCHANGED <<objects, locks, dead>>

-----------------------------------------------------------------------------
(* onChatMottoSet, onChatOp, onChatDeop, onChatSend; and save().           *)

\* m_pMyChannel is read; the handlers of a client in no channel answer at once.
Speak(c) ==
    /\ Ready(c)
    /\ myChannel[c] # NoAddr
    /\ found' = [found EXCEPT ![c] = myChannel[c]]
    /\ Goto(c, "modify")
    /\ UNCHANGED <<objects, locks, at, held, wanted, dead>>

\* The locked section: a change that is saved, or a refusal or a message that is
\* not.
modify(c) ==
    /\ Runs(c, "modify")
    /\ InLock(found[c], /\ \/ Goto(c, "save") /\ UNCHANGED <<found, at, held, wanted>>
                           \/ Return(c)
                        /\ UNCHANGED <<objects, locks, dead>>)

\* Channel::save locks the channel ...
save(c) ==
    /\ Runs(c, "save")
    /\ IF ~Live(found[c]) THEN Dies("freed")
       ELSE /\ mutex[found[c]] = NoClient
            /\ mutex' = [mutex EXCEPT ![found[c]] = c]
            /\ Goto(c, "query")
            /\ UNCHANGED <<objects, manager, db, leaked, found, at, held, wanted, dead>>

\* ... and, with the channel locked, the data base.
query(c) ==
    /\ Runs(c, "query")
    /\ IF ~Live(found[c]) THEN Dies("freed")
       ELSE /\ DataBaseFree(c)
            /\ db' = c
            /\ Goto(c, "stored")
            /\ UNCHANGED <<objects, manager, mutex, leaked, found, at, held, wanted, dead>>

\* The statement is done, or was a stored function that failed.  Another one follows
\* for every operator, or it is the end of save(), and for a new channel that of
\* createChannel.
stored(c) ==
    /\ Runs(c, "stored")
    /\ IF ~Live(found[c]) THEN Dies("freed")
       ELSE /\ Unlocks \/ Leaks
            /\ \/ Goto(c, "query") /\ UNCHANGED <<manager, mutex, found, at, held, wanted>>
               \/ /\ mutex' = [mutex EXCEPT ![found[c]] = NoClient]
                  /\ IF manager = c
                     THEN /\ manager' = NoClient
                          /\ Goto(c, "leave")
                          /\ UNCHANGED <<found, at, held, wanted>>
                     ELSE Return(c) /\ UNCHANGED manager
            /\ UNCHANGED <<objects, dead>>

-----------------------------------------------------------------------------
(* kick, called by onChatKick and by the destructor of a channel.          *)

onChatKick(c) ==
    /\ Ready(c)
    /\ myChannel[c] # NoAddr
    /\ found' = [found EXCEPT ![c] = myChannel[c]]
    /\ Goto(c, "kick")
    /\ UNCHANGED <<objects, locks, at, held, wanted, dead>>

\* A bug: the mutex of the channel is held from here on.
kickLocked(c) ==
    /\ Runs(c, "kick")
    /\ InLock(found[c],
        /\ \/ Return(c) /\ UNCHANGED locks
           \/ /\ \E d \in chans[found[c]].users \ {chans[found[c]].admin} :
                    held' = [held EXCEPT ![c] = {d}]
              /\ mutex' = [mutex EXCEPT ![found[c]] = c]
              /\ Goto(c, "lobby")
              /\ UNCHANGED <<manager, db, leaked, found, at, wanted>>
        /\ UNCHANGED <<objects, dead>>)

\* The checks of the rights, and getUserIfPresent.
kick(c) ==
    /\ Runs(c, "kick")
    /\ InLock(found[c],
        /\ \/ Return(c)
           \/ /\ \E d \in chans[found[c]].users \ {chans[found[c]].admin} :
                    held' = [held EXCEPT ![c] = {d}]
              /\ Goto(c, "expel")
              /\ UNCHANGED <<found, at, wanted>>
        /\ UNCHANGED <<objects, locks, dead>>)

\* d is the client that this thread kicks; every step from here on follows the
\* pointer to it ...
Kicks(c, d) == d \in held[c] /\ d \in alive

\* ... which may have ended since.
KicksNobody(c) ==
    /\ dead = "no"
    /\ pc[c] \in {"expel", "strip", "admit", "place", "tell"}
    /\ ~ held[c] \subseteq alive
    /\ Dies("freed")

\* quit(pKicked), up to the end of its locked section.
expel(c, d) ==
    /\ Runs(c, "expel")
    /\ Kicks(c, d)
    /\ InLock(found[c], /\ SetUsers(found[c], chans[found[c]].users \ {d})
                        /\ Goto(c, "strip")
                        /\ UNCHANGED <<listed, myChannel, alive, locks,
                                       found, at, held, wanted, dead>>)

\* Its setMyChannel(nullptr).
strip(c, d) ==
    /\ Runs(c, "strip")
    /\ Kicks(c, d)
    /\ myChannel' = [myChannel EXCEPT ![d] = NoAddr]
    /\ Goto(c, "lobby")
    /\ UNCHANGED <<listed, chans, alive, locks, found, at, held, wanted, dead>>

\* getDefaultChannel; join is called on its answer, which may be null.
lobby(c) ==
    /\ Runs(c, "lobby")
    /\ ManagerFree(c)
    /\ IF Named(Default) = {} THEN Dies("null")
       ELSE /\ \E a \in Named(Default) : at' = [at EXCEPT ![c] = a]
            /\ Goto(c, "admit")
            /\ UNCHANGED <<objects, locks, found, held, wanted, dead>>

\* join(pKicked), up to the end of its locked section.
admit(c, d) ==
    /\ Runs(c, "admit")
    /\ Kicks(c, d)
    /\ InLock(at[c], /\ SetUsers(at[c], chans[at[c]].users \cup {d})
                     /\ Goto(c, "place")
                     /\ UNCHANGED <<listed, myChannel, alive, locks,
                                    found, at, held, wanted, dead>>)

\* A bug: the pointer of the client that is kicked is not set.
placeNowhere(c, d) ==
    /\ Runs(c, "place")
    /\ Kicks(c, d)
    /\ Goto(c, "tell")
    /\ UNCHANGED <<objects, locks, found, at, held, wanted, dead>>

\* Its setMyChannel(this).
place(c, d) ==
    /\ Runs(c, "place")
    /\ Kicks(c, d)
    /\ myChannel' = [myChannel EXCEPT ![d] = at[c]]
    /\ Goto(c, "tell")
    /\ UNCHANGED <<listed, chans, alive, locks, found, at, held, wanted, dead>>

\* The packets to the kicked client and to the channel; the destructor goes on.
tell(c, d) ==
    /\ Runs(c, "tell")
    /\ Kicks(c, d)
    /\ InLock(found[c], /\ IF manager = c
                           THEN /\ Goto(c, "purge")
                                /\ at' = [at EXCEPT ![c] = NoAddr]
                                /\ held' = [held EXCEPT ![c] = {}]
                                /\ UNCHANGED <<found, wanted>>
                           ELSE Return(c)
                        /\ UNCHANGED <<objects, locks, dead>>)

-----------------------------------------------------------------------------
(* onChatDestroyChan.                                                      *)

\* findChannel finds a channel of that name.
onChatDestroyChan(c, n) ==
    /\ Ready(c)
    /\ ManagerFree(c)
    /\ \E a \in Named(n) : found' = [found EXCEPT ![c] = a]
    /\ Goto(c, "remove")
    /\ UNCHANGED <<objects, locks, at, held, wanted, dead>>

\* removeChannel locks the manager and looks for the pointer; the answer -1.
removeNothing(c) ==
    /\ Runs(c, "remove")
    /\ ManagerFree(c)
    /\ found[c] \notin listed
    /\ Return(c)
    /\ UNCHANGED <<objects, locks, dead>>

removeChannel(c) ==
    /\ Runs(c, "remove")
    /\ manager = NoClient
    /\ found[c] \in listed
    /\ manager' = c
    /\ Goto(c, IF chans[found[c]].stored THEN "ask" ELSE "drop")
    /\ UNCHANGED <<objects, mutex, db, leaked, found, at, held, wanted, dead>>

\* destroyDB of a channel with an ID asks the data base, with the manager locked.
ask(c) ==
    /\ Runs(c, "ask")
    /\ DataBaseFree(c)
    /\ db' = c
    /\ Goto(c, "answered")
    /\ UNCHANGED <<objects, manager, mutex, leaked, found, at, held, wanted, dead>>

\* ERR_OK; or no rights to destroy it, or the stored function failed.
answered(c) ==
    /\ Runs(c, "answered")
    /\ \/ /\ Unlocks
          /\ Goto(c, "drop")
          /\ UNCHANGED <<manager, found, at, held, wanted>>
       \/ /\ Unlocks \/ Leaks
          /\ manager' = NoClient
          /\ Return(c)
    /\ UNCHANGED <<objects, mutex, dead>>

\* A bug: the channel stays in the list.
dropNot(c) ==
    /\ Runs(c, "drop")
    /\ Goto(c, "purge")
    /\ UNCHANGED <<objects, locks, found, at, held, wanted, dead>>

\* The channel leaves the list of the manager ...
drop(c) ==
    /\ Runs(c, "drop")
    /\ listed' = listed \ {found[c]}
    /\ Goto(c, "purge")
    /\ UNCHANGED <<chans, myChannel, alive, locks, found, at, held, wanted, dead>>

\* ... its destructor kicks the first user, if there is one ...
purge(c) ==
    /\ Runs(c, "purge")
    /\ chans[found[c]].users # {}
    /\ InLock(found[c], /\ \E d \in chans[found[c]].users : held' = [held EXCEPT ![c] = {d}]
                        /\ Goto(c, "expel")
                        /\ UNCHANGED <<objects, locks, found, at, wanted, dead>>)

\* ... and is done when there is none; the object is gone.
destroy(c) ==
    /\ Runs(c, "purge")
    /\ chans[found[c]].users = {}
    /\ chans' = [chans EXCEPT ![found[c]] = Freed]
    /\ manager' = NoClient
    /\ Return(c)
    /\ UNCHANGED <<listed, myChannel, alive, mutex, db, leaked, dead>>

-----------------------------------------------------------------------------
(* The other handlers, and the life of a client.                           *)

\* onChatSend of a whisper: ClientsManager::find.
onChatSend(c, d) ==
    /\ Ready(c)
    /\ d \in alive \ {c}
    /\ held' = [held EXCEPT ![c] = {d}]
    /\ Goto(c, "whisper")
    /\ UNCHANGED <<objects, locks, found, at, wanted, dead>>

\* Follows the pointers it kept: those of a whisper or of a list of users.
Follow(c) ==
    /\ pc[c] \in {"whisper", "names"}
    /\ dead = "no"
    /\ IF held[c] \subseteq alive
       THEN Return(c) /\ UNCHANGED <<objects, locks, dead>>
       ELSE Dies("freed")

\* onChatList follows m_pMyChannel also when it is null.
onChatList(c) ==
    /\ Ready(c)
    /\ IF myChannel[c] = NoAddr THEN Dies("null")
       ELSE /\ found' = [found EXCEPT ![c] = myChannel[c]]
            /\ Goto(c, "list")
            /\ UNCHANGED <<objects, locks, at, held, wanted, dead>>

\* getUsers copies the list without a mutex.
getUsers(c) ==
    /\ Runs(c, "list")
    /\ IF ~Live(found[c]) THEN Dies("freed")
       ELSE /\ held' = [held EXCEPT ![c] = chans[found[c]].users]
            /\ found' = [found EXCEPT ![c] = NoAddr]
            /\ Goto(c, "names")
            /\ UNCHANGED <<objects, locks, at, wanted, dead>>

\* A client that is not logged in signs up: the stored function fails, and the thread
\* holds the mutex until it ends, and for ever if it ends.  A login whose stored
\* function fails ends the thread.
onSignup(c) ==
    /\ Runs(c, "idle")
    /\ c \notin alive
    /\ DataBaseFree(c)
    /\ db' \in {c, Ended}
    /\ leaked' = TRUE
    /\ UNCHANGED <<objects, manager, mutex, locals, dead>>

\* A listener has accepted a connection, and its client has logged in.
Arrive(c) ==
    /\ Runs(c, "idle")
    /\ c \notin alive
    /\ DataBaseFree(c)
    /\ alive' = alive \cup {c}
    /\ myChannel' = [myChannel EXCEPT ![c] = NoAddr]
    /\ UNCHANGED <<listed, chans, locks, locals, dead>>

\* run() leaves its loop.
Drop(c) ==
    /\ Ready(c)
    /\ Goto(c, "quit")
    /\ UNCHANGED <<objects, locks, found, at, held, wanted, dead>>

\* A bug: the client does not leave its channel.
quitStays(c) ==
    /\ Runs(c, "quit")
    /\ at' = [at EXCEPT ![c] = myChannel[c]]
    /\ Goto(c, "gone")
    /\ UNCHANGED <<objects, locks, found, held, wanted, dead>>

\* quit() reads m_pMyChannel.
quit(c) ==
    /\ Runs(c, "quit")
    /\ at' = [at EXCEPT ![c] = myChannel[c]]
    /\ Goto(c, IF myChannel[c] = NoAddr THEN "gone" ELSE "bye")
    /\ UNCHANGED <<objects, locks, found, held, wanted, dead>>

\* Channel::quit, up to the end of its locked section.
bye(c) ==
    /\ Runs(c, "bye")
    /\ InLock(at[c], /\ SetUsers(at[c], chans[at[c]].users \ {c})
                     /\ Goto(c, "gone")
                     /\ UNCHANGED <<listed, myChannel, alive, locks,
                                    found, at, held, wanted, dead>>)

\* The rest of quit(), which asks the data base to disconnect the user, and starter()
\* deletes the Client.  A mutex that was leaked stays locked by nobody.
gone(c) ==
    /\ Runs(c, "gone")
    /\ DataBaseFree(c)
    /\ \/ ~leaked /\ UNCHANGED <<db, leaked>>
       \/ db' = Ended /\ leaked' = TRUE
    /\ alive' = alive \ {c}
    /\ myChannel' = [myChannel EXCEPT ![c] = NoAddr]
    /\ Return(c)
    /\ UNCHANGED <<listed, chans, manager, mutex, dead>>

-----------------------------------------------------------------------------
(* Overlapping handlers.                                                   *)

Ending(d) == pc[d] \in {"bye", "gone"}

\* The thread of s is in the middle of changing where the client d is.
Changes(s, d) ==
    \/ s = d /\ (pc[s] \in {"part", "unset", "enter", "set"} \/ Ending(s))
    \/ d \in held[s] /\ pc[s] \in KickStages

\* The thread of s destroys the channel a; the thread of s will follow a pointer to
\* a, or is about to record one.
Destroys(s, a) == found[s] = a /\ manager = s /\ a \notin listed

Visits(s, a) ==
    \/ at[s] = a
    \/ found[s] = a /\ manager # s /\ pc[s] # "remove"

\* Two threads move d at once, or one deletes d while another points to it, or d
\* is on its way into or out of a channel that is destroyed.
Overlap ==
    {d \in Clients :
        \/ \E s, t \in Clients : s # t /\ Changes(s, d) /\ Changes(t, d)
        \/ Ending(d) /\ \E s \in Clients \ {d} : d \in held[s]
        \/ \E s, t \in Clients, a \in Addrs :
              s # t /\ Destroys(s, a) /\ Visits(t, a) /\ (d = t \/ d \in held[t])}

-----------------------------------------------------------------------------
\* What ChannelManager::init may find or make: the system channels, in the table or
\* not, and any channels of users, in the table.
AtStart ==
    [name : SystemNames, admin : {System}, users : {{}}, stored : BOOLEAN]
        \cup [name : Names \ SystemNames, admin : Clients, users : {{}}, stored : {TRUE}]

\* Nobody is there, and every system channel is, and channels have different names.
Fresh(L, ch, my, al, mg, mu, d, le, p, f, a, h, w, de, to) ==
    /\ \E start \in [Addrs -> AtStart \cup {Freed}] :
        /\ L = {x \in Addrs : start[x] # Freed}
        /\ ch = start
        /\ \A n \in SystemNames : \E x \in Addrs : start[x] # Freed /\ start[x].name = n
        /\ \A x, y \in Addrs :
              start[x] # Freed /\ start[y] # Freed /\ start[x].name = start[y].name => x = y
    /\ my = [c \in Clients |-> NoAddr]
    /\ al = {}
    /\ mg = NoClient
    /\ mu = [y \in Addrs |-> NoClient]
    /\ d = NoClient
    /\ le = FALSE
    /\ p = [c \in Clients |-> "idle"]
    /\ f = [c \in Clients |-> NoAddr]
    /\ a = [c \in Clients |-> NoAddr]
    /\ h = [c \in Clients |-> {}]
    /\ w = [c \in Clients |-> NoName]
    /\ de = "no"
    /\ to = {}

Init == Fresh(listed, chans, myChannel, alive, manager, mutex, db, leaked,
              pc, found, at, held, wanted, dead, torn)

Restart ==
    /\ dead # "no"
    /\ Fresh(listed', chans', myChannel', alive', manager', mutex', db', leaked',
             pc', found', at', held', wanted', dead', torn')

JoinSteps(c) ==
    \/ \E n \in Names : onChatJoin(c, n)
    \/ countUserChannels(c) \/ createChannel(c)
    \/ leave(c) \/ part(c) \/ unset(c) \/ enter(c) \/ set(c) \/ locate(c)

SaveSteps(c) == Speak(c) \/ modify(c) \/ save(c) \/ query(c) \/ stored(c)

KickSteps(c) ==
    \/ onChatKick(c) \/ kick(c) \/ KicksNobody(c) \/ lobby(c)
    \/ \E d \in Clients :
          expel(c, d) \/ strip(c, d) \/ admit(c, d) \/ place(c, d) \/ tell(c, d)

DestroySteps(c) ==
    \/ \E n \in Names : onChatDestroyChan(c, n)
    \/ removeNothing(c) \/ removeChannel(c) \/ ask(c) \/ answered(c)
    \/ drop(c) \/ purge(c) \/ destroy(c)

OtherSteps(c) ==
    \/ \E d \in Clients : onChatSend(c, d)
    \/ Follow(c) \/ onChatList(c) \/ getUsers(c)
    \/ onSignup(c) \/ Arrive(c) \/ Drop(c) \/ quit(c) \/ bye(c) \/ gone(c)

Thread(c) ==
    \/ JoinSteps(c) \/ SaveSteps(c) \/ KickSteps(c)
    \/ DestroySteps(c) \/ OtherSteps(c)

Next ==
    \/ (\E c \in Clients : Thread(c)) /\ torn' = torn \cup Overlap'
    \/ Restart

Spec == Init /\ [][Next]_vars

-----------------------------------------------------------------------------
(* Properties.                                                             *)

\* What the mutex is that a thread waits for in its next step.
WaitsFor(c) ==
    IF dead # "no" THEN NoClient
    ELSE CASE pc[c] \in {"count", "lobby"} -> IF manager = c THEN NoClient ELSE manager
           [] pc[c] \in {"create", "remove"} -> manager
           [] pc[c] \in {"part", "admit", "bye"} -> mutex[at[c]]
           [] pc[c] \in {"enter", "modify", "save", "kick", "expel", "tell", "purge"} ->
                 mutex[found[c]]
           [] pc[c] \in {"query", "ask", "locate", "gone"} ->
                 IF db = c THEN NoClient ELSE db
           [] OTHER -> NoClient

\* Clients that wait for each other in a circle have one among them that keeps the data
\* base after a stored function failed; however the handlers overlap, there is no other
\* circle, as the manager is locked before channels, those before the data base.
NoCircle ==
    \A S \in (SUBSET Clients) \ {{}} :
        (\A c \in S : WaitsFor(c) \in S) => leaked /\ db \in S

\* The manager lists objects only that exist, although threads delete channels
\* other threads have looked up to delete them too.
ListedAreLive == \A a \in listed : Live(a)

\* Nobody comes to own more channels than allowed, although the count and the new
\* entry are two sections and channels are loaded without a count: only the own thread
\* adds channels of a user.
QuotaHolds ==
    [][dead = "no" => \A c \in Clients :
        Cardinality(Owned(c))' <= Cardinality(Owned(c))
            \/ Cardinality(Owned(c))' <= MaxChans]_vars

\* A client whose handlers never overlapped is, between them, in the list of users
\* of exactly the channel it points to, which exists: what Chat says of handlers
\* that are one step is true unless two of them work on one client.
MembershipSettles ==
    \A c \in Clients \ torn :
        (\A s \in Clients : ~Changes(s, c)) =>
            \A a \in Addrs :
                (c \in alive /\ myChannel[c] = a) <=> (Live(a) /\ c \in chans[a].users)

\* No thread follows a pointer to a deleted object as long as no two handlers have
\* worked on one client.
NothingDangles == dead = "freed" => torn # {}

\* quit() "leaves the channel if needed": who is in a list of users exists.
MembersExist == \A a \in Addrs : Live(a) => chans[a].users \subseteq alive

=============================================================================
