--------------------------- MODULE ChatPlaces_proof ---------------------------
(***************************************************************************)
(* Proofs about ChatSteps: where clients are, and which pointers are good. *)
(* As long as no two handlers have worked on one client, its pointer and   *)
(* the lists of users agree between handlers, and within a handler they    *)
(* differ as the handler has left them; as long as that is so of all       *)
(* clients, no thread follows a pointer to a deleted object.               *)
(***************************************************************************)
EXTENDS ChatSteps_proof

\* Where a thread moves the client it has looked up.
HandStages == KickStages \ {"kick"}

\* The channels whose lists have d, and those that should.
In(d) == {a \in Addrs : Live(a) /\ d \in chans[a].users}

Home(d) == IF d \in alive /\ myChannel[d] # NoAddr THEN {myChannel[d]} ELSE {}

\* A handler runs in the thread of a client that exists, and moves one client at
\* a time.
ThreadsInv ==
    \A c \in Clients :
        /\ pc[c] # "idle" => c \in alive
        /\ held[c] # {} => pc[c] \in HandStages \cup {"whisper", "names"}
        /\ pc[c] \in HandStages => \E d \in Clients : held[c] = {d}

\* Where d is while the thread of s moves it.
Underway(s, d) ==
    /\ pc[s] \in {"part", "bye", "expel", "tell"} => In(d) = Home(d)
    /\ pc[s] \in {"unset", "enter", "gone", "strip", "lobby", "admit"} => In(d) = {}
    /\ pc[s] = "set" => In(d) = {found[s]}
    /\ pc[s] = "place" => In(d) = {at[s]}
    /\ pc[s] \in {"part", "bye"} => at[s] = myChannel[d]
    /\ pc[s] \in {"expel", "strip"} => myChannel[d] = found[s]
    /\ pc[s] \in {"enter", "lobby", "admit", "place"} => myChannel[d] = NoAddr

PlaceInv ==
    \A d \in Clients \ torn :
        /\ (\A s \in Clients : ~Changes(s, d)) => In(d) = Home(d)
        /\ \A s \in Clients : Changes(s, d) => Underway(s, d)
        /\ \A s \in Clients : d \in held[s] => d \in alive

\* The channel that is created or destroyed under the mutex of the manager is
\* listed until drop, and exists until destroy.
HolderInv ==
    \A s \in Clients : manager = s =>
        /\ pc[s] \in {"save", "query", "stored", "ask", "answered", "drop"} =>
              found[s] \in listed
        /\ pc[s] \in KickStages \cup {"purge"} => Live(found[s])

\* Threads point to channels that exist.
LiveInv ==
    torn = {} => \A t \in Clients, a \in Addrs : Visits(t, a) => Live(a)

\* The history forgets no overlap.
OverlapInv == Overlap \subseteq torn

\* The inductive invariant, on top of StepsInv.
PlacesInv ==
    /\ StepsInv
    /\ ThreadsInv
    /\ PlaceInv
    /\ HolderInv
    /\ LiveInv
    /\ OverlapInv
    /\ NothingDangles

\* The threads but that of c are where they were.
OthersStay(c) ==
    \A s \in Clients \ {c} :
        pc'[s] = pc[s] /\ found'[s] = found[s] /\ at'[s] = at[s] /\ held'[s] = held[s]

-----------------------------------------------------------------------------
(* What the steps do to the lists.                                         *)

LEMMA SetUsersSets ==
    ASSUME TypeOK, NEW x \in Addrs, Live(x), NEW S \in SUBSET Clients, SetUsers(x, S)
    PROVE  /\ Live(x)' /\ chans'[x].users = S
           /\ \A b \in Addrs \ {x} : chans'[b] = chans[b]
  <1>1. chans[x] \in Channel
    BY DEF TypeOK, Live
  <1>2. /\ [chans[x] EXCEPT !.users = S] \in Channel
        /\ [chans[x] EXCEPT !.users = S].users = S
    BY <1>1 DEF Channel
  <1>3. chans' = [chans EXCEPT ![x] = [chans[x] EXCEPT !.users = S]]
    BY DEF SetUsers, TypeOK
  <1> QED
    BY <1>1, <1>2, <1>3, FreedAssumption DEF TypeOK, Live

\* Channel::quit takes one client out of one list ...
LEMMA QuitMoves ==
    ASSUME TypeOK, NEW x \in Addrs, Live(x), NEW d \in Clients,
           SetUsers(x, chans[x].users \ {d})
    PROVE  /\ In(d)' = In(d) \ {x}
           /\ \A e \in Clients \ {d} : In(e)' = In(e)
           /\ \A b \in Addrs : Live(b) => Live(b)'
  <1>1. chans[x].users \ {d} \in SUBSET Clients
    BY DEF TypeOK, Live, Channel
  <1>2. /\ Live(x)' /\ chans'[x].users = chans[x].users \ {d}
        /\ \A b \in Addrs \ {x} : chans'[b] = chans[b]
    BY <1>1, SetUsersSets
  <1> QED
    BY <1>2 DEF In, Live

\* ... and Channel::join puts one into one.
LEMMA JoinMoves ==
    ASSUME TypeOK, NEW x \in Addrs, Live(x), NEW d \in Clients,
           SetUsers(x, chans[x].users \cup {d})
    PROVE  /\ In(d)' = In(d) \cup {x}
           /\ \A e \in Clients \ {d} : In(e)' = In(e)
           /\ \A b \in Addrs : Live(b) => Live(b)'
  <1>1. chans[x].users \cup {d} \in SUBSET Clients
    BY DEF TypeOK, Live, Channel
  <1>2. /\ Live(x)' /\ chans'[x].users = chans[x].users \cup {d}
        /\ \A b \in Addrs \ {x} : chans'[b] = chans[b]
    BY <1>1, SetUsersSets
  <1> QED
    BY <1>2 DEF In, Live

\* A channel is created, and destroyed, with nobody in it.
LEMMA CreateMovesNobody ==
    ASSUME TypeOK, LocalsInv, NEW c \in Clients, createChannel(c)
    PROVE  /\ \A e \in Clients : In(e)' = In(e)
           /\ \A b \in Addrs : Live(b) => Live(b)'
           /\ found'[c] \in Addrs /\ Live(found[c])' /\ found'[c] \in listed'
  <1>1. PICK x \in Addrs :
           /\ ~Live(x)
           /\ chans' = [chans EXCEPT ![x] = [name |-> wanted[c], admin |-> c,
                                             users |-> {}, stored |-> FALSE]]
           /\ listed' = listed \cup {x}
           /\ found' = [found EXCEPT ![c] = x]
    BY DEF createChannel
  <1>2. wanted[c] \in Names
    BY DEF LocalsInv, createChannel, Runs
  <1>3. chans'[x] # Freed /\ chans'[x].users = {}
    BY <1>1, <1>2, NewChannels DEF TypeOK
  <1>4. \A b \in Addrs \ {x} : chans'[b] = chans[b]
    BY <1>1 DEF TypeOK
  <1> QED
    BY <1>1, <1>3, <1>4 DEF In, Live, TypeOK

LEMMA DestroyMovesNobody ==
    ASSUME TypeOK, LocalsInv, NEW c \in Clients, destroy(c)
    PROVE  /\ \A e \in Clients : In(e)' = In(e)
           /\ \A b \in Addrs \ {found[c]} : Live(b) => Live(b)'
  <1>1. found[c] \in Addrs /\ chans[found[c]].users = {}
    BY DEF LocalsInv, destroy, Runs, FoundStages, DestroyStages
  <1>2. chans'[found[c]] = Freed /\ \A b \in Addrs \ {found[c]} : chans'[b] = chans[b]
    BY <1>1 DEF destroy, Live, TypeOK
  <1> QED
    BY <1>1, <1>2 DEF In, Live

-----------------------------------------------------------------------------
(* What a step of one thread leaves of the invariant.                      *)

\* A client that is not torn is moved by one thread at a time.
LEMMA MovedByOne ==
    ASSUME OverlapInv, NEW d \in Clients \ torn, NEW s \in Clients, NEW t \in Clients,
           Changes(s, d), Changes(t, d)
    PROVE  s = t
  BY DEF OverlapInv, Overlap

\* What threads other than c change stays the same, before and after a step of c.
LEMMA OthersChange ==
    ASSUME NEW c, OthersStay(c)
    PROVE  \A s \in Clients \ {c}, d \in Clients : Changes(s, d)' <=> Changes(s, d)
  BY DEF OthersStay, Changes, Ending

\* A step of c that moves nobody but d, whom no other thread moves.
LEMMA MovesOne ==
    ASSUME PlaceInv, NEW c \in Clients, NEW d \in Clients, OthersStay(c),
           torn \subseteq torn',
           \A e \in Clients \ {d} :
               /\ In(e)' = In(e) /\ Home(e)' = Home(e) /\ myChannel'[e] = myChannel[e]
               /\ e \in alive => e \in alive'
               /\ ~Changes(c, e) /\ ~Changes(c, e)' /\ e \notin held'[c],
           d \notin torn' =>
               /\ \A s \in Clients \ {c} : ~Changes(s, d)
               /\ ~Changes(c, d)' => In(d)' = Home(d)'
               /\ Changes(c, d)' => Underway(c, d)'
               /\ \A s \in Clients : d \in held'[s] => d \in alive'
    PROVE  PlaceInv'
  <1>1. \A s \in Clients \ {c}, e \in Clients : Changes(s, e)' <=> Changes(s, e)
    BY OthersChange
  <1> SUFFICES ASSUME NEW e \in Clients, e \notin torn'
               PROVE  /\ (\A s \in Clients : ~Changes(s, e)') => In(e)' = Home(e)'
                      /\ \A s \in Clients : Changes(s, e)' => Underway(s, e)'
                      /\ \A s \in Clients : e \in held'[s] => e \in alive'
    BY DEF PlaceInv
  <1>2. CASE e = d
    BY <1>1, <1>2
  <1>3. CASE e # d
    <2>1. /\ (\A s \in Clients : ~Changes(s, e)) => In(e) = Home(e)
          /\ \A s \in Clients : Changes(s, e) => Underway(s, e)
          /\ \A s \in Clients : e \in held[s] => e \in alive
      BY DEF PlaceInv
    <2>2. \A s \in Clients : Changes(s, e)' <=> Changes(s, e)
      BY <1>1, <1>3
    <2>3. \A s \in Clients \ {c} : Underway(s, e) => Underway(s, e)'
      BY <1>3 DEF OthersStay, Underway
    <2> QED
      BY <1>3, <2>1, <2>2, <2>3 DEF OthersStay
  <1> QED
    BY <1>2, <1>3

\* A step of c that moves nobody.
LEMMA MovesNobody ==
    ASSUME PlaceInv, NEW c \in Clients, OthersStay(c), torn \subseteq torn',
           UNCHANGED <<myChannel, alive>>, \A e \in Clients : In(e)' = In(e),
           \A e \in Clients : ~Changes(c, e) /\ ~Changes(c, e)',
           \A e \in Clients \ torn' : e \in held'[c] => e \in alive
    PROVE  PlaceInv'
  <1>1. \A s \in Clients \ {c}, e \in Clients : Changes(s, e)' <=> Changes(s, e)
    BY OthersChange
  <1> SUFFICES ASSUME NEW e \in Clients, e \notin torn'
               PROVE  /\ (\A s \in Clients : ~Changes(s, e)') => In(e)' = Home(e)'
                      /\ \A s \in Clients : Changes(s, e)' => Underway(s, e)'
                      /\ \A s \in Clients : e \in held'[s] => e \in alive'
    BY DEF PlaceInv
  <1>2. /\ (\A s \in Clients : ~Changes(s, e)) => In(e) = Home(e)
        /\ \A s \in Clients : Changes(s, e) => Underway(s, e)
        /\ \A s \in Clients : e \in held[s] => e \in alive
    BY DEF PlaceInv
  <1>3. Home(e)' = Home(e)
    BY DEF Home
  <1>4. \A s \in Clients \ {c} : Underway(s, e) => Underway(s, e)'
    BY <1>3 DEF OthersStay, Underway
  <1> QED
    BY <1>1, <1>2, <1>3, <1>4 DEF OthersStay

\* A step of c that deletes no channel, and gives c pointers to good ones only.
LEMMA PointsToLive ==
    ASSUME LiveInv, NEW c \in Clients, OthersStay(c), torn \subseteq torn',
           \A s \in Clients \ {c} : manager' = s <=> manager = s,
           \A a \in Addrs : Live(a) => Live(a)',
           torn' = {} => \A a \in Addrs : Visits(c, a)' => Visits(c, a) \/ Live(a)'
    PROVE  LiveInv'
  <1> SUFFICES ASSUME torn' = {}, NEW t \in Clients, NEW a \in Addrs, Visits(t, a)'
               PROVE  Live(a)'
    BY DEF LiveInv
  <1>1. torn = {}
    OBVIOUS
  <1>2. CASE t = c
    BY <1>1, <1>2 DEF LiveInv
  <1>3. CASE t # c
    BY <1>1, <1>3 DEF LiveInv, OthersStay, Visits
  <1> QED
    BY <1>2, <1>3

-----------------------------------------------------------------------------
(* Pointers that a thread may follow.                                      *)

\* Who is in a list of users exists.
LEMMA MembersAlive ==
    ASSUME PlacesInv, NEW a \in Addrs, Live(a), NEW d \in chans[a].users, d \notin torn
    PROVE  d \in alive
  <1>1. d \in Clients
    BY DEF PlacesInv, StepsInv, TypeOK, Live, Channel
  <1>2. a \in In(d)
    BY DEF In
  <1>3. CASE \A s \in Clients : ~Changes(s, d)
    BY <1>1, <1>2, <1>3 DEF PlacesInv, PlaceInv, Home
  <1>4. CASE \E s \in Clients : Changes(s, d)
    BY <1>1, <1>4 DEF Changes, Ending, PlacesInv, PlaceInv, ThreadsInv
  <1> QED
    BY <1>3, <1>4

\* The channel that a handler works on, but one that it has yet to look for in the
\* list of the manager.
LEMMA FoundLive ==
    ASSUME PlacesInv, torn = {}, NEW c \in Clients, pc[c] \in FoundStages \ {"remove"}
    PROVE  found[c] \in Addrs /\ Live(found[c])
  <1>1. found[c] \in Addrs
    BY DEF PlacesInv, StepsInv, LocalsInv
  <1>2. CASE manager = c
    <2>1. pc[c] \in ManagerStages
      BY <1>2 DEF PlacesInv, StepsInv, LocksInv
    <2>2. found[c] \in listed \/ Live(found[c])
      BY <1>2, <2>1 DEF PlacesInv, HolderInv, ManagerStages
    <2> QED
      BY <1>1, <2>2 DEF PlacesInv, StepsInv, ListInv, ListedAreLive
  <1>3. CASE manager # c
    BY <1>1, <1>3 DEF PlacesInv, LiveInv, Visits
  <1> QED
    BY <1>1, <1>2, <1>3

\* The channel that a client is to leave or to enter.
LEMMA AtLive ==
    ASSUME PlacesInv, torn = {}, NEW c \in Clients, pc[c] \in AtStages
    PROVE  at[c] \in Addrs /\ Live(at[c])
  <1>1. at[c] \in Addrs
    BY DEF PlacesInv, StepsInv, LocalsInv
  <1> QED
    BY <1>1 DEF PlacesInv, LiveInv, Visits

\* m_pMyChannel of a client that is not moving itself.
LEMMA MyChannelLive ==
    ASSUME PlacesInv, torn = {}, NEW c \in Clients, c \in alive, myChannel[c] # NoAddr,
           pc[c] \notin {"part", "unset", "enter", "set", "bye", "gone"}
    PROVE  myChannel[c] \in Addrs /\ Live(myChannel[c])
  <1>1. CASE In(c) = Home(c)
    BY <1>1 DEF In, Home
  <1>2. CASE \E s \in Clients : Changes(s, c) /\ In(c) # Home(c)
    <2>1. PICK s \in Clients : Changes(s, c) /\ In(c) # Home(c)
      BY <1>2
    <2>2. /\ c \in held[s] /\ pc[s] \in HandStages
          /\ Underway(s, c)
      BY <2>1 DEF Changes, Ending, PlacesInv, PlaceInv, ThreadsInv, HandStages, KickStages
    <2>3. pc[s] \in {"strip", "lobby", "admit", "place"}
      BY <2>1, <2>2 DEF Underway, HandStages, KickStages
    <2>4. pc[s] = "strip" /\ myChannel[c] = found[s]
      BY <2>2, <2>3 DEF Underway
    <2> QED
      BY <2>4, FoundLive DEF FoundStages, KickStages
  <1> QED
    BY <1>1, <1>2 DEF PlacesInv, PlaceInv

\* A thread that follows a pointer finds the object, while nobody is torn.
LEMMA StepsAreSafe ==
    ASSUME PlacesInv, torn = {}, NEW c \in Clients, Thread(c)
    PROVE  dead' # "freed"
  <1> SUFFICES ASSUME dead' = "freed" PROVE FALSE
    OBVIOUS
  <1> USE DEF Runs
  <1>1. \A a \in Addrs : Live(a) => chans[a].users \subseteq alive
    BY MembersAlive
  <1>2. \A e \in Clients, s \in Clients : e \in held[s] => e \in alive
    BY DEF PlacesInv, PlaceInv
  <1>3. held[c] \subseteq alive
    BY <1>2 DEF PlacesInv, StepsInv, TypeOK
  <1>4. pc[c] \in AtStages => at[c] \in Addrs /\ Live(at[c])
    BY AtLive
  <1>5. pc[c] \in FoundStages \ {"remove"} => found[c] \in Addrs /\ Live(found[c])
    BY FoundLive
  <1> USE DEF InLock, Dies, Return, objects, locks, locals
  <1>6. CASE JoinSteps(c)
    BY <1>1, <1>4, <1>5, <1>6 DEF JoinSteps, AtStages, FoundStages, onChatJoin, Ready,
       countUserChannels, createChannel, leave, part, unset, enter, set, locate
  <1>7. CASE SaveSteps(c)
    BY <1>1, <1>5, <1>7 DEF SaveSteps, FoundStages, SaveStages, Speak, Ready, modify,
       save, query, stored
  <1>8. CASE KickSteps(c)
    <2>1. \A d \in Clients : ~(expel(c, d) \/ strip(c, d))
      BY <1>1, <1>5 DEF FoundStages, KickStages, expel, strip
    <2>2. \A d \in Clients : ~(admit(c, d) \/ place(c, d))
      BY <1>1, <1>4 DEF AtStages, admit, place
    <2>3. \A d \in Clients : ~tell(c, d)
      BY <1>1, <1>5 DEF FoundStages, KickStages, tell
    <2>4. ~(onChatKick(c) \/ kick(c) \/ KicksNobody(c) \/ lobby(c))
      BY <1>1, <1>3, <1>5 DEF FoundStages, KickStages, onChatKick, Ready, kick, KicksNobody,
         lobby
    <2> QED
      BY <1>8, <2>1, <2>2, <2>3, <2>4 DEF KickSteps
  <1>9. CASE DestroySteps(c)
    BY <1>1, <1>5, <1>9 DEF DestroySteps, FoundStages, DestroyStages, onChatDestroyChan,
       Ready, removeNothing, removeChannel, ask, answered, drop, purge, destroy
  <1>10. CASE OtherSteps(c)
    BY <1>1, <1>3, <1>4, <1>5, <1>10 DEF OtherSteps, FoundStages, AtStages, onChatSend,
       Ready,
       Follow, onChatList, getUsers, onSignup, Arrive, Drop, quit, bye, gone
  <1> QED
    BY <1>6, <1>7, <1>8, <1>9, <1>10 DEF Thread

-----------------------------------------------------------------------------
(* Every step of a thread keeps the invariant.                             *)

Kept == ThreadsInv' /\ PlaceInv' /\ HolderInv' /\ LiveInv'

\* A process that dies moves nobody.
LEMMA DyingKeeps ==
    ASSUME PlacesInv, torn \subseteq torn', NEW how, Dies(how)
    PROVE  Kept
  <1> USE DEF PlacesInv, Dies, objects, locks, locals
  <1>1. ThreadsInv'
    BY DEF ThreadsInv
  <1>2. PlaceInv'
    BY DEF PlaceInv, In, Home, Underway, Changes, Ending, Live
  <1>3. HolderInv'
    BY DEF HolderInv, Live
  <1>4. LiveInv'
    BY DEF LiveInv, Visits, Live
  <1> QED
    BY <1>1, <1>2, <1>3, <1>4 DEF Kept

\* A client that c moves, or comes to move, is moved by no other thread, unless it
\* is torn.
LEMMA Alone ==
    ASSUME OverlapInv, OverlapInv', torn \subseteq torn', NEW c \in Clients, OthersStay(c),
           NEW d \in Clients \ torn', Changes(c, d) \/ Changes(c, d)'
    PROVE  \A s \in Clients \ {c} : ~Changes(s, d)
  <1> SUFFICES ASSUME NEW s \in Clients \ {c}, Changes(s, d) PROVE FALSE
    OBVIOUS
  <1>1. CASE Changes(c, d)
    BY <1>1, MovedByOne
  <1>2. CASE Changes(c, d)'
    <2>1. Changes(s, d)'
      BY OthersChange
    <2>2. d \in Overlap'
      BY <1>2, <2>1 DEF Overlap
    <2> QED
      BY <2>2 DEF OverlapInv
  <1> QED
    BY <1>1, <1>2

\* The handlers that change a channel and save it.
LEMMA SaveStepsPlace ==
    ASSUME PlacesInv, torn \subseteq torn', OverlapInv', NEW c \in Clients, SaveSteps(c)
    PROVE  Kept
  <1> USE StepsAssumption
  <1> USE DEF PlacesInv, StepsInv, TypeOK, LocksInv, SaveStages, KickStages, HandStages,
           DestroyStages, Runs, Goto, Return, Live, objects, locks, locals
  <1>1. ASSUME Speak(c)
        PROVE  Kept
    <2>1. OthersStay(c) /\ \A s \in Clients \ {c} : manager' = s <=> manager = s
      BY <1>1 DEF Speak, Ready, OthersStay
    <2>2. /\ UNCHANGED <<myChannel, alive>> /\ \A e \in Clients : In(e)' = In(e)
          /\ \A b \in Addrs : Live(b) => Live(b)'
      BY <1>1 DEF Speak, Ready, In
    <2>3. ThreadsInv'
      BY <1>1 DEF Speak, Ready, ThreadsInv
    <2>4. \A e \in Clients : ~Changes(c, e) /\ ~Changes(c, e)'
      BY <1>1 DEF Speak, Ready, ThreadsInv, Changes, Ending
    <2>5. \A e \in Clients \ torn' : e \in held'[c] => e \in alive
      BY <1>1 DEF Speak, Ready, PlaceInv
    <2>6. PlaceInv'
      BY <2>1, <2>2, <2>4, <2>5, MovesNobody
    <2>7. HolderInv'
      BY <1>1, <2>1, <2>2 DEF Speak, Ready, HolderInv, OthersStay, ManagerStages,
         FoundStages
    <2>8. torn' = {} => \A a \in Addrs : Visits(c, a)' => Visits(c, a) \/ Live(a)'
      BY <1>1, MyChannelLive DEF Speak, Ready, Visits, ManagerStages
    <2>9. LiveInv'
      BY <2>1, <2>2, <2>8, PointsToLive
    <2> QED
      BY <2>3, <2>6, <2>7, <2>9 DEF Kept
  <1>2. ASSUME modify(c)
        PROVE  Kept
    <2> SUFFICES ASSUME ~Dies("freed")
                 PROVE  Kept
      BY DyingKeeps
    <2>1. OthersStay(c) /\ \A s \in Clients \ {c} : manager' = s <=> manager = s
      BY <1>2 DEF modify, InLock, Dies, OthersStay
    <2>2. /\ UNCHANGED <<myChannel, alive>> /\ \A e \in Clients : In(e)' = In(e)
          /\ \A b \in Addrs : Live(b) => Live(b)'
      BY <1>2 DEF modify, InLock, Dies, In
    <2>3. ThreadsInv'
      BY <1>2 DEF modify, InLock, Dies, ThreadsInv
    <2>4. \A e \in Clients : ~Changes(c, e) /\ ~Changes(c, e)'
      BY <1>2 DEF modify, InLock, Dies, ThreadsInv, Changes, Ending
    <2>5. \A e \in Clients \ torn' : e \in held'[c] => e \in alive
      BY <1>2 DEF modify, InLock, Dies, PlaceInv
    <2>6. PlaceInv'
      BY <2>1, <2>2, <2>4, <2>5, MovesNobody
    <2>7. HolderInv'
      BY <1>2, <2>1, <2>2 DEF modify, InLock, Dies, HolderInv, OthersStay, ManagerStages,
         FoundStages
    <2>8. torn' = {} => \A a \in Addrs : Visits(c, a)' => Visits(c, a) \/ Live(a)'
      BY <1>2 DEF modify, InLock, Dies, Visits, ManagerStages
    <2>9. LiveInv'
      BY <2>1, <2>2, <2>8, PointsToLive
    <2> QED
      BY <2>3, <2>6, <2>7, <2>9 DEF Kept
  <1>3. ASSUME save(c)
        PROVE  Kept
    <2> SUFFICES ASSUME ~Dies("freed")
                 PROVE  Kept
      BY DyingKeeps
    <2>1. OthersStay(c) /\ \A s \in Clients \ {c} : manager' = s <=> manager = s
      BY <1>3 DEF save, Dies, OthersStay
    <2>2. /\ UNCHANGED <<myChannel, alive>> /\ \A e \in Clients : In(e)' = In(e)
          /\ \A b \in Addrs : Live(b) => Live(b)'
      BY <1>3 DEF save, Dies, In
    <2>3. ThreadsInv'
      BY <1>3 DEF save, Dies, ThreadsInv
    <2>4. \A e \in Clients : ~Changes(c, e) /\ ~Changes(c, e)'
      BY <1>3 DEF save, Dies, ThreadsInv, Changes, Ending
    <2>5. \A e \in Clients \ torn' : e \in held'[c] => e \in alive
      BY <1>3 DEF save, Dies, PlaceInv
    <2>6. PlaceInv'
      BY <2>1, <2>2, <2>4, <2>5, MovesNobody
    <2>7. HolderInv'
      BY <1>3, <2>1, <2>2 DEF save, Dies, HolderInv, OthersStay, ManagerStages, FoundStages
    <2>8. torn' = {} => \A a \in Addrs : Visits(c, a)' => Visits(c, a) \/ Live(a)'
      BY <1>3 DEF save, Dies, Visits, ManagerStages
    <2>9. LiveInv'
      BY <2>1, <2>2, <2>8, PointsToLive
    <2> QED
      BY <2>3, <2>6, <2>7, <2>9 DEF Kept
  <1>4. ASSUME query(c)
        PROVE  Kept
    <2> SUFFICES ASSUME ~Dies("freed")
                 PROVE  Kept
      BY DyingKeeps
    <2>1. OthersStay(c) /\ \A s \in Clients \ {c} : manager' = s <=> manager = s
      BY <1>4 DEF query, Dies, OthersStay
    <2>2. /\ UNCHANGED <<myChannel, alive>> /\ \A e \in Clients : In(e)' = In(e)
          /\ \A b \in Addrs : Live(b) => Live(b)'
      BY <1>4 DEF query, Dies, In
    <2>3. ThreadsInv'
      BY <1>4 DEF query, Dies, ThreadsInv
    <2>4. \A e \in Clients : ~Changes(c, e) /\ ~Changes(c, e)'
      BY <1>4 DEF query, Dies, ThreadsInv, Changes, Ending
    <2>5. \A e \in Clients \ torn' : e \in held'[c] => e \in alive
      BY <1>4 DEF query, Dies, PlaceInv
    <2>6. PlaceInv'
      BY <2>1, <2>2, <2>4, <2>5, MovesNobody
    <2>7. HolderInv'
      BY <1>4, <2>1, <2>2 DEF query, Dies, HolderInv, OthersStay, ManagerStages, FoundStages
    <2>8. torn' = {} => \A a \in Addrs : Visits(c, a)' => Visits(c, a) \/ Live(a)'
      BY <1>4 DEF query, Dies, Visits, ManagerStages
    <2>9. LiveInv'
      BY <2>1, <2>2, <2>8, PointsToLive
    <2> QED
      BY <2>3, <2>6, <2>7, <2>9 DEF Kept
  <1>5. ASSUME stored(c)
        PROVE  Kept
    <2> SUFFICES ASSUME ~Dies("freed")
                 PROVE  Kept
      BY DyingKeeps
    <2>1. OthersStay(c) /\ \A s \in Clients \ {c} : manager' = s <=> manager = s
      BY <1>5 DEF stored, Dies, OthersStay
    <2>2. /\ UNCHANGED <<myChannel, alive>> /\ \A e \in Clients : In(e)' = In(e)
          /\ \A b \in Addrs : Live(b) => Live(b)'
      BY <1>5 DEF stored, Dies, In
    <2>3. ThreadsInv'
      BY <1>5 DEF stored, Dies, ThreadsInv
    <2>4. \A e \in Clients : ~Changes(c, e) /\ ~Changes(c, e)'
      BY <1>5 DEF stored, Dies, ThreadsInv, Changes, Ending
    <2>5. \A e \in Clients \ torn' : e \in held'[c] => e \in alive
      BY <1>5 DEF stored, Dies, PlaceInv
    <2>6. PlaceInv'
      BY <2>1, <2>2, <2>4, <2>5, MovesNobody
    <2>7. HolderInv'
      BY <1>5, <2>1, <2>2 DEF stored, Dies, HolderInv, OthersStay, ManagerStages,
         FoundStages
    <2>8. torn' = {} => \A a \in Addrs : Visits(c, a)' => Visits(c, a) \/ Live(a)'
      BY <1>5 DEF stored, Dies, Visits, ManagerStages
    <2>9. LiveInv'
      BY <2>1, <2>2, <2>8, PointsToLive
    <2> QED
      BY <2>3, <2>6, <2>7, <2>9 DEF Kept
  <1> QED
    BY <1>1, <1>2, <1>3, <1>4, <1>5 DEF SaveSteps

\* removeChannel and the destructor of a channel.
LEMMA DestroyStepsPlace ==
    ASSUME PlacesInv, torn \subseteq torn', OverlapInv', NEW c \in Clients, DestroySteps(c)
    PROVE  Kept
  <1> USE StepsAssumption
  <1> USE DEF PlacesInv, StepsInv, TypeOK, LocksInv, SaveStages, KickStages, HandStages,
           DestroyStages, Runs, Goto, Return, Live, objects, locks, locals
  <1>1. ASSUME NEW n \in Names, onChatDestroyChan(c, n)
        PROVE  Kept
    <2>1. OthersStay(c) /\ \A s \in Clients \ {c} : manager' = s <=> manager = s
      BY <1>1 DEF onChatDestroyChan, Ready, OthersStay
    <2>2. /\ UNCHANGED <<myChannel, alive>> /\ \A e \in Clients : In(e)' = In(e)
          /\ \A b \in Addrs : Live(b) => Live(b)'
      BY <1>1 DEF onChatDestroyChan, Ready, In
    <2>3. ThreadsInv'
      BY <1>1 DEF onChatDestroyChan, Ready, ThreadsInv
    <2>4. \A e \in Clients : ~Changes(c, e) /\ ~Changes(c, e)'
      BY <1>1 DEF onChatDestroyChan, Ready, ThreadsInv, Changes, Ending
    <2>5. \A e \in Clients \ torn' : e \in held'[c] => e \in alive
      BY <1>1 DEF onChatDestroyChan, Ready, PlaceInv
    <2>6. PlaceInv'
      BY <2>1, <2>2, <2>4, <2>5, MovesNobody
    <2>7. HolderInv'
      BY <1>1, <2>1, <2>2 DEF onChatDestroyChan, Ready, HolderInv, OthersStay,
         ManagerStages, FoundStages
    <2>8. torn' = {} => \A a \in Addrs : Visits(c, a)' => Visits(c, a) \/ Live(a)'
      BY <1>1 DEF onChatDestroyChan, Ready, Visits, ManagerStages
    <2>9. LiveInv'
      BY <2>1, <2>2, <2>8, PointsToLive
    <2> QED
      BY <2>3, <2>6, <2>7, <2>9 DEF Kept
  <1>2. ASSUME removeNothing(c)
        PROVE  Kept
    <2>1. OthersStay(c) /\ \A s \in Clients \ {c} : manager' = s <=> manager = s
      BY <1>2 DEF removeNothing, OthersStay
    <2>2. /\ UNCHANGED <<myChannel, alive>> /\ \A e \in Clients : In(e)' = In(e)
          /\ \A b \in Addrs : Live(b) => Live(b)'
      BY <1>2 DEF removeNothing, In
    <2>3. ThreadsInv'
      BY <1>2 DEF removeNothing, ThreadsInv
    <2>4. \A e \in Clients : ~Changes(c, e) /\ ~Changes(c, e)'
      BY <1>2 DEF removeNothing, ThreadsInv, Changes, Ending
    <2>5. \A e \in Clients \ torn' : e \in held'[c] => e \in alive
      BY <1>2 DEF removeNothing, PlaceInv
    <2>6. PlaceInv'
      BY <2>1, <2>2, <2>4, <2>5, MovesNobody
    <2>7. HolderInv'
      BY <1>2, <2>1, <2>2 DEF removeNothing, HolderInv, OthersStay, ManagerStages,
         FoundStages
    <2>8. torn' = {} => \A a \in Addrs : Visits(c, a)' => Visits(c, a) \/ Live(a)'
      BY <1>2 DEF removeNothing, Visits, ManagerStages
    <2>9. LiveInv'
      BY <2>1, <2>2, <2>8, PointsToLive
    <2> QED
      BY <2>3, <2>6, <2>7, <2>9 DEF Kept
  <1>3. ASSUME removeChannel(c)
        PROVE  Kept
    <2>1. OthersStay(c) /\ \A s \in Clients \ {c} : manager' = s <=> manager = s
      BY <1>3 DEF removeChannel, OthersStay
    <2>2. /\ UNCHANGED <<myChannel, alive>> /\ \A e \in Clients : In(e)' = In(e)
          /\ \A b \in Addrs : Live(b) => Live(b)'
      BY <1>3 DEF removeChannel, In
    <2>3. ThreadsInv'
      BY <1>3 DEF removeChannel, ThreadsInv
    <2>4. \A e \in Clients : ~Changes(c, e) /\ ~Changes(c, e)'
      BY <1>3 DEF removeChannel, ThreadsInv, Changes, Ending
    <2>5. \A e \in Clients \ torn' : e \in held'[c] => e \in alive
      BY <1>3 DEF removeChannel, PlaceInv
    <2>6. PlaceInv'
      BY <2>1, <2>2, <2>4, <2>5, MovesNobody
    <2>7. HolderInv'
      BY <1>3, <2>1, <2>2 DEF removeChannel, HolderInv, OthersStay, ManagerStages,
         FoundStages
    <2>8. torn' = {} => \A a \in Addrs : Visits(c, a)' => Visits(c, a) \/ Live(a)'
      BY <1>3 DEF removeChannel, Visits, ManagerStages
    <2>9. LiveInv'
      BY <2>1, <2>2, <2>8, PointsToLive
    <2> QED
      BY <2>3, <2>6, <2>7, <2>9 DEF Kept
  <1>4. ASSUME ask(c)
        PROVE  Kept
    <2>1. OthersStay(c) /\ \A s \in Clients \ {c} : manager' = s <=> manager = s
      BY <1>4 DEF ask, OthersStay
    <2>2. /\ UNCHANGED <<myChannel, alive>> /\ \A e \in Clients : In(e)' = In(e)
          /\ \A b \in Addrs : Live(b) => Live(b)'
      BY <1>4 DEF ask, In
    <2>3. ThreadsInv'
      BY <1>4 DEF ask, ThreadsInv
    <2>4. \A e \in Clients : ~Changes(c, e) /\ ~Changes(c, e)'
      BY <1>4 DEF ask, ThreadsInv, Changes, Ending
    <2>5. \A e \in Clients \ torn' : e \in held'[c] => e \in alive
      BY <1>4 DEF ask, PlaceInv
    <2>6. PlaceInv'
      BY <2>1, <2>2, <2>4, <2>5, MovesNobody
    <2>7. HolderInv'
      BY <1>4, <2>1, <2>2 DEF ask, HolderInv, OthersStay, ManagerStages, FoundStages
    <2>8. torn' = {} => \A a \in Addrs : Visits(c, a)' => Visits(c, a) \/ Live(a)'
      BY <1>4 DEF ask, Visits, ManagerStages
    <2>9. LiveInv'
      BY <2>1, <2>2, <2>8, PointsToLive
    <2> QED
      BY <2>3, <2>6, <2>7, <2>9 DEF Kept
  <1>5. ASSUME answered(c)
        PROVE  Kept
    <2>1. OthersStay(c) /\ \A s \in Clients \ {c} : manager' = s <=> manager = s
      BY <1>5 DEF answered, OthersStay
    <2>2. /\ UNCHANGED <<myChannel, alive>> /\ \A e \in Clients : In(e)' = In(e)
          /\ \A b \in Addrs : Live(b) => Live(b)'
      BY <1>5 DEF answered, In
    <2>3. ThreadsInv'
      BY <1>5 DEF answered, ThreadsInv
    <2>4. \A e \in Clients : ~Changes(c, e) /\ ~Changes(c, e)'
      BY <1>5 DEF answered, ThreadsInv, Changes, Ending
    <2>5. \A e \in Clients \ torn' : e \in held'[c] => e \in alive
      BY <1>5 DEF answered, PlaceInv
    <2>6. PlaceInv'
      BY <2>1, <2>2, <2>4, <2>5, MovesNobody
    <2>7. HolderInv'
      BY <1>5, <2>1, <2>2 DEF answered, HolderInv, OthersStay, ManagerStages, FoundStages
    <2>8. torn' = {} => \A a \in Addrs : Visits(c, a)' => Visits(c, a) \/ Live(a)'
      BY <1>5 DEF answered, Visits, ManagerStages
    <2>9. LiveInv'
      BY <2>1, <2>2, <2>8, PointsToLive
    <2> QED
      BY <2>3, <2>6, <2>7, <2>9 DEF Kept
  <1>6. ASSUME drop(c)
        PROVE  Kept
    <2>1. OthersStay(c) /\ \A s \in Clients \ {c} : manager' = s <=> manager = s
      BY <1>6 DEF drop, OthersStay
    <2>2. /\ UNCHANGED <<myChannel, alive>> /\ \A e \in Clients : In(e)' = In(e)
          /\ \A b \in Addrs : Live(b) => Live(b)'
      BY <1>6 DEF drop, In
    <2>3. ThreadsInv'
      BY <1>6 DEF drop, ThreadsInv
    <2>4. \A e \in Clients : ~Changes(c, e) /\ ~Changes(c, e)'
      BY <1>6 DEF drop, ThreadsInv, Changes, Ending
    <2>5. \A e \in Clients \ torn' : e \in held'[c] => e \in alive
      BY <1>6 DEF drop, PlaceInv
    <2>6. PlaceInv'
      BY <2>1, <2>2, <2>4, <2>5, MovesNobody
    <2>7. HolderInv'
      BY <1>6, <2>1, <2>2 DEF drop, HolderInv, OthersStay, ManagerStages, FoundStages,
         ListInv, ListedAreLive
    <2>8. torn' = {} => \A a \in Addrs : Visits(c, a)' => Visits(c, a) \/ Live(a)'
      BY <1>6 DEF drop, Visits, ManagerStages
    <2>9. LiveInv'
      BY <2>1, <2>2, <2>8, PointsToLive
    <2> QED
      BY <2>3, <2>6, <2>7, <2>9 DEF Kept
  <1>7. ASSUME purge(c)
        PROVE  Kept
    <2> SUFFICES ASSUME ~Dies("freed")
                 PROVE  Kept
      BY DyingKeeps
    <2>1. OthersStay(c) /\ \A s \in Clients \ {c} : manager' = s <=> manager = s
      BY <1>7 DEF purge, InLock, Dies, OthersStay
    <2>2. /\ UNCHANGED <<myChannel, alive>> /\ \A e \in Clients : In(e)' = In(e)
          /\ \A b \in Addrs : Live(b) => Live(b)'
          /\ found[c] \in Addrs /\ Live(found[c]) /\ chans[found[c]].users \subseteq Clients
      BY <1>7 DEF purge, InLock, Dies, In, LocalsInv, FoundStages, Channel
    <2>3. PICK d \in Clients :
             /\ d \in chans[found[c]].users /\ held' = [held EXCEPT ![c] = {d}]
             /\ pc' = [pc EXCEPT ![c] = "expel"] /\ found' = found
      BY <1>7, <2>2 DEF purge, InLock, Dies
    <2>4. ThreadsInv'
      BY <1>7, <2>2, <2>3 DEF purge, InLock, Dies, ThreadsInv
    <2>5. /\ \A e \in Clients : ~Changes(c, e)
          /\ \A e \in Clients \ {d} : ~Changes(c, e)' /\ e \notin held'[c]
          /\ Changes(c, d)'
      BY <1>7, <2>3 DEF purge, InLock, Dies, ThreadsInv, Changes, Ending
    <2>6. ASSUME d \notin torn'
          PROVE  /\ \A s \in Clients \ {c} : ~Changes(s, d)
                 /\ Underway(c, d)'
                 /\ \A s \in Clients : d \in held'[s] => d \in alive'
      <3>1. \A s \in Clients \ {c} : ~Changes(s, d)
        BY <2>1, <2>5, <2>6, Alone
      <3>2. In(d) = Home(d) /\ found[c] \in In(d)
        BY <2>2, <2>3, <2>5, <2>6, <3>1 DEF PlaceInv, In
      <3>3. d \in alive /\ myChannel[d] = found[c]
        BY <3>2 DEF Home
      <3>4. In(d)' = Home(d)'
        BY <2>2, <3>2 DEF Home
      <3> QED
        BY <2>2, <2>3, <3>1, <3>3, <3>4 DEF Underway
    <2>7. \A e \in Clients \ {d} : Home(e)' = Home(e)
      BY <2>2 DEF Home
    <2>8. PlaceInv'
      BY <2>1, <2>2, <2>5, <2>6, <2>7, MovesOne
    <2>9. HolderInv'
      BY <1>7, <2>1, <2>2 DEF purge, InLock, Dies, HolderInv, OthersStay, ManagerStages
    <2>10. torn' = {} => \A a \in Addrs : Visits(c, a)' => Visits(c, a) \/ Live(a)'
      BY <1>7 DEF purge, InLock, Dies, Visits, ManagerStages
    <2>11. LiveInv'
      BY <2>1, <2>2, <2>10, PointsToLive
    <2> QED
      BY <2>4, <2>8, <2>9, <2>11 DEF Kept
  <1>8. ASSUME destroy(c)
        PROVE  Kept
    <2>1. OthersStay(c) /\ manager = c /\ manager' = NoClient
      BY <1>8 DEF destroy, OthersStay
    <2>2. /\ \A e \in Clients : In(e)' = In(e)
          /\ \A b \in Addrs \ {found[c]} : Live(b) => Live(b)'
      BY <1>8, DestroyMovesNobody
    <2>3. ThreadsInv'
      BY <1>8 DEF destroy, ThreadsInv
    <2>4. \A e \in Clients : ~Changes(c, e) /\ ~Changes(c, e)' /\ e \notin held'[c]
      BY <1>8 DEF destroy, ThreadsInv, Changes, Ending
    <2>5. PlaceInv'
      <3>1. UNCHANGED <<myChannel, alive>>
        BY <1>8 DEF destroy
      <3> QED
        BY <2>1, <2>2, <2>4, <3>1, MovesNobody
    <2>6. HolderInv'
      BY <2>1 DEF HolderInv
    <2>7. ASSUME torn' = {}, NEW t \in Clients \ {c}
          PROVE  ~Visits(t, found[c])
      <3>1. Destroys(c, found[c]) /\ found[c] \in Addrs
        BY <1>8, <2>1 DEF destroy, Destroys, ListInv, LocalsInv, FoundStages
      <3>2. Visits(t, found[c]) => t \in Overlap
        BY <3>1 DEF Overlap
      <3> QED
        BY <2>7, <3>2 DEF OverlapInv
    <2>8. \A a \in Addrs : ~Visits(c, a)'
      BY <1>8 DEF destroy, Visits
    <2>9. \A t \in Clients \ {c}, a \in Addrs : Visits(t, a)' => Visits(t, a)
      BY <2>1 DEF Visits, OthersStay
    <2>10. LiveInv'
      BY <2>2, <2>7, <2>8, <2>9 DEF LiveInv
    <2> QED
      BY <2>3, <2>5, <2>6, <2>10 DEF Kept
  <1> QED
    BY <1>1, <1>2, <1>3, <1>4, <1>5, <1>6, <1>7, <1>8 DEF DestroySteps

\* kick, called by onChatKick and by the destructor of a channel.
LEMMA KickStepsPlace ==
    ASSUME PlacesInv, torn \subseteq torn', OverlapInv', NEW c \in Clients, KickSteps(c)
    PROVE  Kept
  <1> USE StepsAssumption
  <1> USE DEF PlacesInv, StepsInv, TypeOK, LocksInv, SaveStages, KickStages, HandStages,
           DestroyStages, Runs, Goto, Return, Live, objects, locks, locals
  <1>1. ASSUME onChatKick(c)
        PROVE  Kept
    <2>1. OthersStay(c) /\ \A s \in Clients \ {c} : manager' = s <=> manager = s
      BY <1>1 DEF onChatKick, Ready, OthersStay
    <2>2. /\ UNCHANGED <<myChannel, alive>> /\ \A e \in Clients : In(e)' = In(e)
          /\ \A b \in Addrs : Live(b) => Live(b)'
      BY <1>1 DEF onChatKick, Ready, In
    <2>3. ThreadsInv'
      BY <1>1 DEF onChatKick, Ready, ThreadsInv
    <2>4. \A e \in Clients : ~Changes(c, e) /\ ~Changes(c, e)'
      BY <1>1 DEF onChatKick, Ready, ThreadsInv, Changes, Ending
    <2>5. \A e \in Clients \ torn' : e \in held'[c] => e \in alive
      BY <1>1 DEF onChatKick, Ready, PlaceInv
    <2>6. PlaceInv'
      BY <2>1, <2>2, <2>4, <2>5, MovesNobody
    <2>7. HolderInv'
      BY <1>1, <2>1, <2>2 DEF onChatKick, Ready, HolderInv, OthersStay, ManagerStages,
         FoundStages
    <2>8. torn' = {} => \A a \in Addrs : Visits(c, a)' => Visits(c, a) \/ Live(a)'
      BY <1>1, MyChannelLive DEF onChatKick, Ready, Visits, ManagerStages
    <2>9. LiveInv'
      BY <2>1, <2>2, <2>8, PointsToLive
    <2> QED
      BY <2>3, <2>6, <2>7, <2>9 DEF Kept
  <1>2. ASSUME kick(c)
        PROVE  Kept
    <2> SUFFICES ASSUME ~Dies("freed")
                 PROVE  Kept
      BY DyingKeeps
    <2>1. OthersStay(c) /\ \A s \in Clients \ {c} : manager' = s <=> manager = s
      BY <1>2 DEF kick, InLock, Dies, OthersStay
    <2>2. CASE Return(c)
      <3>1. /\ UNCHANGED <<myChannel, alive>> /\ \A e \in Clients : In(e)' = In(e)
            /\ \A b \in Addrs : Live(b) => Live(b)'
        BY <1>2 DEF kick, InLock, Dies, In
      <3>2. ThreadsInv'
        BY <1>2, <2>1, <2>2, <3>1 DEF OthersStay, ThreadsInv
      <3>3. \A e \in Clients : ~Changes(c, e) /\ ~Changes(c, e)' /\ e \notin held'[c]
        BY <1>2, <2>2 DEF kick, ThreadsInv, Changes, Ending
      <3>4. PlaceInv'
        BY <2>1, <3>1, <3>3, MovesNobody
      <3>5. HolderInv'
        BY <1>2, <2>1, <2>2 DEF kick, InLock, Dies, HolderInv, OthersStay, ManagerStages
      <3>6. \A a \in Addrs : ~Visits(c, a)'
        BY <2>2 DEF Visits
      <3>7. LiveInv'
        BY <2>1, <3>1, <3>6, PointsToLive
      <3> QED
        BY <3>2, <3>4, <3>5, <3>7 DEF Kept
    <2>3. CASE ~Return(c)
      <3>1. /\ UNCHANGED <<myChannel, alive>> /\ \A e \in Clients : In(e)' = In(e)
            /\ \A b \in Addrs : Live(b) => Live(b)'
            /\ found[c] \in Addrs /\ Live(found[c]) /\ chans[found[c]].users \subseteq Clients
        BY <1>2 DEF kick, InLock, Dies, In, LocalsInv, FoundStages, Channel
      <3>2. PICK d \in Clients :
               /\ d \in chans[found[c]].users /\ held' = [held EXCEPT ![c] = {d}]
               /\ pc' = [pc EXCEPT ![c] = "expel"] /\ found' = found
        BY <1>2, <2>3, <3>1 DEF kick, InLock, Dies
      <3>3. ThreadsInv'
        BY <1>2, <3>1, <3>2 DEF kick, InLock, Dies, ThreadsInv
      <3>4. /\ \A e \in Clients : ~Changes(c, e)
            /\ \A e \in Clients \ {d} : ~Changes(c, e)' /\ e \notin held'[c]
            /\ Changes(c, d)'
        BY <1>2, <3>2 DEF kick, InLock, Dies, ThreadsInv, Changes, Ending
      <3>5. ASSUME d \notin torn'
            PROVE  /\ \A s \in Clients \ {c} : ~Changes(s, d)
                   /\ Underway(c, d)'
                   /\ \A s \in Clients : d \in held'[s] => d \in alive'
        <4>1. \A s \in Clients \ {c} : ~Changes(s, d)
          BY <2>1, <3>4, <3>5, Alone
        <4>2. In(d) = Home(d) /\ found[c] \in In(d)
          BY <3>1, <3>2, <3>4, <3>5, <4>1 DEF PlaceInv, In
        <4>3. d \in alive /\ myChannel[d] = found[c]
          BY <4>2 DEF Home
        <4>4. In(d)' = Home(d)'
          BY <3>1, <4>2 DEF Home
        <4> QED
          BY <3>1, <3>2, <4>1, <4>3, <4>4 DEF Underway
      <3>6. \A e \in Clients \ {d} : Home(e)' = Home(e)
        BY <3>1 DEF Home
      <3>7. PlaceInv'
        BY <2>1, <3>1, <3>4, <3>5, <3>6, MovesOne
      <3>8. HolderInv'
        BY <1>2, <2>1, <3>1 DEF kick, InLock, Dies, HolderInv, OthersStay, ManagerStages
      <3>9. torn' = {} => \A a \in Addrs : Visits(c, a)' => Visits(c, a) \/ Live(a)'
        BY <1>2 DEF kick, InLock, Dies, Visits, ManagerStages
      <3>10. LiveInv'
        BY <2>1, <3>1, <3>9, PointsToLive
      <3> QED
        BY <3>3, <3>7, <3>8, <3>10 DEF Kept
    <2> QED
      BY <2>2, <2>3
  <1>3. ASSUME KicksNobody(c)
        PROVE  Kept
    BY <1>3, DyingKeeps DEF KicksNobody
  <1>4. ASSUME NEW d \in Clients, expel(c, d)
        PROVE  Kept
    <2> SUFFICES ASSUME ~Dies("freed")
                 PROVE  Kept
      BY DyingKeeps
    <2>1. OthersStay(c) /\ \A s \in Clients \ {c} : manager' = s <=> manager = s
      BY <1>4 DEF expel, Kicks, InLock, Dies, OthersStay
    <2>2. /\ UNCHANGED <<myChannel, alive>> /\ In(d)' = In(d) \ {found[c]}
          /\ \A e \in Clients \ {d} : In(e)' = In(e)
          /\ \A b \in Addrs : Live(b) => Live(b)'
      <3>1. found[c] \in Addrs /\ Live(found[c])
        BY <1>4 DEF expel, InLock, Dies, LocalsInv, FoundStages, AtStages
      <3>2. UNCHANGED <<myChannel, alive>>
        BY <1>4 DEF expel, InLock, Dies
      <3> QED
        BY <1>4, <3>1, <3>2, QuitMoves DEF expel, InLock, Dies
    <2>3. ThreadsInv'
      BY <1>4, <2>1 DEF expel, Kicks, InLock, Dies, OthersStay, ThreadsInv
    <2>4. /\ Changes(c, d) \/ Changes(c, d)'
          /\ \A e \in Clients \ {d} : ~Changes(c, e) /\ ~Changes(c, e)' /\ e \notin held'[c]
      BY <1>4 DEF expel, Kicks, InLock, Dies, ThreadsInv, Changes, Ending
    <2>5. ASSUME d \notin torn'
          PROVE  /\ \A s \in Clients \ {c} : ~Changes(s, d)
                 /\ ~Changes(c, d)' => In(d)' = Home(d)'
                 /\ Changes(c, d)' => Underway(c, d)'
                 /\ \A s \in Clients : d \in held'[s] => d \in alive'
      <3>1. \A s \in Clients \ {c} : ~Changes(s, d)
        BY <2>1, <2>4, <2>5, Alone
      <3>2. In(d) = Home(d) /\ myChannel[d] = found[c] /\ d \in alive
        BY <1>4, <2>4, <2>5 DEF expel, InLock, Dies, Kicks, Changes, Ending, PlaceInv,
           Underway
      <3>3. In(d)' = {}
        BY <1>4, <2>2, <3>2 DEF expel, InLock, Dies, Home
      <3>4. \A s \in Clients : d \in held'[s] => d \in alive'
        BY <1>4, <2>1, <2>2, <2>5, <3>2 DEF expel, InLock, Dies, OthersStay, PlaceInv
      <3>5. pc'[c] = "strip" /\ d \in held'[c] /\ UNCHANGED <<found, myChannel>>
        BY <1>4, <2>2 DEF expel, InLock, Dies, Kicks
      <3> QED
        BY <2>2, <3>1, <3>2, <3>3, <3>4, <3>5 DEF Changes, Ending, Underway
    <2>6. \A e \in Clients \ {d} :
             /\ In(e)' = In(e) /\ Home(e)' = Home(e) /\ myChannel'[e] = myChannel[e]
             /\ e \in alive => e \in alive'
      BY <2>2 DEF Home
    <2>7. PlaceInv'
      BY <2>1, <2>4, <2>5, <2>6, MovesOne
    <2>8. HolderInv'
      BY <1>4, <2>1, <2>2 DEF expel, Kicks, InLock, Dies, HolderInv, OthersStay,
         ManagerStages, LocalsInv, FoundStages
    <2>9. torn' = {} => \A a \in Addrs : Visits(c, a)' => Visits(c, a) \/ Live(a)'
      BY <1>4 DEF expel, Kicks, InLock, Dies, Visits, ManagerStages
    <2>10. LiveInv'
      BY <2>1, <2>2, <2>9, PointsToLive
    <2> QED
      BY <2>3, <2>7, <2>8, <2>10 DEF Kept
  <1>5. ASSUME NEW d \in Clients, strip(c, d)
        PROVE  Kept
    <2>1. OthersStay(c) /\ \A s \in Clients \ {c} : manager' = s <=> manager = s
      BY <1>5 DEF strip, Kicks, OthersStay
    <2>2. /\ UNCHANGED alive /\ In(d)' = In(d)
          /\ \A e \in Clients \ {d} : In(e)' = In(e)
          /\ \A b \in Addrs : Live(b) => Live(b)'
      BY <1>5 DEF strip, In
    <2>3. ThreadsInv'
      BY <1>5, <2>1 DEF strip, Kicks, OthersStay, ThreadsInv
    <2>4. /\ Changes(c, d) \/ Changes(c, d)'
          /\ \A e \in Clients \ {d} : ~Changes(c, e) /\ ~Changes(c, e)' /\ e \notin held'[c]
      BY <1>5 DEF strip, Kicks, ThreadsInv, Changes, Ending
    <2>5. ASSUME d \notin torn'
          PROVE  /\ \A s \in Clients \ {c} : ~Changes(s, d)
                 /\ ~Changes(c, d)' => In(d)' = Home(d)'
                 /\ Changes(c, d)' => Underway(c, d)'
                 /\ \A s \in Clients : d \in held'[s] => d \in alive'
      <3>1. \A s \in Clients \ {c} : ~Changes(s, d)
        BY <2>1, <2>4, <2>5, Alone
      <3>2. In(d) = {} /\ d \in alive
        BY <1>5, <2>4, <2>5 DEF strip, Kicks, Changes, Ending, PlaceInv, Underway
      <3>3. In(d)' = {} /\ myChannel'[d] = NoAddr
        BY <1>5, <2>2, <3>2 DEF strip, Home
      <3>4. \A s \in Clients : d \in held'[s] => d \in alive'
        BY <1>5, <2>1, <2>2, <2>5, <3>2 DEF strip, OthersStay, PlaceInv
      <3>5. pc'[c] = "lobby" /\ d \in held'[c]
        BY <1>5, <2>2 DEF strip, Kicks
      <3> QED
        BY <2>2, <3>1, <3>2, <3>3, <3>4, <3>5 DEF Changes, Ending, Underway
    <2>6. \A e \in Clients \ {d} :
             /\ In(e)' = In(e) /\ Home(e)' = Home(e) /\ myChannel'[e] = myChannel[e]
             /\ e \in alive => e \in alive'
      BY <1>5, <2>2 DEF strip, Kicks, Home
    <2>7. PlaceInv'
      BY <2>1, <2>4, <2>5, <2>6, MovesOne
    <2>8. HolderInv'
      BY <1>5, <2>1, <2>2 DEF strip, Kicks, HolderInv, OthersStay, ManagerStages
    <2>9. torn' = {} => \A a \in Addrs : Visits(c, a)' => Visits(c, a) \/ Live(a)'
      BY <1>5 DEF strip, Kicks, Visits, ManagerStages
    <2>10. LiveInv'
      BY <2>1, <2>2, <2>9, PointsToLive
    <2> QED
      BY <2>3, <2>7, <2>8, <2>10 DEF Kept
  <1>6. ASSUME NEW d \in Clients, held[c] = {d}, lobby(c)
        PROVE  Kept
    <2> SUFFICES ASSUME ~Dies("null")
                 PROVE  Kept
      BY DyingKeeps
    <2>1. OthersStay(c) /\ \A s \in Clients \ {c} : manager' = s <=> manager = s
      BY <1>6 DEF lobby, Dies, OthersStay
    <2>2. /\ UNCHANGED <<myChannel, alive>> /\ In(d)' = In(d)
          /\ \A e \in Clients \ {d} : In(e)' = In(e)
          /\ \A b \in Addrs : Live(b) => Live(b)'
      BY <1>6 DEF lobby, Dies, In
    <2>3. ThreadsInv'
      BY <1>6, <2>1 DEF lobby, Dies, OthersStay, ThreadsInv
    <2>4. /\ Changes(c, d) \/ Changes(c, d)'
          /\ \A e \in Clients \ {d} : ~Changes(c, e) /\ ~Changes(c, e)' /\ e \notin held'[c]
      BY <1>6 DEF lobby, Dies, ThreadsInv, Changes, Ending
    <2>5. ASSUME d \notin torn'
          PROVE  /\ \A s \in Clients \ {c} : ~Changes(s, d)
                 /\ ~Changes(c, d)' => In(d)' = Home(d)'
                 /\ Changes(c, d)' => Underway(c, d)'
                 /\ \A s \in Clients : d \in held'[s] => d \in alive'
      <3>1. \A s \in Clients \ {c} : ~Changes(s, d)
        BY <2>1, <2>4, <2>5, Alone
      <3>2. In(d) = {} /\ myChannel[d] = NoAddr /\ d \in alive
        BY <1>6, <2>4, <2>5 DEF lobby, Dies, Kicks, Changes, Ending, PlaceInv, Underway
      <3>3. In(d)' = {} /\ myChannel'[d] = NoAddr
        BY <1>6, <2>2, <3>2 DEF lobby, Dies, Home
      <3>4. \A s \in Clients : d \in held'[s] => d \in alive'
        BY <1>6, <2>1, <2>2, <2>5, <3>2 DEF lobby, Dies, OthersStay, PlaceInv
      <3>5. pc'[c] = "admit" /\ d \in held'[c]
        BY <1>6, <2>2 DEF lobby, Dies, Kicks
      <3> QED
        BY <2>2, <3>1, <3>2, <3>3, <3>4, <3>5 DEF Changes, Ending, Underway
    <2>6. \A e \in Clients \ {d} :
             /\ In(e)' = In(e) /\ Home(e)' = Home(e) /\ myChannel'[e] = myChannel[e]
             /\ e \in alive => e \in alive'
      BY <2>2 DEF Home
    <2>7. PlaceInv'
      BY <2>1, <2>4, <2>5, <2>6, MovesOne
    <2>8. HolderInv'
      BY <1>6, <2>1, <2>2 DEF lobby, Dies, HolderInv, OthersStay, ManagerStages
    <2>9. torn' = {} => \A a \in Addrs : Visits(c, a)' => Visits(c, a) \/ Live(a)'
      BY <1>6 DEF lobby, Dies, Named, ListInv, ListedAreLive, Visits, ManagerStages
    <2>10. LiveInv'
      BY <2>1, <2>2, <2>9, PointsToLive
    <2> QED
      BY <2>3, <2>7, <2>8, <2>10 DEF Kept
  <1>7. ASSUME NEW d \in Clients, admit(c, d)
        PROVE  Kept
    <2> SUFFICES ASSUME ~Dies("freed")
                 PROVE  Kept
      BY DyingKeeps
    <2>1. OthersStay(c) /\ \A s \in Clients \ {c} : manager' = s <=> manager = s
      BY <1>7 DEF admit, Kicks, InLock, Dies, OthersStay
    <2>2. /\ UNCHANGED <<myChannel, alive>> /\ In(d)' = In(d) \cup {at[c]}
          /\ \A e \in Clients \ {d} : In(e)' = In(e)
          /\ \A b \in Addrs : Live(b) => Live(b)'
      <3>1. at[c] \in Addrs /\ Live(at[c])
        BY <1>7 DEF admit, InLock, Dies, LocalsInv, FoundStages, AtStages
      <3>2. UNCHANGED <<myChannel, alive>>
        BY <1>7 DEF admit, InLock, Dies
      <3> QED
        BY <1>7, <3>1, <3>2, JoinMoves DEF admit, InLock, Dies
    <2>3. ThreadsInv'
      BY <1>7, <2>1 DEF admit, Kicks, InLock, Dies, OthersStay, ThreadsInv
    <2>4. /\ Changes(c, d) \/ Changes(c, d)'
          /\ \A e \in Clients \ {d} : ~Changes(c, e) /\ ~Changes(c, e)' /\ e \notin held'[c]
      BY <1>7 DEF admit, Kicks, InLock, Dies, ThreadsInv, Changes, Ending
    <2>5. ASSUME d \notin torn'
          PROVE  /\ \A s \in Clients \ {c} : ~Changes(s, d)
                 /\ ~Changes(c, d)' => In(d)' = Home(d)'
                 /\ Changes(c, d)' => Underway(c, d)'
                 /\ \A s \in Clients : d \in held'[s] => d \in alive'
      <3>1. \A s \in Clients \ {c} : ~Changes(s, d)
        BY <2>1, <2>4, <2>5, Alone
      <3>2. In(d) = {} /\ myChannel[d] = NoAddr /\ d \in alive
        BY <1>7, <2>4, <2>5 DEF admit, InLock, Dies, Kicks, Changes, Ending, PlaceInv,
           Underway
      <3>3. In(d)' = {at[c]} /\ myChannel'[d] = NoAddr
        BY <1>7, <2>2, <3>2 DEF admit, InLock, Dies, Home
      <3>4. \A s \in Clients : d \in held'[s] => d \in alive'
        BY <1>7, <2>1, <2>2, <2>5, <3>2 DEF admit, InLock, Dies, OthersStay, PlaceInv
      <3>5. pc'[c] = "place" /\ d \in held'[c] /\ at' = at
        BY <1>7, <2>2 DEF admit, InLock, Dies, Kicks
      <3> QED
        BY <2>2, <3>1, <3>2, <3>3, <3>4, <3>5 DEF Changes, Ending, Underway
    <2>6. \A e \in Clients \ {d} :
             /\ In(e)' = In(e) /\ Home(e)' = Home(e) /\ myChannel'[e] = myChannel[e]
             /\ e \in alive => e \in alive'
      BY <2>2 DEF Home
    <2>7. PlaceInv'
      BY <2>1, <2>4, <2>5, <2>6, MovesOne
    <2>8. HolderInv'
      BY <1>7, <2>1, <2>2 DEF admit, Kicks, InLock, Dies, HolderInv, OthersStay,
         ManagerStages, LocalsInv, FoundStages
    <2>9. torn' = {} => \A a \in Addrs : Visits(c, a)' => Visits(c, a) \/ Live(a)'
      BY <1>7 DEF admit, Kicks, InLock, Dies, Visits, ManagerStages
    <2>10. LiveInv'
      BY <2>1, <2>2, <2>9, PointsToLive
    <2> QED
      BY <2>3, <2>7, <2>8, <2>10 DEF Kept
  <1>8. ASSUME NEW d \in Clients, place(c, d)
        PROVE  Kept
    <2>1. OthersStay(c) /\ \A s \in Clients \ {c} : manager' = s <=> manager = s
      BY <1>8 DEF place, Kicks, OthersStay
    <2>2. /\ UNCHANGED alive /\ In(d)' = In(d)
          /\ \A e \in Clients \ {d} : In(e)' = In(e)
          /\ \A b \in Addrs : Live(b) => Live(b)'
      BY <1>8 DEF place, In
    <2>3. ThreadsInv'
      BY <1>8, <2>1 DEF place, Kicks, OthersStay, ThreadsInv
    <2>4. /\ Changes(c, d) \/ Changes(c, d)'
          /\ \A e \in Clients \ {d} : ~Changes(c, e) /\ ~Changes(c, e)' /\ e \notin held'[c]
      BY <1>8 DEF place, Kicks, ThreadsInv, Changes, Ending
    <2>5. ASSUME d \notin torn'
          PROVE  /\ \A s \in Clients \ {c} : ~Changes(s, d)
                 /\ ~Changes(c, d)' => In(d)' = Home(d)'
                 /\ Changes(c, d)' => Underway(c, d)'
                 /\ \A s \in Clients : d \in held'[s] => d \in alive'
      <3>1. \A s \in Clients \ {c} : ~Changes(s, d)
        BY <2>1, <2>4, <2>5, Alone
      <3>2. In(d) = {at[c]} /\ d \in alive /\ at[c] \in Addrs
        BY <1>8, <2>4, <2>5 DEF place, Kicks, Changes, Ending, PlaceInv, Underway,
           LocalsInv, AtStages
      <3>3. In(d)' = Home(d)'
        BY <1>8, <2>2, <3>2 DEF place, Home
      <3>4. \A s \in Clients : d \in held'[s] => d \in alive'
        BY <1>8, <2>1, <2>2, <2>5, <3>2 DEF place, OthersStay, PlaceInv
      <3>5. pc'[c] = "tell" /\ d \in held'[c]
        BY <1>8, <2>2 DEF place, Kicks
      <3> QED
        BY <2>2, <3>1, <3>2, <3>3, <3>4, <3>5 DEF Changes, Ending, Underway
    <2>6. \A e \in Clients \ {d} :
             /\ In(e)' = In(e) /\ Home(e)' = Home(e) /\ myChannel'[e] = myChannel[e]
             /\ e \in alive => e \in alive'
      BY <1>8, <2>2 DEF place, Kicks, Home
    <2>7. PlaceInv'
      BY <2>1, <2>4, <2>5, <2>6, MovesOne
    <2>8. HolderInv'
      BY <1>8, <2>1, <2>2 DEF place, Kicks, HolderInv, OthersStay, ManagerStages
    <2>9. torn' = {} => \A a \in Addrs : Visits(c, a)' => Visits(c, a) \/ Live(a)'
      BY <1>8 DEF place, Kicks, Visits, ManagerStages
    <2>10. LiveInv'
      BY <2>1, <2>2, <2>9, PointsToLive
    <2> QED
      BY <2>3, <2>7, <2>8, <2>10 DEF Kept
  <1>9. ASSUME NEW d \in Clients, tell(c, d)
        PROVE  Kept
    <2> SUFFICES ASSUME ~Dies("freed")
                 PROVE  Kept
      BY DyingKeeps
    <2>1. OthersStay(c) /\ \A s \in Clients \ {c} : manager' = s <=> manager = s
      BY <1>9 DEF tell, Kicks, InLock, Dies, OthersStay
    <2>2. /\ UNCHANGED <<myChannel, alive>> /\ In(d)' = In(d)
          /\ \A e \in Clients \ {d} : In(e)' = In(e)
          /\ \A b \in Addrs : Live(b) => Live(b)'
      BY <1>9 DEF tell, InLock, Dies, In
    <2>3. ThreadsInv'
      BY <1>9, <2>1 DEF tell, Kicks, InLock, Dies, OthersStay, ThreadsInv
    <2>4. /\ Changes(c, d) \/ Changes(c, d)'
          /\ \A e \in Clients \ {d} : ~Changes(c, e) /\ ~Changes(c, e)' /\ e \notin held'[c]
      BY <1>9 DEF tell, Kicks, InLock, Dies, ThreadsInv, Changes, Ending
    <2>5. ASSUME d \notin torn'
          PROVE  /\ \A s \in Clients \ {c} : ~Changes(s, d)
                 /\ ~Changes(c, d)' => In(d)' = Home(d)'
                 /\ Changes(c, d)' => Underway(c, d)'
                 /\ \A s \in Clients : d \in held'[s] => d \in alive'
      <3>1. \A s \in Clients \ {c} : ~Changes(s, d)
        BY <2>1, <2>4, <2>5, Alone
      <3>2. In(d) = Home(d) /\ d \in alive
        BY <1>9, <2>4, <2>5 DEF tell, InLock, Dies, Kicks, Changes, Ending, PlaceInv,
           Underway
      <3>3. In(d)' = Home(d)'
        BY <1>9, <2>2, <3>2 DEF tell, InLock, Dies, Home
      <3>4. \A s \in Clients : d \in held'[s] => d \in alive'
        BY <1>9, <2>1, <2>2, <2>5, <3>2 DEF tell, InLock, Dies, OthersStay, PlaceInv
      <3>5. pc'[c] \in {"idle", "purge"} /\ held'[c] = {}
        BY <1>9, <2>2 DEF tell, InLock, Dies, Kicks
      <3> QED
        BY <2>2, <3>1, <3>2, <3>3, <3>4, <3>5 DEF Changes, Ending, Underway
    <2>6. \A e \in Clients \ {d} :
             /\ In(e)' = In(e) /\ Home(e)' = Home(e) /\ myChannel'[e] = myChannel[e]
             /\ e \in alive => e \in alive'
      BY <2>2 DEF Home
    <2>7. PlaceInv'
      BY <2>1, <2>4, <2>5, <2>6, MovesOne
    <2>8. HolderInv'
      BY <1>9, <2>1, <2>2 DEF tell, Kicks, InLock, Dies, HolderInv, OthersStay,
         ManagerStages
    <2>9. torn' = {} => \A a \in Addrs : Visits(c, a)' => Visits(c, a) \/ Live(a)'
      BY <1>9 DEF tell, Kicks, InLock, Dies, Visits, ManagerStages
    <2>10. LiveInv'
      BY <2>1, <2>2, <2>9, PointsToLive
    <2> QED
      BY <2>3, <2>7, <2>8, <2>10 DEF Kept
  <1>10. ASSUME lobby(c)
         PROVE  Kept
    BY <1>6, <1>10 DEF lobby, ThreadsInv
  <1> QED
    BY <1>1, <1>2, <1>3, <1>4, <1>5, <1>7, <1>8, <1>9, <1>10 DEF KickSteps

\* onChatJoin, Channel::join and Channel::quit.
LEMMA JoinStepsPlace ==
    ASSUME PlacesInv, torn \subseteq torn', OverlapInv', NEW c \in Clients, JoinSteps(c)
    PROVE  Kept
  <1> USE StepsAssumption
  <1> USE DEF PlacesInv, StepsInv, TypeOK, LocksInv, SaveStages, KickStages, HandStages,
           DestroyStages, Runs, Goto, Return, Live, objects, locks, locals
  <1>1. ASSUME NEW n \in Names, onChatJoin(c, n)
        PROVE  Kept
    <2>1. OthersStay(c) /\ \A s \in Clients \ {c} : manager' = s <=> manager = s
      BY <1>1 DEF onChatJoin, Ready, OthersStay
    <2>2. /\ UNCHANGED <<myChannel, alive>> /\ \A e \in Clients : In(e)' = In(e)
          /\ \A b \in Addrs : Live(b) => Live(b)'
      BY <1>1 DEF onChatJoin, Ready, In
    <2>3. ThreadsInv'
      BY <1>1 DEF onChatJoin, Ready, ThreadsInv
    <2>4. \A e \in Clients : ~Changes(c, e) /\ ~Changes(c, e)'
      BY <1>1 DEF onChatJoin, Ready, ThreadsInv, Changes, Ending
    <2>5. \A e \in Clients \ torn' : e \in held'[c] => e \in alive
      BY <1>1 DEF onChatJoin, Ready, PlaceInv
    <2>6. PlaceInv'
      BY <2>1, <2>2, <2>4, <2>5, MovesNobody
    <2>7. HolderInv'
      BY <1>1, <2>1, <2>2 DEF onChatJoin, Ready, HolderInv, OthersStay, ManagerStages,
         FoundStages
    <2>8. torn' = {} => \A a \in Addrs : Visits(c, a)' => Visits(c, a) \/ Live(a)'
      BY <1>1, <2>2 DEF onChatJoin, Ready, Visits, ManagerStages, Named, ListInv,
         ListedAreLive
    <2>9. LiveInv'
      BY <2>1, <2>2, <2>8, PointsToLive
    <2> QED
      BY <2>3, <2>6, <2>7, <2>9 DEF Kept
  <1>2. ASSUME countUserChannels(c)
        PROVE  Kept
    <2>1. OthersStay(c) /\ \A s \in Clients \ {c} : manager' = s <=> manager = s
      BY <1>2 DEF countUserChannels, OthersStay
    <2>2. /\ UNCHANGED <<myChannel, alive>> /\ \A e \in Clients : In(e)' = In(e)
          /\ \A b \in Addrs : Live(b) => Live(b)'
      BY <1>2 DEF countUserChannels, In
    <2>3. ThreadsInv'
      BY <1>2 DEF countUserChannels, ThreadsInv
    <2>4. \A e \in Clients : ~Changes(c, e) /\ ~Changes(c, e)'
      BY <1>2 DEF countUserChannels, ThreadsInv, Changes, Ending
    <2>5. \A e \in Clients \ torn' : e \in held'[c] => e \in alive
      BY <1>2 DEF countUserChannels, PlaceInv
    <2>6. PlaceInv'
      BY <2>1, <2>2, <2>4, <2>5, MovesNobody
    <2>7. HolderInv'
      BY <1>2, <2>1, <2>2 DEF countUserChannels, HolderInv, OthersStay, ManagerStages,
         FoundStages
    <2>8. torn' = {} => \A a \in Addrs : Visits(c, a)' => Visits(c, a) \/ Live(a)'
      BY <1>2 DEF countUserChannels, Visits, ManagerStages
    <2>9. LiveInv'
      BY <2>1, <2>2, <2>8, PointsToLive
    <2> QED
      BY <2>3, <2>6, <2>7, <2>9 DEF Kept
  <1>3. ASSUME createChannel(c)
        PROVE  Kept
    <2>1. OthersStay(c) /\ \A s \in Clients \ {c} : manager' = s <=> manager = s
      BY <1>3 DEF createChannel, OthersStay
    <2>2. /\ UNCHANGED <<myChannel, alive>> /\ \A e \in Clients : In(e)' = In(e)
          /\ \A b \in Addrs : Live(b) => Live(b)'
      BY <1>3, CreateMovesNobody DEF createChannel
    <2>3. ThreadsInv'
      BY <1>3 DEF createChannel, ThreadsInv
    <2>4. \A e \in Clients : ~Changes(c, e) /\ ~Changes(c, e)'
      BY <1>3 DEF createChannel, ThreadsInv, Changes, Ending
    <2>5. \A e \in Clients \ torn' : e \in held'[c] => e \in alive
      BY <1>3 DEF createChannel, PlaceInv
    <2>6. PlaceInv'
      BY <2>1, <2>2, <2>4, <2>5, MovesNobody
    <2>7. HolderInv'
      BY <1>3, <2>1, <2>2, CreateMovesNobody DEF createChannel, HolderInv, OthersStay,
         ManagerStages, FoundStages
    <2>8. torn' = {} => \A a \in Addrs : Visits(c, a)' => Visits(c, a) \/ Live(a)'
      BY <1>3 DEF createChannel, Visits, ManagerStages
    <2>9. LiveInv'
      BY <2>1, <2>2, <2>8, PointsToLive
    <2> QED
      BY <2>3, <2>6, <2>7, <2>9 DEF Kept
  <1>4. ASSUME leave(c)
        PROVE  Kept
    <2>1. OthersStay(c) /\ \A s \in Clients \ {c} : manager' = s <=> manager = s
      BY <1>4 DEF leave, OthersStay
    <2>2. /\ UNCHANGED <<myChannel, alive>> /\ In(c)' = In(c)
          /\ \A e \in Clients \ {c} : In(e)' = In(e)
          /\ \A b \in Addrs : Live(b) => Live(b)'
      BY <1>4 DEF leave, In
    <2>3. ThreadsInv'
      BY <1>4, <2>1 DEF leave, OthersStay, ThreadsInv
    <2>4. /\ Changes(c, c) \/ Changes(c, c)'
          /\ \A e \in Clients \ {c} : ~Changes(c, e) /\ ~Changes(c, e)' /\ e \notin held'[c]
      BY <1>4 DEF leave, ThreadsInv, Changes, Ending
    <2>5. ASSUME c \notin torn'
          PROVE  /\ \A s \in Clients \ {c} : ~Changes(s, c)
                 /\ ~Changes(c, c)' => In(c)' = Home(c)'
                 /\ Changes(c, c)' => Underway(c, c)'
                 /\ \A s \in Clients : c \in held'[s] => c \in alive'
      <3>1. \A s \in Clients \ {c} : ~Changes(s, c)
        BY <2>1, <2>4, <2>5, Alone
      <3>2. In(c) = Home(c)
        BY <1>4, <2>4, <2>5, <3>1 DEF leave, Changes, Ending, PlaceInv, Underway, ThreadsInv
      <3>3. In(c)' = Home(c)'
        BY <1>4, <2>2, <3>2 DEF leave, Home
      <3>4. \A s \in Clients : c \in held'[s] => c \in alive'
        BY <1>4, <2>1, <2>2, <2>5, <3>2 DEF leave, OthersStay, PlaceInv
      <3>5. /\ pc'[c] = IF myChannel[c] = NoAddr THEN "enter" ELSE "part"
            /\ at'[c] = myChannel[c]
        BY <1>4, <2>2, <3>2 DEF leave
      <3> QED
        BY <2>2, <3>1, <3>2, <3>3, <3>4, <3>5 DEF Changes, Ending, Underway, Home
    <2>6. \A e \in Clients \ {c} :
             /\ In(e)' = In(e) /\ Home(e)' = Home(e) /\ myChannel'[e] = myChannel[e]
             /\ e \in alive => e \in alive'
      BY <2>2 DEF Home
    <2>7. PlaceInv'
      BY <2>1, <2>4, <2>5, <2>6, MovesOne
    <2>8. HolderInv'
      BY <1>4, <2>1, <2>2 DEF leave, HolderInv, OthersStay, ManagerStages
    <2>9. torn' = {} => \A a \in Addrs : Visits(c, a)' => Visits(c, a) \/ Live(a)'
      BY <1>4, <2>2, MyChannelLive DEF leave, ThreadsInv, Visits, ManagerStages
    <2>10. LiveInv'
      BY <2>1, <2>2, <2>9, PointsToLive
    <2> QED
      BY <2>3, <2>7, <2>8, <2>10 DEF Kept
  <1>5. ASSUME part(c)
        PROVE  Kept
    <2> SUFFICES ASSUME ~Dies("freed")
                 PROVE  Kept
      BY DyingKeeps
    <2>1. OthersStay(c) /\ \A s \in Clients \ {c} : manager' = s <=> manager = s
      BY <1>5 DEF part, InLock, Dies, OthersStay
    <2>2. /\ UNCHANGED <<myChannel, alive>> /\ In(c)' = In(c) \ {at[c]}
          /\ \A e \in Clients \ {c} : In(e)' = In(e)
          /\ \A b \in Addrs : Live(b) => Live(b)'
      <3>1. at[c] \in Addrs /\ Live(at[c])
        BY <1>5 DEF part, InLock, Dies, LocalsInv, FoundStages, AtStages
      <3>2. UNCHANGED <<myChannel, alive>>
        BY <1>5 DEF part, InLock, Dies
      <3> QED
        BY <1>5, <3>1, <3>2, QuitMoves DEF part, InLock, Dies
    <2>3. ThreadsInv'
      BY <1>5, <2>1 DEF part, InLock, Dies, OthersStay, ThreadsInv
    <2>4. /\ Changes(c, c) \/ Changes(c, c)'
          /\ \A e \in Clients \ {c} : ~Changes(c, e) /\ ~Changes(c, e)' /\ e \notin held'[c]
      BY <1>5 DEF part, InLock, Dies, ThreadsInv, Changes, Ending
    <2>5. ASSUME c \notin torn'
          PROVE  /\ \A s \in Clients \ {c} : ~Changes(s, c)
                 /\ ~Changes(c, c)' => In(c)' = Home(c)'
                 /\ Changes(c, c)' => Underway(c, c)'
                 /\ \A s \in Clients : c \in held'[s] => c \in alive'
      <3>1. \A s \in Clients \ {c} : ~Changes(s, c)
        BY <2>1, <2>4, <2>5, Alone
      <3>2. In(c) = Home(c) /\ at[c] = myChannel[c]
        BY <1>5, <2>4, <2>5, <3>1 DEF part, InLock, Dies, Changes, Ending, PlaceInv,
           Underway, ThreadsInv
      <3>3. In(c)' = {}
        BY <1>5, <2>2, <3>2 DEF part, InLock, Dies, Home
      <3>4. \A s \in Clients : c \in held'[s] => c \in alive'
        BY <1>5, <2>1, <2>2, <2>5, <3>2 DEF part, InLock, Dies, OthersStay, PlaceInv
      <3>5. pc'[c] = "unset"
        BY <1>5, <2>2, <3>2 DEF part, InLock, Dies
      <3> QED
        BY <2>2, <3>1, <3>2, <3>3, <3>4, <3>5 DEF Changes, Ending, Underway
    <2>6. \A e \in Clients \ {c} :
             /\ In(e)' = In(e) /\ Home(e)' = Home(e) /\ myChannel'[e] = myChannel[e]
             /\ e \in alive => e \in alive'
      BY <2>2 DEF Home
    <2>7. PlaceInv'
      BY <2>1, <2>4, <2>5, <2>6, MovesOne
    <2>8. HolderInv'
      BY <1>5, <2>1, <2>2 DEF part, InLock, Dies, HolderInv, OthersStay, ManagerStages,
         LocalsInv, FoundStages
    <2>9. torn' = {} => \A a \in Addrs : Visits(c, a)' => Visits(c, a) \/ Live(a)'
      BY <1>5 DEF part, InLock, Dies, Visits, ManagerStages
    <2>10. LiveInv'
      BY <2>1, <2>2, <2>9, PointsToLive
    <2> QED
      BY <2>3, <2>7, <2>8, <2>10 DEF Kept
  <1>6. ASSUME unset(c)
        PROVE  Kept
    <2>1. OthersStay(c) /\ \A s \in Clients \ {c} : manager' = s <=> manager = s
      BY <1>6 DEF unset, OthersStay
    <2>2. /\ UNCHANGED alive /\ In(c)' = In(c)
          /\ \A e \in Clients \ {c} : In(e)' = In(e)
          /\ \A b \in Addrs : Live(b) => Live(b)'
      BY <1>6 DEF unset, In
    <2>3. ThreadsInv'
      BY <1>6, <2>1 DEF unset, OthersStay, ThreadsInv
    <2>4. /\ Changes(c, c) \/ Changes(c, c)'
          /\ \A e \in Clients \ {c} : ~Changes(c, e) /\ ~Changes(c, e)' /\ e \notin held'[c]
      BY <1>6 DEF unset, ThreadsInv, Changes, Ending
    <2>5. ASSUME c \notin torn'
          PROVE  /\ \A s \in Clients \ {c} : ~Changes(s, c)
                 /\ ~Changes(c, c)' => In(c)' = Home(c)'
                 /\ Changes(c, c)' => Underway(c, c)'
                 /\ \A s \in Clients : c \in held'[s] => c \in alive'
      <3>1. \A s \in Clients \ {c} : ~Changes(s, c)
        BY <2>1, <2>4, <2>5, Alone
      <3>2. In(c) = {}
        BY <1>6, <2>4, <2>5, <3>1 DEF unset, Changes, Ending, PlaceInv, Underway, ThreadsInv
      <3>3. In(c)' = {}
        BY <1>6, <2>2, <3>2 DEF unset, Home
      <3>4. \A s \in Clients : c \in held'[s] => c \in alive'
        BY <1>6, <2>1, <2>2, <2>5, <3>2 DEF unset, OthersStay, PlaceInv
      <3>5. pc'[c] = "enter" /\ myChannel'[c] = NoAddr
        BY <1>6, <2>2, <3>2 DEF unset
      <3> QED
        BY <2>2, <3>1, <3>2, <3>3, <3>4, <3>5 DEF Changes, Ending, Underway
    <2>6. \A e \in Clients \ {c} :
             /\ In(e)' = In(e) /\ Home(e)' = Home(e) /\ myChannel'[e] = myChannel[e]
             /\ e \in alive => e \in alive'
      BY <1>6, <2>2 DEF unset, Home
    <2>7. PlaceInv'
      BY <2>1, <2>4, <2>5, <2>6, MovesOne
    <2>8. HolderInv'
      BY <1>6, <2>1, <2>2 DEF unset, HolderInv, OthersStay, ManagerStages
    <2>9. torn' = {} => \A a \in Addrs : Visits(c, a)' => Visits(c, a) \/ Live(a)'
      BY <1>6 DEF unset, Visits, ManagerStages
    <2>10. LiveInv'
      BY <2>1, <2>2, <2>9, PointsToLive
    <2> QED
      BY <2>3, <2>7, <2>8, <2>10 DEF Kept
  <1>7. ASSUME enter(c)
        PROVE  Kept
    <2> SUFFICES ASSUME ~Dies("freed")
                 PROVE  Kept
      BY DyingKeeps
    <2>1. OthersStay(c) /\ \A s \in Clients \ {c} : manager' = s <=> manager = s
      BY <1>7 DEF enter, InLock, Dies, OthersStay
    <2>2. /\ UNCHANGED <<myChannel, alive>> /\ In(c)' = In(c) \cup {found[c]}
          /\ \A e \in Clients \ {c} : In(e)' = In(e)
          /\ \A b \in Addrs : Live(b) => Live(b)'
      <3>1. found[c] \in Addrs /\ Live(found[c])
        BY <1>7 DEF enter, InLock, Dies, LocalsInv, FoundStages, AtStages
      <3>2. UNCHANGED <<myChannel, alive>>
        BY <1>7 DEF enter, InLock, Dies
      <3> QED
        BY <1>7, <3>1, <3>2, JoinMoves DEF enter, InLock, Dies
    <2>3. ThreadsInv'
      BY <1>7, <2>1 DEF enter, InLock, Dies, OthersStay, ThreadsInv
    <2>4. /\ Changes(c, c) \/ Changes(c, c)'
          /\ \A e \in Clients \ {c} : ~Changes(c, e) /\ ~Changes(c, e)' /\ e \notin held'[c]
      BY <1>7 DEF enter, InLock, Dies, ThreadsInv, Changes, Ending
    <2>5. ASSUME c \notin torn'
          PROVE  /\ \A s \in Clients \ {c} : ~Changes(s, c)
                 /\ ~Changes(c, c)' => In(c)' = Home(c)'
                 /\ Changes(c, c)' => Underway(c, c)'
                 /\ \A s \in Clients : c \in held'[s] => c \in alive'
      <3>1. \A s \in Clients \ {c} : ~Changes(s, c)
        BY <2>1, <2>4, <2>5, Alone
      <3>2. In(c) = {}
        BY <1>7, <2>4, <2>5, <3>1 DEF enter, InLock, Dies, Changes, Ending, PlaceInv,
           Underway, ThreadsInv
      <3>3. In(c)' = {found[c]}
        BY <1>7, <2>2, <3>2 DEF enter, InLock, Dies, Home
      <3>4. \A s \in Clients : c \in held'[s] => c \in alive'
        BY <1>7, <2>1, <2>2, <2>5, <3>2 DEF enter, InLock, Dies, OthersStay, PlaceInv
      <3>5. pc'[c] = "set" /\ found' = found
        BY <1>7, <2>2, <3>2 DEF enter, InLock, Dies
      <3> QED
        BY <2>2, <3>1, <3>2, <3>3, <3>4, <3>5 DEF Changes, Ending, Underway
    <2>6. \A e \in Clients \ {c} :
             /\ In(e)' = In(e) /\ Home(e)' = Home(e) /\ myChannel'[e] = myChannel[e]
             /\ e \in alive => e \in alive'
      BY <2>2 DEF Home
    <2>7. PlaceInv'
      BY <2>1, <2>4, <2>5, <2>6, MovesOne
    <2>8. HolderInv'
      BY <1>7, <2>1, <2>2 DEF enter, InLock, Dies, HolderInv, OthersStay, ManagerStages,
         LocalsInv, FoundStages
    <2>9. torn' = {} => \A a \in Addrs : Visits(c, a)' => Visits(c, a) \/ Live(a)'
      BY <1>7 DEF enter, InLock, Dies, Visits, ManagerStages
    <2>10. LiveInv'
      BY <2>1, <2>2, <2>9, PointsToLive
    <2> QED
      BY <2>3, <2>7, <2>8, <2>10 DEF Kept
  <1>8. ASSUME set(c)
        PROVE  Kept
    <2>1. OthersStay(c) /\ \A s \in Clients \ {c} : manager' = s <=> manager = s
      BY <1>8 DEF set, OthersStay
    <2>2. /\ UNCHANGED alive /\ In(c)' = In(c)
          /\ \A e \in Clients \ {c} : In(e)' = In(e)
          /\ \A b \in Addrs : Live(b) => Live(b)'
      BY <1>8 DEF set, In
    <2>3. ThreadsInv'
      BY <1>8, <2>1 DEF set, OthersStay, ThreadsInv
    <2>4. /\ Changes(c, c) \/ Changes(c, c)'
          /\ \A e \in Clients \ {c} : ~Changes(c, e) /\ ~Changes(c, e)' /\ e \notin held'[c]
      BY <1>8 DEF set, ThreadsInv, Changes, Ending
    <2>5. ASSUME c \notin torn'
          PROVE  /\ \A s \in Clients \ {c} : ~Changes(s, c)
                 /\ ~Changes(c, c)' => In(c)' = Home(c)'
                 /\ Changes(c, c)' => Underway(c, c)'
                 /\ \A s \in Clients : c \in held'[s] => c \in alive'
      <3>1. \A s \in Clients \ {c} : ~Changes(s, c)
        BY <2>1, <2>4, <2>5, Alone
      <3>2. In(c) = {found[c]} /\ c \in alive /\ found[c] \in Addrs
        BY <1>8, <2>4, <2>5, <3>1 DEF set, Changes, Ending, PlaceInv, Underway, ThreadsInv,
           LocalsInv, FoundStages
      <3>3. In(c)' = Home(c)'
        BY <1>8, <2>2, <3>2 DEF set, Home
      <3>4. \A s \in Clients : c \in held'[s] => c \in alive'
        BY <1>8, <2>1, <2>2, <2>5, <3>2 DEF set, OthersStay, PlaceInv
      <3>5. pc'[c] = "locate"
        BY <1>8, <2>2, <3>2 DEF set
      <3> QED
        BY <2>2, <3>1, <3>2, <3>3, <3>4, <3>5 DEF Changes, Ending, Underway
    <2>6. \A e \in Clients \ {c} :
             /\ In(e)' = In(e) /\ Home(e)' = Home(e) /\ myChannel'[e] = myChannel[e]
             /\ e \in alive => e \in alive'
      BY <1>8, <2>2 DEF set, Home
    <2>7. PlaceInv'
      BY <2>1, <2>4, <2>5, <2>6, MovesOne
    <2>8. HolderInv'
      BY <1>8, <2>1, <2>2 DEF set, HolderInv, OthersStay, ManagerStages
    <2>9. torn' = {} => \A a \in Addrs : Visits(c, a)' => Visits(c, a) \/ Live(a)'
      BY <1>8 DEF set, Visits, ManagerStages
    <2>10. LiveInv'
      BY <2>1, <2>2, <2>9, PointsToLive
    <2> QED
      BY <2>3, <2>7, <2>8, <2>10 DEF Kept
  <1>9. ASSUME locate(c)
        PROVE  Kept
    <2>1. OthersStay(c) /\ \A s \in Clients \ {c} : manager' = s <=> manager = s
      BY <1>9 DEF locate, OthersStay
    <2>2. /\ UNCHANGED <<myChannel, alive>> /\ \A e \in Clients : In(e)' = In(e)
          /\ \A b \in Addrs : Live(b) => Live(b)'
      BY <1>9 DEF locate, In
    <2>3. ThreadsInv'
      BY <1>9 DEF locate, ThreadsInv
    <2>4. \A e \in Clients : ~Changes(c, e) /\ ~Changes(c, e)'
      BY <1>9 DEF locate, ThreadsInv, Changes, Ending
    <2>5. \A e \in Clients \ torn' : e \in held'[c] => e \in alive
      BY <1>9 DEF locate, PlaceInv
    <2>6. PlaceInv'
      BY <2>1, <2>2, <2>4, <2>5, MovesNobody
    <2>7. HolderInv'
      BY <1>9, <2>1, <2>2 DEF locate, HolderInv, OthersStay, ManagerStages, FoundStages
    <2>8. torn' = {} => \A a \in Addrs : Visits(c, a)' => Visits(c, a) \/ Live(a)'
      BY <1>9 DEF locate, Visits, ManagerStages
    <2>9. LiveInv'
      BY <2>1, <2>2, <2>8, PointsToLive
    <2> QED
      BY <2>3, <2>6, <2>7, <2>9 DEF Kept
  <1> QED
    BY <1>1, <1>2, <1>3, <1>4, <1>5, <1>6, <1>7, <1>8, <1>9 DEF JoinSteps

\* The other handlers, and the life of a client.
LEMMA OtherStepsPlace ==
    ASSUME PlacesInv, torn \subseteq torn', OverlapInv', NEW c \in Clients, OtherSteps(c)
    PROVE  Kept
  <1> USE StepsAssumption
  <1> USE DEF PlacesInv, StepsInv, TypeOK, LocksInv, SaveStages, KickStages, HandStages,
           DestroyStages, Runs, Goto, Return, Live, objects, locks, locals
  <1>1. ASSUME NEW d \in Clients, onChatSend(c, d)
        PROVE  Kept
    <2>1. OthersStay(c) /\ \A s \in Clients \ {c} : manager' = s <=> manager = s
      BY <1>1 DEF onChatSend, Ready, OthersStay
    <2>2. /\ UNCHANGED <<myChannel, alive>> /\ \A e \in Clients : In(e)' = In(e)
          /\ \A b \in Addrs : Live(b) => Live(b)'
      BY <1>1 DEF onChatSend, Ready, In
    <2>3. ThreadsInv'
      BY <1>1 DEF onChatSend, Ready, ThreadsInv
    <2>4. \A e \in Clients : ~Changes(c, e) /\ ~Changes(c, e)'
      BY <1>1 DEF onChatSend, Ready, ThreadsInv, Changes, Ending
    <2>5. \A e \in Clients \ torn' : e \in held'[c] => e \in alive
      BY <1>1 DEF onChatSend, Ready, PlaceInv
    <2>6. PlaceInv'
      BY <2>1, <2>2, <2>4, <2>5, MovesNobody
    <2>7. HolderInv'
      BY <1>1, <2>1, <2>2 DEF onChatSend, Ready, HolderInv, OthersStay, ManagerStages,
         FoundStages
    <2>8. torn' = {} => \A a \in Addrs : Visits(c, a)' => Visits(c, a) \/ Live(a)'
      BY <1>1 DEF onChatSend, Ready, Visits, ManagerStages
    <2>9. LiveInv'
      BY <2>1, <2>2, <2>8, PointsToLive
    <2> QED
      BY <2>3, <2>6, <2>7, <2>9 DEF Kept
  <1>2. ASSUME Follow(c)
        PROVE  Kept
    <2> SUFFICES ASSUME ~Dies("freed")
                 PROVE  Kept
      BY DyingKeeps
    <2>1. OthersStay(c) /\ \A s \in Clients \ {c} : manager' = s <=> manager = s
      BY <1>2 DEF Follow, Dies, OthersStay
    <2>2. /\ UNCHANGED <<myChannel, alive>> /\ \A e \in Clients : In(e)' = In(e)
          /\ \A b \in Addrs : Live(b) => Live(b)'
      BY <1>2 DEF Follow, Dies, In
    <2>3. ThreadsInv'
      BY <1>2 DEF Follow, Dies, ThreadsInv
    <2>4. \A e \in Clients : ~Changes(c, e) /\ ~Changes(c, e)'
      BY <1>2 DEF Follow, Dies, ThreadsInv, Changes, Ending
    <2>5. \A e \in Clients \ torn' : e \in held'[c] => e \in alive
      BY <1>2 DEF Follow, Dies, PlaceInv
    <2>6. PlaceInv'
      BY <2>1, <2>2, <2>4, <2>5, MovesNobody
    <2>7. HolderInv'
      BY <1>2, <2>1, <2>2 DEF Follow, Dies, HolderInv, OthersStay, ManagerStages,
         FoundStages
    <2>8. torn' = {} => \A a \in Addrs : Visits(c, a)' => Visits(c, a) \/ Live(a)'
      BY <1>2 DEF Follow, Dies, Visits, ManagerStages
    <2>9. LiveInv'
      BY <2>1, <2>2, <2>8, PointsToLive
    <2> QED
      BY <2>3, <2>6, <2>7, <2>9 DEF Kept
  <1>3. ASSUME onChatList(c)
        PROVE  Kept
    <2> SUFFICES ASSUME ~Dies("null")
                 PROVE  Kept
      BY DyingKeeps
    <2>1. OthersStay(c) /\ \A s \in Clients \ {c} : manager' = s <=> manager = s
      BY <1>3 DEF onChatList, Ready, Dies, OthersStay
    <2>2. /\ UNCHANGED <<myChannel, alive>> /\ \A e \in Clients : In(e)' = In(e)
          /\ \A b \in Addrs : Live(b) => Live(b)'
      BY <1>3 DEF onChatList, Ready, Dies, In
    <2>3. ThreadsInv'
      BY <1>3 DEF onChatList, Ready, Dies, ThreadsInv
    <2>4. \A e \in Clients : ~Changes(c, e) /\ ~Changes(c, e)'
      BY <1>3 DEF onChatList, Ready, Dies, ThreadsInv, Changes, Ending
    <2>5. \A e \in Clients \ torn' : e \in held'[c] => e \in alive
      BY <1>3 DEF onChatList, Ready, Dies, PlaceInv
    <2>6. PlaceInv'
      BY <2>1, <2>2, <2>4, <2>5, MovesNobody
    <2>7. HolderInv'
      BY <1>3, <2>1, <2>2 DEF onChatList, Ready, Dies, HolderInv, OthersStay, ManagerStages,
         FoundStages
    <2>8. torn' = {} => \A a \in Addrs : Visits(c, a)' => Visits(c, a) \/ Live(a)'
      BY <1>3, <2>2, MyChannelLive DEF onChatList, Ready, Dies, Visits, ManagerStages
    <2>9. LiveInv'
      BY <2>1, <2>2, <2>8, PointsToLive
    <2> QED
      BY <2>3, <2>6, <2>7, <2>9 DEF Kept
  <1>4. ASSUME getUsers(c)
        PROVE  Kept
    <2> SUFFICES ASSUME ~Dies("freed")
                 PROVE  Kept
      BY DyingKeeps
    <2>1. OthersStay(c) /\ \A s \in Clients \ {c} : manager' = s <=> manager = s
      BY <1>4 DEF getUsers, Dies, OthersStay
    <2>2. /\ UNCHANGED <<myChannel, alive>> /\ \A e \in Clients : In(e)' = In(e)
          /\ \A b \in Addrs : Live(b) => Live(b)'
      BY <1>4 DEF getUsers, Dies, In
    <2>3. ThreadsInv'
      BY <1>4 DEF getUsers, Dies, ThreadsInv
    <2>4. \A e \in Clients : ~Changes(c, e) /\ ~Changes(c, e)'
      BY <1>4 DEF getUsers, Dies, ThreadsInv, Changes, Ending
    <2>5. \A e \in Clients \ torn' : e \in held'[c] => e \in alive
      BY <1>4, MembersAlive DEF getUsers, Dies, PlaceInv, LocalsInv, FoundStages
    <2>6. PlaceInv'
      BY <2>1, <2>2, <2>4, <2>5, MovesNobody
    <2>7. HolderInv'
      BY <1>4, <2>1, <2>2 DEF getUsers, Dies, HolderInv, OthersStay, ManagerStages,
         FoundStages
    <2>8. torn' = {} => \A a \in Addrs : Visits(c, a)' => Visits(c, a) \/ Live(a)'
      BY <1>4 DEF getUsers, Dies, Visits, ManagerStages
    <2>9. LiveInv'
      BY <2>1, <2>2, <2>8, PointsToLive
    <2> QED
      BY <2>3, <2>6, <2>7, <2>9 DEF Kept
  <1>5. ASSUME Drop(c)
        PROVE  Kept
    <2>1. OthersStay(c) /\ \A s \in Clients \ {c} : manager' = s <=> manager = s
      BY <1>5 DEF Drop, Ready, OthersStay
    <2>2. /\ UNCHANGED <<myChannel, alive>> /\ \A e \in Clients : In(e)' = In(e)
          /\ \A b \in Addrs : Live(b) => Live(b)'
      BY <1>5 DEF Drop, Ready, In
    <2>3. ThreadsInv'
      BY <1>5 DEF Drop, Ready, ThreadsInv
    <2>4. \A e \in Clients : ~Changes(c, e) /\ ~Changes(c, e)'
      BY <1>5 DEF Drop, Ready, ThreadsInv, Changes, Ending
    <2>5. \A e \in Clients \ torn' : e \in held'[c] => e \in alive
      BY <1>5 DEF Drop, Ready, PlaceInv
    <2>6. PlaceInv'
      BY <2>1, <2>2, <2>4, <2>5, MovesNobody
    <2>7. HolderInv'
      BY <1>5, <2>1, <2>2 DEF Drop, Ready, HolderInv, OthersStay, ManagerStages, FoundStages
    <2>8. torn' = {} => \A a \in Addrs : Visits(c, a)' => Visits(c, a) \/ Live(a)'
      BY <1>5 DEF Drop, Ready, Visits, ManagerStages
    <2>9. LiveInv'
      BY <2>1, <2>2, <2>8, PointsToLive
    <2> QED
      BY <2>3, <2>6, <2>7, <2>9 DEF Kept
  <1>6. ASSUME Arrive(c)
        PROVE  Kept
    <2>1. OthersStay(c) /\ \A s \in Clients \ {c} : manager' = s <=> manager = s
      BY <1>6 DEF Arrive, OthersStay
    <2>2. /\ \A e \in Clients : In(e)' = In(e)
          /\ \A b \in Addrs : Live(b) => Live(b)'
      BY <1>6 DEF Arrive, In
    <2>3. ThreadsInv'
      BY <1>6, <2>1 DEF Arrive, OthersStay, ThreadsInv
    <2>4. \A e \in Clients : ~Changes(c, e) /\ ~Changes(c, e)' /\ e \notin held'[c]
      BY <1>6 DEF Arrive, ThreadsInv, Changes, Ending
    <2>5. ASSUME c \notin torn'
          PROVE  /\ \A s \in Clients \ {c} : ~Changes(s, c)
                 /\ In(c)' = Home(c)'
                 /\ \A s \in Clients : c \in held'[s] => c \in alive'
      <3>1. \A s \in Clients : c \notin held[s]
        BY <1>6, <2>5 DEF Arrive, PlaceInv
      <3>2. \A s \in Clients \ {c} : ~Changes(s, c)
        BY <3>1 DEF Changes
      <3>3. In(c) = Home(c)
        BY <2>4, <2>5, <3>2 DEF PlaceInv
      <3>4. Home(c) = {} /\ Home(c)' = {}
        BY <1>6 DEF Arrive, Home
      <3> QED
        BY <1>6, <2>2, <3>1, <3>2, <3>3, <3>4 DEF Arrive
    <2>6. \A e \in Clients \ {c} :
             /\ In(e)' = In(e) /\ Home(e)' = Home(e) /\ myChannel'[e] = myChannel[e]
             /\ e \in alive => e \in alive'
      BY <1>6, <2>2 DEF Arrive, Home
    <2>7. PlaceInv'
      BY <2>1, <2>4, <2>5, <2>6, MovesOne
    <2>8. HolderInv'
      BY <1>6, <2>1, <2>2 DEF Arrive, HolderInv, OthersStay, ManagerStages
    <2>9. torn' = {} => \A a \in Addrs : Visits(c, a)' => Visits(c, a) \/ Live(a)'
      BY <1>6 DEF Arrive, Visits, ManagerStages
    <2>10. LiveInv'
      BY <2>1, <2>2, <2>9, PointsToLive
    <2> QED
      BY <2>3, <2>7, <2>8, <2>10 DEF Kept
  <1>7. ASSUME quit(c)
        PROVE  Kept
    <2>1. OthersStay(c) /\ \A s \in Clients \ {c} : manager' = s <=> manager = s
      BY <1>7 DEF quit, OthersStay
    <2>2. /\ UNCHANGED <<myChannel, alive>> /\ In(c)' = In(c)
          /\ \A e \in Clients \ {c} : In(e)' = In(e)
          /\ \A b \in Addrs : Live(b) => Live(b)'
      BY <1>7 DEF quit, In
    <2>3. ThreadsInv'
      BY <1>7, <2>1 DEF quit, OthersStay, ThreadsInv
    <2>4. /\ Changes(c, c) \/ Changes(c, c)'
          /\ \A e \in Clients \ {c} : ~Changes(c, e) /\ ~Changes(c, e)' /\ e \notin held'[c]
      BY <1>7 DEF quit, ThreadsInv, Changes, Ending
    <2>5. ASSUME c \notin torn'
          PROVE  /\ \A s \in Clients \ {c} : ~Changes(s, c)
                 /\ ~Changes(c, c)' => In(c)' = Home(c)'
                 /\ Changes(c, c)' => Underway(c, c)'
                 /\ \A s \in Clients : c \in held'[s] => c \in alive'
      <3>1. \A s \in Clients \ {c} : ~Changes(s, c)
        BY <2>1, <2>4, <2>5, Alone
      <3>2. In(c) = Home(c)
        BY <1>7, <2>4, <2>5, <3>1 DEF quit, Changes, Ending, PlaceInv, Underway, ThreadsInv
      <3>3. In(c)' = Home(c)'
        BY <1>7, <2>2, <3>2 DEF quit, Home
      <3>4. \A s \in Clients : c \in held'[s] => c \in alive'
        BY <1>7, <2>1, <2>2, <2>5, <3>2 DEF quit, OthersStay, PlaceInv
      <3>5. /\ pc'[c] = IF myChannel[c] = NoAddr THEN "gone" ELSE "bye"
            /\ at'[c] = myChannel[c]
        BY <1>7, <2>2, <3>2 DEF quit
      <3> QED
        BY <2>2, <3>1, <3>2, <3>3, <3>4, <3>5 DEF Changes, Ending, Underway, Home
    <2>6. \A e \in Clients \ {c} :
             /\ In(e)' = In(e) /\ Home(e)' = Home(e) /\ myChannel'[e] = myChannel[e]
             /\ e \in alive => e \in alive'
      BY <2>2 DEF Home
    <2>7. PlaceInv'
      BY <2>1, <2>4, <2>5, <2>6, MovesOne
    <2>8. HolderInv'
      BY <1>7, <2>1, <2>2 DEF quit, HolderInv, OthersStay, ManagerStages
    <2>9. torn' = {} => \A a \in Addrs : Visits(c, a)' => Visits(c, a) \/ Live(a)'
      BY <1>7, <2>2, MyChannelLive DEF quit, ThreadsInv, Visits, ManagerStages
    <2>10. LiveInv'
      BY <2>1, <2>2, <2>9, PointsToLive
    <2> QED
      BY <2>3, <2>7, <2>8, <2>10 DEF Kept
  <1>8. ASSUME bye(c)
        PROVE  Kept
    <2> SUFFICES ASSUME ~Dies("freed")
                 PROVE  Kept
      BY DyingKeeps
    <2>1. OthersStay(c) /\ \A s \in Clients \ {c} : manager' = s <=> manager = s
      BY <1>8 DEF bye, InLock, Dies, OthersStay
    <2>2. /\ UNCHANGED <<myChannel, alive>> /\ In(c)' = In(c) \ {at[c]}
          /\ \A e \in Clients \ {c} : In(e)' = In(e)
          /\ \A b \in Addrs : Live(b) => Live(b)'
      <3>1. at[c] \in Addrs /\ Live(at[c])
        BY <1>8 DEF bye, InLock, Dies, LocalsInv, FoundStages, AtStages
      <3>2. UNCHANGED <<myChannel, alive>>
        BY <1>8 DEF bye, InLock, Dies
      <3> QED
        BY <1>8, <3>1, <3>2, QuitMoves DEF bye, InLock, Dies
    <2>3. ThreadsInv'
      BY <1>8, <2>1 DEF bye, InLock, Dies, OthersStay, ThreadsInv
    <2>4. /\ Changes(c, c) \/ Changes(c, c)'
          /\ \A e \in Clients \ {c} : ~Changes(c, e) /\ ~Changes(c, e)' /\ e \notin held'[c]
      BY <1>8 DEF bye, InLock, Dies, ThreadsInv, Changes, Ending
    <2>5. ASSUME c \notin torn'
          PROVE  /\ \A s \in Clients \ {c} : ~Changes(s, c)
                 /\ ~Changes(c, c)' => In(c)' = Home(c)'
                 /\ Changes(c, c)' => Underway(c, c)'
                 /\ \A s \in Clients : c \in held'[s] => c \in alive'
      <3>1. \A s \in Clients \ {c} : ~Changes(s, c)
        BY <2>1, <2>4, <2>5, Alone
      <3>2. In(c) = Home(c) /\ at[c] = myChannel[c]
        BY <1>8, <2>4, <2>5, <3>1 DEF bye, InLock, Dies, Changes, Ending, PlaceInv,
           Underway, ThreadsInv
      <3>3. In(c)' = {}
        BY <1>8, <2>2, <3>2 DEF bye, InLock, Dies, Home
      <3>4. \A s \in Clients : c \in held'[s] => c \in alive'
        BY <1>8, <2>1, <2>2, <2>5, <3>2 DEF bye, InLock, Dies, OthersStay, PlaceInv
      <3>5. pc'[c] = "gone"
        BY <1>8, <2>2, <3>2 DEF bye, InLock, Dies
      <3> QED
        BY <2>2, <3>1, <3>2, <3>3, <3>4, <3>5 DEF Changes, Ending, Underway
    <2>6. \A e \in Clients \ {c} :
             /\ In(e)' = In(e) /\ Home(e)' = Home(e) /\ myChannel'[e] = myChannel[e]
             /\ e \in alive => e \in alive'
      BY <2>2 DEF Home
    <2>7. PlaceInv'
      BY <2>1, <2>4, <2>5, <2>6, MovesOne
    <2>8. HolderInv'
      BY <1>8, <2>1, <2>2 DEF bye, InLock, Dies, HolderInv, OthersStay, ManagerStages,
         LocalsInv, FoundStages
    <2>9. torn' = {} => \A a \in Addrs : Visits(c, a)' => Visits(c, a) \/ Live(a)'
      BY <1>8 DEF bye, InLock, Dies, Visits, ManagerStages
    <2>10. LiveInv'
      BY <2>1, <2>2, <2>9, PointsToLive
    <2> QED
      BY <2>3, <2>7, <2>8, <2>10 DEF Kept
  <1>9. ASSUME gone(c)
        PROVE  Kept
    <2>1. OthersStay(c) /\ \A s \in Clients \ {c} : manager' = s <=> manager = s
      BY <1>9 DEF gone, OthersStay
    <2>2. /\ In(c)' = In(c)
          /\ \A e \in Clients \ {c} : In(e)' = In(e)
          /\ \A b \in Addrs : Live(b) => Live(b)'
      BY <1>9 DEF gone, In
    <2>3. ThreadsInv'
      BY <1>9, <2>1 DEF gone, OthersStay, ThreadsInv
    <2>4. /\ Changes(c, c) \/ Changes(c, c)'
          /\ \A e \in Clients \ {c} : ~Changes(c, e) /\ ~Changes(c, e)' /\ e \notin held'[c]
      BY <1>9 DEF gone, ThreadsInv, Changes, Ending
    <2>5. ASSUME c \notin torn'
          PROVE  /\ \A s \in Clients \ {c} : ~Changes(s, c)
                 /\ ~Changes(c, c)' => In(c)' = Home(c)'
                 /\ Changes(c, c)' => Underway(c, c)'
                 /\ \A s \in Clients : c \in held'[s] => c \in alive'
      <3>1. \A s \in Clients \ {c} : ~Changes(s, c)
        BY <2>1, <2>4, <2>5, Alone
      <3>2. In(c) = {} /\ \A s \in Clients \ {c} : c \notin held[s]
        BY <1>9, <2>4, <2>5, <3>1 DEF gone, Changes, Ending, PlaceInv, Underway, ThreadsInv,
           OverlapInv, Overlap
      <3>3. In(c)' = {} /\ Home(c)' = {}
        BY <1>9, <2>2, <3>2 DEF gone, Home
      <3>4. \A s \in Clients : c \in held'[s] => c \in alive'
        BY <1>9, <2>1, <2>2, <2>5, <3>2 DEF gone, OthersStay
      <3>5. pc'[c] = "idle" /\ held'[c] = {}
        BY <1>9, <2>2, <3>2 DEF gone
      <3> QED
        BY <2>2, <3>1, <3>2, <3>3, <3>4, <3>5 DEF Changes, Ending, Underway
    <2>6. \A e \in Clients \ {c} :
             /\ In(e)' = In(e) /\ Home(e)' = Home(e) /\ myChannel'[e] = myChannel[e]
             /\ e \in alive => e \in alive'
      BY <1>9, <2>2 DEF gone, Home
    <2>7. PlaceInv'
      BY <2>1, <2>4, <2>5, <2>6, MovesOne
    <2>8. HolderInv'
      BY <1>9, <2>1, <2>2 DEF gone, HolderInv, OthersStay, ManagerStages
    <2>9. torn' = {} => \A a \in Addrs : Visits(c, a)' => Visits(c, a) \/ Live(a)'
      BY <1>9 DEF gone, Visits, ManagerStages
    <2>10. LiveInv'
      BY <2>1, <2>2, <2>9, PointsToLive
    <2> QED
      BY <2>3, <2>7, <2>8, <2>10 DEF Kept
  <1>10. ASSUME onSignup(c)
        PROVE  Kept
    <2>1. OthersStay(c) /\ \A s \in Clients \ {c} : manager' = s <=> manager = s
      BY <1>10 DEF onSignup, OthersStay
    <2>2. /\ UNCHANGED <<myChannel, alive>> /\ \A e \in Clients : In(e)' = In(e)
          /\ \A b \in Addrs : Live(b) => Live(b)'
      BY <1>10 DEF onSignup, In
    <2>3. ThreadsInv'
      BY <1>10 DEF onSignup, ThreadsInv
    <2>4. \A e \in Clients : ~Changes(c, e) /\ ~Changes(c, e)'
      BY <1>10 DEF onSignup, ThreadsInv, Changes, Ending
    <2>5. \A e \in Clients \ torn' : e \in held'[c] => e \in alive
      BY <1>10 DEF onSignup, PlaceInv
    <2>6. PlaceInv'
      BY <2>1, <2>2, <2>4, <2>5, MovesNobody
    <2>7. HolderInv'
      BY <1>10, <2>1, <2>2 DEF onSignup, HolderInv, OthersStay, ManagerStages, FoundStages
    <2>8. torn' = {} => \A a \in Addrs : Visits(c, a)' => Visits(c, a) \/ Live(a)'
      BY <1>10 DEF onSignup, Visits, ManagerStages
    <2>9. LiveInv'
      BY <2>1, <2>2, <2>8, PointsToLive
    <2> QED
      BY <2>3, <2>6, <2>7, <2>9 DEF Kept
  <1> QED
    BY <1>1, <1>2, <1>3, <1>4, <1>5, <1>6, <1>7, <1>8, <1>9, <1>10 DEF OtherSteps

-----------------------------------------------------------------------------
\* The process before anybody is there.
LEMMA FreshPlaces ==
    ASSUME Fresh(listed, chans, myChannel, alive, manager, mutex, db, leaked,
                 pc, found, at, held, wanted, dead, torn)
    PROVE  PlacesInv
  <1>1. \A a \in Addrs : Live(a) => chans[a].users = {}
    <2>1. chans \in [Addrs -> AtStart \cup {Freed}]
      BY DEF Fresh
    <2> QED
      BY <2>1 DEF AtStart, Live
  <1>2. StepsInv
    BY FreshSteps
  <1>3. \A d \in Clients : In(d) = {} /\ Home(d) = {}
    BY <1>1 DEF Fresh, In, Home
  <1>4. /\ \A s \in Clients : /\ pc[s] = "idle" /\ held[s] = {} /\ manager # s
                              /\ \A a \in Addrs : at[s] # a /\ found[s] # a
        /\ torn = {} /\ dead = "no"
    BY StepsAssumption DEF Fresh
  <1>5. \A s, d \in Clients : ~Changes(s, d)
    BY <1>4 DEF Changes, Ending, KickStages
  <1>6. ThreadsInv /\ PlaceInv
    BY <1>3, <1>4, <1>5 DEF ThreadsInv, PlaceInv, HandStages, KickStages
  <1>7. HolderInv /\ LiveInv /\ NothingDangles
    BY <1>4 DEF HolderInv, LiveInv, Visits, NothingDangles
  <1>8. OverlapInv
    BY <1>4, <1>5 DEF OverlapInv, Overlap, Ending, Destroys
  <1> QED
    BY <1>2, <1>6, <1>7, <1>8 DEF PlacesInv

LEMMA PlacesInit == Init => PlacesInv
  BY FreshPlaces DEF Init

LEMMA PlacesNext == PlacesInv /\ [Next]_vars => PlacesInv'
  <1> SUFFICES ASSUME PlacesInv, [Next]_vars PROVE PlacesInv'
    OBVIOUS
  <1>1. StepsInv'
    BY StepsNext DEF PlacesInv
  <1>2. ASSUME NEW c \in Clients, Thread(c), torn' = torn \cup Overlap'
        PROVE  PlacesInv'
    <2>1. torn \subseteq torn' /\ OverlapInv'
      BY <1>2 DEF OverlapInv
    <2>2. Kept
      BY <1>2, <2>1, JoinStepsPlace, SaveStepsPlace, KickStepsPlace, DestroyStepsPlace,
         OtherStepsPlace DEF Thread
    <2>3. NothingDangles'
      <3>1. torn' = {} => dead' # "freed"
        BY <1>2, <2>1, StepsAreSafe
      <3> QED
        BY <3>1 DEF NothingDangles
    <2> QED
      BY <1>1, <2>1, <2>2, <2>3 DEF PlacesInv, Kept
  <1>3. CASE Restart
    <2>1. Fresh(listed, chans, myChannel, alive, manager, mutex, db, leaked,
                pc, found, at, held, wanted, dead, torn)'
      BY <1>3 DEF Restart
    <2> QED
      BY <2>1, FreshPlaces, PTL
  <1>4. CASE UNCHANGED vars
    <2>1. ThreadsInv' /\ HolderInv' /\ LiveInv' /\ NothingDangles'
      BY <1>4 DEF vars, PlacesInv, ThreadsInv, HolderInv, LiveInv, Live, Visits,
         NothingDangles
    <2>2. PlaceInv'
      BY <1>4 DEF vars, PlacesInv, PlaceInv, In, Home, Live, Underway, Changes, Ending
    <2>3. OverlapInv'
      BY <1>4 DEF vars, PlacesInv, OverlapInv, Overlap, Changes, Ending, Destroys, Visits
    <2> QED
      BY <1>1, <2>1, <2>2, <2>3 DEF PlacesInv
  <1> QED
    BY <1>2, <1>3, <1>4 DEF Next

\* The inductive invariant holds in every state.
THEOREM PlacesInvariance == Spec => []PlacesInv
  BY PlacesInit, PlacesNext, PTL DEF Spec

\* For any number of clients: one whose handlers never overlapped is, between them,
\* in the list of exactly the channel m_pMyChannel points to (channel.cpp, join, quit
\* and kick; client.cpp, quit).
THEOREM MembershipsSettle == Spec => []MembershipSettles
  <1>1. PlacesInv => MembershipSettles
    <2> SUFFICES ASSUME PlacesInv, NEW c \in Clients \ torn, \A s \in Clients : ~Changes(s, c),
                        NEW a \in Addrs
                 PROVE  (c \in alive /\ myChannel[c] = a) <=> (Live(a) /\ c \in chans[a].users)
      BY DEF MembershipSettles
    <2>1. In(c) = Home(c)
      BY DEF PlacesInv, PlaceInv
    <2>2. a \in In(c) <=> (Live(a) /\ c \in chans[a].users)
      BY DEF In
    <2>3. a \in Home(c) <=> (c \in alive /\ myChannel[c] = a)
      BY StepsAssumption DEF Home
    <2> QED
      BY <2>1, <2>2, <2>3
  <1> QED
    BY <1>1, PlacesInvariance, PTL

\* For any number of clients: the handlers follow no pointer to a deleted channel or
\* client as long as no two of them have worked on one client.
THEOREM NothingIsDangling == Spec => []NothingDangles
  <1>1. PlacesInv => NothingDangles
    BY DEF PlacesInv
  <1> QED
    BY <1>1, PlacesInvariance, PTL

\* For any number of clients: a deleted client still stands in a list of users only if
\* two handlers have worked on it at once, so quit() and disconnectGraceful leave no
\* other behind (client.cpp).  MembersExist asks for it without that exception.
THEOREM GhostsAreTorn ==
    Spec => [](\A a \in Addrs : Live(a) => chans[a].users \ torn \subseteq alive)
  <1>1. PlacesInv => \A a \in Addrs : Live(a) => chans[a].users \ torn \subseteq alive
    BY MembersAlive
  <1> QED
    BY <1>1, PlacesInvariance, PTL
=============================================================================
