--------------------------- MODULE ChatRooms_proof ---------------------------
(***************************************************************************)
(* Chat implements Rooms, for any clients, names and rooms: every initial  *)
(* state maps to one of Rooms, and every step to a step or a stutter.  The *)
(* lists of users, which the mapping reads, and the pointers, which the    *)
(* handlers read, agree by the invariant of Chat_proof.                    *)
(***************************************************************************)
EXTENDS Chat_proof

\* A client is in the list of the channel it points to, and in no other.
LEMMA PlaceIsPointer == ChatInv => Whereabouts = myChannel
  <1> SUFFICES ASSUME ChatInv PROVE Whereabouts = myChannel
    OBVIOUS
  <1>1. /\ myChannel \in [Clients -> Names \cup {NoName}]
        /\ \A c \in Clients, n \in Names : c \in members[n] <=> myChannel[c] = n
    BY DEF ChatInv, ChatTypeOK, MembersInv, MembershipAgrees
  <1>2. ASSUME NEW c \in Clients PROVE PlaceOf(c) = myChannel[c]
    <2>1. CASE myChannel[c] = NoName
      BY <1>1, <2>1, ChannelAssumption DEF PlaceOf
    <2>2. CASE myChannel[c] \in Names
      <3>1. \A n \in Names : c \in members[n] <=> n = myChannel[c]
        BY <1>1
      <3> QED
        BY <2>2, <3>1 DEF PlaceOf
    <2> QED
      BY <1>1, <2>1, <2>2
  <1> QED
    BY <1>1, <1>2 DEF Whereabouts

\* What the guards of Rooms say in terms of Chat.
LEMMA RoomsAreChannels ==
    ASSUME ChatInv
    PROVE  /\ \A n \in Names : Room!Open(n) <=> Exists(n)
           /\ \A n \in Names : Room!In(n) = members[n]
           /\ \A c \in Clients : loggedIn[c] => Room!Known(c)
           /\ \A n \in Names : \A c \in members[n] : Room!Known(c)
  <1>1. \A n \in Names : Exists(n) => channels[n].admin # NoNick
    BY NoneAssumption DEF ChatInv, ChatTypeOK, Exists, Channel
  <1>2. \A n \in Names : Room!Open(n) <=> Exists(n)
    BY <1>1 DEF Room!Open, Owners
  <1>3. \A n \in Names : Room!In(n) = members[n]
    BY PlaceIsPointer DEF Room!In, ChatInv, ChatTypeOK, MembersInv, MembershipAgrees
  <1>4. \A c \in Clients : loggedIn[c] => Room!Known(c)
    BY NoneAssumption DEF Room!Known, ChatInv, SessionsInv, SessionData
  <1>5. \A n \in Names : \A c \in members[n] : Room!Known(c)
    BY <1>4 DEF ChatInv, ChatTypeOK, MembersInv, MembersAreLoggedIn
  <1> QED
    BY <1>2, <1>3, <1>4, <1>5

\* Initially nobody is anywhere.
LEMMA RoomsInit == ChatInit => Room!Init
  <1> SUFFICES ASSUME ChatInit PROVE Room!Init
    OBVIOUS
  <1>1. \A n \in Names : ~Exists(n) /\ members[n] = {}
    BY DEF ChatInit, Exists
  <1> QED
    BY <1>1 DEF ChatInit, Init, Room!Init, Whereabouts, PlaceOf, Owners, Operators

-----------------------------------------------------------------------------
(* The steps.  Each lemma assumes that the places are the pointers, before  *)
(* and after it.                                                           *)

PlacesArePointers == Whereabouts = myChannel

\* Accept, Logout and the end of run().
LEMMA SignsOut ==
    ASSUME ChatInv, PlacesArePointers, PlacesArePointers', NEW c \in Clients,
           AcceptChat(c) \/ FinishChat(c) \/ Logout(c)
    PROVE  Room!SignOut(c)
  <1>1. nick' = [nick EXCEPT ![c] = NoNick] /\ channels' = channels
    BY DEF AcceptChat, Accept, FinishChat, Finish, Logout, onLogout, QuitSession, LeaveChannel
  <1>2. ~loggedIn[c] => myChannel[c] = NoName
    BY DEF ChatInv, ChatTypeOK, MembersInv, MembershipAgrees, MembersAreLoggedIn
  <1>3. myChannel' = [myChannel EXCEPT ![c] = NoName]
    BY <1>2 DEF AcceptChat, FinishChat, Logout, LeaveChannel, ChatInv, ChatTypeOK
  <1>4. Owners' = Owners /\ Operators' = Operators
    BY <1>1 DEF Owners, Operators, Exists
  <1> QED
    BY <1>1, <1>3, <1>4 DEF Room!SignOut, PlacesArePointers

LEMMA SignsIn ==
    ASSUME ChatInv, NEW c \in Clients, (onLogin(c) \/ Drop(c)) /\ UNCHANGED chatVars
    PROVE  [Room!Next]_(Room!vars)
  <1>1. UNCHANGED <<channels, members, myChannel>>
    BY DEF chatVars
  <1>2. UNCHANGED <<Whereabouts, Owners, Operators>>
    BY <1>1 DEF Whereabouts, PlaceOf, Owners, Operators, Exists
  <1>3. nick' = nick \/ \E n \in Nicks : nick' = [nick EXCEPT ![c] = n]
    BY DEF onLogin, LoginAccepted, LoginRefused, Drop
  <1> QED
    BY <1>2, <1>3 DEF Room!Next, Room!SignIn, Room!vars

LEMMA Joining ==
    ASSUME ChatInv, PlacesArePointers, PlacesArePointers', NEW c \in Clients,
           NEW n \in Names, onChatJoin(c, n)
    PROVE  [Room!Next]_(Room!vars)
  <1>1. CASE JoinExisting(c, n)
    <2>1. UNCHANGED <<nick, Owners, Operators>>
      BY <1>1 DEF JoinExisting, sessionVars, Owners, Operators, Exists
    <2>2. myChannel' = [myChannel EXCEPT ![c] = n] /\ Exists(n) /\ loggedIn[c]
      BY <1>1 DEF JoinExisting, Enter, InSession
    <2>3. Room!Move(c, n)
      BY <2>1, <2>2, RoomsAreChannels DEF Room!Move, PlacesArePointers
    <2> QED
      BY <2>3 DEF Room!Next
  <1>2. CASE JoinNew(c, n)
    <2>1. /\ channels' = [channels EXCEPT ![n] = [admin |-> nick[c], ops |-> {},
                                                  motto |-> FirstMotto, stored |-> FALSE]]
          /\ myChannel' = [myChannel EXCEPT ![c] = n]
          /\ ~Exists(n) /\ loggedIn[c] /\ nick' = nick
      BY <1>2 DEF JoinNew, Enter, InSession, sessionVars
    <2>2. channels'[n] # NoChannel
      <3>1. nick[c] \in Nicks
        BY <2>1 DEF ChatInv, SessionsInv, SessionData
      <3>2. channels'[n] \in Channel
        BY <2>1, <3>1, ChannelAssumption DEF Channel, ChatInv, ChatTypeOK
      <3> QED
        BY <3>2, NoObjectAssumption
    <2>3. /\ Owners' = [Owners EXCEPT ![n] = nick[c]]
          /\ Operators' = [Operators EXCEPT ![n] = {}]
      BY <2>1, <2>2 DEF Owners, Operators, Exists, ChatInv, ChatTypeOK
    <2>4. Room!OpenRoom(c, n)
      BY <2>1, <2>3, RoomsAreChannels DEF Room!OpenRoom, PlacesArePointers
    <2> QED
      BY <2>4 DEF Room!Next
  <1>3. CASE JoinRefused(c, n)
    BY <1>3 DEF JoinRefused, chatVars, Room!vars, Whereabouts, PlaceOf, Owners, Operators,
       Exists
  <1> QED
    BY <1>1, <1>2, <1>3 DEF onChatJoin

\* The users of a channel that is destroyed come to the default channel.
LEMMA Closing ==
    ASSUME ChatInv, PlacesArePointers, PlacesArePointers', NEW c \in Clients,
           NEW n \in Names, onChatDestroyChan(c, n)
    PROVE  Room!Close(n)
  <1>1. /\ channels' = [channels EXCEPT ![n] = NoChannel]
        /\ myChannel' = [d \in Clients |-> IF d \in members[n] THEN Default ELSE myChannel[d]]
        /\ nick' = nick /\ Exists(n)
        /\ members[n] # {} => n # Default /\ Exists(Default)
    BY DEF onChatDestroyChan, KickAll, sessionVars
  <1>2. /\ Owners' = [Owners EXCEPT ![n] = NoNick]
        /\ Operators' = [Operators EXCEPT ![n] = {}]
    BY <1>1 DEF Owners, Operators, Exists, ChatInv, ChatTypeOK
  <1> QED
    BY <1>1, <1>2, RoomsAreChannels, ChannelAssumption DEF Room!Close, PlacesArePointers

\* A kick moves the kicked client to the default channel.
LEMMA Kicking ==
    ASSUME ChatInv, PlacesArePointers, PlacesArePointers', NEW c \in Clients,
           NEW d \in Clients, onChatKick(c, d)
    PROVE  Room!Move(d, Default)
  <1>1. /\ UNCHANGED <<nick, channels>>
        /\ myChannel' = [e \in Clients |-> IF e \in {d} THEN Default ELSE myChannel[e]]
        /\ d \in members[myChannel[c]] /\ myChannel[c] \in Names /\ Exists(Default)
    BY DEF onChatKick, KickAll, sessionVars, InChannel, ChatInv, ChatTypeOK
  <1>2. UNCHANGED <<Owners, Operators>>
    BY <1>1 DEF Owners, Operators, Exists
  <1>3. myChannel' = [myChannel EXCEPT ![d] = Default]
    BY <1>1 DEF ChatInv, ChatTypeOK
  <1> QED
    BY <1>1, <1>2, <1>3, RoomsAreChannels, ChannelAssumption DEF Room!Move, PlacesArePointers

\* A motto changes nothing here; operators are the choice of the admin in the room.
LEMMA Modifying ==
    ASSUME ChatInv, PlacesArePointers, PlacesArePointers', NEW c \in Clients,
           NEW chan \in Channel, ModifiedBy(c, chan)
    PROVE  [Room!Next]_(Room!vars)
  <1> DEFINE n == myChannel[c]
  <1>1. n \in Names /\ Exists(n) /\ c \in members[n] /\ channels[n] \in Channel
    BY InChannelFacts DEF ModifiedBy
  <1>2. /\ channels' = [channels EXCEPT ![n] = chan]
        /\ UNCHANGED <<nick, myChannel>>
        /\ chan.admin = channels[n].admin
        /\ chan # NoChannel /\ chan.ops \in SUBSET Nicks
        /\ chan.ops # channels[n].ops => nick[c] = channels[n].admin
    BY NoObjectAssumption DEF ModifiedBy, Modify, sessionVars, Channel, IsAdmin
  <1>3. /\ Owners' = Owners
        /\ Operators' = [Operators EXCEPT ![n] = chan.ops]
    BY <1>1, <1>2 DEF Owners, Operators, Exists, ChatInv, ChatTypeOK
  <1>4. Owners[n] = channels[n].admin /\ Operators[n] = channels[n].ops
    BY <1>1 DEF Owners, Operators
  <1>5. CASE chan.ops = channels[n].ops
    <2>1. Operators' = Operators
      BY <1>3, <1>4, <1>5 DEF Operators
    <2> QED
      BY <1>2, <1>3, <2>1 DEF Room!vars, PlacesArePointers
  <1>6. CASE chan.ops # channels[n].ops
    <2>1. Room!Appoint(c, n, chan.ops)
      BY <1>1, <1>2, <1>3, <1>4, <1>6, RoomsAreChannels DEF Room!Appoint, PlacesArePointers
    <2> QED
      BY <1>1, <1>2, <2>1 DEF Room!Next
  <1> QED
    BY <1>5, <1>6

\* The process ends: nobody is left.
LEMMA Ending ==
    ASSUME PlacesArePointers', Shutdown \/ \E how \in {"down", "crashed"} : Die(how)
    PROVE  Room!End
  <1>1. /\ nick' = [c \in Clients |-> NoNick]
        /\ myChannel' = [c \in Clients |-> NoName]
        /\ channels' = [n \in Names |-> NoChannel]
    BY DEF Shutdown, Die, Halt
  <1>2. Owners' = [n \in Names |-> NoNick] /\ Operators' = [n \in Names |-> {}]
    BY <1>1 DEF Owners, Operators, Exists
  <1> QED
    BY <1>1, <1>2 DEF Room!End, PlacesArePointers

\* The channels of the table open without operators.
LEMMA Beginning ==
    ASSUME ChatInv, ChatInv', PlacesArePointers, PlacesArePointers', StartChat
    PROVE  Room!Begin
  <1>1. /\ channels' = [n \in Names |-> InitChannel(n)]
        /\ server # "up" /\ UNCHANGED <<nick, myChannel>>
    BY DEF StartChat, Start
  <1>2. \A n \in Names : ~Exists(n) /\ members[n] = {}
    BY <1>1 DEF ChatInv, MembersInv, ChannelsOfMembersExist, TablesInv, NoChannelsWhenDown
  <1>3. \A n \in Names : Exists(n)' => channels'[n].ops = {} /\ channels'[n].admin \in Nicks
    <2>1. ASSUME NEW n \in Names, InitChannel(n) # NoChannel PROVE InitChannel(n).ops = {}
      BY <2>1 DEF InitChannel, Loaded
    <2>2. ASSUME NEW n \in Names, Exists(n)' PROVE channels'[n].admin \in Nicks
      BY <2>2 DEF ChatInv, ChatTypeOK, Exists, Channel
    <2> QED
      BY <1>1, <2>1, <2>2 DEF Exists
  <1>4. Owners' \in [Names -> Nicks \cup {NoNick}] /\ Operators' = Operators
    BY <1>2, <1>3 DEF Owners, Operators
  <1> QED
    BY <1>1, <1>2, <1>4, RoomsAreChannels DEF Room!Begin, PlacesArePointers

\* Every step of Chat is one of Rooms, or none.
LEMMA RoomsStep == ChatInv /\ ChatInv' /\ [ChatNext]_vars => [Room!Next]_(Room!vars)
  <1> SUFFICES ASSUME ChatInv, ChatInv', [ChatNext]_vars PROVE [Room!Next]_(Room!vars)
    OBVIOUS
  <1>0. PlacesArePointers /\ PlacesArePointers'
    <2>1. Whereabouts = myChannel /\ (Whereabouts = myChannel)'
      BY PlaceIsPointer, PTL
    <2> QED
      BY <2>1 DEF PlacesArePointers
  <1>1. ASSUME NEW c \in Clients, AcceptChat(c) \/ FinishChat(c) \/ Logout(c)
        PROVE  Room!Next
    BY <1>0, <1>1, SignsOut DEF Room!Next
  <1>2. ASSUME NEW c \in Clients, (onLogin(c) \/ Drop(c)) /\ UNCHANGED chatVars
        PROVE  [Room!Next]_(Room!vars)
    BY <1>2, SignsIn
  <1>3. ASSUME NEW c \in Clients, NEW n \in Names,
               onChatJoin(c, n) \/ onChatDestroyChan(c, n)
        PROVE  [Room!Next]_(Room!vars)
    BY <1>0, <1>3, Joining, Closing DEF Room!Next
  <1>4. ASSUME NEW c \in Clients,
               \/ \E motto \in Mottos : onChatMottoSet(c, motto)
               \/ \E target \in Nicks : onChatOp(c, target) \/ onChatDeop(c, target)
        PROVE  [Room!Next]_(Room!vars)
    BY <1>0, <1>4, HandlersModify, Modifying
  <1>5. ASSUME NEW c \in Clients, NEW d \in Clients, onChatKick(c, d)
        PROVE  Room!Next
    BY <1>0, <1>5, Kicking, ChannelAssumption DEF Room!Next
  <1>6. ASSUME NEW c \in Clients, NotInChannel(c)
        PROVE  UNCHANGED Room!vars
    BY <1>6 DEF NotInChannel, chatVars, Room!vars, Whereabouts, PlaceOf, Owners, Operators,
       Exists
  <1>7. ASSUME NEW c \in Clients, Crash(c)
        PROVE  Room!Next
    BY <1>0, <1>7, Ending DEF Crash, Room!Next
  <1>8. CASE Die("down") \/ Shutdown
    BY <1>0, <1>8, Ending DEF Room!Next
  <1>9. CASE StartChat
    BY <1>0, <1>9, Beginning DEF Room!Next
  <1>10. CASE UNCHANGED vars
    BY <1>10 DEF vars, Room!vars, Whereabouts, PlaceOf, Owners, Operators, Exists
  <1> QED
    BY <1>1, <1>2, <1>3, <1>4, <1>5, <1>6, <1>7, <1>8, <1>9, <1>10 DEF ChatNext

\* The chat implements Rooms: lists, pointers and tables together keep everybody in
\* one open room at most, and its operators the choice of its owner.
THEOREM ChatImplementsRooms == ChatSpec => RoomsAreKept
  BY RoomsInit, RoomsStep, ChatInvariance, PTL DEF ChatSpec, RoomsAreKept, Room!Spec
=============================================================================
