-------------------------------- MODULE Chat --------------------------------
(***************************************************************************)
(* The chat channels: the Channel objects (channel.cpp), the               *)
(* ChannelManager that owns them (ChannelManager.cpp), the chat handlers of *)
(* the Client (client.cpp), and the tables `channels` and `channelOps` with *)
(* their stored functions (sql/create.sql).                                *)
(*                                                                         *)
(* The module extends Sessions: a client is in a channel while it is logged *)
(* in, and quit() leaves the channel.  The server compares names of         *)
(* channels by ieq, without regard to case, so Names has one member per     *)
(* name up to case.  The table compares them under utf8_general_ci, which   *)
(* folds accents as well: RecordOf says which names it takes for the same.  *)
(* Nicknames are compared in three ways (exactly, as keys, as rows), so     *)
(* they keep their spelling.                                                *)
(***************************************************************************)
EXTENDS Sessions

CONSTANTS
    Names,         \* names of channels, as ieq tells them apart
    Records,       \* names of channels, as the table tells them apart
    RecordOf,      \* RecordOf[n]: the name n under utf8_general_ci
    Default,       \* DSRV_DEFAULT_CHANNEL_NAME
    SystemNames,   \* the default channel and DSRV_DEVS_CHANNEL_NAME
    SystemAdmin,   \* DSRV_DEFAULT_CHANNEL_ADMIN and DSRV_DEVS_CHANNEL_ADMIN
    Mottos,        \* texts of mottos
    FirstMotto,    \* the motto of a channel when it is created
    MaxChans,      \* DSRV_MAX_CHANS_PER_USER
    NoName,        \* m_pMyChannel is null
    NoChannel,     \* no Channel object of that name
    NoRow          \* no row of that name in the table channels

ASSUME ChannelAssumption ==
    /\ Default \in SystemNames
    /\ SystemNames \subseteq Names
    /\ SystemAdmin \in Nicks
    /\ FirstMotto \in Mottos
    /\ NoName \notin Names

ASSUME RecordsAssumption == RecordOf \in [Names -> Records]

ASSUME MaxChansAssumption == MaxChans \in Nat

\* The column `name` of the table has a width.
ASSUME NamesAreFinite == IsFiniteSet(Names)

VARIABLES
    channels,    \* m_lpChannels of the ChannelManager
    members,     \* members[n]: m_lpUsers of the channel n
    myChannel,   \* myChannel[c]: m_pMyChannel
    rows         \* rows[r]: the row of that name in channels, with its channelOps

chatVars == <<channels, members, myChannel, rows>>
vars == <<server, conn, nick, pass, loggedIn, clients, users,
          channels, members, myChannel, rows>>

\* stored: m_iID >= 0, which only the channels that loadChannels read from the
\* table have; channelCreate returns an ID that save() drops.
Channel == [admin : Nicks, ops : SUBSET Nicks, motto : Mottos, stored : BOOLEAN]

ChannelRow == [name : Names, admin : Nicks, motto : Mottos, ops : SUBSET Rows]

ASSUME NoObjectAssumption == NoChannel \notin Channel /\ NoRow \notin ChannelRow

ChatTypeOK ==
    /\ TypeOK
    /\ channels \in [Names -> Channel \cup {NoChannel}]
    /\ members \in [Names -> SUBSET Clients]
    /\ myChannel \in [Clients -> Names \cup {NoName}]
    /\ rows \in [Records -> ChannelRow \cup {NoRow}]

-----------------------------------------------------------------------------
(* The tables.                                                             *)

\* The row that channelCreate, channelUpdate and channelDestroy come to by name.
RowNamed(table, n) == table[RecordOf[n]]

\* The row that a channel is saved as, with these operators.
AsRow(n, chan, ops) == [name |-> n, admin |-> chan.admin, motto |-> chan.motto, ops |-> ops]

\* A bug: save() always creates and never updates.
SavedOnce(table, n, chan) ==
    IF RowNamed(table, n) # NoRow THEN table
    ELSE [table EXCEPT ![RecordOf[n]] = AsRow(n, chan, {})]

\* A bug: only channels with an ID are saved.
SavedWithID(table, n, chan) ==
    IF ~chan.stored \/ RowNamed(table, n) = NoRow THEN table
    ELSE [table EXCEPT ![RecordOf[n]] =
            AsRow(n, chan, @.ops \cup {RowOf[o] : o \in chan.ops})]

\* A bug: channelCreate does not look for a row of that name.
SavedOver(table, n, chan) ==
    [table EXCEPT ![RecordOf[n]] =
        AsRow(n, chan, IF @ = NoRow THEN {} ELSE @.ops \cup {RowOf[o] : o \in chan.ops})]

\* Channel::save of a channel `chan` called n.  Without an ID it only tries
\* channelCreate, whose answer nobody looks at: it is -1 and there is no new row when
\* the table has the name, be it with other accents.  With an ID it updates the row
\* and adds the operators, and never removes one.
Saved(table, n, chan) ==
    IF chan.stored
    THEN IF RowNamed(table, n) = NoRow THEN table
         ELSE [table EXCEPT ![RecordOf[n]] =
                 AsRow(n, chan, @.ops \cup {RowOf[o] : o \in chan.ops})]
    ELSE IF RowNamed(table, n) # NoRow THEN table
         ELSE [table EXCEPT ![RecordOf[n]] = AsRow(n, chan, {})]

\* Channel::destroyDB answers ERR_OK to the user who: always for a channel
\* without an ID, else when channelDestroy finds no row or a row of that admin.
DestroysDB(n, who) ==
    channels[n].stored /\ RowNamed(rows, n) # NoRow =>
        RowOf[RowNamed(rows, n).admin] = RowOf[who]

\* channelDestroy deletes the row and its operators.
Deleted(table, n, chan) ==
    IF chan.stored THEN [table EXCEPT ![RecordOf[n]] = NoRow] ELSE table

-----------------------------------------------------------------------------
(* The channels and their manager.                                         *)

Exists(n) == channels[n] # NoChannel

\* countUserChannels: the channels whose admin has this name, in any case.
CountUserChannels(who) ==
    Cardinality({n \in Names : Exists(n) /\ KeyOf[channels[n].admin] = KeyOf[who]})

\* A bug: the channels of another spelling of the nickname are not counted.
HasQuotaLeftSpelled(who) ==
    Cardinality({n \in Names : Exists(n) /\ channels[n].admin = who}) < MaxChans

\* createChannel lets this user create one more.
HasQuotaLeft(who) == CountUserChannels(who) < MaxChans

\* Channel::quit and Channel::join of all clients in S, on the lists of users.
Quits(lists, n, S) == [lists EXCEPT ![n] = @ \ S]
Joins(lists, n, S) == [lists EXCEPT ![n] = @ \cup S]

IsOp(n, who) == who \in channels[n].ops
IsAdmin(n, who) == channels[n].admin = who

\* Channel::kick lets the user `who` kick the user `target`.
MayKick(n, who, target) ==
    /\ IsOp(n, who) \/ IsAdmin(n, who)
    /\ ~IsAdmin(n, target)
    /\ IsAdmin(n, who) \/ ~IsOp(n, target)

\* A bug: the users of a destroyed channel are forgotten.
KickNobody(n, S) == UNCHANGED <<members, myChannel>>

\* The kicked clients S of channel n are in the default channel, if there is one.
KickAll(n, S) ==
    /\ members' = Joins(Quits(members, n, S), Default, S)
    /\ myChannel' = [c \in Clients |-> IF c \in S THEN Default ELSE myChannel[c]]

-----------------------------------------------------------------------------
(* The chat handlers of a client.                                          *)

InChannel(c) == InSession(c) /\ myChannel[c] # NoName

\* A bug: the old channel is not left.
EnterOnly(c, n) ==
    /\ members' = Joins(members, n, {c})
    /\ myChannel' = [myChannel EXCEPT ![c] = n]

\* The end of onChatJoin: leave the old channel, join the new one.
Enter(c, n) ==
    /\ members' = Joins(IF myChannel[c] = NoName THEN members
                        ELSE Quits(members, myChannel[c], {c}), n, {c})
    /\ myChannel' = [myChannel EXCEPT ![c] = n]

JoinExisting(c, n) ==
    /\ InSession(c)
    /\ Exists(n)
    /\ Enter(c, n)
    /\ UNCHANGED <<sessionVars, channels, rows>>

\* createChannel, which saves the new channel at once.
JoinNew(c, n) ==
    LET chan == [admin |-> nick[c], ops |-> {}, motto |-> FirstMotto, stored |-> FALSE]
    IN  /\ InSession(c)
        /\ ~Exists(n)
        /\ HasQuotaLeft(nick[c])
        /\ channels' = [channels EXCEPT ![n] = chan]
        /\ rows' = Saved(rows, n, chan)
        /\ Enter(c, n)
        /\ UNCHANGED sessionVars

\* createChannel returns null: the answer is -100 and the connection closes.
JoinRefused(c, n) ==
    /\ InSession(c)
    /\ ~Exists(n)
    /\ ~HasQuotaLeft(nick[c])
    /\ CloseConnection(c)
    /\ UNCHANGED <<server, nick, pass, loggedIn, clients, users, chatVars>>

onChatJoin(c, n) == JoinExisting(c, n) \/ JoinNew(c, n) \/ JoinRefused(c, n)

\* onChatOp, onChatDeop and onChatUserGet close the connection of a client that
\* is in no channel.
NotInChannel(c) ==
    /\ InSession(c)
    /\ myChannel[c] = NoName
    /\ CloseConnection(c)
    /\ UNCHANGED <<server, nick, pass, loggedIn, clients, users, chatVars>>

\* The channel n becomes chan and is saved.
Modify(n, chan) ==
    /\ channels' = [channels EXCEPT ![n] = chan]
    /\ rows' = Saved(rows, n, chan)
    /\ UNCHANGED <<sessionVars, members, myChannel>>

onChatMottoSet(c, motto) ==
    LET n == myChannel[c]
    IN  /\ InChannel(c)
        /\ IsOp(n, nick[c]) \/ IsAdmin(n, nick[c])
        /\ Modify(n, [channels[n] EXCEPT !.motto = motto])

onChatOp(c, target) ==
    LET n == myChannel[c]
    IN  /\ InChannel(c)
        /\ IsAdmin(n, nick[c])
        /\ \E d \in members[n] : nick[d] = target
        /\ ~IsOp(n, target)
        /\ ~IsAdmin(n, target)
        /\ Modify(n, [channels[n] EXCEPT !.ops = @ \cup {target}])

\* A bug: whoever is in the channel takes the rights of its operators away.
DeopByAnyone(c, target) ==
    LET n == myChannel[c]
    IN  /\ InChannel(c)
        /\ IsOp(n, target)
        /\ Modify(n, [channels[n] EXCEPT !.ops = @ \ {target}])

onChatDeop(c, target) ==
    LET n == myChannel[c]
    IN  /\ InChannel(c)
        /\ IsAdmin(n, nick[c])
        /\ IsOp(n, target)
        /\ Modify(n, [channels[n] EXCEPT !.ops = @ \ {target}])

\* getUserIfPresent compares nicknames exactly.
onChatKick(c, d) ==
    LET n == myChannel[c]
    IN  /\ InChannel(c)
        /\ d \in members[n]
        /\ MayKick(n, nick[c], nick[d])
        /\ Exists(Default)
        /\ KickAll(n, {d})
        /\ UNCHANGED <<sessionVars, channels, rows>>

\* removeChannel, and the destructor of the channel that kicks its users.
onChatDestroyChan(c, n) ==
    /\ InSession(c)
    /\ Exists(n)
    /\ DestroysDB(n, nick[c])
    /\ members[n] # {} => n # Default /\ Exists(Default)
    /\ channels' = [channels EXCEPT ![n] = NoChannel]
    /\ rows' = Deleted(rows, n, channels[n])
    /\ KickAll(n, members[n])
    /\ UNCHANGED sessionVars

-----------------------------------------------------------------------------
(* The session handlers, with what they do to the channels.                *)

\* A bug: the user is logged out first, and then not in a channel any more.
StayInChannel(c) == UNCHANGED chatVars

\* quit(): the channel is left only by a client that is logged in.
LeaveChannel(c) ==
    /\ IF loggedIn[c] /\ myChannel[c] # NoName
       THEN /\ members' = Quits(members, myChannel[c], {c})
            /\ myChannel' = [myChannel EXCEPT ![c] = NoName]
       ELSE UNCHANGED <<members, myChannel>>
    /\ UNCHANGED <<channels, rows>>

Logout(c) == onLogout(c) /\ LeaveChannel(c)

FinishChat(c) == Finish(c) /\ LeaveChannel(c)

\* A new Client has a null m_pMyChannel.
AcceptChat(c) ==
    /\ Accept(c)
    /\ myChannel' = [myChannel EXCEPT ![c] = NoName]
    /\ UNCHANGED <<channels, members, rows>>

-----------------------------------------------------------------------------
(* The process.                                                            *)

\* The process ends without its destructors having changed the tables.
Die(how) ==
    /\ Halt(how)
    /\ channels' = [n \in Names |-> NoChannel]
    /\ members' = [n \in Names |-> {}]
    /\ myChannel' = [c \in Clients |-> NoName]
    /\ UNCHANGED rows

\* The handlers that use a null pointer.  onChatList asks the channel of a
\* client that is in none for its users; kick() calls join() on the result of
\* getDefaultChannel(), and so does the destructor of a channel with users.
DereferencesNull(c) ==
    \/ myChannel[c] = NoName
    \/ /\ InChannel(c)
       /\ ~Exists(Default)
       /\ \E d \in members[myChannel[c]] : MayKick(myChannel[c], nick[c], nick[d])
    \/ \E n \in Names : /\ Exists(n)
                        /\ DestroysDB(n, nick[c])
                        /\ members[n] # {}
                        /\ n = Default \/ ~Exists(Default)

Crash(c) == InSession(c) /\ DereferencesNull(c) /\ Die("crashed")

\* The channel that saveChannels saves as the row r: one with an ID if there is one,
\* as those come first in the list, and otherwise the first that is tried.
Savers(r) ==
    LET objects == {n \in Names : Exists(n) /\ RecordOf[n] = r}
        loaded  == {n \in objects : channels[n].stored}
    IN  IF loaded # {} THEN loaded ELSE objects

\* The destructor of the ChannelManager saves every channel and deletes them.  With
\* users still in a channel it does not come to its end, but the rows are saved: the
\* users are kicked into a default channel that is deleted, or the one being deleted.
Shutdown ==
    /\ Halt(IF \A n \in Names : members[n] = {} THEN "down" ELSE "crashed")
    /\ \E first \in [Records -> Names] :
        /\ \A r \in Records : Savers(r) # {} => first[r] \in Savers(r)
        /\ rows' = [r \in Records |->
               IF Savers(r) = {} THEN rows[r]
               ELSE Saved(rows, first[r], channels[first[r]])[r]]
    /\ channels' = [n \in Names |-> NoChannel]
    /\ members' = [n \in Names |-> {}]
    /\ myChannel' = [c \in Clients |-> NoName]

\* The table has a row of just this name.
HasOwnRow(n) == RowNamed(rows, n) # NoRow /\ RowNamed(rows, n).name = n

\* A bug: the operators are the names of rows, not nicknames.
LoadedRows(n) ==
    [admin |-> RowNamed(rows, n).admin, ops |-> RowNamed(rows, n).ops,
     motto |-> RowNamed(rows, n).motto, stored |-> TRUE]

\* loadChannels reads the rows.  It also calls op() for every operator, which
\* refuses everybody, as nobody is in the channel yet.
Loaded(n) ==
    [admin |-> RowNamed(rows, n).admin, ops |-> {},
     motto |-> RowNamed(rows, n).motto, stored |-> TRUE]

\* ChannelManager::init loads the channels, creates the system channels that are
\* missing, without saving them, and corrects the admin of the others.
InitChannel(n) ==
    CASE n \notin SystemNames /\ ~HasOwnRow(n) -> NoChannel
      [] n \notin SystemNames /\ HasOwnRow(n) -> Loaded(n)
      [] n \in SystemNames /\ ~HasOwnRow(n) ->
            [admin |-> SystemAdmin, ops |-> {}, motto |-> FirstMotto, stored |-> FALSE]
      [] n \in SystemNames /\ HasOwnRow(n) -> [Loaded(n) EXCEPT !.admin = SystemAdmin]

StartChat ==
    /\ Start
    /\ channels' = [n \in Names |-> InitChannel(n)]
    /\ UNCHANGED <<members, myChannel, rows>>

-----------------------------------------------------------------------------
ChatInit ==
    /\ Init
    /\ channels = [n \in Names |-> NoChannel]
    /\ members = [n \in Names |-> {}]
    /\ myChannel = [c \in Clients |-> NoName]
    /\ rows = [r \in Records |-> NoRow]

ChatNext ==
    \/ \E c \in Clients : AcceptChat(c) \/ FinishChat(c) \/ Logout(c)
    \/ \E c \in Clients : (onLogin(c) \/ Drop(c)) /\ UNCHANGED chatVars
    \/ \E c \in Clients, n \in Names : onChatJoin(c, n) \/ onChatDestroyChan(c, n)
    \/ \E c \in Clients, motto \in Mottos : onChatMottoSet(c, motto)
    \/ \E c \in Clients, target \in Nicks : onChatOp(c, target) \/ onChatDeop(c, target)
    \/ \E c, d \in Clients : onChatKick(c, d)
    \/ \E c \in Clients : NotInChannel(c) \/ Crash(c)
    \/ Die("down")
    \/ Shutdown
    \/ StartChat

ChatSpec == ChatInit /\ [][ChatNext]_vars

-----------------------------------------------------------------------------
(* Properties.                                                             *)

\* The two records of who is where agree: a client is in the list of users of
\* exactly the channel its m_pMyChannel points to.  Every chat handler trusts
\* the pointer, every broadcast trusts the list (channel.h:25, client.h:84).
MembershipAgrees ==
    \A c \in Clients, n \in Names : c \in members[n] <=> myChannel[c] = n

\* A channel with users exists: no client points to a destroyed channel.
ChannelsOfMembersExist ==
    \A n \in Names : members[n] # {} => Exists(n)

\* Only clients that are logged in are in a channel, so no list of users holds a
\* deleted Client, and every user of a channel has a nickname to be kicked by.
MembersAreLoggedIn ==
    \A n \in Names : \A c \in members[n] : loggedIn[c] /\ conn[c] # "none"

\* A channel read from the table has a row of its own name, whose name, motto and admin
\* stay its own and which lists all its operators, whatever happens to channels whose
\* names the table takes for the same.  Only the admin of a system channel is corrected
\* in memory first, and the row may list operators more, as save() removes none.
StoredChannelsMatchRows ==
    \A n \in Names : Exists(n) /\ channels[n].stored =>
        /\ HasOwnRow(n)
        /\ RowNamed(rows, n).motto = channels[n].motto
        /\ {RowOf[o] : o \in channels[n].ops} \subseteq RowNamed(rows, n).ops
        /\ n \notin SystemNames => RowNamed(rows, n).admin = channels[n].admin

\* What a step does to the row of a channel of a user: nothing to its name and admin,
\* unless that admin, logged in, destroys it.
RowKeepsItsOwner(r) ==
    rows[r] # NoRow /\ rows[r].name \notin SystemNames =>
        \/ /\ rows'[r] # NoRow
           /\ rows'[r].name = rows[r].name
           /\ rows'[r].admin = rows[r].admin
        \/ /\ rows'[r] = NoRow
           /\ \E c \in Clients : loggedIn[c] /\ RowOf[nick[c]] = RowOf[rows[r].admin]

\* A channel that has got into the table stays there for its owner, through crashes,
\* shutdowns and restarts, although others may create, save and destroy channels whose
\* names the table takes for the same ("if we have the rights!", channelDestroy).
RowsKeepTheirOwners == [][\A r \in Records : RowKeepsItsOwner(r)]_vars

\* A channel of a user that a step leaves without a row of its own had none before, or is
\* new and called as another channel in the table: a channel is in the table from its
\* creation on or, if channelCreate takes its name for another one's, not at all, and
\* nobody drops its row from under it ("Update the database right now!",
\* ChannelManager.cpp:128).
CreatedChannelsAreSaved ==
    [][\A n \in Names \ SystemNames : Exists(n)' /\ ~HasOwnRow(n)' =>
        IF Exists(n) THEN ~HasOwnRow(n)
        ELSE RowNamed(rows, n) # NoRow /\ RowNamed(rows, n).name # n]_vars

\* A step changes the operators of a channel only while its admin is in it, and
\* its motto only while its admin or one of its operators is.
RightsAreHeld ==
    \A n \in Names : Exists(n) /\ Exists(n)' =>
        /\ channels'[n].ops # channels[n].ops =>
            \E c \in members[n] : IsAdmin(n, nick[c])
        /\ channels'[n].motto # channels[n].motto =>
            \E c \in members[n] : IsAdmin(n, nick[c]) \/ IsOp(n, nick[c])

\* The rights to a channel are those of somebody in its list of users, never of
\* somebody who left it, was kicked, or lost the connection (client.cpp, the
\* checks of onChatMottoSet, onChatOp and onChatDeop).
RightsAreHeldInChannel == [][RightsAreHeld]_vars

\* While the server runs nobody comes to own more than MaxChans channels, in whatever
\* case the nickname is spelled when they are created.  A spelling with other accents
\* is counted apart, although it is the same user in the table (ChannelManager.cpp:114).
QuotaIsKept ==
    [][server = "up" => \A who \in Nicks :
        CountUserChannels(who)' <= CountUserChannels(who)
            \/ CountUserChannels(who)' <= MaxChans]_vars

\* The rooms as their users see them: somebody is where a list of users says, not
\* where a pointer does.
PlaceOf(c) ==
    IF \E n \in Names : c \in members[n]
    THEN CHOOSE n \in Names : c \in members[n] ELSE NoName

Whereabouts == [c \in Clients |-> PlaceOf(c)]
Owners == [n \in Names |-> IF Exists(n) THEN channels[n].admin ELSE NoNick]
Operators == [n \in Names |-> IF Exists(n) THEN channels[n].ops ELSE {}]

Room == INSTANCE Rooms WITH
    People <- Clients, Rooms <- Names, Lobby <- Default,
    Nowhere <- NoName, Nobody <- NoNick,
    name <- nick, where <- Whereabouts, owner <- Owners, ops <- Operators

\* The handlers implement Rooms: although they follow m_pMyChannel and the lists say
\* who is where, everybody is in one open room at most, leaves it with the session,
\* comes to the lobby when it closes, and only its owner in it names operators.
RoomsAreKept == Room!Spec

-----------------------------------------------------------------------------
(* What the comments of the code say, and the code does not do.            *)

\* "Found! remove it from DB and manager, if we have the rights!": a channel is
\* destroyed only while its admin is logged in.
OnlyAdminsDestroy ==
    [][server = "up" /\ server' = "up" =>
        \A n \in Names : Exists(n) /\ ~Exists(n)' =>
            \E c \in Clients : /\ loggedIn[c]
                               /\ RowOf[nick[c]] = RowOf[channels[n].admin]]_vars

\* "Setup every operator<->channel connection": the operators in the table are
\* operators of the channels that a starting server loads.
OperatorsAreRestored ==
    [][server # "up" /\ server' = "up" =>
        \A n \in Names : HasOwnRow(n) =>
            RowNamed(rows, n).ops \subseteq {RowOf[o] : o \in channels'[n].ops}]_vars
=============================================================================
