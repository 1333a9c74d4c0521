----------------------------- MODULE Chat_proof -----------------------------
(***************************************************************************)
(* Proofs about Chat, for any clients, names, users and quota.  The chat   *)
(* implements Sessions, so what is proved of the sessions holds here; on   *)
(* top of it, the two records of who is in which channel agree, and the    *)
(* channels in memory agree with the tables.                               *)
(***************************************************************************)
EXTENDS Chat, Sessions_proof, FiniteSetTheorems

\* Without a running server there is no channel in memory.
NoChannelsWhenDown ==
    server # "up" => \A n \in Names : ~Exists(n)

MembersInv ==
    /\ MembershipAgrees
    /\ ChannelsOfMembersExist
    /\ MembersAreLoggedIn

TablesInv ==
    /\ StoredChannelsMatchRows
    /\ NoChannelsWhenDown

\* The inductive invariant.
ChatInv == SessionsInv /\ ChatTypeOK /\ MembersInv /\ TablesInv

-----------------------------------------------------------------------------
(* The chat implements the sessions.                                       *)

LEMMA ChatStepIsSessionsStep == [ChatNext]_vars => [Next]_sessionVars
  <1> SUFFICES ASSUME [ChatNext]_vars
               PROVE  [Next]_sessionVars
    OBVIOUS
  <1>1. ASSUME NEW c \in Clients, AcceptChat(c) \/ FinishChat(c) \/ Logout(c)
        PROVE  Next
    BY <1>1 DEF AcceptChat, FinishChat, Logout, Next
  <1>2. ASSUME NEW c \in Clients, (onLogin(c) \/ Drop(c)) /\ UNCHANGED chatVars
        PROVE  Next
    BY <1>2 DEF Next
  <1>3. ASSUME NEW c \in Clients, NEW n \in Names,
               onChatJoin(c, n) \/ onChatDestroyChan(c, n)
        PROVE  [Next]_sessionVars
    <2>1. CASE JoinRefused(c, n)
      BY <2>1 DEF JoinRefused, InSession, Drop, Next
    <2>2. CASE JoinExisting(c, n) \/ JoinNew(c, n) \/ onChatDestroyChan(c, n)
      BY <2>2 DEF JoinExisting, JoinNew, onChatDestroyChan
    <2> QED
      BY <1>3, <2>1, <2>2 DEF onChatJoin
  <1>4. ASSUME NEW c \in Clients, NEW motto \in Mottos, onChatMottoSet(c, motto)
        PROVE  UNCHANGED sessionVars
    BY <1>4 DEF onChatMottoSet, Modify
  <1>5. ASSUME NEW c \in Clients, NEW target \in Nicks,
               onChatOp(c, target) \/ onChatDeop(c, target)
        PROVE  UNCHANGED sessionVars
    BY <1>5 DEF onChatOp, onChatDeop, Modify
  <1>6. ASSUME NEW c \in Clients, NEW d \in Clients, onChatKick(c, d)
        PROVE  UNCHANGED sessionVars
    BY <1>6 DEF onChatKick
  <1>7. ASSUME NEW c \in Clients, NotInChannel(c) \/ Crash(c)
        PROVE  Next
    <2>1. CASE NotInChannel(c)
      BY <2>1 DEF NotInChannel, InSession, Drop, Next
    <2>2. CASE Crash(c)
      BY <2>2 DEF Crash, Die, Next
    <2> QED
      BY <1>7, <2>1, <2>2
  <1>8. CASE Die("down") \/ Shutdown \/ StartChat
    BY <1>8 DEF Die, Shutdown, StartChat, Next
  <1>9. CASE UNCHANGED vars
    BY <1>9 DEF vars, sessionVars
  <1> QED
    BY <1>1, <1>2, <1>3, <1>4, <1>5, <1>6, <1>7, <1>8, <1>9 DEF ChatNext

\* Every behaviour of the chat server is one of Sessions: the chat handlers do
\* nothing to the sessions that the handlers of Sessions do not.
THEOREM ChatImplementsSessions == ChatSpec => Spec
  <1>1. ChatInit => Init
    BY DEF ChatInit
  <1> QED
    BY <1>1, ChatStepIsSessionsStep, PTL DEF ChatSpec, Spec

-----------------------------------------------------------------------------
(* The operators on tables and lists.                                      *)

\* save() writes rows of the table and touches one of them at most.  A row that is
\* there is left alone when the channel has no ID, and becomes that of the channel, with
\* its operators added, when it has one.
LEMMA SavedRows ==
    ASSUME NEW table \in [Records -> ChannelRow \cup {NoRow}], NEW n \in Names,
           NEW chan \in Channel
    PROVE  /\ Saved(table, n, chan) \in [Records -> ChannelRow \cup {NoRow}]
           /\ \A r \in Records \ {RecordOf[n]} : Saved(table, n, chan)[r] = table[r]
           /\ ~chan.stored /\ RowNamed(table, n) # NoRow => Saved(table, n, chan) = table
           /\ chan.stored /\ RowNamed(table, n) = NoRow => Saved(table, n, chan) = table
           /\ ~chan.stored /\ RowNamed(table, n) = NoRow =>
                /\ RowNamed(Saved(table, n, chan), n) # NoRow
                /\ RowNamed(Saved(table, n, chan), n).name = n
           /\ chan.stored /\ RowNamed(table, n) # NoRow =>
                /\ RowNamed(Saved(table, n, chan), n) # NoRow
                /\ RowNamed(Saved(table, n, chan), n).name = n
                /\ RowNamed(Saved(table, n, chan), n).admin = chan.admin
                /\ RowNamed(Saved(table, n, chan), n).motto = chan.motto
                /\ {RowOf[o] : o \in chan.ops} \subseteq RowNamed(Saved(table, n, chan), n).ops
  <1> DEFINE r == RecordOf[n]
  <1>0. r \in Records
    BY RecordsAssumption
  <1>1. {RowOf[o] : o \in chan.ops} \subseteq Rows
    BY NamesAssumption DEF Channel
  <1>2. chan.admin \in Nicks /\ chan.motto \in Mottos
    BY DEF Channel
  <1>3. \A ops \in SUBSET Rows : AsRow(n, chan, ops) \in ChannelRow
    BY <1>2 DEF ChannelRow, AsRow
  <1>4. table[r] # NoRow => table[r].ops \in SUBSET Rows
    BY <1>0 DEF ChannelRow
  <1>5. CASE chan.stored /\ table[r] # NoRow
    <2>0. PICK ops : ops = table[r].ops \cup {RowOf[o] : o \in chan.ops}
      OBVIOUS
    <2>1. PICK row : row = AsRow(n, chan, ops)
      OBVIOUS
    <2>2. Saved(table, n, chan) = [table EXCEPT ![r] = row]
      BY <1>5, <2>0, <2>1 DEF Saved, RowNamed
    <2>3. row \in ChannelRow
      BY <1>1, <1>3, <1>4, <1>5, <2>0, <2>1
    <2>4. /\ row.name = n /\ row.motto = chan.motto /\ row.admin = chan.admin
          /\ {RowOf[o] : o \in chan.ops} \subseteq row.ops
      BY <2>0, <2>1 DEF AsRow
    <2> QED
      BY <1>0, <1>5, <2>2, <2>3, <2>4, NoObjectAssumption DEF RowNamed
  <1>6. CASE ~chan.stored /\ table[r] = NoRow
    <2>1. PICK row : row = AsRow(n, chan, {})
      OBVIOUS
    <2>2. Saved(table, n, chan) = [table EXCEPT ![r] = row]
      BY <1>6, <2>1 DEF Saved, RowNamed
    <2>3. row \in ChannelRow /\ row.name = n
      BY <1>3, <2>1 DEF AsRow
    <2> QED
      BY <1>0, <1>6, <2>2, <2>3, NoObjectAssumption DEF RowNamed
  <1>7. CASE (chan.stored /\ table[r] = NoRow) \/ (~chan.stored /\ table[r] # NoRow)
    BY <1>7 DEF Saved, RowNamed
  <1> QED
    BY <1>5, <1>6, <1>7 DEF Channel

\* A starting server has a channel or none of every name, as the table says.
LEMMA InitChannels ==
    ASSUME ChatTypeOK, NEW n \in Names
    PROVE  /\ InitChannel(n) \in Channel \cup {NoChannel}
           /\ InitChannel(n) # NoChannel /\ InitChannel(n).stored =>
                /\ HasOwnRow(n)
                /\ RowNamed(rows, n).motto = InitChannel(n).motto
                /\ InitChannel(n).ops = {}
                /\ n \notin SystemNames => RowNamed(rows, n).admin = InitChannel(n).admin
  <1>0. RecordOf[n] \in Records
    BY RecordsAssumption
  <1>1. CASE ~HasOwnRow(n)
    BY <1>1, ChannelAssumption DEF InitChannel, Channel
  <1>2. CASE HasOwnRow(n)
    <2>1. PICK row : row = RowNamed(rows, n)
      OBVIOUS
    <2>2. row \in ChannelRow
      BY <1>0, <1>2, <2>1 DEF ChatTypeOK, HasOwnRow, RowNamed
    <2>3. row.admin \in Nicks /\ row.motto \in Mottos
      BY <2>2 DEF ChannelRow
    <2>4. CASE n \in SystemNames
      <3>1. InitChannel(n) = [admin |-> SystemAdmin, ops |-> {},
                              motto |-> row.motto, stored |-> TRUE]
        BY <1>2, <2>1, <2>4 DEF InitChannel, Loaded
      <3> QED
        BY <1>2, <2>1, <2>3, <2>4, <3>1, ChannelAssumption DEF Channel
    <2>5. CASE n \notin SystemNames
      <3>1. InitChannel(n) = [admin |-> row.admin, ops |-> {},
                              motto |-> row.motto, stored |-> TRUE]
        BY <1>2, <2>1, <2>5 DEF InitChannel, Loaded
      <3> QED
        BY <1>2, <2>1, <2>3, <2>5, <3>1 DEF Channel
    <2> QED
      BY <2>4, <2>5
  <1> QED
    BY <1>1, <1>2

\* Of the channels whose names the table takes for the same, one at most has an ID.
LEMMA OneStoredChannel ==
    ASSUME ChatInv, NEW n \in Names, NEW m \in Names, RecordOf[m] = RecordOf[n],
           Exists(n), channels[n].stored, Exists(m), channels[m].stored
    PROVE  m = n
  BY DEF ChatInv, TablesInv, StoredChannelsMatchRows, HasOwnRow, RowNamed

\* When a channel in memory is saved, with a motto and operators that may be new, the
\* other channels with an ID still have their rows.
LEMMA SavedKeepsRows ==
    ASSUME ChatInv, NEW n \in Names, NEW chan \in Channel, Exists(n),
           chan.stored = channels[n].stored, chan.admin = channels[n].admin,
           channels' = [channels EXCEPT ![n] = chan],
           rows' = Saved(rows, n, chan)
    PROVE  StoredChannelsMatchRows'
  <1>0. /\ rows \in [Records -> ChannelRow \cup {NoRow}]
        /\ channels \in [Names -> Channel \cup {NoChannel}]
        /\ RecordOf \in [Names -> Records]
    BY RecordsAssumption DEF ChatInv, ChatTypeOK
  <1> SUFFICES ASSUME NEW m \in Names, Exists(m)', channels'[m].stored
               PROVE  /\ HasOwnRow(m)'
                      /\ RowNamed(rows', m).motto = channels'[m].motto
                      /\ {RowOf[o] : o \in channels'[m].ops} \subseteq RowNamed(rows', m).ops
                      /\ m \notin SystemNames =>
                           RowNamed(rows', m).admin = channels'[m].admin
    BY DEF StoredChannelsMatchRows, RowNamed
  <1>1. /\ HasOwnRow(m)
        /\ RowNamed(rows, m).motto = channels[m].motto
        /\ {RowOf[o] : o \in channels[m].ops} \subseteq RowNamed(rows, m).ops
        /\ m \notin SystemNames => RowNamed(rows, m).admin = channels[m].admin
        /\ channels[m].stored /\ Exists(m)
    <2>1. Exists(m) /\ channels[m].stored
      BY <1>0, NoObjectAssumption DEF Exists
    <2> QED
      BY <2>1 DEF ChatInv, TablesInv, StoredChannelsMatchRows
  <1>2. CASE m = n
    <2>1. channels'[m] = chan
      BY <1>0, <1>2
    <2>2. /\ RowNamed(rows', n) # NoRow
          /\ RowNamed(rows', n).name = n
          /\ RowNamed(rows', n).admin = chan.admin
          /\ RowNamed(rows', n).motto = chan.motto
          /\ {RowOf[o] : o \in chan.ops} \subseteq RowNamed(rows', n).ops
      BY <1>0, <1>1, <1>2, <2>1, SavedRows DEF HasOwnRow
    <2> QED
      BY <1>2, <2>1, <2>2 DEF HasOwnRow, RowNamed
  <1>3. CASE m # n
    <2>1. channels'[m] = channels[m]
      BY <1>0, <1>3
    <2>2. rows'[RecordOf[m]] = rows[RecordOf[m]]
      <3>1. CASE RecordOf[m] # RecordOf[n]
        BY <1>0, <3>1, SavedRows
      <3>2. CASE RecordOf[m] = RecordOf[n]
        <4>1. ~chan.stored
          BY <1>1, <1>3, <3>2, OneStoredChannel
        <4>2. RowNamed(rows, n) # NoRow
          BY <1>1, <3>2 DEF HasOwnRow, RowNamed
        <4> QED
          BY <1>0, <4>1, <4>2, SavedRows
      <3> QED
        BY <3>1, <3>2
    <2> QED
      BY <1>1, <2>1, <2>2 DEF HasOwnRow, RowNamed
  <1> QED
    BY <1>2, <1>3

-----------------------------------------------------------------------------
(* The steps.  What they do to the sessions is proved in Sessions_proof, so *)
(* each lemma assumes SessionsInv'.                                        *)

LEMMA ChatInitInv == ChatInit => ChatInv
  BY SessionsInit, ChannelAssumption
  DEF ChatInit, Init, ChatInv, SessionsInv, ChatTypeOK, MembersInv, MembershipAgrees,
      ChannelsOfMembersExist, MembersAreLoggedIn, TablesInv, StoredChannelsMatchRows,
      NoChannelsWhenDown, Exists

\* Steps of the sessions that log nobody out leave the channels as they are.
LEMMA SessionStepKeepsInv ==
    ASSUME ChatInv, SessionsInv', UNCHANGED chatVars, UNCHANGED server,
           \A c \in Clients : loggedIn[c] /\ conn[c] # "none" =>
               loggedIn'[c] /\ conn'[c] # "none"
    PROVE  ChatInv'
  <1>1. UNCHANGED <<channels, members, myChannel, rows>>
    BY DEF chatVars
  <1>2. ChatTypeOK'
    BY <1>1 DEF ChatInv, ChatTypeOK, SessionsInv
  <1>3. MembersInv'
    BY <1>1 DEF ChatInv, ChatTypeOK, MembersInv, MembershipAgrees, ChannelsOfMembersExist,
       MembersAreLoggedIn, Exists
  <1>4. TablesInv'
    BY <1>1 DEF ChatInv, TablesInv, StoredChannelsMatchRows, HasOwnRow, RowNamed,
       NoChannelsWhenDown, Exists
  <1> QED
    BY <1>2, <1>3, <1>4, SessionsInv' DEF ChatInv

\* Changes of mottos and operators, which are saved.
LEMMA ModifyKeepsInv ==
    ASSUME ChatInv, SessionsInv', NEW n \in Names, NEW chan \in Channel, Exists(n),
           chan.admin = channels[n].admin, chan.stored = channels[n].stored,
           server = "up", Modify(n, chan)
    PROVE  ChatInv'
  <1>1. /\ channels' = [channels EXCEPT ![n] = chan]
        /\ rows' = Saved(rows, n, chan)
        /\ UNCHANGED <<members, myChannel, conn, loggedIn, server>>
    BY DEF Modify, sessionVars
  <1>2. rows \in [Records -> ChannelRow \cup {NoRow}]
    BY DEF ChatInv, ChatTypeOK
  <1>3. rows' \in [Records -> ChannelRow \cup {NoRow}]
    BY <1>1, <1>2, SavedRows
  <1>4. ChatTypeOK'
    BY <1>1, <1>3 DEF ChatInv, ChatTypeOK, SessionsInv
  <1>5. MembersInv'
    BY <1>1, NoObjectAssumption DEF ChatInv, ChatTypeOK, MembersInv, MembershipAgrees,
       ChannelsOfMembersExist, MembersAreLoggedIn, Exists
  <1>6. TablesInv'
    <2>1. \A m \in Names : Exists(m)' <=> Exists(m)
      BY <1>1, NoObjectAssumption DEF ChatInv, ChatTypeOK, Exists
    <2>2. StoredChannelsMatchRows'
      BY <1>1, SavedKeepsRows
    <2> QED
      BY <1>1, <2>1, <2>2 DEF TablesInv, NoChannelsWhenDown
  <1> QED
    BY <1>4, <1>5, <1>6, SessionsInv' DEF ChatInv

\* A client that is logged in leaves its channel, if any, and enters the channel n.
LEMMA EnterKeepsMembers ==
    ASSUME ChatInv, NEW c \in Clients, NEW n \in Names, Enter(c, n), Exists(n)',
           InSession(c), UNCHANGED sessionVars,
           \A m \in Names : Exists(m) => Exists(m)'
    PROVE  /\ members' \in [Names -> SUBSET Clients]
           /\ myChannel' \in [Clients -> Names \cup {NoName}]
           /\ MembersInv'
  <1>1. /\ members \in [Names -> SUBSET Clients]
        /\ myChannel \in [Clients -> Names \cup {NoName}]
        /\ NoName \notin Names
    BY ChannelAssumption DEF ChatInv, ChatTypeOK
  <1>2. \A d \in Clients, m \in Names : d \in members[m] <=> myChannel[d] = m
    BY DEF ChatInv, MembersInv, MembershipAgrees
  <1>3. /\ members' \in [Names -> SUBSET Clients]
        /\ \A m \in Names : members'[m] = IF m = n THEN members[m] \cup {c}
                                          ELSE members[m] \ {c}
    <2>1. CASE myChannel[c] = NoName
      BY <1>1, <1>2, <2>1 DEF Enter, Joins
    <2>2. CASE myChannel[c] # NoName
      <3> DEFINE o == myChannel[c]
                 left == [members EXCEPT ![o] = members[o] \ {c}]
      <3>1. o \in Names
        BY <1>1, <2>2
      <3>2. left \in [Names -> SUBSET Clients]
        BY <1>1, <3>1
      <3>3. \A m \in Names : left[m] = members[m] \ {c}
        BY <1>1, <1>2, <3>1
      <3>4. members' = [left EXCEPT ![n] = left[n] \cup {c}]
        BY <2>2 DEF Enter, Joins, Quits
      <3> HIDE DEF left
      <3> QED
        BY <3>2, <3>3, <3>4
    <2> QED
      BY <2>1, <2>2
  <1>4. myChannel' = [myChannel EXCEPT ![c] = n]
    BY DEF Enter
  <1>5. MembershipAgrees'
    BY <1>1, <1>2, <1>3, <1>4 DEF MembershipAgrees
  <1>6. ChannelsOfMembersExist'
    BY <1>3 DEF ChatInv, MembersInv, ChannelsOfMembersExist
  <1>7. MembersAreLoggedIn'
    BY <1>3 DEF ChatInv, MembersInv, MembersAreLoggedIn, InSession, Serving, sessionVars
  <1> QED
    BY <1>1, <1>3, <1>4, <1>5, <1>6, <1>7 DEF MembersInv

LEMMA JoinExistingKeepsInv ==
    ASSUME ChatInv, SessionsInv', NEW c \in Clients, NEW n \in Names, JoinExisting(c, n)
    PROVE  ChatInv'
  <1>1. UNCHANGED <<sessionVars, channels, rows>> /\ server' = server
    BY DEF JoinExisting, sessionVars
  <1>2. /\ members' \in [Names -> SUBSET Clients]
        /\ myChannel' \in [Clients -> Names \cup {NoName}]
        /\ MembersInv'
    BY <1>1, EnterKeepsMembers DEF JoinExisting, Exists
  <1>3. ChatTypeOK'
    BY <1>1, <1>2 DEF ChatInv, ChatTypeOK, SessionsInv
  <1>4. TablesInv'
    BY <1>1 DEF ChatInv, TablesInv, StoredChannelsMatchRows, HasOwnRow, RowNamed,
       NoChannelsWhenDown, Exists
  <1> QED
    BY <1>2, <1>3, <1>4, SessionsInv' DEF ChatInv

LEMMA JoinNewKeepsInv ==
    ASSUME ChatInv, SessionsInv', NEW c \in Clients, NEW n \in Names, JoinNew(c, n)
    PROVE  ChatInv'
  <1> DEFINE chan == [admin |-> nick[c], ops |-> {}, motto |-> FirstMotto, stored |-> FALSE]
  <1>1. /\ channels' = [channels EXCEPT ![n] = chan]
        /\ rows' = Saved(rows, n, chan)
        /\ UNCHANGED sessionVars
        /\ server' = server /\ server = "up"
        /\ ~Exists(n) /\ InSession(c) /\ Enter(c, n)
    BY DEF JoinNew, sessionVars, InSession, Serving
  <1>2. chan \in Channel /\ ~chan.stored
    BY <1>1, ChannelAssumption DEF ChatInv, SessionsInv, SessionData, InSession, Channel
  <1> HIDE DEF chan
  <1>3. /\ rows' \in [Records -> ChannelRow \cup {NoRow}]
        /\ \A r \in Records : rows[r] # NoRow => rows'[r] = rows[r]
    <2>1. rows \in [Records -> ChannelRow \cup {NoRow}]
      BY DEF ChatInv, ChatTypeOK
    <2>2. /\ rows' \in [Records -> ChannelRow \cup {NoRow}]
          /\ \A r \in Records \ {RecordOf[n]} : rows'[r] = rows[r]
          /\ RowNamed(rows, n) # NoRow => rows' = rows
      BY <1>1, <1>2, <2>1, SavedRows
    <2> QED
      BY <2>2 DEF RowNamed
  <1>4. channels' \in [Names -> Channel \cup {NoChannel}]
        /\ \A m \in Names : Exists(m)' <=> m = n \/ Exists(m)
    BY <1>1, <1>2, NoObjectAssumption DEF ChatInv, ChatTypeOK, Exists
  <1>5. /\ members' \in [Names -> SUBSET Clients]
        /\ myChannel' \in [Clients -> Names \cup {NoName}]
        /\ MembersInv'
    BY <1>1, <1>4, EnterKeepsMembers
  <1>6. ChatTypeOK'
    BY <1>3, <1>4, <1>5, SessionsInv' DEF ChatTypeOK, SessionsInv
  <1>7. TablesInv'
    <2>1. \A m \in Names : Exists(m)' /\ channels'[m].stored =>
              channels'[m] = channels[m] /\ Exists(m)
      BY <1>1, <1>2, <1>4 DEF ChatInv, ChatTypeOK
    <2>2. \A m \in Names : HasOwnRow(m) =>
              HasOwnRow(m)' /\ RowNamed(rows', m) = RowNamed(rows, m)
      BY <1>3, RecordsAssumption DEF HasOwnRow, RowNamed
    <2>3. StoredChannelsMatchRows'
      BY <2>1, <2>2 DEF ChatInv, TablesInv, StoredChannelsMatchRows, RowNamed
    <2> QED
      BY <1>1, <2>3 DEF TablesInv, NoChannelsWhenDown
  <1> QED
    BY <1>5, <1>6, <1>7, SessionsInv' DEF ChatInv

\* Users of the channel n are kicked into the default channel, which exists, and n
\* stays unless all of them are and n is another channel.
LEMMA KickAllKeepsMembers ==
    ASSUME ChatInv, NEW n \in Names, NEW S \in SUBSET members[n], KickAll(n, S),
           UNCHANGED sessionVars,
           S # {} => Exists(Default)',
           \A m \in Names \ {n} : Exists(m) => Exists(m)',
           Exists(n)' \/ S = members[n]
    PROVE  /\ members' \in [Names -> SUBSET Clients]
           /\ myChannel' \in [Clients -> Names \cup {NoName}]
           /\ MembersInv'
  <1>1. /\ members \in [Names -> SUBSET Clients]
        /\ myChannel \in [Clients -> Names \cup {NoName}]
        /\ Default \in Names
    BY ChannelAssumption DEF ChatInv, ChatTypeOK
  <1>2. S \in SUBSET Clients
    BY <1>1
  <1>3. \A d \in Clients, m \in Names : d \in members[m] <=> myChannel[d] = m
    BY DEF ChatInv, MembersInv, MembershipAgrees
  <1>4. /\ members' \in [Names -> SUBSET Clients]
        /\ \A m \in Names : members'[m] = (IF m = n THEN members[m] \ S ELSE members[m])
                                            \cup (IF m = Default THEN S ELSE {})
    <2> DEFINE left == [members EXCEPT ![n] = members[n] \ S]
    <2>1. left \in [Names -> SUBSET Clients]
          /\ \A m \in Names : left[m] = IF m = n THEN members[m] \ S ELSE members[m]
      BY <1>1
    <2>2. members' = [left EXCEPT ![Default] = left[Default] \cup S]
      BY DEF KickAll, Joins, Quits
    <2> HIDE DEF left
    <2> QED
      BY <1>1, <1>2, <2>1, <2>2
  <1>5. /\ myChannel' \in [Clients -> Names \cup {NoName}]
        /\ \A d \in Clients : myChannel'[d] = IF d \in S THEN Default ELSE myChannel[d]
    BY <1>1 DEF KickAll
  <1>6. MembershipAgrees'
    BY <1>1, <1>3, <1>4, <1>5 DEF MembershipAgrees
  <1>7. ChannelsOfMembersExist'
    BY <1>4 DEF ChatInv, MembersInv, ChannelsOfMembersExist
  <1>8. MembersAreLoggedIn'
    BY <1>4 DEF ChatInv, MembersInv, MembersAreLoggedIn, sessionVars
  <1> QED
    BY <1>4, <1>5, <1>6, <1>7, <1>8 DEF MembersInv

LEMMA KickKeepsInv ==
    ASSUME ChatInv, SessionsInv', NEW c \in Clients, NEW d \in Clients, onChatKick(c, d)
    PROVE  ChatInv'
  <1> DEFINE n == myChannel[c]
  <1>1. /\ n \in Names
        /\ {d} \in SUBSET members[n]
        /\ KickAll(n, {d})
        /\ Exists(Default)
        /\ UNCHANGED <<sessionVars, channels, rows>>
    BY DEF onChatKick, InChannel, ChatInv, ChatTypeOK
  <1>2. \A m \in Names \cup {Default} : Exists(m)' <=> Exists(m)
    BY <1>1 DEF Exists
  <1>3. Exists(n)
    BY <1>1 DEF ChatInv, MembersInv, ChannelsOfMembersExist
  <1> HIDE DEF n
  <1>4. /\ members' \in [Names -> SUBSET Clients]
        /\ myChannel' \in [Clients -> Names \cup {NoName}]
        /\ MembersInv'
    BY <1>1, <1>2, <1>3, KickAllKeepsMembers
  <1>5. ChatTypeOK'
    BY <1>1, <1>4, SessionsInv' DEF ChatInv, ChatTypeOK, SessionsInv
  <1>6. TablesInv'
    BY <1>1 DEF ChatInv, TablesInv, StoredChannelsMatchRows, HasOwnRow, RowNamed,
       NoChannelsWhenDown, Exists, sessionVars
  <1> QED
    BY <1>4, <1>5, <1>6, SessionsInv' DEF ChatInv

LEMMA DestroyKeepsInv ==
    ASSUME ChatInv, SessionsInv', NEW c \in Clients, NEW n \in Names,
           onChatDestroyChan(c, n)
    PROVE  ChatInv'
  <1>1. /\ channels' = [channels EXCEPT ![n] = NoChannel]
        /\ rows' = Deleted(rows, n, channels[n])
        /\ members[n] # {} => n # Default /\ Exists(Default)
        /\ KickAll(n, members[n])
        /\ UNCHANGED sessionVars
        /\ server' = server
    BY DEF onChatDestroyChan, sessionVars
  <1>2. /\ channels' \in [Names -> Channel \cup {NoChannel}]
        /\ ~Exists(n)'
        /\ \A m \in Names \ {n} : channels'[m] = channels[m] /\ (Exists(m)' <=> Exists(m))
    BY <1>1 DEF ChatInv, ChatTypeOK, Exists
  <1>3. rows' \in [Records -> ChannelRow \cup {NoRow}]
    BY <1>1 DEF ChatInv, ChatTypeOK, Deleted
  <1>4. /\ members' \in [Names -> SUBSET Clients]
        /\ myChannel' \in [Clients -> Names \cup {NoName}]
        /\ MembersInv'
    BY <1>1, <1>2, KickAllKeepsMembers, ChannelAssumption
  <1>5. ChatTypeOK'
    BY <1>2, <1>3, <1>4, SessionsInv' DEF ChatTypeOK, SessionsInv
  <1>6. TablesInv'
    <2>1. ASSUME NEW m \in Names, Exists(m)', channels'[m].stored
          PROVE  /\ m # n /\ Exists(m) /\ channels'[m] = channels[m]
                 /\ rows'[RecordOf[m]] = rows[RecordOf[m]]
      <3>1. m # n /\ Exists(m) /\ channels'[m] = channels[m]
        BY <1>2, <2>1
      <3>2. channels[n].stored => RecordOf[m] # RecordOf[n]
        BY <2>1, <3>1, OneStoredChannel DEF onChatDestroyChan
      <3> QED
        BY <1>1, <3>1, <3>2, RecordsAssumption DEF Deleted, ChatInv, ChatTypeOK
    <2>2. StoredChannelsMatchRows'
      BY <2>1 DEF ChatInv, TablesInv, StoredChannelsMatchRows, HasOwnRow, RowNamed
    <2> QED
      BY <1>1, <1>2, <2>2 DEF ChatInv, TablesInv, NoChannelsWhenDown
  <1> QED
    BY <1>4, <1>5, <1>6, SessionsInv' DEF ChatInv

\* The end of a session leaves the channel; a client without a session is in none.
LEMMA LeaveKeepsInv ==
    ASSUME ChatInv, SessionsInv', NEW c \in Clients, LeaveChannel(c),
           server' = server,
           \A d \in Clients \ {c} : loggedIn'[d] = loggedIn[d] /\ conn'[d] = conn[d]
    PROVE  ChatInv'
  <1>1. /\ members \in [Names -> SUBSET Clients]
        /\ myChannel \in [Clients -> Names \cup {NoName}]
        /\ NoName \notin Names
        /\ UNCHANGED <<channels, rows>>
    BY ChannelAssumption DEF ChatInv, ChatTypeOK, LeaveChannel
  <1>2. \A d \in Clients, m \in Names : d \in members[m] <=> myChannel[d] = m
    BY DEF ChatInv, MembersInv, MembershipAgrees
  <1>3. /\ members' \in [Names -> SUBSET Clients]
        /\ \A m \in Names : members'[m] = members[m] \ {c}
        /\ myChannel' = [myChannel EXCEPT ![c] = NoName]
    <2>1. CASE loggedIn[c] /\ myChannel[c] # NoName
      BY <1>1, <1>2, <2>1 DEF LeaveChannel, Quits
    <2>2. CASE ~(loggedIn[c] /\ myChannel[c] # NoName)
      <3>1. \A m \in Names : c \notin members[m]
        BY <1>1, <1>2, <2>2 DEF ChatInv, MembersInv, MembersAreLoggedIn
      <3>2. myChannel[c] = NoName
        BY <1>1, <1>2, <3>1
      <3> QED
        BY <1>1, <2>2, <3>1, <3>2 DEF LeaveChannel
    <2> QED
      BY <2>1, <2>2
  <1>4. ChatTypeOK'
    BY <1>1, <1>3, SessionsInv' DEF ChatInv, ChatTypeOK, SessionsInv
  <1>5. MembershipAgrees'
    BY <1>1, <1>2, <1>3 DEF MembershipAgrees
  <1>6. ChannelsOfMembersExist'
    BY <1>1, <1>3 DEF ChatInv, MembersInv, ChannelsOfMembersExist, Exists
  <1>7. MembersAreLoggedIn'
    BY <1>1, <1>3 DEF ChatInv, MembersInv, MembersAreLoggedIn
  <1>8. TablesInv'
    BY <1>1 DEF ChatInv, TablesInv, StoredChannelsMatchRows, HasOwnRow, RowNamed,
       NoChannelsWhenDown, Exists
  <1> QED
    BY <1>4, <1>5, <1>6, <1>7, <1>8, SessionsInv' DEF ChatInv, MembersInv

\* A free Client object is in no channel, so that its new m_pMyChannel changes
\* nothing.
LEMMA AcceptChatKeepsInv ==
    ASSUME ChatInv, SessionsInv', NEW c \in Clients, AcceptChat(c)
    PROVE  ChatInv'
  <1>1. /\ \A m \in Names : c \notin members[m]
        /\ server' = server
        /\ conn' = [conn EXCEPT ![c] = "open"]
        /\ loggedIn' = [loggedIn EXCEPT ![c] = FALSE]
    BY DEF AcceptChat, Accept, ChatInv, MembersInv, MembersAreLoggedIn
  <1>2. myChannel[c] = NoName
    BY <1>1 DEF ChatInv, MembersInv, MembershipAgrees, ChatTypeOK
  <1>3. UNCHANGED chatVars
    BY <1>2 DEF AcceptChat, chatVars, ChatInv, ChatTypeOK
  <1>4. \A d \in Clients \ {c} : loggedIn'[d] = loggedIn[d] /\ conn'[d] = conn[d]
    BY <1>1 DEF ChatInv, ChatTypeOK, TypeOK
  <1>5. LeaveChannel(c)
    BY <1>2, <1>3 DEF LeaveChannel, chatVars
  <1> QED
    BY <1>1, <1>4, <1>5, LeaveKeepsInv

-----------------------------------------------------------------------------
(* The process.                                                            *)

LEMMA DieKeepsInv ==
    ASSUME ChatInv, SessionsInv', NEW how \in {"down", "crashed"}, Die(how)
    PROVE  ChatInv'
  <1>1. /\ channels' = [n \in Names |-> NoChannel]
        /\ members' = [n \in Names |-> {}]
        /\ myChannel' = [c \in Clients |-> NoName]
        /\ rows' = rows
    BY DEF Die
  <1>2. ChatTypeOK'
    BY <1>1, SessionsInv' DEF ChatInv, ChatTypeOK, SessionsInv
  <1>3. MembersInv'
    BY <1>1, ChannelAssumption
    DEF MembersInv, MembershipAgrees, ChannelsOfMembersExist, MembersAreLoggedIn
  <1>4. TablesInv'
    BY <1>1 DEF TablesInv, StoredChannelsMatchRows, HasOwnRow, RowNamed,
       NoChannelsWhenDown, Exists
  <1> QED
    BY <1>2, <1>3, <1>4, SessionsInv' DEF ChatInv

\* At the end of the process a row stays as it is, is new, or is saved from the one
\* channel with an ID that has it.
LEMMA RowsAtShutdown ==
    ASSUME ChatInv, Shutdown
    PROVE  /\ rows' \in [Records -> ChannelRow \cup {NoRow}]
           /\ \A r \in Records : rows[r] # NoRow =>
                \/ rows'[r] = rows[r]
                \/ \E n \in Names : /\ RecordOf[n] = r /\ Exists(n) /\ channels[n].stored
                                    /\ rows'[r] = Saved(rows, n, channels[n])[r]
  <1>1. PICK first \in [Records -> Names] :
          /\ \A r \in Records : Savers(r) # {} => first[r] \in Savers(r)
          /\ rows' = [r \in Records |->
                 IF Savers(r) = {} THEN rows[r]
                 ELSE Saved(rows, first[r], channels[first[r]])[r]]
    BY DEF Shutdown
  <1>2. ASSUME NEW r \in Records, Savers(r) # {}
        PROVE  /\ Saved(rows, first[r], channels[first[r]])
                     \in [Records -> ChannelRow \cup {NoRow}]
               /\ RecordOf[first[r]] = r /\ Exists(first[r]) /\ first[r] \in Names
               /\ ~channels[first[r]].stored /\ rows[r] # NoRow =>
                    Saved(rows, first[r], channels[first[r]]) = rows
    <2>1. RecordOf[first[r]] = r /\ Exists(first[r]) /\ first[r] \in Names
      BY <1>1, <1>2 DEF Savers
    <2>2. channels[first[r]] \in Channel /\ rows \in [Records -> ChannelRow \cup {NoRow}]
      BY <2>1 DEF ChatInv, ChatTypeOK, Exists
    <2> QED
      BY <2>1, <2>2, SavedRows DEF RowNamed
  <1>3. rows' \in [Records -> ChannelRow \cup {NoRow}]
    BY <1>1, <1>2 DEF ChatInv, ChatTypeOK
  <1>4. ASSUME NEW r \in Records, rows[r] # NoRow
        PROVE  \/ rows'[r] = rows[r]
               \/ \E n \in Names : /\ RecordOf[n] = r /\ Exists(n) /\ channels[n].stored
                                   /\ rows'[r] = Saved(rows, n, channels[n])[r]
    <2>1. CASE Savers(r) = {}
      BY <1>1, <2>1
    <2>2. CASE Savers(r) # {}
      <3>1. rows'[r] = Saved(rows, first[r], channels[first[r]])[r]
        BY <1>1, <2>2
      <3> QED
        BY <1>2, <1>4, <2>2, <3>1
    <2> QED
      BY <2>1, <2>2
  <1> QED
    BY <1>3, <1>4

LEMMA ShutdownKeepsInv ==
    ASSUME ChatInv, SessionsInv', Shutdown
    PROVE  ChatInv'
  <1>1. /\ channels' = [n \in Names |-> NoChannel]
        /\ members' = [n \in Names |-> {}]
        /\ myChannel' = [c \in Clients |-> NoName]
    BY DEF Shutdown
  <1>2. rows' \in [Records -> ChannelRow \cup {NoRow}]
    BY RowsAtShutdown DEF ChatInv, ChatTypeOK
  <1>3. ChatTypeOK'
    BY <1>1, <1>2, SessionsInv' DEF ChatInv, ChatTypeOK, SessionsInv
  <1>4. MembersInv'
    BY <1>1, ChannelAssumption
    DEF MembersInv, MembershipAgrees, ChannelsOfMembersExist, MembersAreLoggedIn
  <1>5. TablesInv'
    BY <1>1 DEF TablesInv, StoredChannelsMatchRows, HasOwnRow, RowNamed,
       NoChannelsWhenDown, Exists
  <1> QED
    BY <1>3, <1>4, <1>5, SessionsInv' DEF ChatInv

\* No channel was in memory, so nobody was in one, whatever is loaded.
LEMMA StartKeepsChatInv ==
    ASSUME ChatInv, SessionsInv', StartChat
    PROVE  ChatInv'
  <1>1. /\ channels' = [n \in Names |-> InitChannel(n)]
        /\ server # "up" /\ server' = "up"
        /\ UNCHANGED <<members, myChannel, rows>>
    BY DEF StartChat, Start
  <1>2. \A n \in Names :
          /\ InitChannel(n) \in Channel \cup {NoChannel}
          /\ InitChannel(n) # NoChannel /\ InitChannel(n).stored =>
                /\ HasOwnRow(n)
                /\ RowNamed(rows, n).motto = InitChannel(n).motto
                /\ InitChannel(n).ops = {}
                /\ n \notin SystemNames => RowNamed(rows, n).admin = InitChannel(n).admin
    BY InitChannels DEF ChatInv
  <1>3. \A n \in Names : members[n] = {}
    BY <1>1 DEF ChatInv, MembersInv, ChannelsOfMembersExist, TablesInv, NoChannelsWhenDown
  <1>4. ChatTypeOK'
    BY <1>1, <1>2, SessionsInv' DEF ChatInv, ChatTypeOK, SessionsInv
  <1>5. MembersInv'
    BY <1>1, <1>3 DEF ChatInv, MembersInv, MembershipAgrees, ChannelsOfMembersExist,
       MembersAreLoggedIn
  <1>6. TablesInv'
    BY <1>1, <1>2 DEF TablesInv, StoredChannelsMatchRows, HasOwnRow, RowNamed,
       NoChannelsWhenDown, Exists
  <1> QED
    BY <1>4, <1>5, <1>6, SessionsInv' DEF ChatInv

-----------------------------------------------------------------------------
(* The handlers that change a channel.                                     *)

\* A client in a channel is in the list of users of a channel that exists.
LEMMA InChannelFacts ==
    ASSUME ChatInv, NEW c \in Clients, InChannel(c)
    PROVE  /\ myChannel[c] \in Names
           /\ c \in members[myChannel[c]]
           /\ Exists(myChannel[c])
           /\ channels[myChannel[c]] \in Channel
           /\ server = "up"
  <1>1. myChannel[c] \in Names
    BY DEF InChannel, ChatInv, ChatTypeOK
  <1>2. c \in members[myChannel[c]]
    BY <1>1 DEF ChatInv, MembersInv, MembershipAgrees
  <1>3. Exists(myChannel[c])
    BY <1>1, <1>2 DEF ChatInv, MembersInv, ChannelsOfMembersExist
  <1> QED
    BY <1>1, <1>2, <1>3 DEF ChatInv, ChatTypeOK, Exists, InChannel, InSession, Serving

\* What the three handlers make of the channel.
ModifiedBy(c, chan) ==
    /\ InChannel(c)
    /\ Modify(myChannel[c], chan)
    /\ chan \in Channel
    /\ chan.admin = channels[myChannel[c]].admin
    /\ chan.stored = channels[myChannel[c]].stored
    /\ chan.ops # channels[myChannel[c]].ops => IsAdmin(myChannel[c], nick[c])
    /\ chan.motto # channels[myChannel[c]].motto =>
         IsAdmin(myChannel[c], nick[c]) \/ IsOp(myChannel[c], nick[c])

LEMMA HandlersModify ==
    ASSUME ChatInv, NEW c \in Clients,
           \/ \E motto \in Mottos : onChatMottoSet(c, motto)
           \/ \E target \in Nicks : onChatOp(c, target) \/ onChatDeop(c, target)
    PROVE  \E chan \in Channel : ModifiedBy(c, chan)
  <1> DEFINE n == myChannel[c]
  <1>0. InChannel(c)
    BY DEF onChatMottoSet, onChatOp, onChatDeop
  <1>1. channels[n] \in Channel
    BY <1>0, InChannelFacts
  <1>2. ASSUME NEW motto \in Mottos, onChatMottoSet(c, motto)
        PROVE  \E chan \in Channel : ModifiedBy(c, chan)
    <2> DEFINE chan == [channels[n] EXCEPT !.motto = motto]
    <2>1. chan \in Channel /\ chan.admin = channels[n].admin
          /\ chan.stored = channels[n].stored /\ chan.ops = channels[n].ops
      BY <1>1 DEF Channel
    <2>2. Modify(n, chan) /\ (IsOp(n, nick[c]) \/ IsAdmin(n, nick[c]))
      BY <1>2 DEF onChatMottoSet
    <2> HIDE DEF chan
    <2> QED
      BY <1>0, <2>1, <2>2 DEF ModifiedBy
  <1>3. ASSUME NEW target \in Nicks, onChatOp(c, target)
        PROVE  \E chan \in Channel : ModifiedBy(c, chan)
    <2> DEFINE chan == [channels[n] EXCEPT !.ops = @ \cup {target}]
    <2>1. chan \in Channel /\ chan.admin = channels[n].admin
          /\ chan.stored = channels[n].stored /\ chan.motto = channels[n].motto
      BY <1>1 DEF Channel
    <2>2. Modify(n, chan) /\ IsAdmin(n, nick[c])
      BY <1>3 DEF onChatOp
    <2> HIDE DEF chan
    <2> QED
      BY <1>0, <2>1, <2>2 DEF ModifiedBy
  <1>4. ASSUME NEW target \in Nicks, onChatDeop(c, target)
        PROVE  \E chan \in Channel : ModifiedBy(c, chan)
    <2> DEFINE chan == [channels[n] EXCEPT !.ops = @ \ {target}]
    <2>1. chan \in Channel /\ chan.admin = channels[n].admin
          /\ chan.stored = channels[n].stored /\ chan.motto = channels[n].motto
      BY <1>1 DEF Channel
    <2>2. Modify(n, chan) /\ IsAdmin(n, nick[c])
      BY <1>4 DEF onChatDeop
    <2> HIDE DEF chan
    <2> QED
      BY <1>0, <2>1, <2>2 DEF ModifiedBy
  <1> QED
    BY <1>2, <1>3, <1>4

LEMMA ChatStep == ChatInv /\ [ChatNext]_vars => ChatInv'
  <1> SUFFICES ASSUME ChatInv, [ChatNext]_vars
               PROVE  ChatInv'
    OBVIOUS
  <1>0. SessionsInv'
    BY ChatStepIsSessionsStep, SessionsStep DEF ChatInv
  <1>1. ASSUME NEW c \in Clients, AcceptChat(c) \/ FinishChat(c) \/ Logout(c)
        PROVE  ChatInv'
    <2>1. CASE AcceptChat(c)
      BY <1>0, <2>1, AcceptChatKeepsInv
    <2>2. CASE FinishChat(c) \/ Logout(c)
      <3>1. /\ LeaveChannel(c)
            /\ server' = server
            /\ \A d \in Clients \ {c} : loggedIn'[d] = loggedIn[d] /\ conn'[d] = conn[d]
        BY <2>2 DEF FinishChat, Logout, Finish, onLogout, QuitSession, ChatInv, ChatTypeOK,
           TypeOK
      <3> QED
        BY <1>0, <3>1, LeaveKeepsInv
    <2> QED
      BY <1>1, <2>1, <2>2
  <1>2. ASSUME NEW c \in Clients, (onLogin(c) \/ Drop(c)) /\ UNCHANGED chatVars
        PROVE  ChatInv'
    <2>1. server' = server
          /\ \A d \in Clients : loggedIn[d] /\ conn[d] # "none" =>
                loggedIn'[d] /\ conn'[d] # "none"
      BY <1>2 DEF onLogin, LoginAccepted, LoginRefused, Drop, CloseConnection, ChatInv,
         ChatTypeOK, TypeOK
    <2> QED
      BY <1>0, <1>2, <2>1, SessionStepKeepsInv
  <1>3. ASSUME NEW c \in Clients, NEW n \in Names,
               onChatJoin(c, n) \/ onChatDestroyChan(c, n)
        PROVE  ChatInv'
    <2>1. CASE JoinRefused(c, n)
      <3>1. UNCHANGED chatVars /\ server' = server
            /\ \A d \in Clients : loggedIn[d] /\ conn[d] # "none" =>
                  loggedIn'[d] /\ conn'[d] # "none"
        BY <2>1 DEF JoinRefused, CloseConnection, ChatInv, ChatTypeOK, TypeOK
      <3> QED
        BY <1>0, <3>1, SessionStepKeepsInv
    <2> QED
      BY <1>0, <1>3, <2>1, JoinExistingKeepsInv, JoinNewKeepsInv, DestroyKeepsInv
      DEF onChatJoin
  <1>4. ASSUME NEW c \in Clients,
               \/ \E motto \in Mottos : onChatMottoSet(c, motto)
               \/ \E target \in Nicks : onChatOp(c, target) \/ onChatDeop(c, target)
        PROVE  ChatInv'
    <2>1. PICK chan \in Channel : ModifiedBy(c, chan)
      BY <1>4, HandlersModify
    <2> QED
      BY <1>0, <2>1, InChannelFacts, ModifyKeepsInv DEF ModifiedBy
  <1>5. ASSUME NEW c \in Clients, NEW d \in Clients, onChatKick(c, d)
        PROVE  ChatInv'
    BY <1>0, <1>5, KickKeepsInv
  <1>6. ASSUME NEW c \in Clients, NotInChannel(c) \/ Crash(c)
        PROVE  ChatInv'
    <2>1. CASE NotInChannel(c)
      <3>1. UNCHANGED chatVars /\ server' = server
            /\ \A d \in Clients : loggedIn[d] /\ conn[d] # "none" =>
                  loggedIn'[d] /\ conn'[d] # "none"
        BY <2>1 DEF NotInChannel, CloseConnection, ChatInv, ChatTypeOK, TypeOK
      <3> QED
        BY <1>0, <3>1, SessionStepKeepsInv
    <2>2. CASE Crash(c)
      BY <1>0, <2>2, DieKeepsInv DEF Crash
    <2> QED
      BY <1>6, <2>1, <2>2
  <1>7. CASE Die("down") \/ Shutdown \/ StartChat
    BY <1>0, <1>7, DieKeepsInv, ShutdownKeepsInv, StartKeepsChatInv
  <1>8. CASE UNCHANGED vars
    BY <1>0, <1>8, SessionStepKeepsInv DEF vars, chatVars
  <1> QED
    BY <1>1, <1>2, <1>3, <1>4, <1>5, <1>6, <1>7, <1>8 DEF ChatNext

-----------------------------------------------------------------------------
(* The theorems.                                                           *)

\* The strengthening is invariant.
THEOREM ChatInvariance == ChatSpec => []ChatInv
  BY ChatInitInv, ChatStep, PTL DEF ChatSpec

\* Type correctness.
THEOREM ChatTypeCorrect == ChatSpec => []ChatTypeOK
  <1>1. ChatInv => ChatTypeOK
    BY DEF ChatInv
  <1> QED
    BY ChatInvariance, <1>1, PTL

\* The list of users of a channel and the pointers of the clients always agree.
THEOREM MembershipsAgree == ChatSpec => []MembershipAgrees
  <1>1. ChatInv => MembershipAgrees
    BY DEF ChatInv, MembersInv
  <1> QED
    BY ChatInvariance, <1>1, PTL

\* No client points to a channel that was destroyed.
THEOREM MembersChannelsExist == ChatSpec => []ChannelsOfMembersExist
  <1>1. ChatInv => ChannelsOfMembersExist
    BY DEF ChatInv, MembersInv
  <1> QED
    BY ChatInvariance, <1>1, PTL

\* No channel lists a client whose session is over.
THEOREM MembersLoggedIn == ChatSpec => []MembersAreLoggedIn
  <1>1. ChatInv => MembersAreLoggedIn
    BY DEF ChatInv, MembersInv
  <1> QED
    BY ChatInvariance, <1>1, PTL

\* A channel with an ID has a row of its own name, with its motto, its admin and all its
\* operators, however the table folds the names of channels.
THEOREM StoredChannelsMatch == ChatSpec => []StoredChannelsMatchRows
  <1>1. ChatInv => StoredChannelsMatchRows
    BY DEF ChatInv, TablesInv
  <1> QED
    BY ChatInvariance, <1>1, PTL

\* What a save of a channel with an ID does to a row: nothing to its name and, when it
\* is that of a channel of a user, to its admin.
LEMMA SavedKeepsOwner ==
    ASSUME ChatInv, NEW n \in Names, NEW chan \in Channel, Exists(n), channels[n].stored,
           chan.stored, chan.admin = channels[n].admin,
           n \notin SystemNames
    PROVE  /\ RowNamed(Saved(rows, n, chan), n) # NoRow
           /\ RowNamed(Saved(rows, n, chan), n).name = RowNamed(rows, n).name
           /\ RowNamed(Saved(rows, n, chan), n).admin = RowNamed(rows, n).admin
  <1>1. rows \in [Records -> ChannelRow \cup {NoRow}]
    BY DEF ChatInv, ChatTypeOK
  <1>2. HasOwnRow(n) /\ RowNamed(rows, n).admin = channels[n].admin
    BY DEF ChatInv, TablesInv, StoredChannelsMatchRows
  <1> QED
    BY <1>1, <1>2, SavedRows DEF HasOwnRow

LEMMA RowsStep ==
    ChatInv /\ [ChatNext]_vars => [\A r \in Records : RowKeepsItsOwner(r)]_vars
  <1> SUFFICES ASSUME ChatInv, ChatNext, NEW r \in Records,
                      rows[r] # NoRow, rows[r].name \notin SystemNames, rows'[r] # rows[r]
               PROVE  \/ /\ rows'[r] # NoRow
                         /\ rows'[r].name = rows[r].name
                         /\ rows'[r].admin = rows[r].admin
                      \/ /\ rows'[r] = NoRow
                         /\ \E c \in Clients : loggedIn[c] /\ RowOf[nick[c]] = RowOf[rows[r].admin]
    BY DEF RowKeepsItsOwner
  <1>0. /\ rows \in [Records -> ChannelRow \cup {NoRow}]
        /\ channels \in [Names -> Channel \cup {NoChannel}]
        /\ RecordOf \in [Names -> Records]
    BY RecordsAssumption DEF ChatInv, ChatTypeOK
  <1>1. \A n \in Names : RecordOf[n] = r /\ Exists(n) /\ channels[n].stored =>
            n \notin SystemNames /\ channels[n] \in Channel
    BY <1>0 DEF ChatInv, TablesInv, StoredChannelsMatchRows, HasOwnRow, RowNamed, Exists
  <1>2. ASSUME NEW c \in Clients, NEW chan \in Channel, ModifiedBy(c, chan)
        PROVE  /\ rows'[r] # NoRow
               /\ rows'[r].name = rows[r].name
               /\ rows'[r].admin = rows[r].admin
    <2>1. PICK n : n = myChannel[c]
      OBVIOUS
    <2>2. /\ n \in Names /\ Exists(n)
          /\ rows' = Saved(rows, n, chan)
          /\ chan.stored = channels[n].stored /\ chan.admin = channels[n].admin
      BY <1>2, <2>1, InChannelFacts DEF ModifiedBy, Modify
    <2>3. RecordOf[n] = r /\ chan.stored
      BY <1>0, <2>2, SavedRows DEF RowNamed, Channel
    <2> QED
      BY <1>1, <2>2, <2>3, SavedKeepsOwner DEF RowNamed
  <1>3. ASSUME NEW c \in Clients,
               \/ \E motto \in Mottos : onChatMottoSet(c, motto)
               \/ \E target \in Nicks : onChatOp(c, target) \/ onChatDeop(c, target)
        PROVE  \E chan \in Channel : ModifiedBy(c, chan)
    BY <1>3, HandlersModify
  <1>4. ASSUME NEW c \in Clients, NEW n \in Names, JoinNew(c, n)
        PROVE  FALSE
    <2>1. PICK chan : chan = [admin |-> nick[c], ops |-> {}, motto |-> FirstMotto,
                              stored |-> FALSE]
      OBVIOUS
    <2>2. chan \in Channel /\ ~chan.stored /\ rows' = Saved(rows, n, chan)
      BY <1>4, <2>1, ChannelAssumption
      DEF JoinNew, ChatInv, SessionsInv, SessionData, InSession, Channel
    <2> QED
      BY <1>0, <2>2, SavedRows DEF RowNamed
  <1>5. ASSUME NEW c \in Clients, NEW n \in Names, onChatDestroyChan(c, n)
        PROVE  /\ rows'[r] = NoRow
               /\ loggedIn[c] /\ RowOf[nick[c]] = RowOf[rows[r].admin]
    <2>1. /\ rows' = Deleted(rows, n, channels[n])
          /\ DestroysDB(n, nick[c])
          /\ loggedIn[c]
      BY <1>5 DEF onChatDestroyChan, InSession
    <2>2. channels[n].stored /\ RecordOf[n] = r /\ rows'[r] = NoRow
      BY <1>0, <2>1 DEF Deleted
    <2> QED
      BY <2>1, <2>2 DEF DestroysDB, RowNamed
  <1>6. ASSUME NEW c \in Clients, NEW n \in Names, JoinExisting(c, n) \/ JoinRefused(c, n)
        PROVE  FALSE
    BY <1>6 DEF JoinExisting, JoinRefused, chatVars
  <1>7. ASSUME NEW c \in Clients,
               \/ AcceptChat(c) \/ FinishChat(c) \/ Logout(c) \/ NotInChannel(c)
               \/ (onLogin(c) \/ Drop(c)) /\ UNCHANGED chatVars
               \/ \E d \in Clients : onChatKick(c, d)
               \/ Crash(c)
        PROVE  FALSE
    BY <1>7 DEF AcceptChat, FinishChat, Logout, LeaveChannel, NotInChannel, onChatKick,
       Crash, Die, chatVars
  <1>8. CASE Shutdown
    <2>1. PICK n \in Names : /\ RecordOf[n] = r /\ Exists(n) /\ channels[n].stored
                             /\ rows'[r] = Saved(rows, n, channels[n])[r]
      BY <1>8, RowsAtShutdown
    <2> QED
      BY <1>1, <2>1, SavedKeepsOwner DEF RowNamed
  <1>9. ~Die("down") /\ ~StartChat
    BY DEF Die, StartChat
  <1> QED
    BY <1>2, <1>3, <1>4, <1>5, <1>6, <1>7, <1>8, <1>9 DEF ChatNext, onChatJoin

\* The row of a channel of a user keeps its name and its admin until that admin, logged
\* in, destroys the channel, for any names that the table takes for the same.
THEOREM RowsKept == ChatSpec => RowsKeepTheirOwners
  BY ChatInvariance, RowsStep, PTL DEF ChatSpec, RowsKeepTheirOwners

\* While the channel whose row it is exists, a row is deleted by nobody.
LEMMA OwnRowStays ==
    ASSUME ChatInv, ChatNext, NEW n \in Names \ SystemNames,
           Exists(n), HasOwnRow(n), Exists(n)'
    PROVE  HasOwnRow(n)'
  <1> DEFINE r == RecordOf[n]
  <1>0. /\ rows \in [Records -> ChannelRow \cup {NoRow}]
        /\ channels \in [Names -> Channel \cup {NoChannel}]
        /\ RecordOf \in [Names -> Records]
    BY RecordsAssumption DEF ChatInv, ChatTypeOK
  <1>1. r \in Records /\ rows[r] # NoRow /\ rows[r].name = n
    BY <1>0 DEF HasOwnRow, RowNamed
  <1>2. CASE rows'[r] # NoRow
    <2>1. RowKeepsItsOwner(r)
      <3>1. CASE vars' = vars
        BY <1>1, <3>1 DEF vars, RowKeepsItsOwner
      <3> QED
        BY <1>1, <3>1, RowsStep
    <2> QED
      BY <1>1, <1>2, <2>1 DEF RowKeepsItsOwner, HasOwnRow, RowNamed
  <1>3. ASSUME NEW c \in Clients, NEW m \in Names, onChatDestroyChan(c, m), rows'[r] = NoRow
        PROVE  FALSE
    <2>1. /\ rows' = Deleted(rows, m, channels[m])
          /\ channels' = [channels EXCEPT ![m] = NoChannel]
          /\ Exists(m)
      BY <1>3 DEF onChatDestroyChan
    <2>2. channels[m].stored /\ RecordOf[m] = r
      BY <1>0, <1>1, <1>3, <2>1 DEF Deleted
    <2>3. HasOwnRow(m)
      BY <2>1, <2>2 DEF ChatInv, TablesInv, StoredChannelsMatchRows
    <2>4. m = n
      BY <1>1, <2>2, <2>3 DEF HasOwnRow, RowNamed
    <2> QED
      BY <1>0, <2>1, <2>4 DEF Exists
  <1>4. ASSUME NEW m \in Names, NEW chan \in Channel, rows' = Saved(rows, m, chan)
        PROVE  rows'[r] # NoRow
    <2>1. CASE RecordOf[m] # r
      BY <1>0, <1>1, <1>4, <2>1, SavedRows
    <2>2. CASE RecordOf[m] = r
      <3>1. RowNamed(rows, m) # NoRow
        BY <1>1, <2>2 DEF RowNamed
      <3>2. RowNamed(Saved(rows, m, chan), m) # NoRow
        <4>1. CASE chan.stored
          BY <1>0, <3>1, <4>1, SavedRows
        <4>2. CASE ~chan.stored
          BY <1>0, <3>1, <4>2, SavedRows
        <4> QED
          BY <4>1, <4>2
      <3> QED
        BY <1>4, <2>2, <3>2 DEF RowNamed
    <2> QED
      BY <2>1, <2>2
  <1>5. ASSUME NEW c \in Clients, NEW chan \in Channel, ModifiedBy(c, chan)
        PROVE  rows'[r] # NoRow
    BY <1>4, <1>5, InChannelFacts DEF ModifiedBy, Modify
  <1>6. ASSUME NEW c \in Clients,
               \/ \E motto \in Mottos : onChatMottoSet(c, motto)
               \/ \E target \in Nicks : onChatOp(c, target) \/ onChatDeop(c, target)
        PROVE  \E chan \in Channel : ModifiedBy(c, chan)
    BY <1>6, HandlersModify
  <1>7. ASSUME NEW c \in Clients, NEW m \in Names, JoinNew(c, m)
        PROVE  rows'[r] # NoRow
    <2>1. PICK chan : chan = [admin |-> nick[c], ops |-> {}, motto |-> FirstMotto,
                              stored |-> FALSE]
      OBVIOUS
    <2>2. chan \in Channel /\ rows' = Saved(rows, m, chan)
      BY <1>7, <2>1, ChannelAssumption
      DEF JoinNew, ChatInv, SessionsInv, SessionData, InSession, Channel
    <2> QED
      BY <1>4, <2>2
  <1>8. ASSUME NEW c \in Clients, NEW m \in Names, JoinExisting(c, m) \/ JoinRefused(c, m)
        PROVE  rows' = rows
    BY <1>8 DEF JoinExisting, JoinRefused, chatVars
  <1>9. ASSUME NEW c \in Clients,
               \/ AcceptChat(c) \/ FinishChat(c) \/ Logout(c) \/ NotInChannel(c)
               \/ (onLogin(c) \/ Drop(c)) /\ UNCHANGED chatVars
               \/ \E d \in Clients : onChatKick(c, d)
               \/ Crash(c)
        PROVE  rows' = rows
    BY <1>9 DEF AcceptChat, FinishChat, Logout, LeaveChannel, NotInChannel, onChatKick,
       Crash, Die, chatVars
  <1>10. ~Shutdown
    BY DEF Shutdown, Exists
  <1>11. Die("down") \/ StartChat => rows' = rows
    BY DEF Die, StartChat
  <1> QED
    BY <1>1, <1>2, <1>3, <1>5, <1>6, <1>7, <1>8, <1>9, <1>10, <1>11
    DEF ChatNext, onChatJoin

\* A channel of a user that is new is loaded from its row, or created, and then saved
\* unless the table takes its name for another one's.
LEMMA NewChannelIsSaved ==
    ASSUME ChatInv, ChatNext, NEW n \in Names \ SystemNames,
           ~Exists(n), Exists(n)', ~HasOwnRow(n)'
    PROVE  RowNamed(rows, n) # NoRow /\ RowNamed(rows, n).name # n
  <1>0. /\ rows \in [Records -> ChannelRow \cup {NoRow}]
        /\ channels \in [Names -> Channel \cup {NoChannel}]
    BY DEF ChatInv, ChatTypeOK
  <1>1. ASSUME NEW c \in Clients, JoinNew(c, n)
        PROVE  RowNamed(rows, n) # NoRow /\ RowNamed(rows, n).name # n
    <2>1. PICK chan : chan = [admin |-> nick[c], ops |-> {}, motto |-> FirstMotto,
                              stored |-> FALSE]
      OBVIOUS
    <2>2. chan \in Channel /\ ~chan.stored /\ rows' = Saved(rows, n, chan)
      BY <1>1, <2>1, ChannelAssumption
      DEF JoinNew, ChatInv, SessionsInv, SessionData, InSession, Channel
    <2>3. RowNamed(rows, n) # NoRow
      BY <1>0, <2>2, SavedRows DEF HasOwnRow, RowNamed
    <2>4. rows' = rows
      BY <1>0, <2>2, <2>3, SavedRows
    <2> QED
      BY <2>3, <2>4 DEF HasOwnRow, RowNamed
  <1>2. ~StartChat
    BY DEF StartChat, InitChannel, HasOwnRow, RowNamed, Exists
  <1>3. ASSUME NEW c \in Clients, NEW m \in Names \ {n}, JoinNew(c, m)
        PROVE  channels'[n] = channels[n]
    BY <1>0, <1>3 DEF JoinNew
  <1>4. ASSUME NEW c \in Clients, NEW m \in Names, onChatDestroyChan(c, m)
        PROVE  FALSE
    BY <1>0, <1>4 DEF onChatDestroyChan, Exists
  <1>5. ASSUME NEW c \in Clients, NEW chan \in Channel, ModifiedBy(c, chan)
        PROVE  FALSE
    <2>1. channels' = [channels EXCEPT ![myChannel[c]] = chan] /\ Exists(myChannel[c])
      BY <1>5, InChannelFacts DEF ModifiedBy, Modify
    <2> QED
      BY <1>0, <2>1 DEF Exists
  <1>6. ASSUME NEW c \in Clients,
               \/ \E motto \in Mottos : onChatMottoSet(c, motto)
               \/ \E target \in Nicks : onChatOp(c, target) \/ onChatDeop(c, target)
        PROVE  FALSE
    BY <1>5, <1>6, HandlersModify
  <1>7. ASSUME NEW c \in Clients, NEW m \in Names, JoinExisting(c, m) \/ JoinRefused(c, m)
        PROVE  channels' = channels
    BY <1>7 DEF JoinExisting, JoinRefused, chatVars
  <1>8. ASSUME NEW c \in Clients,
               \/ AcceptChat(c) \/ FinishChat(c) \/ Logout(c) \/ NotInChannel(c)
               \/ (onLogin(c) \/ Drop(c)) /\ UNCHANGED chatVars
               \/ \E d \in Clients : onChatKick(c, d)
        PROVE  channels' = channels
    BY <1>8 DEF AcceptChat, FinishChat, Logout, LeaveChannel, NotInChannel, onChatKick,
       chatVars
  <1>9. ~Shutdown /\ ~Die("down") /\ \A c \in Clients : ~Crash(c)
    BY DEF Shutdown, Crash, Die, Exists
  <1> QED
    BY <1>1, <1>2, <1>3, <1>4, <1>6, <1>7, <1>8, <1>9 DEF ChatNext, onChatJoin, Exists

\* A channel of a user has its row from its creation on, for any names, unless the table
\* took its name for that of another channel then.
THEOREM CreatedChannelsSaved == ChatSpec => CreatedChannelsAreSaved
  <1>1. ChatInv /\ [ChatNext]_vars =>
          [\A n \in Names \ SystemNames : Exists(n)' /\ ~HasOwnRow(n)' =>
              IF Exists(n) THEN ~HasOwnRow(n)
              ELSE RowNamed(rows, n) # NoRow /\ RowNamed(rows, n).name # n]_vars
    BY OwnRowStays, NewChannelIsSaved
  <1> QED
    BY <1>1, ChatInvariance, PTL DEF ChatSpec, CreatedChannelsAreSaved

\* A step that changes a channel in memory modifies, creates or destroys one, or
\* ends or starts the server.
LEMMA RightsStep == ChatInv /\ [ChatNext]_vars => [RightsAreHeld]_vars
  <1> SUFFICES ASSUME ChatInv, ChatNext, NEW n \in Names, Exists(n), Exists(n)'
               PROVE  /\ channels'[n].ops # channels[n].ops =>
                           \E c \in members[n] : IsAdmin(n, nick[c])
                      /\ channels'[n].motto # channels[n].motto =>
                           \E c \in members[n] : IsAdmin(n, nick[c]) \/ IsOp(n, nick[c])
    BY DEF RightsAreHeld
  <1>0. channels \in [Names -> Channel \cup {NoChannel}] /\ server = "up"
    BY DEF ChatInv, ChatTypeOK, TablesInv, NoChannelsWhenDown
  <1>1. CASE channels'[n] = channels[n]
    BY <1>1
  <1>2. ASSUME NEW c \in Clients, NEW chan \in Channel, ModifiedBy(c, chan),
               channels'[n] # channels[n]
        PROVE  /\ channels'[n].ops # channels[n].ops =>
                    \E d \in members[n] : IsAdmin(n, nick[d])
               /\ channels'[n].motto # channels[n].motto =>
                    \E d \in members[n] : IsAdmin(n, nick[d]) \/ IsOp(n, nick[d])
    <2>1. channels' = [channels EXCEPT ![myChannel[c]] = chan]
      BY <1>2 DEF ModifiedBy, Modify
    <2>2. n = myChannel[c] /\ channels'[n] = chan
      BY <1>0, <1>2, <2>1
    <2> QED
      BY <1>2, <2>2, InChannelFacts DEF ModifiedBy
  <1>3. ASSUME NEW c \in Clients,
               \/ \E motto \in Mottos : onChatMottoSet(c, motto)
               \/ \E target \in Nicks : onChatOp(c, target) \/ onChatDeop(c, target)
        PROVE  \E chan \in Channel : ModifiedBy(c, chan)
    BY <1>3, HandlersModify
  <1>4. ASSUME NEW c \in Clients, NEW m \in Names,
               onChatJoin(c, m) \/ onChatDestroyChan(c, m)
        PROVE  channels'[n] = channels[n]
    <2>1. CASE JoinExisting(c, m) \/ JoinRefused(c, m)
      BY <2>1 DEF JoinExisting, JoinRefused, chatVars
    <2>2. CASE JoinNew(c, m)
      BY <1>0, <2>2 DEF JoinNew
    <2>3. CASE onChatDestroyChan(c, m)
      BY <1>0, <2>3 DEF onChatDestroyChan, Exists
    <2> QED
      BY <1>4, <2>1, <2>2, <2>3 DEF onChatJoin
  <1>5. ASSUME NEW c \in Clients,
               \/ AcceptChat(c) \/ FinishChat(c) \/ Logout(c) \/ NotInChannel(c)
               \/ (onLogin(c) \/ Drop(c)) /\ UNCHANGED chatVars
               \/ \E d \in Clients : onChatKick(c, d)
        PROVE  channels'[n] = channels[n]
    BY <1>5 DEF AcceptChat, FinishChat, Logout, LeaveChannel, NotInChannel, onChatKick,
       chatVars
  <1>6. ASSUME Shutdown \/ StartChat \/ \E how \in {"down", "crashed"} : Die(how)
        PROVE  channels'[n] = channels[n]
    BY <1>0, <1>6 DEF Shutdown, StartChat, Start, Die, Exists
  <1>7. ASSUME NEW c \in Clients, Crash(c)
        PROVE  Die("crashed")
    BY <1>7 DEF Crash
  <1> QED
    BY <1>1, <1>2, <1>3, <1>4, <1>5, <1>6, <1>7 DEF ChatNext

\* Whoever changes a channel is in it and has the rights to.
THEOREM RightsHeld == ChatSpec => RightsAreHeldInChannel
  BY ChatInvariance, RightsStep, PTL DEF ChatSpec, RightsAreHeldInChannel

-----------------------------------------------------------------------------
(* The number of channels a user owns.                                     *)

OwnedBy(who) == {n \in Names : Exists(n) /\ KeyOf[channels[n].admin] = KeyOf[who]}

LEMMA OwnedByFinite ==
    ASSUME NEW who
    PROVE  IsFiniteSet(OwnedBy(who)) /\ CountUserChannels(who) = Cardinality(OwnedBy(who))
           /\ CountUserChannels(who) \in Nat
  <1>1. IsFiniteSet(OwnedBy(who))
    BY NamesAreFinite, FS_Subset DEF OwnedBy
  <1> QED
    BY <1>1, FS_CardinalityType DEF OwnedBy, CountUserChannels

\* No channel is new, and none has a new admin.
AdminsKept ==
    \A n \in Names : Exists(n)' => Exists(n) /\ channels'[n].admin = channels[n].admin

\* Then nobody owns more channels.
LEMMA AdminsKeptKeepsQuota ==
    ASSUME AdminsKept, NEW who
    PROVE  CountUserChannels(who)' <= CountUserChannels(who)
  <1>1. OwnedBy(who)' \subseteq OwnedBy(who)
    BY DEF AdminsKept, OwnedBy
  <1>2. Cardinality(OwnedBy(who)') <= Cardinality(OwnedBy(who))
    BY <1>1, OwnedByFinite, FS_Subset
  <1>3. CountUserChannels(who)' = Cardinality(OwnedBy(who)')
    BY DEF OwnedBy, CountUserChannels
  <1> QED
    BY <1>2, <1>3, OwnedByFinite

\* createChannel counts in whatever case, and the channel it adds is one.
LEMMA JoinNewKeepsQuota ==
    ASSUME ChatInv, NEW c \in Clients, NEW n \in Names, JoinNew(c, n), NEW who \in Nicks
    PROVE  \/ CountUserChannels(who)' <= CountUserChannels(who)
           \/ CountUserChannels(who)' <= MaxChans
  <1> DEFINE chan == [admin |-> nick[c], ops |-> {}, motto |-> FirstMotto, stored |-> FALSE]
  <1>1. /\ ~Exists(n)
        /\ CountUserChannels(nick[c]) < MaxChans
        /\ channels' = [channels EXCEPT ![n] = chan]
    BY DEF JoinNew, HasQuotaLeft
  <1>2. channels \in [Names -> Channel \cup {NoChannel}]
    BY DEF ChatInv, ChatTypeOK
  <1>3. OwnedBy(who)' \subseteq OwnedBy(who) \cup {n}
    BY <1>1, <1>2 DEF OwnedBy, Exists
  <1>4. CASE KeyOf[who] = KeyOf[nick[c]]
    <2>1. CountUserChannels(who) = CountUserChannels(nick[c])
      BY <1>4 DEF CountUserChannels
    <2>2. n \notin OwnedBy(who)
      BY <1>1 DEF OwnedBy
    <2>3. /\ IsFiniteSet(OwnedBy(who) \cup {n})
          /\ Cardinality(OwnedBy(who) \cup {n}) = CountUserChannels(who) + 1
      BY <2>2, OwnedByFinite, FS_AddElement
    <2>4. Cardinality(OwnedBy(who)') <= CountUserChannels(who) + 1
          /\ Cardinality(OwnedBy(who)') \in Nat
      BY <1>3, <2>3, FS_Subset, FS_CardinalityType
    <2>5. CountUserChannels(who)' = Cardinality(OwnedBy(who)')
      BY DEF OwnedBy, CountUserChannels
    <2> QED
      BY <1>1, <2>1, <2>4, <2>5, OwnedByFinite, MaxChansAssumption
  <1>5. CASE KeyOf[who] # KeyOf[nick[c]]
    <2>1. OwnedBy(who)' \subseteq OwnedBy(who)
      BY <1>1, <1>2, <1>3, <1>5 DEF OwnedBy
    <2>2. Cardinality(OwnedBy(who)') <= Cardinality(OwnedBy(who))
      BY <2>1, OwnedByFinite, FS_Subset
    <2>3. CountUserChannels(who)' = Cardinality(OwnedBy(who)')
      BY DEF OwnedBy, CountUserChannels
    <2> QED
      BY <2>2, <2>3, OwnedByFinite
  <1> QED
    BY <1>4, <1>5

\* What a step of a running server does to the admins of the channels.
LEMMA AdminsStep ==
    ASSUME ChatInv, [ChatNext]_vars, server = "up"
    PROVE  AdminsKept \/ \E c \in Clients, n \in Names : JoinNew(c, n)
  <1>0. channels \in [Names -> Channel \cup {NoChannel}]
    BY DEF ChatInv, ChatTypeOK
  <1>1. CASE channels' = channels
    BY <1>1 DEF AdminsKept, Exists
  <1>2. ASSUME NEW c \in Clients, NEW chan \in Channel, ModifiedBy(c, chan)
        PROVE  AdminsKept
    BY <1>0, <1>2, InChannelFacts DEF ModifiedBy, Modify, AdminsKept, Exists
  <1>3. ASSUME NEW c \in Clients,
               \/ \E motto \in Mottos : onChatMottoSet(c, motto)
               \/ \E target \in Nicks : onChatOp(c, target) \/ onChatDeop(c, target)
        PROVE  AdminsKept
    BY <1>2, <1>3, HandlersModify
  <1>4. ASSUME NEW c \in Clients, NEW n \in Names, onChatDestroyChan(c, n)
        PROVE  AdminsKept
    BY <1>0, <1>4 DEF onChatDestroyChan, AdminsKept, Exists
  <1>5. ASSUME NEW c \in Clients, NEW n \in Names, JoinExisting(c, n) \/ JoinRefused(c, n)
        PROVE  channels' = channels
    BY <1>5 DEF JoinExisting, JoinRefused, chatVars
  <1>6. ASSUME NEW c \in Clients,
               \/ AcceptChat(c) \/ FinishChat(c) \/ Logout(c) \/ NotInChannel(c)
               \/ (onLogin(c) \/ Drop(c)) /\ UNCHANGED chatVars
               \/ \E d \in Clients : onChatKick(c, d)
        PROVE  channels' = channels
    BY <1>6 DEF AcceptChat, FinishChat, Logout, LeaveChannel, NotInChannel, onChatKick,
       chatVars
  <1>7. ASSUME Shutdown \/ \E how \in {"down", "crashed"} : Die(how)
        PROVE  AdminsKept
    BY <1>7 DEF Shutdown, Die, AdminsKept, Exists
  <1>8. ASSUME NEW c \in Clients, Crash(c)
        PROVE  Die("crashed")
    BY <1>8 DEF Crash
  <1>9. ~StartChat
    BY DEF StartChat, Start
  <1>10. CASE UNCHANGED vars
    BY <1>1, <1>10 DEF vars
  <1> QED
    BY <1>1, <1>3, <1>4, <1>5, <1>6, <1>7, <1>8, <1>9, <1>10 DEF ChatNext, onChatJoin

\* While the server runs nobody comes to own more than MaxChans channels under
\* nicknames that differ in case only, for any limit.
THEOREM QuotaAlwaysKept == ChatSpec => QuotaIsKept
  <1>1. ASSUME ChatInv, [ChatNext]_vars
        PROVE  [server = "up" => \A who \in Nicks :
                  CountUserChannels(who)' <= CountUserChannels(who)
                      \/ CountUserChannels(who)' <= MaxChans]_vars
    BY <1>1, AdminsStep, AdminsKeptKeepsQuota, JoinNewKeepsQuota
  <1>2. ChatInv /\ [ChatNext]_vars =>
          [server = "up" => \A who \in Nicks :
              CountUserChannels(who)' <= CountUserChannels(who)
                  \/ CountUserChannels(who)' <= MaxChans]_vars
    BY <1>1
  <1> QED
    BY <1>2, ChatInvariance, PTL DEF ChatSpec, QuotaIsKept
=============================================================================
