--------------------------- MODULE ChatSteps_proof ---------------------------
(***************************************************************************)
(* Proofs about ChatSteps, for any number of clients, addresses and names: *)
(* only a thread that keeps the data base after a failed stored function   *)
(* lets threads wait for each other in a circle, the manager lists no      *)
(* deleted channel, and nobody comes to own more channels than allowed.    *)
(***************************************************************************)
EXTENDS ChatSteps, FiniteSetTheorems, TLAPS

\* Where a thread needs a channel in found, or in at.
FoundStages == {"leave", "part", "unset", "enter", "set", "list"}
                  \cup SaveStages \cup KickStages \cup DestroyStages
AtStages == {"part", "unset", "admit", "place", "tell", "bye"}

\* Where a thread may hold the mutex of the manager: in createChannel, and in
\* removeChannel with the destructor and its kicks.
ManagerStages == {"save", "query", "stored", "ask", "answered", "drop", "purge"}
                    \cup (KickStages \ {"kick"})

\* The local variables of a thread have values where they are used.
LocalsInv ==
    \A c \in Clients :
        /\ pc[c] \in {"count", "create"} => wanted[c] \in Names
        /\ pc[c] \in FoundStages => found[c] \in Addrs
        /\ pc[c] \in AtStages => at[c] \in Addrs

\* Where a thread is that holds a mutex.
LocksInv ==
    /\ \A c \in Clients : manager = c => pc[c] \in ManagerStages
    /\ \A c \in Clients : pc[c] \in {"ask", "answered", "drop", "purge"} => manager = c
    /\ \A c \in Clients, a \in Addrs :
          mutex[a] = c => found[c] = a /\ pc[c] \in {"query", "stored"}
    /\ \A c \in Clients : db = c /\ ~leaked => pc[c] \in {"stored", "answered"}
    /\ \A c \in Clients : pc[c] \in {"stored", "answered"} => db = c

\* A channel that is being deleted is no longer listed.
ListInv ==
    /\ ListedAreLive
    /\ \A c \in Clients :
          manager = c /\ pc[c] \in KickStages \cup {"purge"} => found[c] \notin listed

\* Between the count and the new entry the user is still below the limit.
QuotaInv ==
    \A c \in Clients : pc[c] = "create" => Cardinality(Owned(c)) < MaxChans

\* The inductive invariant.
StepsInv ==
    /\ TypeOK
    /\ LocalsInv
    /\ LocksInv
    /\ ListInv
    /\ QuotaInv

\* Nobody comes to own more channels than allowed.
QuotaStep ==
    \A c \in Clients :
        Cardinality(Owned(c))' <= Cardinality(Owned(c))
            \/ Cardinality(Owned(c))' <= MaxChans

\* No channel of a user is new, and no thread has come to create one.
OwnersKept ==
    /\ \A a \in listed' : a \in listed /\ chans'[a].admin = chans[a].admin
    /\ \A c \in Clients : pc'[c] = "create" => pc[c] = "create"

-----------------------------------------------------------------------------
\* A new channel is an object of its type.
LEMMA NewChannels ==
    ASSUME NEW n \in Names, NEW c \in Clients
    PROVE  /\ [name |-> n, admin |-> c, users |-> {}, stored |-> FALSE] \in Channel
           /\ [name |-> n, admin |-> c, users |-> {}, stored |-> FALSE] # Freed
  <1>1. [name |-> n, admin |-> c, users |-> {}, stored |-> FALSE] \in Channel
    BY DEF Channel
  <1> QED
    BY <1>1, FreedAssumption

\* A change of the users of a channel that exists leaves objects, owners and names.
LEMMA SetUsersKeeps ==
    ASSUME TypeOK, NEW x \in Addrs, Live(x), NEW S \in SUBSET Clients, SetUsers(x, S)
    PROVE  /\ chans' \in [Addrs -> Channel \cup {Freed}]
           /\ \A b \in Addrs : Live(b) =>
                 Live(b)' /\ chans'[b].admin = chans[b].admin
  <1>1. chans[x] \in Channel
    BY DEF TypeOK, Live
  <1>2. /\ [chans[x] EXCEPT !.users = S] \in Channel
        /\ [chans[x] EXCEPT !.users = S].admin = chans[x].admin
    BY <1>1 DEF Channel
  <1>3. chans' = [chans EXCEPT ![x] = [chans[x] EXCEPT !.users = S]]
    BY DEF SetUsers, TypeOK
  <1> QED
    BY <1>1, <1>2, <1>3, FreedAssumption DEF TypeOK, Live

\* The end of a statement leaves the mutex of the data base with somebody or nobody.
LEMMA ReleaseTypes ==
    ASSUME TypeOK, Unlocks \/ Leaks
    PROVE  db' \in Clients \cup {NoClient, Ended} /\ leaked' \in BOOLEAN
  <1>1. CASE Unlocks
    <2>1. db' = db \/ db' = NoClient
      BY <1>1 DEF Unlocks
    <2> QED
      BY <1>1, <2>1 DEF Unlocks, TypeOK
  <1>2. CASE Leaks
    BY <1>2 DEF Leaks, TypeOK
  <1> QED
    BY <1>1, <1>2

\* The channels of a user are finitely many.
LEMMA OwnedFinite ==
    ASSUME TypeOK, NEW c
    PROVE  IsFiniteSet(Owned(c)) /\ Cardinality(Owned(c)) \in Nat
  <1>1. Owned(c) \in SUBSET Addrs
    BY DEF Owned, TypeOK
  <1> QED
    BY <1>1, AddrsAssumption, FS_Subset, FS_CardinalityType

\* Steps that make no channel keep the quota.
LEMMA OwnersKeepQuota ==
    ASSUME TypeOK, QuotaInv, OwnersKept
    PROVE  QuotaInv' /\ QuotaStep
  <1>1. ASSUME NEW c \in Clients
        PROVE  Cardinality(Owned(c)') <= Cardinality(Owned(c)) /\ Cardinality(Owned(c)') \in Nat
    <2>1. Owned(c)' \in SUBSET Owned(c)
      BY DEF Owned, OwnersKept
    <2> QED
      BY <2>1, OwnedFinite, FS_Subset, FS_CardinalityType
  <1>2. \A c \in Clients : Cardinality(Owned(c)) \in Nat
    BY OwnedFinite
  <1> QED
    BY <1>1, <1>2, StepsAssumption DEF QuotaInv, QuotaStep, OwnersKept

\* The count is below the limit when it lets a thread create a channel.
LEMMA CountKeepsQuota ==
    ASSUME TypeOK, QuotaInv, NEW c \in Clients, countUserChannels(c)
    PROVE  QuotaInv' /\ QuotaStep
  <1>1. \A d : Owned(d)' = Owned(d)
    BY DEF countUserChannels, objects, Owned
  <1>2. \/ pc' = [pc EXCEPT ![c] = "create"] /\ Cardinality(Owned(c)) < MaxChans
        \/ pc' = [pc EXCEPT ![c] = "quit"]
    BY DEF countUserChannels, Goto
  <1>3. \A d \in Clients : Cardinality(Owned(d)) \in Nat
    BY OwnedFinite
  <1> QED
    BY <1>1, <1>2, <1>3 DEF QuotaInv, QuotaStep, TypeOK

\* Only the channels of the creator become more, by one.
LEMMA CreateKeepsQuota ==
    ASSUME TypeOK, LocalsInv, ListInv, QuotaInv, NEW c \in Clients, createChannel(c)
    PROVE  QuotaInv' /\ QuotaStep
  <1>1. PICK a \in Addrs :
           /\ ~Live(a)
           /\ chans' = [chans EXCEPT ![a] = [name |-> wanted[c], admin |-> c,
                                             users |-> {}, stored |-> FALSE]]
           /\ listed' = listed \cup {a}
    BY DEF createChannel
  <1>2. a \notin listed
    BY <1>1 DEF ListInv, ListedAreLive
  <1>3. \A d \in Clients : Owned(d)' = IF d = c THEN Owned(c) \cup {a} ELSE Owned(d)
    BY <1>1, <1>2 DEF Owned, TypeOK
  <1>4. Cardinality(Owned(c)') = Cardinality(Owned(c)) + 1
    <2>1. a \notin Owned(c) /\ IsFiniteSet(Owned(c))
      BY <1>2, OwnedFinite DEF Owned
    <2>2. Cardinality(Owned(c) \cup {a}) = Cardinality(Owned(c)) + 1
      BY <2>1, FS_AddElement
    <2> QED
      BY <2>2, <1>3
  <1>5. pc[c] = "create" /\ pc' = [pc EXCEPT ![c] = "save"]
    BY DEF createChannel, Runs, Goto
  <1>6. \A d \in Clients : Cardinality(Owned(d)) \in Nat
    BY OwnedFinite
  <1> QED
    BY <1>3, <1>4, <1>5, <1>6, StepsAssumption DEF QuotaInv, QuotaStep, TypeOK

-----------------------------------------------------------------------------
(* Every step of a thread keeps the types, the locals, the locks and the list. *)

\* onChatJoin, Channel::join and Channel::quit.
LEMMA JoinStepsKeep ==
    ASSUME StepsInv, torn' \in SUBSET Clients, NEW c \in Clients, JoinSteps(c)
    PROVE  StepsInv' /\ QuotaStep
  <1> USE StepsAssumption, FreedAssumption
  <1> USE DEF StepsInv, JoinStages, SaveStages, KickStages, DestroyStages, OtherStages,
           Stages, Runs, Goto, Live, objects, locks, locals
  <1>1. ASSUME NEW n \in Names, onChatJoin(c, n)
        PROVE  StepsInv' /\ QuotaStep
    <2>1. TypeOK'
      BY <1>1 DEF onChatJoin, Ready, ManagerFree, Named, TypeOK, LocalsInv, FoundStages,
           AtStages, Channel
    <2>2. LocalsInv'
      BY <1>1 DEF onChatJoin, Ready, ManagerFree, Named, TypeOK, LocalsInv, FoundStages,
           AtStages
    <2>3. LocksInv'
      BY <1>1 DEF onChatJoin, Ready, ManagerFree, Named, TypeOK, LocalsInv, FoundStages,
           LocksInv, ManagerStages
    <2>4. ListInv'
      BY <1>1 DEF onChatJoin, Ready, ManagerFree, Named, TypeOK, LocalsInv, FoundStages,
           AtStages, LocksInv, ManagerStages, ListInv, ListedAreLive
    <2>5. OwnersKept
      BY <1>1 DEF onChatJoin, Ready, ManagerFree, Named, TypeOK, LocalsInv, FoundStages,
           AtStages, LocksInv, ManagerStages, ListInv, ListedAreLive, OwnersKept
    <2> QED
      BY <2>1, <2>2, <2>3, <2>4, <2>5, OwnersKeepQuota
  <1>2. ASSUME countUserChannels(c)
        PROVE  StepsInv' /\ QuotaStep
    <2>1. TypeOK'
      BY <1>2 DEF countUserChannels, ManagerFree, TypeOK, LocalsInv, FoundStages,
           AtStages, Channel
    <2>2. LocalsInv'
      BY <1>2 DEF countUserChannels, ManagerFree, TypeOK, LocalsInv, FoundStages,
           AtStages
    <2>3. LocksInv'
      BY <1>2 DEF countUserChannels, ManagerFree, TypeOK, LocalsInv, FoundStages,
           LocksInv, ManagerStages
    <2>4. ListInv'
      BY <1>2 DEF countUserChannels, ManagerFree, TypeOK, LocalsInv, FoundStages,
           AtStages, LocksInv, ManagerStages, ListInv, ListedAreLive
    <2>5. QuotaInv' /\ QuotaStep
      BY <1>2, CountKeepsQuota
    <2> QED
      BY <2>1, <2>2, <2>3, <2>4, <2>5
  <1>3. ASSUME createChannel(c)
        PROVE  StepsInv' /\ QuotaStep
    <2>1. TypeOK'
      BY <1>3, NewChannels DEF createChannel, TypeOK, LocalsInv, FoundStages, AtStages
    <2>2. LocalsInv'
      BY <1>3 DEF createChannel, TypeOK, LocalsInv, FoundStages, AtStages
    <2>3. LocksInv'
      BY <1>3 DEF createChannel, TypeOK, LocalsInv, FoundStages, LocksInv, ManagerStages
    <2>4. ListInv'
      BY <1>3, NewChannels DEF createChannel, TypeOK, LocalsInv, FoundStages, AtStages,
           LocksInv, ManagerStages, ListInv, ListedAreLive
    <2>5. QuotaInv' /\ QuotaStep
      BY <1>3, CreateKeepsQuota
    <2> QED
      BY <2>1, <2>2, <2>3, <2>4, <2>5
  <1>4. ASSUME leave(c)
        PROVE  StepsInv' /\ QuotaStep
    <2>1. TypeOK'
      BY <1>4 DEF leave, TypeOK, LocalsInv, FoundStages, AtStages, Channel
    <2>2. LocalsInv'
      BY <1>4 DEF leave, TypeOK, LocalsInv, FoundStages, AtStages
    <2>3. LocksInv'
      BY <1>4 DEF leave, TypeOK, LocalsInv, FoundStages, LocksInv, ManagerStages
    <2>4. ListInv'
      BY <1>4 DEF leave, TypeOK, LocalsInv, FoundStages, AtStages, LocksInv,
           ManagerStages, ListInv, ListedAreLive
    <2>5. OwnersKept
      BY <1>4 DEF leave, TypeOK, LocalsInv, FoundStages, AtStages, LocksInv,
           ManagerStages, ListInv, ListedAreLive, OwnersKept
    <2> QED
      BY <2>1, <2>2, <2>3, <2>4, <2>5, OwnersKeepQuota
  <1>5. ASSUME part(c)
        PROVE  StepsInv' /\ QuotaStep
    <2>1. TypeOK'
      BY <1>5, SetUsersKeeps DEF part, InLock, Dies, TypeOK, LocalsInv, FoundStages,
           AtStages
    <2>2. LocalsInv'
      BY <1>5 DEF part, InLock, Dies, SetUsers, TypeOK, LocalsInv, FoundStages, AtStages
    <2>3. LocksInv'
      BY <1>5 DEF part, InLock, Dies, SetUsers, TypeOK, LocalsInv, FoundStages,
           LocksInv, ManagerStages
    <2>4. ListInv'
      BY <1>5, SetUsersKeeps DEF part, InLock, Dies, TypeOK, LocalsInv, FoundStages,
           AtStages, LocksInv, ManagerStages, ListInv, ListedAreLive
    <2>5. OwnersKept
      BY <1>5, SetUsersKeeps DEF part, InLock, Dies, TypeOK, LocalsInv, FoundStages,
           AtStages, LocksInv, ManagerStages, ListInv, ListedAreLive, OwnersKept
    <2> QED
      BY <2>1, <2>2, <2>3, <2>4, <2>5, OwnersKeepQuota
  <1>6. ASSUME unset(c)
        PROVE  StepsInv' /\ QuotaStep
    <2>1. TypeOK'
      BY <1>6 DEF unset, TypeOK, LocalsInv, FoundStages, AtStages, Channel
    <2>2. LocalsInv'
      BY <1>6 DEF unset, TypeOK, LocalsInv, FoundStages, AtStages
    <2>3. LocksInv'
      BY <1>6 DEF unset, TypeOK, LocalsInv, FoundStages, LocksInv, ManagerStages
    <2>4. ListInv'
      BY <1>6 DEF unset, TypeOK, LocalsInv, FoundStages, AtStages, LocksInv,
           ManagerStages, ListInv, ListedAreLive
    <2>5. OwnersKept
      BY <1>6 DEF unset, TypeOK, LocalsInv, FoundStages, AtStages, LocksInv,
           ManagerStages, ListInv, ListedAreLive, OwnersKept
    <2> QED
      BY <2>1, <2>2, <2>3, <2>4, <2>5, OwnersKeepQuota
  <1>7. ASSUME enter(c)
        PROVE  StepsInv' /\ QuotaStep
    <2>1. TypeOK'
      BY <1>7, SetUsersKeeps DEF enter, InLock, Dies, TypeOK, LocalsInv, FoundStages,
           AtStages
    <2>2. LocalsInv'
      BY <1>7 DEF enter, InLock, Dies, SetUsers, TypeOK, LocalsInv, FoundStages,
           AtStages
    <2>3. LocksInv'
      BY <1>7 DEF enter, InLock, Dies, SetUsers, TypeOK, LocalsInv, FoundStages,
           LocksInv, ManagerStages
    <2>4. ListInv'
      BY <1>7, SetUsersKeeps DEF enter, InLock, Dies, TypeOK, LocalsInv, FoundStages,
           AtStages, LocksInv, ManagerStages, ListInv, ListedAreLive
    <2>5. OwnersKept
      BY <1>7, SetUsersKeeps DEF enter, InLock, Dies, TypeOK, LocalsInv, FoundStages,
           AtStages, LocksInv, ManagerStages, ListInv, ListedAreLive, OwnersKept
    <2> QED
      BY <2>1, <2>2, <2>3, <2>4, <2>5, OwnersKeepQuota
  <1>8. ASSUME set(c)
        PROVE  StepsInv' /\ QuotaStep
    <2>1. TypeOK'
      BY <1>8 DEF set, Return, TypeOK, LocalsInv, FoundStages, AtStages, Channel
    <2>2. LocalsInv'
      BY <1>8 DEF set, Return, TypeOK, LocalsInv, FoundStages, AtStages
    <2>3. LocksInv'
      BY <1>8 DEF set, Return, TypeOK, LocalsInv, FoundStages, LocksInv, ManagerStages
    <2>4. ListInv'
      BY <1>8 DEF set, Return, TypeOK, LocalsInv, FoundStages, AtStages, LocksInv,
           ManagerStages, ListInv, ListedAreLive
    <2>5. OwnersKept
      BY <1>8 DEF set, Return, TypeOK, LocalsInv, FoundStages, AtStages, LocksInv,
           ManagerStages, ListInv, ListedAreLive, OwnersKept
    <2> QED
      BY <2>1, <2>2, <2>3, <2>4, <2>5, OwnersKeepQuota
  <1>9. ASSUME locate(c)
        PROVE  StepsInv' /\ QuotaStep
    <2>1. TypeOK'
      BY <1>9 DEF locate, DataBaseFree, Return, TypeOK, LocalsInv, FoundStages,
           AtStages, Channel
    <2>2. LocalsInv'
      BY <1>9 DEF locate, DataBaseFree, Return, TypeOK, LocalsInv, FoundStages, AtStages
    <2>3. LocksInv'
      BY <1>9 DEF locate, DataBaseFree, Return, TypeOK, LocalsInv, FoundStages,
           LocksInv, ManagerStages
    <2>4. ListInv'
      BY <1>9 DEF locate, DataBaseFree, Return, TypeOK, LocalsInv, FoundStages,
           AtStages, LocksInv, ManagerStages, ListInv, ListedAreLive
    <2>5. OwnersKept
      BY <1>9 DEF locate, DataBaseFree, Return, TypeOK, LocalsInv, FoundStages,
           AtStages, LocksInv, ManagerStages, ListInv, ListedAreLive, OwnersKept
    <2> QED
      BY <2>1, <2>2, <2>3, <2>4, <2>5, OwnersKeepQuota
  <1> QED
    BY <1>1, <1>2, <1>3, <1>4, <1>5, <1>6, <1>7, <1>8, <1>9 DEF JoinSteps

\* The handlers that change a channel and save it.
LEMMA SaveStepsKeep ==
    ASSUME StepsInv, torn' \in SUBSET Clients, NEW c \in Clients, SaveSteps(c)
    PROVE  StepsInv' /\ QuotaStep
  <1> USE StepsAssumption, FreedAssumption
  <1> USE DEF StepsInv, JoinStages, SaveStages, KickStages, DestroyStages, OtherStages,
           Stages, Runs, Goto, Live, objects, locks, locals
  <1>1. ASSUME Speak(c)
        PROVE  StepsInv' /\ QuotaStep
    <2>1. TypeOK'
      BY <1>1 DEF Speak, Ready, TypeOK, LocalsInv, FoundStages, AtStages, Channel
    <2>2. LocalsInv'
      BY <1>1 DEF Speak, Ready, TypeOK, LocalsInv, FoundStages, AtStages
    <2>3. LocksInv'
      BY <1>1 DEF Speak, Ready, TypeOK, LocalsInv, FoundStages, LocksInv, ManagerStages
    <2>4. ListInv'
      BY <1>1 DEF Speak, Ready, TypeOK, LocalsInv, FoundStages, AtStages, LocksInv,
           ManagerStages, ListInv, ListedAreLive
    <2>5. OwnersKept
      BY <1>1 DEF Speak, Ready, TypeOK, LocalsInv, FoundStages, AtStages, LocksInv,
           ManagerStages, ListInv, ListedAreLive, OwnersKept
    <2> QED
      BY <2>1, <2>2, <2>3, <2>4, <2>5, OwnersKeepQuota
  <1>2. ASSUME modify(c)
        PROVE  StepsInv' /\ QuotaStep
    <2>1. TypeOK'
      BY <1>2 DEF modify, InLock, Dies, Return, TypeOK, LocalsInv, FoundStages,
           AtStages, Channel
    <2>2. LocalsInv'
      BY <1>2 DEF modify, InLock, Dies, Return, TypeOK, LocalsInv, FoundStages, AtStages
    <2>3. LocksInv'
      BY <1>2 DEF modify, InLock, Dies, Return, TypeOK, LocalsInv, FoundStages,
           LocksInv, ManagerStages
    <2>4. ListInv'
      BY <1>2 DEF modify, InLock, Dies, Return, TypeOK, LocalsInv, FoundStages,
           AtStages, LocksInv, ManagerStages, ListInv, ListedAreLive
    <2>5. OwnersKept
      BY <1>2 DEF modify, InLock, Dies, Return, TypeOK, LocalsInv, FoundStages,
           AtStages, LocksInv, ManagerStages, ListInv, ListedAreLive, OwnersKept
    <2> QED
      BY <2>1, <2>2, <2>3, <2>4, <2>5, OwnersKeepQuota
  <1>3. ASSUME save(c)
        PROVE  StepsInv' /\ QuotaStep
    <2>1. TypeOK'
      BY <1>3 DEF save, Dies, TypeOK, LocalsInv, FoundStages, AtStages, Channel
    <2>2. LocalsInv'
      BY <1>3 DEF save, Dies, TypeOK, LocalsInv, FoundStages, AtStages
    <2>3. LocksInv'
      BY <1>3 DEF save, Dies, TypeOK, LocalsInv, FoundStages, LocksInv, ManagerStages
    <2>4. ListInv'
      BY <1>3 DEF save, Dies, TypeOK, LocalsInv, FoundStages, AtStages, LocksInv,
           ManagerStages, ListInv, ListedAreLive
    <2>5. OwnersKept
      BY <1>3 DEF save, Dies, TypeOK, LocalsInv, FoundStages, AtStages, LocksInv,
           ManagerStages, ListInv, ListedAreLive, OwnersKept
    <2> QED
      BY <2>1, <2>2, <2>3, <2>4, <2>5, OwnersKeepQuota
  <1>4. ASSUME query(c)
        PROVE  StepsInv' /\ QuotaStep
    <2>1. TypeOK'
      BY <1>4 DEF query, DataBaseFree, Dies, TypeOK, LocalsInv, FoundStages, AtStages,
           Channel
    <2>2. LocalsInv'
      BY <1>4 DEF query, DataBaseFree, Dies, TypeOK, LocalsInv, FoundStages, AtStages
    <2>3. LocksInv'
      BY <1>4 DEF query, DataBaseFree, Dies, TypeOK, LocalsInv, FoundStages, LocksInv,
           ManagerStages
    <2>4. ListInv'
      BY <1>4 DEF query, DataBaseFree, Dies, TypeOK, LocalsInv, FoundStages, AtStages,
           LocksInv, ManagerStages, ListInv, ListedAreLive
    <2>5. OwnersKept
      BY <1>4 DEF query, DataBaseFree, Dies, TypeOK, LocalsInv, FoundStages, AtStages,
           LocksInv, ManagerStages, ListInv, ListedAreLive, OwnersKept
    <2> QED
      BY <2>1, <2>2, <2>3, <2>4, <2>5, OwnersKeepQuota
  <1>5. ASSUME stored(c)
        PROVE  StepsInv' /\ QuotaStep
    <2>1. TypeOK'
      BY <1>5, ReleaseTypes DEF stored, Dies, Return, TypeOK, LocalsInv, FoundStages,
           AtStages, Channel
    <2>2. LocalsInv'
      BY <1>5 DEF stored, Unlocks, Leaks, Dies, Return, TypeOK, LocalsInv,
           FoundStages, AtStages
    <2>3. LocksInv'
      BY <1>5 DEF stored, Unlocks, Leaks, Dies, Return, TypeOK, LocalsInv,
           FoundStages, LocksInv, ManagerStages
    <2>4. ListInv'
      BY <1>5 DEF stored, Unlocks, Leaks, Dies, Return, TypeOK, LocalsInv,
           FoundStages, AtStages, LocksInv, ManagerStages, ListInv, ListedAreLive
    <2>5. OwnersKept
      BY <1>5 DEF stored, Unlocks, Leaks, Dies, Return, TypeOK, LocalsInv,
           FoundStages, AtStages, LocksInv, ManagerStages, ListInv, ListedAreLive,
           OwnersKept
    <2> QED
      BY <2>1, <2>2, <2>3, <2>4, <2>5, OwnersKeepQuota
  <1> QED
    BY <1>1, <1>2, <1>3, <1>4, <1>5 DEF SaveSteps

\* kick().
LEMMA KickStepsKeep ==
    ASSUME StepsInv, torn' \in SUBSET Clients, NEW c \in Clients, KickSteps(c)
    PROVE  StepsInv' /\ QuotaStep
  <1> USE StepsAssumption, FreedAssumption
  <1> USE DEF StepsInv, JoinStages, SaveStages, KickStages, DestroyStages, OtherStages,
           Stages, Runs, Goto, Live, objects, locks, locals
  <1>1. ASSUME onChatKick(c)
        PROVE  StepsInv' /\ QuotaStep
    <2>1. TypeOK'
      BY <1>1 DEF onChatKick, Ready, TypeOK, LocalsInv, FoundStages, AtStages, Channel
    <2>2. LocalsInv'
      BY <1>1 DEF onChatKick, Ready, TypeOK, LocalsInv, FoundStages, AtStages
    <2>3. LocksInv'
      BY <1>1 DEF onChatKick, Ready, TypeOK, LocalsInv, FoundStages, LocksInv,
           ManagerStages
    <2>4. ListInv'
      BY <1>1 DEF onChatKick, Ready, TypeOK, LocalsInv, FoundStages, AtStages, LocksInv,
           ManagerStages, ListInv, ListedAreLive
    <2>5. OwnersKept
      BY <1>1 DEF onChatKick, Ready, TypeOK, LocalsInv, FoundStages, AtStages, LocksInv,
           ManagerStages, ListInv, ListedAreLive, OwnersKept
    <2> QED
      BY <2>1, <2>2, <2>3, <2>4, <2>5, OwnersKeepQuota
  <1>2. ASSUME kick(c)
        PROVE  StepsInv' /\ QuotaStep
    <2>1. TypeOK'
      BY <1>2 DEF kick, InLock, Dies, Return, TypeOK, LocalsInv, FoundStages, AtStages,
           Channel
    <2>2. LocalsInv'
      BY <1>2 DEF kick, InLock, Dies, Return, TypeOK, LocalsInv, FoundStages, AtStages
    <2>3. LocksInv'
      BY <1>2 DEF kick, InLock, Dies, Return, TypeOK, LocalsInv, FoundStages, LocksInv,
           ManagerStages
    <2>4. ListInv'
      BY <1>2 DEF kick, InLock, Dies, Return, TypeOK, LocalsInv, FoundStages, AtStages,
           LocksInv, ManagerStages, ListInv, ListedAreLive
    <2>5. OwnersKept
      BY <1>2 DEF kick, InLock, Dies, Return, TypeOK, LocalsInv, FoundStages, AtStages,
           LocksInv, ManagerStages, ListInv, ListedAreLive, OwnersKept
    <2> QED
      BY <2>1, <2>2, <2>3, <2>4, <2>5, OwnersKeepQuota
  <1>3. ASSUME KicksNobody(c)
        PROVE  StepsInv' /\ QuotaStep
    <2>1. TypeOK'
      BY <1>3 DEF KicksNobody, Dies, TypeOK, LocalsInv, FoundStages, AtStages, Channel
    <2>2. LocalsInv'
      BY <1>3 DEF KicksNobody, Dies, TypeOK, LocalsInv, FoundStages, AtStages
    <2>3. LocksInv'
      BY <1>3 DEF KicksNobody, Dies, TypeOK, LocalsInv, FoundStages, LocksInv,
           ManagerStages
    <2>4. ListInv'
      BY <1>3 DEF KicksNobody, Dies, TypeOK, LocalsInv, FoundStages, AtStages, LocksInv,
           ManagerStages, ListInv, ListedAreLive
    <2>5. OwnersKept
      BY <1>3 DEF KicksNobody, Dies, TypeOK, LocalsInv, FoundStages, AtStages, LocksInv,
           ManagerStages, ListInv, ListedAreLive, OwnersKept
    <2> QED
      BY <2>1, <2>2, <2>3, <2>4, <2>5, OwnersKeepQuota
  <1>4. ASSUME lobby(c)
        PROVE  StepsInv' /\ QuotaStep
    <2>1. TypeOK'
      BY <1>4 DEF lobby, Dies, Named, ManagerFree, TypeOK, LocalsInv, FoundStages,
           AtStages, Channel
    <2>2. LocalsInv'
      BY <1>4 DEF lobby, Dies, Named, ManagerFree, TypeOK, LocalsInv, FoundStages,
           AtStages
    <2>3. LocksInv'
      BY <1>4 DEF lobby, Dies, Named, ManagerFree, TypeOK, LocalsInv, FoundStages,
           LocksInv, ManagerStages
    <2>4. ListInv'
      BY <1>4 DEF lobby, Dies, Named, ManagerFree, TypeOK, LocalsInv, FoundStages,
           AtStages, LocksInv, ManagerStages, ListInv, ListedAreLive
    <2>5. OwnersKept
      BY <1>4 DEF lobby, Dies, Named, ManagerFree, TypeOK, LocalsInv, FoundStages,
           AtStages, LocksInv, ManagerStages, ListInv, ListedAreLive, OwnersKept
    <2> QED
      BY <2>1, <2>2, <2>3, <2>4, <2>5, OwnersKeepQuota
  <1>5. ASSUME NEW d \in Clients, expel(c, d)
        PROVE  StepsInv' /\ QuotaStep
    <2>1. TypeOK'
      BY <1>5, SetUsersKeeps DEF expel, InLock, Dies, Kicks, TypeOK, LocalsInv,
           FoundStages, AtStages
    <2>2. LocalsInv'
      BY <1>5 DEF expel, InLock, Dies, SetUsers, Kicks, TypeOK, LocalsInv, FoundStages,
           AtStages
    <2>3. LocksInv'
      BY <1>5 DEF expel, InLock, Dies, SetUsers, Kicks, TypeOK, LocalsInv, FoundStages,
           LocksInv, ManagerStages
    <2>4. ListInv'
      BY <1>5, SetUsersKeeps DEF expel, InLock, Dies, Kicks, TypeOK, LocalsInv,
           FoundStages, AtStages, LocksInv, ManagerStages, ListInv, ListedAreLive
    <2>5. OwnersKept
      BY <1>5, SetUsersKeeps DEF expel, InLock, Dies, Kicks, TypeOK, LocalsInv,
           FoundStages, AtStages, LocksInv, ManagerStages, ListInv, ListedAreLive,
           OwnersKept
    <2> QED
      BY <2>1, <2>2, <2>3, <2>4, <2>5, OwnersKeepQuota
  <1>6. ASSUME NEW d \in Clients, strip(c, d)
        PROVE  StepsInv' /\ QuotaStep
    <2>1. TypeOK'
      BY <1>6 DEF strip, Kicks, TypeOK, LocalsInv, FoundStages, AtStages, Channel
    <2>2. LocalsInv'
      BY <1>6 DEF strip, Kicks, TypeOK, LocalsInv, FoundStages, AtStages
    <2>3. LocksInv'
      BY <1>6 DEF strip, Kicks, TypeOK, LocalsInv, FoundStages, LocksInv, ManagerStages
    <2>4. ListInv'
      BY <1>6 DEF strip, Kicks, TypeOK, LocalsInv, FoundStages, AtStages, LocksInv,
           ManagerStages, ListInv, ListedAreLive
    <2>5. OwnersKept
      BY <1>6 DEF strip, Kicks, TypeOK, LocalsInv, FoundStages, AtStages, LocksInv,
           ManagerStages, ListInv, ListedAreLive, OwnersKept
    <2> QED
      BY <2>1, <2>2, <2>3, <2>4, <2>5, OwnersKeepQuota
  <1>7. ASSUME NEW d \in Clients, admit(c, d)
        PROVE  StepsInv' /\ QuotaStep
    <2>1. TypeOK'
      BY <1>7, SetUsersKeeps DEF admit, InLock, Dies, Kicks, TypeOK, LocalsInv,
           FoundStages, AtStages
    <2>2. LocalsInv'
      BY <1>7 DEF admit, InLock, Dies, SetUsers, Kicks, TypeOK, LocalsInv, FoundStages,
           AtStages
    <2>3. LocksInv'
      BY <1>7 DEF admit, InLock, Dies, SetUsers, Kicks, TypeOK, LocalsInv, FoundStages,
           LocksInv, ManagerStages
    <2>4. ListInv'
      BY <1>7, SetUsersKeeps DEF admit, InLock, Dies, Kicks, TypeOK, LocalsInv,
           FoundStages, AtStages, LocksInv, ManagerStages, ListInv, ListedAreLive
    <2>5. OwnersKept
      BY <1>7, SetUsersKeeps DEF admit, InLock, Dies, Kicks, TypeOK, LocalsInv,
           FoundStages, AtStages, LocksInv, ManagerStages, ListInv, ListedAreLive,
           OwnersKept
    <2> QED
      BY <2>1, <2>2, <2>3, <2>4, <2>5, OwnersKeepQuota
  <1>8. ASSUME NEW d \in Clients, place(c, d)
        PROVE  StepsInv' /\ QuotaStep
    <2>1. TypeOK'
      BY <1>8 DEF place, Kicks, TypeOK, LocalsInv, FoundStages, AtStages, Channel
    <2>2. LocalsInv'
      BY <1>8 DEF place, Kicks, TypeOK, LocalsInv, FoundStages, AtStages
    <2>3. LocksInv'
      BY <1>8 DEF place, Kicks, TypeOK, LocalsInv, FoundStages, LocksInv, ManagerStages
    <2>4. ListInv'
      BY <1>8 DEF place, Kicks, TypeOK, LocalsInv, FoundStages, AtStages, LocksInv,
           ManagerStages, ListInv, ListedAreLive
    <2>5. OwnersKept
      BY <1>8 DEF place, Kicks, TypeOK, LocalsInv, FoundStages, AtStages, LocksInv,
           ManagerStages, ListInv, ListedAreLive, OwnersKept
    <2> QED
      BY <2>1, <2>2, <2>3, <2>4, <2>5, OwnersKeepQuota
  <1>9. ASSUME NEW d \in Clients, tell(c, d)
        PROVE  StepsInv' /\ QuotaStep
    <2>1. TypeOK'
      BY <1>9 DEF tell, InLock, Dies, Return, Kicks, TypeOK, LocalsInv, FoundStages,
           AtStages, Channel
    <2>2. LocalsInv'
      BY <1>9 DEF tell, InLock, Dies, Return, Kicks, TypeOK, LocalsInv, FoundStages,
           AtStages
    <2>3. LocksInv'
      BY <1>9 DEF tell, InLock, Dies, Return, Kicks, TypeOK, LocalsInv, FoundStages,
           LocksInv, ManagerStages
    <2>4. ListInv'
      BY <1>9 DEF tell, InLock, Dies, Return, Kicks, TypeOK, LocalsInv, FoundStages,
           AtStages, LocksInv, ManagerStages, ListInv, ListedAreLive
    <2>5. OwnersKept
      BY <1>9 DEF tell, InLock, Dies, Return, Kicks, TypeOK, LocalsInv, FoundStages,
           AtStages, LocksInv, ManagerStages, ListInv, ListedAreLive, OwnersKept
    <2> QED
      BY <2>1, <2>2, <2>3, <2>4, <2>5, OwnersKeepQuota
  <1> QED
    BY <1>1, <1>2, <1>3, <1>4, <1>5, <1>6, <1>7, <1>8, <1>9 DEF KickSteps

\* removeChannel and the destructor.
LEMMA DestroyStepsKeep ==
    ASSUME StepsInv, torn' \in SUBSET Clients, NEW c \in Clients, DestroySteps(c)
    PROVE  StepsInv' /\ QuotaStep
  <1> USE StepsAssumption, FreedAssumption
  <1> USE DEF StepsInv, JoinStages, SaveStages, KickStages, DestroyStages, OtherStages,
           Stages, Runs, Goto, Live, objects, locks, locals
  <1>1. ASSUME NEW n \in Names, onChatDestroyChan(c, n)
        PROVE  StepsInv' /\ QuotaStep
    <2>1. TypeOK'
      BY <1>1 DEF onChatDestroyChan, Ready, ManagerFree, Named, TypeOK, LocalsInv,
           FoundStages, AtStages, Channel
    <2>2. LocalsInv'
      BY <1>1 DEF onChatDestroyChan, Ready, ManagerFree, Named, TypeOK, LocalsInv,
           FoundStages, AtStages
    <2>3. LocksInv'
      BY <1>1 DEF onChatDestroyChan, Ready, ManagerFree, Named, TypeOK, LocalsInv,
           FoundStages, LocksInv, ManagerStages
    <2>4. ListInv'
      BY <1>1 DEF onChatDestroyChan, Ready, ManagerFree, Named, TypeOK, LocalsInv,
           FoundStages, AtStages, LocksInv, ManagerStages, ListInv, ListedAreLive
    <2>5. OwnersKept
      BY <1>1 DEF onChatDestroyChan, Ready, ManagerFree, Named, TypeOK, LocalsInv,
           FoundStages, AtStages, LocksInv, ManagerStages, ListInv, ListedAreLive,
           OwnersKept
    <2> QED
      BY <2>1, <2>2, <2>3, <2>4, <2>5, OwnersKeepQuota
  <1>2. ASSUME removeNothing(c)
        PROVE  StepsInv' /\ QuotaStep
    <2>1. TypeOK'
      BY <1>2 DEF removeNothing, Return, TypeOK, LocalsInv, FoundStages, AtStages,
           Channel
    <2>2. LocalsInv'
      BY <1>2 DEF removeNothing, Return, TypeOK, LocalsInv, FoundStages, AtStages
    <2>3. LocksInv'
      BY <1>2 DEF removeNothing, Return, TypeOK, LocalsInv, FoundStages, LocksInv,
           ManagerStages
    <2>4. ListInv'
      BY <1>2 DEF removeNothing, Return, TypeOK, LocalsInv, FoundStages, AtStages,
           LocksInv, ManagerStages, ListInv, ListedAreLive
    <2>5. OwnersKept
      BY <1>2 DEF removeNothing, Return, TypeOK, LocalsInv, FoundStages, AtStages,
           LocksInv, ManagerStages, ListInv, ListedAreLive, OwnersKept
    <2> QED
      BY <2>1, <2>2, <2>3, <2>4, <2>5, OwnersKeepQuota
  <1>3. ASSUME removeChannel(c)
        PROVE  StepsInv' /\ QuotaStep
    <2>1. TypeOK'
      BY <1>3 DEF removeChannel, TypeOK, LocalsInv, FoundStages, AtStages, Channel
    <2>2. LocalsInv'
      BY <1>3 DEF removeChannel, TypeOK, LocalsInv, FoundStages, AtStages
    <2>3. LocksInv'
      BY <1>3 DEF removeChannel, TypeOK, LocalsInv, FoundStages, LocksInv, ManagerStages
    <2>4. ListInv'
      BY <1>3 DEF removeChannel, TypeOK, LocalsInv, FoundStages, AtStages, LocksInv,
           ManagerStages, ListInv, ListedAreLive
    <2>5. OwnersKept
      BY <1>3 DEF removeChannel, TypeOK, LocalsInv, FoundStages, AtStages, LocksInv,
           ManagerStages, ListInv, ListedAreLive, OwnersKept
    <2> QED
      BY <2>1, <2>2, <2>3, <2>4, <2>5, OwnersKeepQuota
  <1>4. ASSUME ask(c)
        PROVE  StepsInv' /\ QuotaStep
    <2>1. TypeOK'
      BY <1>4 DEF ask, DataBaseFree, TypeOK, LocalsInv, FoundStages, AtStages, Channel
    <2>2. LocalsInv'
      BY <1>4 DEF ask, DataBaseFree, TypeOK, LocalsInv, FoundStages, AtStages
    <2>3. LocksInv'
      BY <1>4 DEF ask, DataBaseFree, TypeOK, LocalsInv, FoundStages, LocksInv,
           ManagerStages
    <2>4. ListInv'
      BY <1>4 DEF ask, DataBaseFree, TypeOK, LocalsInv, FoundStages, AtStages, LocksInv,
           ManagerStages, ListInv, ListedAreLive
    <2>5. OwnersKept
      BY <1>4 DEF ask, DataBaseFree, TypeOK, LocalsInv, FoundStages, AtStages, LocksInv,
           ManagerStages, ListInv, ListedAreLive, OwnersKept
    <2> QED
      BY <2>1, <2>2, <2>3, <2>4, <2>5, OwnersKeepQuota
  <1>5. ASSUME answered(c)
        PROVE  StepsInv' /\ QuotaStep
    <2>1. TypeOK'
      BY <1>5, ReleaseTypes DEF answered, Return, TypeOK, LocalsInv, FoundStages,
           AtStages, Channel
    <2>2. LocalsInv'
      BY <1>5 DEF answered, Unlocks, Leaks, Return, TypeOK, LocalsInv, FoundStages,
           AtStages
    <2>3. LocksInv'
      BY <1>5 DEF answered, Unlocks, Leaks, Return, TypeOK, LocalsInv, FoundStages,
           LocksInv, ManagerStages
    <2>4. ListInv'
      BY <1>5 DEF answered, Unlocks, Leaks, Return, TypeOK, LocalsInv, FoundStages,
           AtStages, LocksInv, ManagerStages, ListInv, ListedAreLive
    <2>5. OwnersKept
      BY <1>5 DEF answered, Unlocks, Leaks, Return, TypeOK, LocalsInv, FoundStages,
           AtStages, LocksInv, ManagerStages, ListInv, ListedAreLive, OwnersKept
    <2> QED
      BY <2>1, <2>2, <2>3, <2>4, <2>5, OwnersKeepQuota
  <1>6. ASSUME drop(c)
        PROVE  StepsInv' /\ QuotaStep
    <2>1. TypeOK'
      BY <1>6 DEF drop, TypeOK, LocalsInv, FoundStages, AtStages, Channel
    <2>2. LocalsInv'
      BY <1>6 DEF drop, TypeOK, LocalsInv, FoundStages, AtStages
    <2>3. LocksInv'
      BY <1>6 DEF drop, TypeOK, LocalsInv, FoundStages, LocksInv, ManagerStages
    <2>4. ListInv'
      BY <1>6 DEF drop, TypeOK, LocalsInv, FoundStages, AtStages, LocksInv,
           ManagerStages, ListInv, ListedAreLive
    <2>5. OwnersKept
      BY <1>6 DEF drop, TypeOK, LocalsInv, FoundStages, AtStages, LocksInv,
           ManagerStages, ListInv, ListedAreLive, OwnersKept
    <2> QED
      BY <2>1, <2>2, <2>3, <2>4, <2>5, OwnersKeepQuota
  <1>7. ASSUME purge(c)
        PROVE  StepsInv' /\ QuotaStep
    <2>1. TypeOK'
      BY <1>7 DEF purge, InLock, Dies, TypeOK, LocalsInv, FoundStages, AtStages, Channel
    <2>2. LocalsInv'
      BY <1>7 DEF purge, InLock, Dies, TypeOK, LocalsInv, FoundStages, AtStages
    <2>3. LocksInv'
      BY <1>7 DEF purge, InLock, Dies, TypeOK, LocalsInv, FoundStages, LocksInv,
           ManagerStages
    <2>4. ListInv'
      BY <1>7 DEF purge, InLock, Dies, TypeOK, LocalsInv, FoundStages, AtStages,
           LocksInv, ManagerStages, ListInv, ListedAreLive
    <2>5. OwnersKept
      BY <1>7 DEF purge, InLock, Dies, TypeOK, LocalsInv, FoundStages, AtStages,
           LocksInv, ManagerStages, ListInv, ListedAreLive, OwnersKept
    <2> QED
      BY <2>1, <2>2, <2>3, <2>4, <2>5, OwnersKeepQuota
  <1>8. ASSUME destroy(c)
        PROVE  StepsInv' /\ QuotaStep
    <2>1. TypeOK'
      BY <1>8 DEF destroy, Return, TypeOK, LocalsInv, FoundStages, AtStages, Channel
    <2>2. LocalsInv'
      BY <1>8 DEF destroy, Return, TypeOK, LocalsInv, FoundStages, AtStages
    <2>3. LocksInv'
      BY <1>8 DEF destroy, Return, TypeOK, LocalsInv, FoundStages, LocksInv,
           ManagerStages
    <2>4. ListInv'
      BY <1>8 DEF destroy, Return, TypeOK, LocalsInv, FoundStages, AtStages, LocksInv,
           ManagerStages, ListInv, ListedAreLive
    <2>5. OwnersKept
      BY <1>8 DEF destroy, Return, TypeOK, LocalsInv, FoundStages, AtStages, LocksInv,
           ManagerStages, ListInv, ListedAreLive, OwnersKept
    <2> QED
      BY <2>1, <2>2, <2>3, <2>4, <2>5, OwnersKeepQuota
  <1> QED
    BY <1>1, <1>2, <1>3, <1>4, <1>5, <1>6, <1>7, <1>8 DEF DestroySteps

\* Whispers, lists, and the life of a client.
LEMMA OtherStepsKeep ==
    ASSUME StepsInv, torn' \in SUBSET Clients, NEW c \in Clients, OtherSteps(c)
    PROVE  StepsInv' /\ QuotaStep
  <1> USE StepsAssumption, FreedAssumption
  <1> USE DEF StepsInv, JoinStages, SaveStages, KickStages, DestroyStages, OtherStages,
           Stages, Runs, Goto, Live, objects, locks, locals
  <1>1. ASSUME NEW d \in Clients, onChatSend(c, d)
        PROVE  StepsInv' /\ QuotaStep
    <2>1. TypeOK'
      BY <1>1 DEF onChatSend, Ready, TypeOK, LocalsInv, FoundStages, AtStages, Channel
    <2>2. LocalsInv'
      BY <1>1 DEF onChatSend, Ready, TypeOK, LocalsInv, FoundStages, AtStages
    <2>3. LocksInv'
      BY <1>1 DEF onChatSend, Ready, TypeOK, LocalsInv, FoundStages, LocksInv,
           ManagerStages
    <2>4. ListInv'
      BY <1>1 DEF onChatSend, Ready, TypeOK, LocalsInv, FoundStages, AtStages, LocksInv,
           ManagerStages, ListInv, ListedAreLive
    <2>5. OwnersKept
      BY <1>1 DEF onChatSend, Ready, TypeOK, LocalsInv, FoundStages, AtStages, LocksInv,
           ManagerStages, ListInv, ListedAreLive, OwnersKept
    <2> QED
      BY <2>1, <2>2, <2>3, <2>4, <2>5, OwnersKeepQuota
  <1>2. ASSUME Follow(c)
        PROVE  StepsInv' /\ QuotaStep
    <2>1. TypeOK'
      BY <1>2 DEF Follow, Dies, Return, TypeOK, LocalsInv, FoundStages, AtStages,
           Channel
    <2>2. LocalsInv'
      BY <1>2 DEF Follow, Dies, Return, TypeOK, LocalsInv, FoundStages, AtStages
    <2>3. LocksInv'
      BY <1>2 DEF Follow, Dies, Return, TypeOK, LocalsInv, FoundStages, LocksInv,
           ManagerStages
    <2>4. ListInv'
      BY <1>2 DEF Follow, Dies, Return, TypeOK, LocalsInv, FoundStages, AtStages,
           LocksInv, ManagerStages, ListInv, ListedAreLive
    <2>5. OwnersKept
      BY <1>2 DEF Follow, Dies, Return, TypeOK, LocalsInv, FoundStages, AtStages,
           LocksInv, ManagerStages, ListInv, ListedAreLive, OwnersKept
    <2> QED
      BY <2>1, <2>2, <2>3, <2>4, <2>5, OwnersKeepQuota
  <1>3. ASSUME onChatList(c)
        PROVE  StepsInv' /\ QuotaStep
    <2>1. TypeOK'
      BY <1>3 DEF onChatList, Ready, Dies, TypeOK, LocalsInv, FoundStages, AtStages,
           Channel
    <2>2. LocalsInv'
      BY <1>3 DEF onChatList, Ready, Dies, TypeOK, LocalsInv, FoundStages, AtStages
    <2>3. LocksInv'
      BY <1>3 DEF onChatList, Ready, Dies, TypeOK, LocalsInv, FoundStages, LocksInv,
           ManagerStages
    <2>4. ListInv'
      BY <1>3 DEF onChatList, Ready, Dies, TypeOK, LocalsInv, FoundStages, AtStages,
           LocksInv, ManagerStages, ListInv, ListedAreLive
    <2>5. OwnersKept
      BY <1>3 DEF onChatList, Ready, Dies, TypeOK, LocalsInv, FoundStages, AtStages,
           LocksInv, ManagerStages, ListInv, ListedAreLive, OwnersKept
    <2> QED
      BY <2>1, <2>2, <2>3, <2>4, <2>5, OwnersKeepQuota
  <1>4. ASSUME getUsers(c)
        PROVE  StepsInv' /\ QuotaStep
    <2>1. TypeOK'
      BY <1>4 DEF getUsers, Dies, TypeOK, LocalsInv, FoundStages, AtStages, Channel
    <2>2. LocalsInv'
      BY <1>4 DEF getUsers, Dies, TypeOK, LocalsInv, FoundStages, AtStages
    <2>3. LocksInv'
      BY <1>4 DEF getUsers, Dies, TypeOK, LocalsInv, FoundStages, LocksInv,
           ManagerStages
    <2>4. ListInv'
      BY <1>4 DEF getUsers, Dies, TypeOK, LocalsInv, FoundStages, AtStages, LocksInv,
           ManagerStages, ListInv, ListedAreLive
    <2>5. OwnersKept
      BY <1>4 DEF getUsers, Dies, TypeOK, LocalsInv, FoundStages, AtStages, LocksInv,
           ManagerStages, ListInv, ListedAreLive, OwnersKept
    <2> QED
      BY <2>1, <2>2, <2>3, <2>4, <2>5, OwnersKeepQuota
  <1>5. ASSUME Arrive(c)
        PROVE  StepsInv' /\ QuotaStep
    <2>1. TypeOK'
      BY <1>5 DEF Arrive, DataBaseFree, TypeOK, LocalsInv, FoundStages, AtStages,
           Channel
    <2>2. LocalsInv'
      BY <1>5 DEF Arrive, DataBaseFree, TypeOK, LocalsInv, FoundStages, AtStages
    <2>3. LocksInv'
      BY <1>5 DEF Arrive, DataBaseFree, TypeOK, LocalsInv, FoundStages, LocksInv,
           ManagerStages
    <2>4. ListInv'
      BY <1>5 DEF Arrive, DataBaseFree, TypeOK, LocalsInv, FoundStages, AtStages,
           LocksInv, ManagerStages, ListInv, ListedAreLive
    <2>5. OwnersKept
      BY <1>5 DEF Arrive, DataBaseFree, TypeOK, LocalsInv, FoundStages, AtStages,
           LocksInv, ManagerStages, ListInv, ListedAreLive, OwnersKept
    <2> QED
      BY <2>1, <2>2, <2>3, <2>4, <2>5, OwnersKeepQuota
  <1>6. ASSUME Drop(c)
        PROVE  StepsInv' /\ QuotaStep
    <2>1. TypeOK'
      BY <1>6 DEF Drop, Ready, TypeOK, LocalsInv, FoundStages, AtStages, Channel
    <2>2. LocalsInv'
      BY <1>6 DEF Drop, Ready, TypeOK, LocalsInv, FoundStages, AtStages
    <2>3. LocksInv'
      BY <1>6 DEF Drop, Ready, TypeOK, LocalsInv, FoundStages, LocksInv, ManagerStages
    <2>4. ListInv'
      BY <1>6 DEF Drop, Ready, TypeOK, LocalsInv, FoundStages, AtStages, LocksInv,
           ManagerStages, ListInv, ListedAreLive
    <2>5. OwnersKept
      BY <1>6 DEF Drop, Ready, TypeOK, LocalsInv, FoundStages, AtStages, LocksInv,
           ManagerStages, ListInv, ListedAreLive, OwnersKept
    <2> QED
      BY <2>1, <2>2, <2>3, <2>4, <2>5, OwnersKeepQuota
  <1>7. ASSUME quit(c)
        PROVE  StepsInv' /\ QuotaStep
    <2>1. TypeOK'
      BY <1>7 DEF quit, TypeOK, LocalsInv, FoundStages, AtStages, Channel
    <2>2. LocalsInv'
      BY <1>7 DEF quit, TypeOK, LocalsInv, FoundStages, AtStages
    <2>3. LocksInv'
      BY <1>7 DEF quit, TypeOK, LocalsInv, FoundStages, LocksInv, ManagerStages
    <2>4. ListInv'
      BY <1>7 DEF quit, TypeOK, LocalsInv, FoundStages, AtStages, LocksInv,
           ManagerStages, ListInv, ListedAreLive
    <2>5. OwnersKept
      BY <1>7 DEF quit, TypeOK, LocalsInv, FoundStages, AtStages, LocksInv,
           ManagerStages, ListInv, ListedAreLive, OwnersKept
    <2> QED
      BY <2>1, <2>2, <2>3, <2>4, <2>5, OwnersKeepQuota
  <1>8. ASSUME bye(c)
        PROVE  StepsInv' /\ QuotaStep
    <2>1. TypeOK'
      BY <1>8, SetUsersKeeps DEF bye, InLock, Dies, TypeOK, LocalsInv, FoundStages,
           AtStages
    <2>2. LocalsInv'
      BY <1>8 DEF bye, InLock, Dies, SetUsers, TypeOK, LocalsInv, FoundStages, AtStages
    <2>3. LocksInv'
      BY <1>8 DEF bye, InLock, Dies, SetUsers, TypeOK, LocalsInv, FoundStages, LocksInv,
           ManagerStages
    <2>4. ListInv'
      BY <1>8, SetUsersKeeps DEF bye, InLock, Dies, TypeOK, LocalsInv, FoundStages,
           AtStages, LocksInv, ManagerStages, ListInv, ListedAreLive
    <2>5. OwnersKept
      BY <1>8, SetUsersKeeps DEF bye, InLock, Dies, TypeOK, LocalsInv, FoundStages,
           AtStages, LocksInv, ManagerStages, ListInv, ListedAreLive, OwnersKept
    <2> QED
      BY <2>1, <2>2, <2>3, <2>4, <2>5, OwnersKeepQuota
  <1>9. ASSUME gone(c)
        PROVE  StepsInv' /\ QuotaStep
    <2>1. TypeOK'
      BY <1>9 DEF gone, DataBaseFree, Return, TypeOK, LocalsInv, FoundStages,
           AtStages, Channel
    <2>2. LocalsInv'
      BY <1>9 DEF gone, DataBaseFree, Return, TypeOK, LocalsInv, FoundStages, AtStages
    <2>3. LocksInv'
      BY <1>9 DEF gone, DataBaseFree, Return, TypeOK, LocalsInv, FoundStages,
           LocksInv, ManagerStages
    <2>4. ListInv'
      BY <1>9 DEF gone, DataBaseFree, Return, TypeOK, LocalsInv, FoundStages,
           AtStages, LocksInv, ManagerStages, ListInv, ListedAreLive
    <2>5. OwnersKept
      BY <1>9 DEF gone, DataBaseFree, Return, TypeOK, LocalsInv, FoundStages,
           AtStages, LocksInv, ManagerStages, ListInv, ListedAreLive, OwnersKept
    <2> QED
      BY <2>1, <2>2, <2>3, <2>4, <2>5, OwnersKeepQuota
  <1>10. ASSUME onSignup(c)
        PROVE  StepsInv' /\ QuotaStep
    <2>1. TypeOK'
      BY <1>10 DEF onSignup, DataBaseFree, TypeOK, LocalsInv, FoundStages, AtStages,
           Channel
    <2>2. LocalsInv'
      BY <1>10 DEF onSignup, DataBaseFree, TypeOK, LocalsInv, FoundStages, AtStages
    <2>3. LocksInv'
      BY <1>10 DEF onSignup, DataBaseFree, TypeOK, LocalsInv, FoundStages, LocksInv,
           ManagerStages
    <2>4. ListInv'
      BY <1>10 DEF onSignup, DataBaseFree, TypeOK, LocalsInv, FoundStages, AtStages,
           LocksInv, ManagerStages, ListInv, ListedAreLive
    <2>5. OwnersKept
      BY <1>10 DEF onSignup, DataBaseFree, TypeOK, LocalsInv, FoundStages, AtStages,
           LocksInv, ManagerStages, ListInv, ListedAreLive, OwnersKept
    <2> QED
      BY <2>1, <2>2, <2>3, <2>4, <2>5, OwnersKeepQuota
  <1> QED
    BY <1>1, <1>2, <1>3, <1>4, <1>5, <1>6, <1>7, <1>8, <1>9, <1>10 DEF OtherSteps

-----------------------------------------------------------------------------
\* The process before anybody is there.
LEMMA FreshSteps ==
    ASSUME Fresh(listed, chans, myChannel, alive, manager, mutex, db, leaked,
                 pc, found, at, held, wanted, dead, torn)
    PROVE  StepsInv
  <1> USE StepsAssumption, FreedAssumption
  <1>1. AtStart \subseteq Channel
    BY DEF AtStart, Channel
  <1>2. /\ chans \in [Addrs -> AtStart \cup {Freed}]
        /\ listed = {x \in Addrs : chans[x] # Freed}
    BY DEF Fresh
  <1>3. TypeOK
    BY <1>1, <1>2 DEF Fresh, TypeOK, Stages, OtherStages
  <1>4. LocalsInv /\ LocksInv
    BY DEF Fresh, LocalsInv, LocksInv, FoundStages, AtStages, SaveStages, KickStages,
           DestroyStages
  <1>5. ListInv
    BY <1>2 DEF Fresh, ListInv, ListedAreLive, Live
  <1>6. QuotaInv
    BY DEF QuotaInv, Fresh
  <1> QED
    BY <1>3, <1>4, <1>5, <1>6 DEF StepsInv

LEMMA StepsInit == Init => StepsInv
  BY FreshSteps DEF Init

\* A step of a thread.
LEMMA ThreadKeeps ==
    ASSUME StepsInv, NEW c \in Clients, Thread(c), torn' = torn \cup Overlap'
    PROVE  StepsInv' /\ QuotaStep
  <1>1. torn' \in SUBSET Clients
    BY DEF Overlap, StepsInv, TypeOK
  <1> QED
    BY <1>1, JoinStepsKeep, SaveStepsKeep, KickStepsKeep, DestroyStepsKeep,
         OtherStepsKeep
    DEF Thread

LEMMA StepsNext == StepsInv /\ [Next]_vars => StepsInv'
  <1> SUFFICES ASSUME StepsInv, [Next]_vars PROVE StepsInv'
    OBVIOUS
  <1>1. CASE Restart
    <2>1. Fresh(listed, chans, myChannel, alive, manager, mutex, db, leaked,
                pc, found, at, held, wanted, dead, torn)'
      BY <1>1 DEF Restart
    <2> QED
      BY <2>1, FreshSteps, PTL
  <1>2. CASE UNCHANGED vars
    BY <1>2 DEF vars, StepsInv, TypeOK, LocalsInv, LocksInv, ListInv, ListedAreLive,
         Live, QuotaInv, Owned
  <1> QED
    BY <1>1, <1>2, ThreadKeeps DEF Next

\* The inductive invariant holds in every state.
THEOREM StepsInvariance == Spec => []StepsInv
  BY StepsInit, StepsNext, PTL DEF Spec

\* Type correctness of the steps.
THEOREM StepsTypeCorrect == Spec => []TypeOK
  <1>1. StepsInv => TypeOK
    BY DEF StepsInv
  <1> QED
    BY <1>1, StepsInvariance, PTL

\* The list of the manager holds no deleted channel, however many threads look one
\* up to delete it (removeChannel compares the pointer under the mutex).
THEOREM ListedLive == Spec => []ListedAreLive
  <1>1. StepsInv => ListedAreLive
    BY DEF StepsInv, ListInv
  <1> QED
    BY <1>1, StepsInvariance, PTL

\* Nobody comes to own more channels than allowed, although createChannel counts in one
\* locked section and adds in another, and whatever channels a start has loaded.
THEOREM QuotaKept == Spec => QuotaHolds
  <1>1. StepsInv /\ [Next]_vars => [dead = "no" => QuotaStep]_vars
    BY ThreadKeeps DEF Next, Restart
  <1>2. [dead = "no" => QuotaStep]_vars =>
          [dead = "no" => \A c \in Clients :
              Cardinality(Owned(c))' <= Cardinality(Owned(c))
                  \/ Cardinality(Owned(c))' <= MaxChans]_vars
    BY DEF QuotaStep
  <1> QED
    BY <1>1, <1>2, StepsInvariance, PTL DEF Spec, QuotaHolds

\* Whoever waits for the mutex of the manager waits for one who waits for a channel
\* at most, and that one for the data base, whose holder waits for nobody, unless it
\* keeps the data base after its section.
LEMMA LocksAreRanked ==
    ASSUME StepsInv, NEW S \in SUBSET Clients, \A c \in S : WaitsFor(c) \in S,
           ~(leaked /\ db \in S)
    PROVE  S = {}
  <1> USE StepsAssumption DEF StepsInv, TypeOK, LocalsInv, LocksInv, FoundStages, AtStages,
          ManagerStages, SaveStages, KickStages, DestroyStages
  <1>1. \A c \in S : db # c
    BY DEF WaitsFor
  <1>2. \A c \in S : pc[c] \notin {"query", "ask", "locate", "gone"}
    BY <1>1 DEF WaitsFor
  <1>3. \A c \in S, a \in Addrs : mutex[a] # c
    BY <1>1, <1>2 DEF WaitsFor
  <1>4. \A c \in S : pc[c] \notin {"part", "admit", "bye", "enter", "modify", "save", "kick",
                                   "expel", "tell", "purge"}
    BY <1>3 DEF WaitsFor
  <1>5. \A c \in S : manager # c
    BY <1>2, <1>4 DEF WaitsFor
  <1>6. \A c \in S : FALSE
    BY <1>2, <1>4, <1>5 DEF WaitsFor
  <1> QED
    BY <1>6

\* Every circle of clients that wait for each other goes through the one that keeps the
\* data base after a stored function failed (db.cpp:443): the mutexes are otherwise locked
\* in the order manager, channel, data base (channel.cpp, ChannelManager.cpp, db.cpp).
THEOREM NoCircles == Spec => []NoCircle
  <1>1. StepsInv => NoCircle
    BY LocksAreRanked DEF NoCircle
  <1> QED
    BY <1>1, StepsInvariance, PTL
=============================================================================
