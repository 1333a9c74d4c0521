--------------------------- MODULE Sessions_proof ---------------------------
(***************************************************************************)
(* Proofs about Sessions, for any clients, spellings, users, addresses and *)
(* any deviations of the environment: a session is recorded in the table   *)
(* users, which excludes a second one of the same user, which in turn      *)
(* protects its entry in the ClientsManager.                               *)
(***************************************************************************)
EXTENDS Sessions, TLAPS

\* A logged-in session has the nickname and the hash of a user, and lives on a
\* running server only.
SessionData ==
    \A c \in Clients : loggedIn[c] =>
        /\ nick[c] \in Nicks
        /\ pass[c] \in Passwords
        /\ server = "up"

\* The inductive invariant.
SessionsInv ==
    /\ TypeOK
    /\ SessionData
    /\ SessionsAreRecorded
    /\ OneSessionPerUser
    /\ SessionsAreFound

\* Symmetric difference with the game's place keeps the site, and the other way
\* round: what disconnect leaves behind.
LEMMA DisconnectRowType ==
    ASSUME NEW row \in Row, NEW place \in Places
    PROVE  /\ DisconnectRow(row, place) \in Row
           /\ \A p \in Places : p # place /\ p \in row.where =>
                 /\ p \in DisconnectRow(row, place).where
                 /\ DisconnectRow(row, place).ip = row.ip
  BY DEF DisconnectRow, SymDiff, Row, Places

LEMMA ConnectRowType ==
    ASSUME NEW row \in Row, NEW place \in Places, NEW ip \in Addresses
    PROVE  /\ ConnectRow(row, ip, place) \in Row
           /\ ConnectRow(row, ip, place).ip = ip
           /\ ConnectRow(row, ip, place).where = row.where \cup {place}
  BY DEF ConnectRow, Row, Places

LEMMA InitRowType ==
    ASSUME NEW row \in Row
    PROVE  InitRow(row) \in Row
  BY DEF InitRow, Row, Places

\* The invariant holds before the server starts.
LEMMA SessionsInit == Init => SessionsInv
  BY NamesAssumption DEF Init, SessionsInv, TypeOK, SessionData,
     SessionsAreRecorded, OneSessionPerUser, SessionsAreFound, Row, Places

\* A login that connect accepts: nobody else has a session of that user, since
\* it would be recorded and connect would have refused.
LEMMA LoginKeepsInv ==
    ASSUME SessionsInv, NEW c \in Clients, NEW n \in Nicks, NEW md5 \in Passwords,
           LoginAccepted(c, n, md5)
    PROVE  SessionsInv'
  <1> DEFINE r == RowOf[n]
  <1> USE DEF SessionsInv
  <1>1. r \in Rows /\ AddrOf[c] \in Addresses /\ AddrOf[c] # NoAddr
        /\ KeyOf[n] \in Keys
    BY NamesAssumption, AddressAssumption
  <1>2. users[r] \in Row /\ "game" \in Places
    BY <1>1 DEF TypeOK, Places
  <1>3. \A d \in Clients : loggedIn[d] => RowOf[nick[d]] # r
    BY DEF SessionsAreRecorded, LoginAccepted, Connects
  <1>4. \A d \in Clients : loggedIn[d] => KeyOf[nick[d]] # KeyOf[n]
    BY <1>3, NamesAssumption DEF SessionData
  <1>5. users' = [users EXCEPT ![r] = ConnectRow(users[r], AddrOf[c], "game")]
    BY DEF LoginAccepted
  <1>6. ConnectRow(users[r], AddrOf[c], "game") \in Row
        /\ ConnectRow(users[r], AddrOf[c], "game").ip = AddrOf[c]
        /\ "game" \in ConnectRow(users[r], AddrOf[c], "game").where
    BY <1>1, <1>2, ConnectRowType
  <1>7. /\ nick' = [nick EXCEPT ![c] = n]
        /\ pass' = [pass EXCEPT ![c] = md5]
        /\ loggedIn' = [loggedIn EXCEPT ![c] = TRUE]
        /\ clients' = [clients EXCEPT ![KeyOf[n]] = c]
        /\ server = "up"
        /\ UNCHANGED <<server, conn>>
    BY DEF LoginAccepted, Add, Serving
  <1> HIDE DEF r
  <1>8. TypeOK'
    BY <1>1, <1>5, <1>6, <1>7 DEF TypeOK
  <1>9. SessionData'
    BY <1>7 DEF SessionData, TypeOK
  <1>10. SessionsAreRecorded'
    BY <1>1, <1>3, <1>5, <1>6, <1>7 DEF SessionsAreRecorded, TypeOK, r
  <1>11. OneSessionPerUser'
    BY <1>3, <1>7 DEF OneSessionPerUser, TypeOK, r
  <1>12. SessionsAreFound'
    BY <1>1, <1>4, <1>7 DEF SessionsAreFound, TypeOK
  <1> QED
    BY <1>8, <1>9, <1>10, <1>11, <1>12

\* remove() takes away no entry of another client.
LEMMA RemoveKeepsOthers ==
    ASSUME TypeOK, NEW c \in Clients, Remove(c)
    PROVE  /\ clients' \in [Keys -> Clients \cup {NoClient}]
           /\ \A k \in Keys : clients[k] # c => clients'[k] = clients[k]
  BY DEF Remove, TypeOK

\* The end of a session, by logout or at the end of the thread: disconnect
\* touches the row of this user only, and nobody else has a session of it.
LEMMA QuitKeepsInv ==
    ASSUME SessionsInv, NEW c \in Clients, QuitSession(c),
           conn' \in [Clients -> {"none", "open", "closing"}]
    PROVE  SessionsInv'
  <1> DEFINE r == RowOf[nick[c]]
             ends == loggedIn[c] /\ Disconnects(users[r], AddrOf[c], pass[c], "game")
  <1> USE DEF SessionsInv
  <1>1. /\ nick' = [nick EXCEPT ![c] = NoNick]
        /\ pass' = [pass EXCEPT ![c] = NoPassword]
        /\ loggedIn' = [loggedIn EXCEPT ![c] = FALSE]
        /\ UNCHANGED server
    BY DEF QuitSession
  <1>2. ends => r \in Rows /\ users[r] \in Row
    BY NamesAssumption DEF SessionData, TypeOK
  <1>3. users' \in [Rows -> Row]
        /\ \A s \in Rows : (loggedIn[c] => s # r) => users'[s] = users[s]
    <2>1. CASE ends
      <3>1. users' = [users EXCEPT ![r] = DisconnectRow(users[r], "game")]
        BY <2>1 DEF QuitSession
      <3>2. DisconnectRow(users[r], "game") \in Row
        BY <1>2, <2>1, DisconnectRowType DEF Places
      <3> QED
        BY <1>2, <2>1, <3>1, <3>2 DEF TypeOK
    <2>2. CASE ~ends
      BY <2>2 DEF QuitSession, TypeOK
    <2> QED
      BY <2>1, <2>2
  <1>4. /\ clients' \in [Keys -> Clients \cup {NoClient}]
        /\ \A k \in Keys : clients[k] # c => clients'[k] = clients[k]
    BY RemoveKeepsOthers DEF QuitSession
  <1>5. \A d \in Clients : loggedIn'[d] =>
            /\ d # c
            /\ loggedIn[d]
            /\ nick'[d] = nick[d]
            /\ pass'[d] = pass[d]
            /\ nick[d] \in Nicks
            /\ RowOf[nick[d]] \in Rows
            /\ KeyOf[nick[d]] \in Keys
            /\ loggedIn[c] => RowOf[nick[d]] # r
    BY <1>1, NamesAssumption DEF OneSessionPerUser, SessionData, TypeOK
  <1> HIDE DEF r, ends
  <1>6. TypeOK'
    BY <1>1, <1>3, <1>4 DEF TypeOK
  <1>7. SessionData'
    BY <1>1, <1>5 DEF SessionData
  <1>8. SessionsAreRecorded'
    BY <1>3, <1>5 DEF SessionsAreRecorded
  <1>9. OneSessionPerUser'
    BY <1>5 DEF OneSessionPerUser
  <1>10. SessionsAreFound'
    BY <1>4, <1>5 DEF SessionsAreFound
  <1> QED
    BY <1>6, <1>7, <1>8, <1>9, <1>10

\* The steps that leave the sessions and the ClientsManager alone, and leave
\* every recorded session recorded.
LEMMA OthersKeepInv ==
    ASSUME SessionsInv,
           UNCHANGED <<server, nick, pass, loggedIn, clients>>,
           conn' \in [Clients -> {"none", "open", "closing"}],
           users' \in [Rows -> Row],
           \A r \in Rows : "game" \in users[r].where /\ users[r].ip # NoAddr =>
               "game" \in users'[r].where /\ users'[r].ip # NoAddr
    PROVE  SessionsInv'
  <1> USE DEF SessionsInv
  <1>1. TypeOK' /\ SessionData' /\ OneSessionPerUser' /\ SessionsAreFound'
    BY DEF TypeOK, SessionData, OneSessionPerUser, SessionsAreFound
  <1>2. SessionsAreRecorded'
    BY NamesAssumption DEF SessionsAreRecorded, SessionData
  <1> QED
    BY <1>1, <1>2

\* What the web site and a change of password do to a row.
LEMMA SiteKeepsInv ==
    ASSUME SessionsInv, NEW r \in Rows,
           SiteDisconnect(r) \/ \E ip \in SiteAddrs : SiteConnect(r, ip)
    PROVE  SessionsInv'
  <1>1. users[r] \in Row /\ "site" \in Places /\ "game" \in Places
    BY DEF SessionsInv, TypeOK, Places
  <1>2. CASE SiteDisconnect(r)
    <2>1. users' = [users EXCEPT ![r] = DisconnectRow(users[r], "site")]
          /\ UNCHANGED <<server, conn, nick, pass, loggedIn, clients>>
      BY <1>2 DEF SiteDisconnect
    <2>2. DisconnectRow(users[r], "site") \in Row
          /\ ("game" \in users[r].where =>
                /\ "game" \in DisconnectRow(users[r], "site").where
                /\ DisconnectRow(users[r], "site").ip = users[r].ip)
      BY <1>1, DisconnectRowType
    <2> QED
      BY <2>1, <2>2, OthersKeepInv DEF SessionsInv, TypeOK
  <1>3. ASSUME NEW ip \in SiteAddrs, SiteConnect(r, ip)
        PROVE  SessionsInv'
    <2>1. users' = [users EXCEPT ![r] = ConnectRow(users[r], ip, "site")]
          /\ UNCHANGED <<server, conn, nick, pass, loggedIn, clients>>
      BY <1>3 DEF SiteConnect
    <2>2. ip \in Addresses /\ ip # NoAddr
      BY AddressAssumption
    <2>3. ConnectRow(users[r], ip, "site") \in Row
          /\ ConnectRow(users[r], ip, "site").ip = ip
          /\ ConnectRow(users[r], ip, "site").where = users[r].where \cup {"site"}
      BY <1>1, <2>2, ConnectRowType
    <2> QED
      BY <2>1, <2>2, <2>3, OthersKeepInv DEF SessionsInv, TypeOK
  <1> QED
    BY <1>2, <1>3

LEMMA PlayerSetKeepsInv ==
    ASSUME SessionsInv, NEW c \in Clients, NEW new \in Passwords, onPlayerSet(c, new)
    PROVE  SessionsInv'
  <1> DEFINE r == RowOf[nick[c]]
  <1>1. r \in Rows
    BY NamesAssumption DEF SessionsInv, SessionData, onPlayerSet, InSession
  <1>2. users[r] \in Row
    BY <1>1 DEF SessionsInv, TypeOK
  <1>3. users' = [users EXCEPT ![r].password = new]
        /\ UNCHANGED <<server, conn, nick, pass, loggedIn, clients>>
    BY DEF onPlayerSet
  <1> HIDE DEF r
  <1>4. users' \in [Rows -> Row]
        /\ \A s \in Rows : users'[s].where = users[s].where /\ users'[s].ip = users[s].ip
    BY <1>1, <1>2, <1>3 DEF SessionsInv, TypeOK, Row
  <1> QED
    BY <1>3, <1>4, OthersKeepInv DEF SessionsInv, TypeOK

\* The end of the process takes every session with it.
LEMMA HaltKeepsInv ==
    ASSUME SessionsInv, NEW how \in {"down", "crashed"}, Halt(how)
    PROVE  SessionsInv'
  BY DEF SessionsInv, Halt, TypeOK, SessionData, SessionsAreRecorded,
     OneSessionPerUser, SessionsAreFound

\* The procedure init unmarks all users; nobody is logged in yet.
LEMMA StartKeepsInv ==
    ASSUME SessionsInv, Start
    PROVE  SessionsInv'
  <1>1. \A c \in Clients : ~loggedIn[c] /\ ~loggedIn'[c]
    BY DEF SessionsInv, SessionData, TypeOK, Start
  <1>2. \A r \in Rows : users'[r] \in Row /\ users' = [s \in Rows |-> InitRow(users[s])]
    BY InitRowType DEF SessionsInv, TypeOK, Start
  <1>3. TypeOK'
    BY <1>2 DEF SessionsInv, TypeOK, Start
  <1> QED
    BY <1>1, <1>3 DEF SessionsInv, SessionData, SessionsAreRecorded,
       OneSessionPerUser, SessionsAreFound

\* A new Client starts without a session, a closing connection keeps its own.
LEMMA AcceptKeepsInv ==
    ASSUME SessionsInv, NEW c \in Clients, Accept(c)
    PROVE  SessionsInv'
  <1>1. conn' \in [Clients -> {"none", "open", "closing"}]
        /\ nick' = [nick EXCEPT ![c] = NoNick]
        /\ pass' = [pass EXCEPT ![c] = NoPassword]
        /\ loggedIn' = [loggedIn EXCEPT ![c] = FALSE]
        /\ UNCHANGED <<server, clients, users>>
    BY DEF Accept, SessionsInv, TypeOK
  <1>2. \A d \in Clients : loggedIn'[d] =>
            d # c /\ loggedIn[d] /\ nick'[d] = nick[d] /\ pass'[d] = pass[d]
    BY <1>1 DEF SessionsInv, TypeOK
  <1>3. TypeOK'
    BY <1>1 DEF SessionsInv, TypeOK
  <1> QED
    BY <1>1, <1>2, <1>3 DEF SessionsInv, SessionData, SessionsAreRecorded,
       OneSessionPerUser, SessionsAreFound

LEMMA CloseKeepsInv ==
    ASSUME SessionsInv, NEW c \in Clients, CloseConnection(c),
           UNCHANGED <<server, nick, pass, loggedIn, clients, users>>
    PROVE  SessionsInv'
  BY OthersKeepInv DEF SessionsInv, CloseConnection, TypeOK

LEMMA SessionsStep == SessionsInv /\ [Next]_sessionVars => SessionsInv'
  <1> SUFFICES ASSUME SessionsInv, [Next]_sessionVars
               PROVE  SessionsInv'
    OBVIOUS
  <1>1. ASSUME NEW c \in Clients, Accept(c) \/ Drop(c) \/ Finish(c)
        PROVE  SessionsInv'
    <2>1. CASE Accept(c)
      BY <2>1, AcceptKeepsInv
    <2>2. CASE Drop(c)
      BY <2>2, CloseKeepsInv DEF Drop
    <2>3. CASE Finish(c)
      BY <2>3, QuitKeepsInv DEF Finish, SessionsInv, TypeOK
    <2> QED
      BY <1>1, <2>1, <2>2, <2>3
  <1>2. ASSUME NEW c \in Clients, onLogin(c) \/ onLogout(c)
        PROVE  SessionsInv'
    <2>1. ASSUME NEW n \in Nicks, NEW md5 \in Passwords,
                 LoginAccepted(c, n, md5) \/ LoginRefused(c, n, md5)
          PROVE  SessionsInv'
      BY <2>1, LoginKeepsInv, CloseKeepsInv DEF LoginRefused
    <2>2. CASE onLogout(c)
      BY <2>2, QuitKeepsInv DEF onLogout, SessionsInv, TypeOK
    <2> QED
      BY <1>2, <2>1, <2>2 DEF onLogin
  <1>3. ASSUME NEW c \in Clients, NEW new \in Passwords, onPlayerSet(c, new)
        PROVE  SessionsInv'
    BY <1>3, PlayerSetKeepsInv
  <1>4. ASSUME NEW r \in Rows,
               SiteDisconnect(r) \/ \E ip \in SiteAddrs : SiteConnect(r, ip)
        PROVE  SessionsInv'
    BY <1>4, SiteKeepsInv
  <1>5. ASSUME NEW how \in {"down", "crashed"}, Halt(how)
        PROVE  SessionsInv'
    BY <1>5, HaltKeepsInv
  <1>6. CASE Start
    BY <1>6, StartKeepsInv
  <1>7. CASE UNCHANGED sessionVars
    BY <1>7 DEF sessionVars, SessionsInv, TypeOK, SessionData, SessionsAreRecorded,
       OneSessionPerUser, SessionsAreFound
  <1> QED
    BY <1>1, <1>2, <1>3, <1>4, <1>5, <1>6, <1>7 DEF Next

\* The strengthening is invariant.
THEOREM SessionsInvariance == Spec => []SessionsInv
  BY SessionsInit, SessionsStep, PTL DEF Spec

\* Type correctness.
THEOREM SessionsTypeCorrect == Spec => []TypeOK
  <1>1. SessionsInv => TypeOK
    BY DEF SessionsInv
  <1> QED
    BY SessionsInvariance, <1>1, PTL

\* Every session is recorded in the table users, so connect refuses others.
THEOREM SessionsRecorded == Spec => []SessionsAreRecorded
  <1>1. SessionsInv => SessionsAreRecorded
    BY DEF SessionsInv
  <1> QED
    BY SessionsInvariance, <1>1, PTL

\* No user ever has two sessions, whatever the web site and repeated logins do.
THEOREM OneSession == Spec => []OneSessionPerUser
  <1>1. SessionsInv => OneSessionPerUser
    BY DEF SessionsInv
  <1> QED
    BY SessionsInvariance, <1>1, PTL

\* Whoever is logged in is found by ClientsManager::find.
THEOREM SessionsFound == Spec => []SessionsAreFound
  <1>1. SessionsInv => SessionsAreFound
    BY DEF SessionsInv
  <1> QED
    BY SessionsInvariance, <1>1, PTL

-----------------------------------------------------------------------------
(* One login per session, one password, no web site: then what a session    *)
(* has left in the table and in the ClientsManager is taken away at its end. *)

Plain == Deviations = {}

\* The row of a session has the address and the hash that disconnect will be
\* called with; a Client without a connection has no session.
OwnRows ==
    \A c \in Clients : loggedIn[c] =>
        /\ conn[c] # "none"
        /\ users[RowOf[nick[c]]].ip = AddrOf[c]
        /\ users[RowOf[nick[c]]].password = pass[c]

PlainInv == SessionsInv /\ OwnRows /\ OnlySessionsAreFound /\ NobodyIsLockedOut

LEMMA PlainInit == Init => PlainInv
  BY SessionsInit DEF Init, PlainInv, OwnRows, OnlySessionsAreFound, NobodyIsLockedOut

LEMMA LoginKeepsPlain ==
    ASSUME Plain, PlainInv, NEW c \in Clients, NEW n \in Nicks, NEW md5 \in Passwords,
           LoginAccepted(c, n, md5)
    PROVE  PlainInv'
  <1> DEFINE r == RowOf[n]
  <1>1. SessionsInv'
    BY LoginKeepsInv DEF PlainInv
  <1>2. r \in Rows /\ users[r] \in Row /\ AddrOf[c] \in Addresses
        /\ KeyOf[n] \in Keys /\ "game" \in Places
    BY NamesAssumption, AddressAssumption DEF PlainInv, SessionsInv, TypeOK, Places
  <1>3. /\ ~loggedIn[c]
        /\ conn[c] # "none"
        /\ server = "up"
        /\ users[r].password = md5
        /\ users' = [users EXCEPT ![r] = ConnectRow(users[r], AddrOf[c], "game")]
        /\ nick' = [nick EXCEPT ![c] = n]
        /\ pass' = [pass EXCEPT ![c] = md5]
        /\ loggedIn' = [loggedIn EXCEPT ![c] = TRUE]
        /\ clients' = [clients EXCEPT ![KeyOf[n]] = c]
        /\ UNCHANGED <<server, conn>>
    BY DEF Plain, LoginAccepted, Serving, Connects, Add
  <1>4. \A d \in Clients : loggedIn[d] => RowOf[nick[d]] \in Rows /\ RowOf[nick[d]] # r
    BY NamesAssumption
       DEF PlainInv, SessionsInv, SessionData, SessionsAreRecorded, LoginAccepted, Connects
  <1>5. users'[r].ip = AddrOf[c] /\ users'[r].password = md5
    BY <1>2, <1>3 DEF ConnectRow, Row, PlainInv, SessionsInv, TypeOK
  <1>6. \A s \in Rows : s # r => users'[s] = users[s]
    BY <1>3 DEF PlainInv, SessionsInv, TypeOK
  <1>7. \A d \in Clients : d # c =>
            loggedIn'[d] = loggedIn[d] /\ nick'[d] = nick[d] /\ pass'[d] = pass[d]
    BY <1>3 DEF PlainInv, SessionsInv, TypeOK
  <1>8. loggedIn'[c] /\ nick'[c] = n /\ pass'[c] = md5
    BY <1>3 DEF PlainInv, SessionsInv, TypeOK
  <1> HIDE DEF r
  <1>9. OwnRows'
    BY <1>3, <1>4, <1>5, <1>6, <1>7, <1>8 DEF PlainInv, OwnRows, r
  <1>10. OnlySessionsAreFound'
    BY <1>2, <1>3, <1>7, <1>8
    DEF PlainInv, OnlySessionsAreFound, SessionsInv, TypeOK
  <1>11. NobodyIsLockedOut'
    <2> SUFFICES ASSUME NEW s \in Rows, "game" \in users'[s].where
                 PROVE  \E d \in Clients : loggedIn'[d] /\ RowOf[nick'[d]] = s
      BY DEF NobodyIsLockedOut
    <2>1. CASE s = r
      BY <1>8, <2>1 DEF r
    <2>2. CASE s # r
      <3>1. PICK d \in Clients : loggedIn[d] /\ RowOf[nick[d]] = s
        BY <1>3, <1>6, <2>2 DEF PlainInv, NobodyIsLockedOut
      <3> QED
        BY <1>3, <1>7, <3>1
    <2> QED
      BY <2>1, <2>2
  <1> QED
    BY <1>1, <1>9, <1>10, <1>11 DEF PlainInv

\* A session that ends is found in the table by its address and hash, and its only
\* entry in the ClientsManager is the one of its nickname.
LEMMA QuitKeepsPlain ==
    ASSUME Plain, PlainInv, NEW c \in Clients, QuitSession(c),
           conn' \in [Clients -> {"none", "open", "closing"}],
           \A d \in Clients : d # c => conn'[d] = conn[d]
    PROVE  PlainInv'
  <1> DEFINE r == RowOf[nick[c]]
  <1>1. SessionsInv'
    BY QuitKeepsInv DEF PlainInv
  <1>2. /\ \A d \in Clients : d # c =>
              loggedIn'[d] = loggedIn[d] /\ nick'[d] = nick[d] /\ pass'[d] = pass[d]
        /\ ~loggedIn'[c]
        /\ UNCHANGED server
    BY DEF QuitSession, PlainInv, SessionsInv, TypeOK
  <1>3. \A d \in Clients : d # c /\ loggedIn[c] /\ loggedIn[d] => RowOf[nick[d]] # r
    BY DEF PlainInv, SessionsInv, OneSessionPerUser
  <1>4. \A d \in Clients : loggedIn[d] => RowOf[nick[d]] \in Rows
    BY NamesAssumption DEF PlainInv, SessionsInv, SessionData
  <1>5. ASSUME loggedIn[c]
        PROVE  "game" \notin users'[r].where /\ \A s \in Rows : s # r => users'[s] = users[s]
    <2>1. r \in Rows /\ users[r] \in Row
      BY <1>4, <1>5 DEF PlainInv, SessionsInv, TypeOK
    <2>2. Disconnects(users[r], AddrOf[c], pass[c], "game")
      BY <1>5 DEF PlainInv, OwnRows, SessionsInv, SessionsAreRecorded, Disconnects
    <2>3. users' = [users EXCEPT ![r] = DisconnectRow(users[r], "game")]
      BY <1>5, <2>2 DEF QuitSession
    <2>4. "game" \notin DisconnectRow(users[r], "game").where
      BY <2>1, <2>2 DEF DisconnectRow, SymDiff, Disconnects, Row
    <2> QED
      BY <2>1, <2>3, <2>4 DEF PlainInv, SessionsInv, TypeOK
  <1>6. ~loggedIn[c] => UNCHANGED users
    BY DEF QuitSession
  <1>7. \A k \in Keys : clients[k] = c => loggedIn[c] /\ k = KeyOf[nick[c]]
    BY NoneAssumption DEF PlainInv, OnlySessionsAreFound
  <1>8. \A k \in Keys : /\ clients'[k] # c
                        /\ clients'[k] # NoClient => clients'[k] = clients[k]
    BY <1>7, NoneAssumption DEF QuitSession, Remove, PlainInv, SessionsInv, TypeOK
  <1> HIDE DEF r
  <1>9. OwnRows'
    BY <1>2, <1>3, <1>4, <1>5, <1>6 DEF PlainInv, OwnRows
  <1>10. OnlySessionsAreFound'
    BY <1>2, <1>8 DEF PlainInv, OnlySessionsAreFound, SessionsInv, TypeOK
  <1>11. NobodyIsLockedOut'
    <2> SUFFICES ASSUME server = "up", NEW s \in Rows, "game" \in users'[s].where
                 PROVE  \E d \in Clients : loggedIn'[d] /\ RowOf[nick'[d]] = s
      BY <1>2 DEF NobodyIsLockedOut
    <2>1. "game" \in users[s].where /\ (loggedIn[c] => s # r)
      BY <1>5, <1>6
    <2>2. PICK d \in Clients : loggedIn[d] /\ RowOf[nick[d]] = s
      BY <2>1 DEF PlainInv, NobodyIsLockedOut
    <2>3. d # c
      BY <2>1, <2>2 DEF r
    <2> QED
      BY <1>2, <2>2, <2>3
  <1> QED
    BY <1>1, <1>9, <1>10, <1>11 DEF PlainInv

LEMMA PlainStep ==
    ASSUME Plain
    PROVE  PlainInv /\ [Next]_sessionVars => PlainInv'
  <1> SUFFICES ASSUME PlainInv, [Next]_sessionVars
               PROVE  PlainInv'
    OBVIOUS
  <1>0. SessionsInv'
    BY SessionsStep DEF PlainInv
  <1>1. ASSUME NEW c \in Clients, Accept(c)
        PROVE  PlainInv'
    <2>1. /\ ~loggedIn[c]
          /\ loggedIn' = loggedIn
          /\ UNCHANGED <<server, clients, users>>
          /\ \A d \in Clients : loggedIn[d] =>
                conn'[d] = conn[d] /\ nick'[d] = nick[d] /\ pass'[d] = pass[d]
      BY <1>1 DEF Accept, PlainInv, OwnRows, SessionsInv, TypeOK
    <2>2. \A k \in Keys : clients[k] \in Clients \cup {NoClient}
      BY DEF PlainInv, SessionsInv, TypeOK
    <2> QED
      BY <1>0, <2>1, <2>2 DEF PlainInv, OwnRows, OnlySessionsAreFound, NobodyIsLockedOut
  <1>2. ASSUME NEW c \in Clients, CloseConnection(c),
               UNCHANGED <<server, nick, pass, loggedIn, clients, users>>
        PROVE  PlainInv'
    BY <1>0, <1>2
    DEF CloseConnection, PlainInv, OwnRows, OnlySessionsAreFound, NobodyIsLockedOut,
        SessionsInv, TypeOK
  <1>3. ASSUME NEW c \in Clients, Drop(c) \/ onLogin(c)
        PROVE  PlainInv'
    BY <1>2, <1>3, LoginKeepsPlain DEF Drop, onLogin, LoginRefused
  <1>4. ASSUME NEW c \in Clients, Finish(c) \/ onLogout(c)
        PROVE  PlainInv'
    BY <1>4, QuitKeepsPlain DEF Finish, onLogout, PlainInv, SessionsInv, TypeOK
  <1>5. ASSUME NEW how \in {"down", "crashed"}, Halt(how)
        PROVE  PlainInv'
    BY <1>0, <1>5 DEF Halt, PlainInv, OwnRows, OnlySessionsAreFound, NobodyIsLockedOut
  <1>6. CASE Start
    <2>1. \A r \in Rows : "game" \notin users'[r].where
      BY <1>6 DEF Start, InitRow, PlainInv, SessionsInv, TypeOK, Row
    <2>2. \A c \in Clients : ~loggedIn[c]
      BY <1>6 DEF Start, PlainInv, SessionsInv, SessionData
    <2>3. \A k \in Keys : clients[k] = NoClient
      BY <2>2 DEF PlainInv, OnlySessionsAreFound, SessionsInv, TypeOK
    <2> QED
      BY <1>0, <1>6, <2>1, <2>2, <2>3
      DEF Start, PlainInv, OwnRows, OnlySessionsAreFound, NobodyIsLockedOut
  <1>7. CASE UNCHANGED sessionVars
    BY <1>0, <1>7
    DEF sessionVars, PlainInv, OwnRows, OnlySessionsAreFound, NobodyIsLockedOut
  <1>8. \A c \in Clients, new \in Passwords : ~onPlayerSet(c, new)
    BY DEF Plain, onPlayerSet
  <1>9. \A r \in Rows : ~SiteDisconnect(r) /\ \A ip \in SiteAddrs : ~SiteConnect(r, ip)
    BY DEF Plain, SiteDisconnect, SiteConnect
  <1> QED
    BY <1>1, <1>3, <1>4, <1>5, <1>6, <1>7, <1>8, <1>9 DEF Next

\* With one login per session, no web site and one password, ClientsManager::find
\* never returns a Client whose session is over.
THEOREM OnlySessionsFound == ASSUME Plain PROVE Spec => []OnlySessionsAreFound
  <1>1. PlainInv => OnlySessionsAreFound
    BY DEF PlainInv
  <1> QED
    BY <1>1, PlainInit, PlainStep, PTL DEF Spec

\* Then no end of a session, and no crash of the server, leaves a user marked as
\* playing in the table.
THEOREM NobodyLockedOut == ASSUME Plain PROVE Spec => []NobodyIsLockedOut
  <1>1. PlainInv => NobodyIsLockedOut
    BY DEF PlainInv
  <1> QED
    BY <1>1, PlainInit, PlainStep, PTL DEF Spec
=============================================================================
