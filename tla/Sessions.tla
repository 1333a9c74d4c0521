------------------------------ MODULE Sessions ------------------------------
(***************************************************************************)
(* Who is logged in.  The module models                                    *)
(*                                                                         *)
(*   - the Client objects of the master server (client.cpp), one thread    *)
(*     per connection, as far as their session data goes;                  *)
(*   - the ClientsManager (ClientsManager.cpp), the map from lower-case    *)
(*     nickname to Client that whispers are delivered through;             *)
(*   - the table `users` and the stored functions connect, disconnect,     *)
(*     init and kick_inactive (sql/create.sql), which the game server and  *)
(*     the web site call concurrently.                                     *)
(*                                                                         *)
(* One action is one packet handler, one stored function called by the web *)
(* site, or the death or start of the server process.  Handlers that       *)
(* answer without changing the session are not actions here.               *)
(***************************************************************************)
EXTENDS Integers, FiniteSets

CONSTANTS
    Clients,     \* Client objects; an object is used again after its deletion
    Nicks,       \* spellings of nicknames, as they arrive in packets
    Keys,        \* lower-case spellings, the keys of the ClientsManager
    Rows,        \* rows of the table users
    Passwords,   \* MD5 hashes of passwords
    Addresses,   \* IP addresses
    KeyOf,       \* toLower, from Nicks to Keys
    RowOf,       \* `nickname`=... under utf8_general_ci, from Nicks to Rows
    AddrOf,      \* getCounterpartIP() of the connection of a client
    SiteAddrs,   \* addresses the web site logs users in from
    Deviations,  \* what the environment does beyond one plain login per session
    NoNick,      \* the empty nickname of a session that is not logged in
    NoPassword,  \* the empty hash of a session that is not logged in
    NoClient,    \* no entry in the ClientsManager
    NoAddr       \* SQL NULL in the column ip

(***************************************************************************)
(* The collation of the table folds case and accents, toLower folds case   *)
(* only: two spellings with one key always select one row.                 *)
(***************************************************************************)
ASSUME NamesAssumption ==
    /\ KeyOf \in [Nicks -> Keys]
    /\ RowOf \in [Nicks -> Rows]
    /\ \A m, n \in Nicks : KeyOf[m] = KeyOf[n] => RowOf[m] = RowOf[n]

ASSUME AddressAssumption ==
    /\ AddrOf \in [Clients -> Addresses]
    /\ SiteAddrs \subseteq Addresses
    /\ NoAddr \notin Addresses

ASSUME NoneAssumption ==
    /\ NoNick \notin Nicks
    /\ NoPassword \notin Passwords
    /\ NoClient \notin Clients

ASSUME DeviationsAssumption ==
    Deviations \subseteq {"relogin", "site", "password"}

VARIABLES
    server,      \* "up", "down" (not running) or "crashed"
    conn,        \* conn[c]: "none", "open", or "closing" (run() left its loop)
    nick,        \* nick[c]: m_sNick
    pass,        \* pass[c]: m_sPassMD5
    loggedIn,    \* loggedIn[c]: m_bLoggedIn
    clients,     \* m_mClients of the ClientsManager
    users        \* the table users

sessionVars == <<server, conn, nick, pass, loggedIn, clients, users>>

(***************************************************************************)
(* The column logged_in_where is a mask: 1 = game, 2 = site.  Masks are    *)
(* sets of places here, so | is union, & intersection and ^ the symmetric  *)
(* difference.                                                             *)
(***************************************************************************)
Places == {"game", "site"}

Row == [password : Passwords, ip : Addresses \cup {NoAddr}, where : SUBSET Places]

TypeOK ==
    /\ server \in {"up", "down", "crashed"}
    /\ conn \in [Clients -> {"none", "open", "closing"}]
    /\ nick \in [Clients -> Nicks \cup {NoNick}]
    /\ pass \in [Clients -> Passwords \cup {NoPassword}]
    /\ loggedIn \in [Clients -> BOOLEAN]
    /\ clients \in [Keys -> Clients \cup {NoClient}]
    /\ users \in [Rows -> Row]

-----------------------------------------------------------------------------
(* The stored functions.                                                   *)

\* A bug: only the password is looked at.
ConnectsTwice(row, md5, place) == row.password = md5

\* connect(nick, md5, ip, place) answers 0: the password matches and the user
\* is not in that place already.
Connects(row, md5, place) ==
    /\ row.password = md5
    /\ row.ip = NoAddr \/ place \notin row.where

ConnectRow(row, ip, place) ==
    [row EXCEPT !.ip = ip, !.where = row.where \cup {place}]

\* disconnect(nick, ip, md5, place) answers 0: the row with this nickname and
\* this address exists, has this password and is in that place.
Disconnects(row, ip, md5, place) ==
    /\ row.ip = ip
    /\ row.password = md5
    /\ place \in row.where

SymDiff(S, T) == (S \ T) \cup (T \ S)

\* A bug: the address goes although the user stays in the other place.
DisconnectRowForgets(row, place) ==
    [row EXCEPT !.where = SymDiff(row.where, {place}), !.ip = NoAddr]

DisconnectRow(row, place) ==
    LET left == SymDiff(row.where, {place})
    IN  [row EXCEPT !.where = left, !.ip = IF left = {} THEN NoAddr ELSE row.ip]

\* A bug: init clears the address only.
InitRowKeepsPlace(row) == [row EXCEPT !.ip = NoAddr]

\* The procedure init: `ip`=NULL and `logged_in_where` & ~1, for every user.
InitRow(row) == [row EXCEPT !.ip = NoAddr, !.where = row.where \ {"game"}]

-----------------------------------------------------------------------------
(* The ClientsManager.                                                     *)

\* A bug: the key is the nickname as it is spelled.
AddSpelled(c, n) ==
    clients' = [k \in DOMAIN clients \cup {n} |-> IF k = n THEN c ELSE clients[k]]

Add(c, n) == clients' = [clients EXCEPT ![KeyOf[n]] = c]

\* A bug: the entry is looked for under the nickname as it is spelled.
RemoveSpelled(c) ==
    clients' = [k \in Keys |-> IF k = nick[c] THEN NoClient ELSE clients[k]]

\* remove() erases the first entry that points to the client, and only that
\* one; which is the first depends on the spelling of the keys.
Remove(c) ==
    IF \E k \in Keys : clients[k] = c
    THEN \E k \in Keys : /\ clients[k] = c
                         /\ clients' = [clients EXCEPT ![k] = NoClient]
    ELSE UNCHANGED clients

-----------------------------------------------------------------------------
(* The Client.                                                             *)

Serving(c) == server = "up" /\ conn[c] = "open"

\* The preliminary checks of workPacket let a packet pass to its handler: the
\* client is logged in (and sent the hash it logged in with, which is the only
\* packet modelled: any other is answered 10 or 11 and changes nothing).
InSession(c) == Serving(c) /\ loggedIn[c]

\* A listener accepts a connection and starts a thread for a new Client.
Accept(c) ==
    /\ server = "up"
    /\ conn[c] = "none"
    /\ conn' = [conn EXCEPT ![c] = "open"]
    /\ nick' = [nick EXCEPT ![c] = NoNick]
    /\ pass' = [pass EXCEPT ![c] = NoPassword]
    /\ loggedIn' = [loggedIn EXCEPT ![c] = FALSE]
    /\ UNCHANGED <<server, clients, users>>

\* run() leaves its loop: the peer is gone, or a handler returned false.
CloseConnection(c) == conn' = [conn EXCEPT ![c] = "closing"]

Drop(c) ==
    /\ Serving(c)
    /\ CloseConnection(c)
    /\ UNCHANGED <<server, nick, pass, loggedIn, clients, users>>

\* onLogin when connect answers 0.  The handler does not look at m_bLoggedIn:
\* a second login in one session replaces the session data ("relogin").
LoginAccepted(c, n, md5) ==
    /\ Serving(c)
    /\ loggedIn[c] => "relogin" \in Deviations
    /\ Connects(users[RowOf[n]], md5, "game")
    /\ users' = [users EXCEPT ![RowOf[n]] = ConnectRow(@, AddrOf[c], "game")]
    /\ nick' = [nick EXCEPT ![c] = n]
    /\ pass' = [pass EXCEPT ![c] = md5]
    /\ loggedIn' = [loggedIn EXCEPT ![c] = TRUE]
    /\ Add(c, n)
    /\ UNCHANGED <<server, conn>>

\* onLogin when connect answers an error: the connection is closed.
LoginRefused(c, n, md5) ==
    /\ Serving(c)
    /\ loggedIn[c] => "relogin" \in Deviations
    /\ ~Connects(users[RowOf[n]], md5, "game")
    /\ CloseConnection(c)
    /\ UNCHANGED <<server, nick, pass, loggedIn, clients, users>>

onLogin(c) == \E n \in Nicks, md5 \in Passwords :
    LoginAccepted(c, n, md5) \/ LoginRefused(c, n, md5)

\* The session part of quit(): the answer of disconnect is only logged.
QuitSession(c) ==
    /\ LET r == RowOf[nick[c]]
       IN  IF loggedIn[c] /\ Disconnects(users[r], AddrOf[c], pass[c], "game")
           THEN users' = [users EXCEPT ![r] = DisconnectRow(@, "game")]
           ELSE UNCHANGED users
    /\ nick' = [nick EXCEPT ![c] = NoNick]
    /\ pass' = [pass EXCEPT ![c] = NoPassword]
    /\ loggedIn' = [loggedIn EXCEPT ![c] = FALSE]
    /\ Remove(c)
    /\ UNCHANGED server

\* onLogout keeps the connection: the client may log in again.
onLogout(c) ==
    /\ InSession(c)
    /\ QuitSession(c)
    /\ UNCHANGED conn

\* The end of run(), after which starter() deletes the Client.
Finish(c) ==
    /\ server = "up"
    /\ conn[c] = "closing"
    /\ QuitSession(c)
    /\ conn' = [conn EXCEPT ![c] = "none"]

\* onPlayerSet with the field DSRV_TBL_USR_PASS_MD5.  The row is selected by
\* nickname and the hash of the session; m_sPassMD5 itself stays as it was.
onPlayerSet(c, new) ==
    LET r == RowOf[nick[c]]
    IN  /\ "password" \in Deviations
        /\ InSession(c)
        /\ users[r].password = pass[c]
        /\ users' = [users EXCEPT ![r].password = new]
        /\ UNCHANGED <<server, conn, nick, pass, loggedIn, clients>>

-----------------------------------------------------------------------------
(* The web site calls the stored functions of the same table.              *)

SiteConnect(r, ip) ==
    /\ "site" \in Deviations
    /\ Connects(users[r], users[r].password, "site")
    /\ users' = [users EXCEPT ![r] = ConnectRow(@, ip, "site")]
    /\ UNCHANGED <<server, conn, nick, pass, loggedIn, clients>>

\* A logout on the site, or kick_inactive, which calls disconnect with the
\* address and the password of the row.
SiteDisconnect(r) ==
    /\ "site" \in Deviations
    /\ users[r].ip # NoAddr
    /\ Disconnects(users[r], users[r].ip, users[r].password, "site")
    /\ users' = [users EXCEPT ![r] = DisconnectRow(@, "site")]
    /\ UNCHANGED <<server, conn, nick, pass, loggedIn, clients>>

-----------------------------------------------------------------------------
(* The process.                                                            *)

\* The process ends: every thread and object is gone, the table stays.  A
\* shutdown is the same, its client threads are detached and never run quit().
Halt(how) ==
    /\ server = "up"
    /\ server' = how
    /\ conn' = [c \in Clients |-> "none"]
    /\ nick' = [c \in Clients |-> NoNick]
    /\ pass' = [c \in Clients |-> NoPassword]
    /\ loggedIn' = [c \in Clients |-> FALSE]
    /\ clients' = [k \in Keys |-> NoClient]
    /\ UNCHANGED users

\* DataBase::init calls the stored procedure init before any listener runs.
Start ==
    /\ server # "up"
    /\ server' = "up"
    /\ users' = [r \in Rows |-> InitRow(users[r])]
    /\ UNCHANGED <<conn, nick, pass, loggedIn, clients>>

-----------------------------------------------------------------------------
Init ==
    /\ server = "down"
    /\ conn = [c \in Clients |-> "none"]
    /\ nick = [c \in Clients |-> NoNick]
    /\ pass = [c \in Clients |-> NoPassword]
    /\ loggedIn = [c \in Clients |-> FALSE]
    /\ clients = [k \in Keys |-> NoClient]
    /\ users \in [Rows -> [password : Passwords, ip : {NoAddr}, where : {{}}]]

Next ==
    \/ \E c \in Clients : Accept(c) \/ Drop(c) \/ Finish(c)
    \/ \E c \in Clients : onLogin(c) \/ onLogout(c)
    \/ \E c \in Clients, new \in Passwords : onPlayerSet(c, new)
    \/ \E r \in Rows : SiteDisconnect(r) \/ \E ip \in SiteAddrs : SiteConnect(r, ip)
    \/ \E how \in {"down", "crashed"} : Halt(how)
    \/ Start

Spec == Init /\ [][Next]_sessionVars

-----------------------------------------------------------------------------
(* Properties.                                                             *)

\* Every logged-in session is recorded in the table, with an address, so that
\* the `connect` of anybody else is refused while it lasts, whatever the web
\* site does to the same row meanwhile (create.sql, connect and disconnect).
SessionsAreRecorded ==
    \A c \in Clients : loggedIn[c] =>
        LET row == users[RowOf[nick[c]]]
        IN  "game" \in row.where /\ row.ip # NoAddr

\* No user has two sessions at once, under any two spellings of the nickname
\* (`connect` refuses a user that is "Already logged into the game").
OneSessionPerUser ==
    \A c, d \in Clients :
        loggedIn[c] /\ loggedIn[d] /\ RowOf[nick[c]] = RowOf[nick[d]] => c = d

\* Whoever is logged in is found by ClientsManager::find under any spelling of
\* its nickname: no other add() or remove() ever takes the entry away.
SessionsAreFound ==
    \A c \in Clients : loggedIn[c] => clients[KeyOf[nick[c]]] = c

\* ClientsManager::find only ever returns a Client that is logged in under the
\* name looked for: no entry outlives its session (or its Client, which the
\* caller would then use after its deletion).
OnlySessionsAreFound ==
    \A k \in Keys : clients[k] # NoClient =>
        loggedIn[clients[k]] /\ KeyOf[nick[clients[k]]] = k

\* A user the table counts as playing has a session on the running server: a
\* session that ended, or a server that died, never locks its user out.
NobodyIsLockedOut ==
    server = "up" => \A r \in Rows : "game" \in users[r].where =>
        \E c \in Clients : loggedIn[c] /\ RowOf[nick[c]] = r
=============================================================================
