-------------------------------- MODULE Games --------------------------------
(***************************************************************************)
(* The announced games.  The module models                                 *)
(*                                                                         *)
(*   - the GameManager (GameManager.cpp): the list of games and its mutex; *)
(*   - Game (game.cpp): name, host, players, and whether it was started;   *)
(*   - the game handlers of Client (client.cpp) and the part of quit()     *)
(*     that ends the games of a client.                                    *)
(*                                                                         *)
(* The mutex of the manager is held inside one of its methods only, so a   *)
(* handler is cut into steps wherever it calls a second one: the threads   *)
(* of other clients run in between.                                        *)
(*                                                                         *)
(* The list is a set here: findGame answers any game of the name instead   *)
(* of the first one.  Of the logins only what decides who may host is      *)
(* left, see Sessions.                                                     *)
(***************************************************************************)
EXTENDS Naturals, FiniteSets

CONSTANTS
    Clients,     \* threads, each serving one connection after the other
    Nicks,       \* nicknames, one per row of the table users
    Names,       \* names of games
    Ids,         \* addresses of Game objects; a freed one is used again
    Deviations,  \* {"relogin"} if a client may log in twice in one session
    NoNick,      \* the empty nickname of a session that is not logged in
    NoName,      \* no name is being worked on
    NoGame       \* the null pointer, and a freed address

ASSUME GameNoneAssumption ==
    /\ NoNick \notin Nicks
    /\ NoName \notin Names
    /\ NoGame \notin Ids

VARIABLES
    games,       \* m_lpGames: games[i] is the Game at the address i
    myGame,      \* myGame[c]: m_pMyGame
    nick,        \* nick[c]: m_sNick
    taken,       \* the nicknames whose row is marked as playing
    pc,          \* pc[c]: what the thread does next
    name,        \* name[c]: the name onGameIns has looked for
    found        \* found[c]: the Game that findGame or findGameByHost returned

vars == <<games, myGame, nick, taken, pc, name, found>>

\* The three test players that every Game is created with never leave it and
\* are not listed here.
Game == [name : Names, host : Nicks, players : SUBSET Nicks, started : BOOLEAN]

ASSUME NullAssumption == NoGame \notin Game

\* "idle" between two packets; "insert" after findGame in onGameIns; "info"
\* after findGame in onGameInfo; "list" after getNGames in onGameLst; "leave"
\* before quit(), "remove" after findGameByHost, "disconnect" after remGame.
Places == {"idle", "insert", "info", "list", "leave", "remove", "disconnect"}

TypeOK ==
    /\ games \in [Ids -> Game \cup {NoGame}]
    /\ myGame \in [Clients -> Ids \cup {NoGame}]
    /\ nick \in [Clients -> Nicks \cup {NoNick}]
    /\ taken \in SUBSET Nicks
    /\ pc \in [Clients -> Places]
    /\ name \in [Clients -> Names \cup {NoName}]
    /\ found \in [Clients -> Ids \cup {NoGame}]

Goto(c, place) == pc' = [pc EXCEPT ![c] = place]

Listed(i) == games[i] # NoGame

-----------------------------------------------------------------------------
(* The GameManager and Game.                                               *)

\* findGame and findGameByHost.
Called(n) == {i \in Ids : Listed(i) /\ games[i].name = n}
HostedBy(u) == {i \in Ids : Listed(i) /\ games[i].host = u}

\* A bug: the host is the nickname of a session that is over.
NewGameOfNobody(c) ==
    [name |-> name[c], host |-> NoNick, players |-> {nick[c]}, started |-> FALSE]

\* A bug: the host does not join its game.
NewGameNotJoined(c) ==
    [name |-> name[c], host |-> nick[c], players |-> {}, started |-> FALSE]

\* The constructor, which lets the host join.
NewGame(c) ==
    [name |-> name[c], host |-> nick[c], players |-> {nick[c]}, started |-> FALSE]

\* A bug: the game stays in the list.
StayListed(i) == UNCHANGED games

\* remGame takes the game off the list and deletes it.
remGame(i) == games' = [games EXCEPT ![i] = NoGame]

\* playerLeft on the Game at i, if i is not null.
playerLeft(i, u) ==
    games' = [j \in Ids |-> IF j = i /\ Listed(j)
                            THEN [games[j] EXCEPT !.players = @ \ {u}]
                            ELSE games[j]]

-----------------------------------------------------------------------------
(* The handlers.  A packet of a client that is not logged in is answered   *)
(* before it gets to one of them (workPacket).                             *)

Serving(c) == pc[c] = "idle" /\ nick[c] # NoNick

\* connect refuses a user that is marked as playing.  It is not asked whether
\* this client is logged in already.
onLogin(c, u) ==
    /\ pc[c] = "idle"
    /\ nick[c] # NoNick => "relogin" \in Deviations
    /\ u \notin taken
    /\ taken' = taken \cup {u}
    /\ nick' = [nick EXCEPT ![c] = u]
    /\ UNCHANGED <<games, myGame, pc, name, found>>

\* The client logs out, its connection breaks, or a login is refused.
Leave(c) ==
    /\ Serving(c)
    /\ Goto(c, "leave")
    /\ UNCHANGED <<games, myGame, nick, taken, name, found>>

\* A bug: a second game may be made.
AlwaysMayMakeGame(c) == TRUE

MayMakeGame(c) == myGame[c] = NoGame

\* onGameIns up to the answer of findGame; an error closes the connection.
onGameIns(c, n) ==
    /\ Serving(c)
    /\ IF MayMakeGame(c) /\ Called(n) = {}
       THEN Goto(c, "insert") /\ name' = [name EXCEPT ![c] = n]
       ELSE Goto(c, "leave") /\ UNCHANGED name
    /\ UNCHANGED <<games, myGame, nick, taken, found>>

\* onGameIns: the Game is made at some free address and added to the list.
addGame(c) ==
    /\ pc[c] = "insert"
    /\ \E i \in Ids : /\ ~Listed(i)
                      /\ games' = [games EXCEPT ![i] = NewGame(c)]
                      /\ myGame' = [myGame EXCEPT ![c] = i]
    /\ name' = [name EXCEPT ![c] = NoName]
    /\ Goto(c, "idle")
    /\ UNCHANGED <<nick, taken, found>>

\* A bug: m_pMyGame stays set.
onGameRemKeeps(c) ==
    /\ Serving(c)
    /\ myGame[c] # NoGame
    /\ remGame(myGame[c])
    /\ UNCHANGED <<myGame, nick, taken, pc, name, found>>

onGameRem(c) ==
    /\ Serving(c)
    /\ IF myGame[c] = NoGame
       THEN Goto(c, "leave") /\ UNCHANGED <<games, myGame>>
       ELSE /\ remGame(myGame[c])
            /\ myGame' = [myGame EXCEPT ![c] = NoGame]
            /\ UNCHANGED pc
    /\ UNCHANGED <<nick, taken, name, found>>

\* Without a game the handler answers an error and keeps the connection.
onGameStart(c) ==
    /\ Serving(c)
    /\ games' = [i \in Ids |-> IF i = myGame[c] /\ Listed(i)
                               THEN [games[i] EXCEPT !.started = TRUE]
                               ELSE games[i]]
    /\ UNCHANGED <<myGame, nick, taken, pc, name, found>>

\* onGameInfo up to the answer of findGame; an error closes the connection.
onGameInfo(c, n) ==
    /\ Serving(c)
    /\ IF Called(n) = {}
       THEN Goto(c, "leave") /\ UNCHANGED found
       ELSE Goto(c, "info") /\ \E i \in Called(n) : found' = [found EXCEPT ![c] = i]
    /\ UNCHANGED <<games, myGame, nick, taken, name>>

\* onGameLst after getNGames().
onGameLst(c) ==
    /\ Serving(c)
    /\ Goto(c, "list")
    /\ UNCHANGED <<games, myGame, nick, taken, name, found>>

\* addToInfoPacket or writeListToPacket, and the answer is sent.
Answer(c) ==
    /\ pc[c] \in {"info", "list"}
    /\ Goto(c, "idle")
    /\ found' = [found EXCEPT ![c] = NoGame]
    /\ UNCHANGED <<games, myGame, nick, taken, name>>

-----------------------------------------------------------------------------
(* quit().                                                                 *)

\* A bug: only the game that m_pMyGame points to is left, none is looked for.
quitLeavesOnly(c) ==
    /\ pc[c] = "leave"
    /\ playerLeft(myGame[c], nick[c])
    /\ myGame' = [myGame EXCEPT ![c] = NoGame]
    /\ Goto(c, "disconnect")
    /\ UNCHANGED <<nick, taken, name, found>>

\* A bug: the user is marked as not playing before its game is removed.
quitLogsOutFirst(c) ==
    /\ pc[c] = "leave"
    /\ playerLeft(myGame[c], nick[c])
    /\ myGame' = [myGame EXCEPT ![c] = NoGame]
    /\ taken' = taken \ {nick[c]}
    /\ IF HostedBy(nick[c]) = {}
       THEN Goto(c, "disconnect") /\ UNCHANGED found
       ELSE /\ Goto(c, "remove")
            /\ \E i \in HostedBy(nick[c]) : found' = [found EXCEPT ![c] = i]
    /\ UNCHANGED <<nick, name>>

\* Up to the answer of findGameByHost.
quit(c) ==
    /\ pc[c] = "leave"
    /\ playerLeft(myGame[c], nick[c])
    /\ myGame' = [myGame EXCEPT ![c] = NoGame]
    /\ IF HostedBy(nick[c]) = {}
       THEN Goto(c, "disconnect") /\ UNCHANGED found
       ELSE /\ Goto(c, "remove")
            /\ \E i \in HostedBy(nick[c]) : found' = [found EXCEPT ![c] = i]
    /\ UNCHANGED <<nick, taken, name>>

quitRemoves(c) ==
    /\ pc[c] = "remove"
    /\ remGame(found[c])
    /\ found' = [found EXCEPT ![c] = NoGame]
    /\ Goto(c, "disconnect")
    /\ UNCHANGED <<myGame, nick, taken, name>>

\* disconnect, which may fail and leave the row marked until the next start, and the
\* session data is destroyed.
quitDisconnects(c) ==
    /\ pc[c] = "disconnect"
    /\ taken' \in {taken, taken \ {nick[c]}}
    /\ nick' = [nick EXCEPT ![c] = NoNick]
    /\ Goto(c, "idle")
    /\ UNCHANGED <<games, myGame, name, found>>

-----------------------------------------------------------------------------
Fresh(g, m, n, t, p, l, f) ==
    /\ g = [i \in Ids |-> NoGame]
    /\ m = [c \in Clients |-> NoGame]
    /\ n = [c \in Clients |-> NoNick]
    /\ t = {}
    /\ p = [c \in Clients |-> "idle"]
    /\ l = [c \in Clients |-> NoName]
    /\ f = [c \in Clients |-> NoGame]

Init == Fresh(games, myGame, nick, taken, pc, name, found)

\* The process ends and is started again, for instance because addToInfoPacket
\* read a Game that was deleted since findGame.
Restart == Fresh(games', myGame', nick', taken', pc', name', found')

Next ==
    \/ \E c \in Clients, u \in Nicks : onLogin(c, u)
    \/ \E c \in Clients, n \in Names : onGameIns(c, n) \/ onGameInfo(c, n)
    \/ \E c \in Clients : Leave(c) \/ onGameRem(c) \/ onGameStart(c) \/ onGameLst(c)
    \/ \E c \in Clients : addGame(c) \/ Answer(c)
    \/ \E c \in Clients : quit(c) \/ quitRemoves(c) \/ quitDisconnects(c)
    \/ Restart

Spec == Init /\ [][Next]_vars

\* A thread inside quit() goes on up to disconnect; no mutex is held while it waits for
\* another.  In disconnect it may wait for ever, when a client keeps the data base.
Fairness == \A c \in Clients : WF_vars(quit(c) \/ quitRemoves(c))

FairSpec == Spec /\ Fairness

-----------------------------------------------------------------------------
(* Properties.                                                             *)

\* The client will write to, or delete, the game at this address.
Holds(c, i) == myGame[c] = i \/ (pc[c] = "remove" /\ found[c] = i)

\* Whoever is going to start, leave or delete a game has the only such pointer to
\* it, and the game is still in the list: no game is deleted twice or written to
\* after its deletion (m_pMyGame, quit(), GameManager::remGame).
GamesAreOwned ==
    \A c \in Clients, i \in Ids : Holds(c, i) =>
        Listed(i) /\ \A d \in Clients : Holds(d, i) => d = c

\* As long as a game is announced its host is marked as playing, so that nobody
\* logs in under its name and has the game of the earlier session removed by the
\* findGameByHost in quit().
HostsAreTaken ==
    \A i \in Ids : Listed(i) => games[i].host \in taken

\* Whoever has the name of the host of an announced game holds that game, at any
\* point between its announcement and the end of quit().
HostsHoldTheirGames ==
    \A c \in Clients, i \in Ids :
        Listed(i) /\ games[i].host = nick[c] => Holds(c, i)

\* A user announces one game at a time: quit() looks for the game of a host once.
OneGamePerHost ==
    \A i, j \in Ids :
        Listed(i) /\ Listed(j) /\ games[i].host = games[j].host => i = j

\* An announced game without its host among the players is about to be removed.
HostsPlay ==
    \A i \in Ids : Listed(i) /\ games[i].host \notin games[i].players =>
        \E c \in Clients : pc[c] = "remove" /\ found[c] = i

\* The games of a user that leaves end ("Kill all games hosted by me" in quit()).
LeaversGamesEnd ==
    \A c \in Clients, u \in Nicks :
        (pc[c] = "leave" /\ nick[c] = u) ~> (HostedBy(u) = {})

\* What stands on the board of Board for a user.
NoticeOf(u) ==
    IF HostedBy(u) = {} THEN NoGame
    ELSE LET i == CHOOSE i \in HostedBy(u) : TRUE
         IN  [name |-> games[i].name, started |-> games[i].started]

Announced == INSTANCE Board WITH
    Users <- Nicks, Titles <- Names, Empty <- NoGame,
    playing <- taken, board <- [u \in Nicks |-> NoticeOf(u)]

\* The handlers implement Board: although a user logs in twice, breaks off inside
\* quit() or has two threads look for its game, its game is gone before its row says
\* that it has left, and only one is up at a time.
BoardIsKept == Announced!Spec
=============================================================================
