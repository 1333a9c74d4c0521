----------------------------- MODULE Games_proof -----------------------------
(***************************************************************************)
(* Proofs about Games, for any number of clients, games and nicknames, and *)
(* with second logins: who holds a game, that no game survives the session *)
(* of its host under its name, and that the handlers implement Board.      *)
(***************************************************************************)
EXTENDS Games, TLAPS

\* The part of Sessions that Games rests on: a session has a nickname of its own,
\* which is marked in the table.
NicknamesInv ==
    /\ \A c \in Clients : nick[c] # NoNick => nick[c] \in taken
    /\ \A c, d \in Clients : nick[c] = nick[d] /\ nick[c] # NoNick => c = d
    /\ \A c \in Clients : pc[c] # "idle" \/ myGame[c] # NoGame => nick[c] # NoNick

\* What a thread knows at the places where it has called the manager.
PlacesInv ==
    /\ \A c \in Clients :
          pc[c] \in {"insert", "remove", "disconnect"} => myGame[c] = NoGame
    /\ \A c \in Clients : pc[c] = "insert" => name[c] # NoName
    /\ \A c \in Clients : pc[c] = "remove" =>
          found[c] \in Ids /\ Listed(found[c]) /\ games[found[c]].host = nick[c]

\* The inductive invariant.
GamesInv ==
    /\ TypeOK
    /\ NicknamesInv
    /\ PlacesInv
    /\ GamesAreOwned
    /\ HostsAreTaken
    /\ HostsHoldTheirGames
    /\ OneGamePerHost
    /\ HostsPlay

-----------------------------------------------------------------------------
\* A state with no session and no game.
LEMMA FreshIsGood == Init => GamesInv
  <1> SUFFICES ASSUME Init PROVE GamesInv
    OBVIOUS
  <1> USE GameNoneAssumption, NullAssumption
  <1>1. TypeOK
    BY DEF Init, Fresh, TypeOK, Places
  <1>2. NicknamesInv /\ PlacesInv
    BY DEF Init, Fresh, NicknamesInv, PlacesInv
  <1>3. GamesAreOwned
    BY DEF Init, Fresh, GamesAreOwned, Holds
  <1>4. HostsAreTaken /\ HostsHoldTheirGames /\ OneGamePerHost /\ HostsPlay
    BY DEF Init, Fresh, HostsAreTaken, HostsHoldTheirGames, OneGamePerHost, HostsPlay,
           Listed
  <1> QED
    BY <1>1, <1>2, <1>3, <1>4 DEF GamesInv

\* A step that moves threads about, with neither games nor sessions changed.
LEMMA MovesAreGood ==
    ASSUME GamesInv, NEW c \in Clients, TypeOK',
           UNCHANGED <<games, myGame, nick, taken>>,
           pc[c] \notin {"remove", "disconnect"}, nick[c] # NoNick,
           \A d \in Clients \ {c} :
              pc'[d] = pc[d] /\ found'[d] = found[d] /\ name'[d] = name[d],
           pc'[c] \notin {"remove", "disconnect"},
           pc'[c] = "insert" => myGame[c] = NoGame /\ name'[c] # NoName
    PROVE  GamesInv'
  <1> USE DEF GamesInv
  <1>1. NicknamesInv'
    BY DEF NicknamesInv
  <1>2. PlacesInv'
    BY DEF PlacesInv, Listed
  <1>3. \A d \in Clients, i \in Ids : Holds(d, i)' <=> Holds(d, i)
    BY DEF Holds
  <1>4. GamesAreOwned' /\ HostsHoldTheirGames'
    BY <1>3 DEF GamesAreOwned, HostsHoldTheirGames, Listed
  <1>5. HostsAreTaken' /\ OneGamePerHost'
    BY DEF HostsAreTaken, OneGamePerHost, Listed
  <1>6. HostsPlay'
    BY DEF HostsPlay, Listed
  <1> QED
    BY <1>1, <1>2, <1>4, <1>5, <1>6

LEMMA LoginIsGood ==
    ASSUME GamesInv, NEW c \in Clients, NEW u \in Nicks, onLogin(c, u)
    PROVE  GamesInv'
  <1> USE GameNoneAssumption DEF GamesInv, onLogin
  <1>1. TypeOK'
    BY DEF TypeOK
  <1>2. nick'[c] = u /\ \A d \in Clients \ {c} : nick'[d] = nick[d]
    BY DEF TypeOK
  <1>3. NicknamesInv' /\ PlacesInv'
    BY <1>2 DEF NicknamesInv, PlacesInv, Listed, TypeOK
  <1>4. \A i \in Ids : Listed(i) => games[i].host # u
    BY DEF HostsAreTaken
  <1>5. \A d \in Clients, i \in Ids : Holds(d, i)' <=> Holds(d, i)
    BY DEF Holds
  <1>6. GamesAreOwned' /\ HostsHoldTheirGames'
    BY <1>2, <1>4, <1>5 DEF GamesAreOwned, HostsHoldTheirGames, Listed
  <1>7. HostsAreTaken' /\ OneGamePerHost' /\ HostsPlay'
    BY DEF HostsAreTaken, OneGamePerHost, HostsPlay, Listed
  <1> QED
    BY <1>1, <1>3, <1>6, <1>7

LEMMA AddIsGood ==
    ASSUME GamesInv, NEW c \in Clients, addGame(c)
    PROVE  GamesInv'
  <1> USE GameNoneAssumption, NullAssumption DEF GamesInv
  <1> PICK i \in Ids : /\ ~Listed(i)
                       /\ games' = [games EXCEPT ![i] = NewGame(c)]
                       /\ myGame' = [myGame EXCEPT ![c] = i]
    BY DEF addGame
  <1>1. /\ pc[c] = "insert" /\ name[c] # NoName
        /\ myGame[c] = NoGame /\ nick[c] # NoNick
    BY DEF addGame, PlacesInv, NicknamesInv
  <1>2. UNCHANGED <<nick, taken, found>> /\ pc' = [pc EXCEPT ![c] = "idle"]
    BY DEF addGame, Goto
  <1>3. NewGame(c) \in Game
    BY <1>1 DEF NewGame, Game, TypeOK
  <1>4. TypeOK'
    BY <1>2, <1>3 DEF TypeOK, Places, addGame
  <1>5. \A j \in Ids \ {i} : games'[j] = games[j]
    BY DEF TypeOK
  <1>6. games'[i] = NewGame(c) /\ Listed(i)' /\ games'[i].host = nick[c]
    BY <1>3 DEF TypeOK, Listed, NewGame
  <1>7. \A d \in Clients : ~Holds(d, i)
    BY DEF GamesAreOwned
  <1>8. \A d \in Clients, j \in Ids : Holds(d, j)' <=> Holds(d, j) \/ (d = c /\ j = i)
    BY <1>1, <1>2 DEF Holds, TypeOK
  <1>9. \A j \in Ids : Listed(j) => games[j].host # nick[c]
    BY <1>1 DEF HostsHoldTheirGames, Holds
  <1>10. NicknamesInv'
    BY <1>1, <1>2 DEF NicknamesInv, TypeOK
  <1>11. PlacesInv'
    <2>1. \A d \in Clients \ {c} : name'[d] = name[d] /\ myGame'[d] = myGame[d]
      BY DEF addGame, TypeOK
    <2> QED
      BY <1>2, <1>5, <1>6, <2>1 DEF PlacesInv, TypeOK, Listed
  <1>12. GamesAreOwned'
    BY <1>1, <1>5, <1>6, <1>7, <1>8 DEF GamesAreOwned, Holds, Listed
  <1>13. HostsAreTaken' /\ OneGamePerHost'
    BY <1>1, <1>2, <1>5, <1>6, <1>9 DEF HostsAreTaken, OneGamePerHost, NicknamesInv,
                                        Listed
  <1>14. HostsHoldTheirGames'
    BY <1>1, <1>2, <1>5, <1>6, <1>8 DEF HostsHoldTheirGames, NicknamesInv, Listed
  <1>15. HostsPlay'
    <2>1. games'[i].players = {nick[c]}
      BY <1>6 DEF NewGame
    <2> QED
      BY <1>1, <1>2, <1>5, <1>6, <2>1 DEF HostsPlay, Listed, TypeOK
  <1> QED
    BY <1>4, <1>10, <1>11, <1>12, <1>13, <1>14, <1>15

LEMMA GameRemIsGood ==
    ASSUME GamesInv, NEW c \in Clients, onGameRem(c)
    PROVE  GamesInv'
  <1> USE GameNoneAssumption, NullAssumption DEF GamesInv
  <1>1. pc[c] = "idle" /\ nick[c] # NoNick
    BY DEF onGameRem, Serving
  <1>2. TypeOK'
    BY DEF onGameRem, remGame, Goto, TypeOK, Places
  <1>3. CASE myGame[c] = NoGame
    BY <1>1, <1>2, <1>3, MovesAreGood DEF onGameRem, Goto, TypeOK
  <1>4. CASE myGame[c] # NoGame
    <2> DEFINE i == myGame[c]
    <2>1. /\ i \in Ids /\ Holds(c, i)
          /\ games' = [games EXCEPT ![i] = NoGame]
          /\ myGame' = [myGame EXCEPT ![c] = NoGame]
          /\ UNCHANGED <<nick, taken, pc, name, found>>
      BY <1>4 DEF onGameRem, remGame, TypeOK, Holds
    <2> HIDE DEF i
    <2>2. \A d \in Clients : Holds(d, i) => d = c
      BY <2>1 DEF GamesAreOwned
    <2>3. \A j \in Ids : Listed(j)' <=> j # i /\ Listed(j)
      BY <2>1 DEF TypeOK, Listed
    <2>4. \A j \in Ids \ {i} : games'[j] = games[j]
      BY <2>1 DEF TypeOK
    <2>5. \A d \in Clients, j \in Ids \ {i} : Holds(d, j) => Holds(d, j)'
      BY <1>4, <2>1 DEF Holds, TypeOK, i
    <2>6. \A d \in Clients, j \in Ids : Holds(d, j)' => Holds(d, j) /\ j # i
      BY <1>1, <2>1, <2>2 DEF Holds, TypeOK
    <2>7. NicknamesInv'
      BY <1>1, <2>1 DEF NicknamesInv, TypeOK
    <2>8. PlacesInv'
      <3>1. \A d \in Clients : pc[d] = "remove" => found[d] # i
        BY <1>1, <2>2 DEF Holds
      <3> QED
        BY <2>1, <2>3, <2>4, <3>1 DEF PlacesInv, TypeOK
    <2>9. GamesAreOwned'
      BY <2>3, <2>6 DEF GamesAreOwned
    <2>10. HostsAreTaken' /\ OneGamePerHost'
      BY <2>1, <2>3, <2>4 DEF HostsAreTaken, OneGamePerHost
    <2>11. HostsHoldTheirGames'
      BY <2>1, <2>3, <2>4, <2>5 DEF HostsHoldTheirGames
    <2>12. HostsPlay'
      BY <2>1, <2>3, <2>4 DEF HostsPlay
    <2> QED
      BY <1>2, <2>7, <2>8, <2>9, <2>10, <2>11, <2>12
  <1> QED
    BY <1>3, <1>4

LEMMA GameStartIsGood ==
    ASSUME GamesInv, NEW c \in Clients, onGameStart(c)
    PROVE  GamesInv'
  <1> USE GameNoneAssumption, NullAssumption DEF GamesInv
  <1>1. UNCHANGED <<myGame, nick, taken, pc, name, found>>
    BY DEF onGameStart
  <1>2. ASSUME NEW i \in Ids, Listed(i)
        PROVE  /\ games'[i] \in Game
               /\ games'[i].host = games[i].host
               /\ games'[i].players = games[i].players
    BY <1>2 DEF onGameStart, TypeOK, Game, Listed
  <1>3. \A i \in Ids : Listed(i)' <=> Listed(i)
    BY <1>2 DEF onGameStart, TypeOK, Listed
  <1>4. games' \in [Ids -> Game \cup {NoGame}]
    <2>1. \A i \in Ids : games'[i] \in Game \cup {NoGame}
      BY <1>2, <1>3 DEF Listed
    <2>2. games' = [i \in Ids |-> games'[i]]
      BY DEF onGameStart
    <2> QED
      BY <2>1, <2>2
  <1>5. TypeOK'
    BY <1>1, <1>4 DEF TypeOK
  <1>6. NicknamesInv' /\ PlacesInv'
    BY <1>1, <1>2, <1>3 DEF NicknamesInv, PlacesInv
  <1>7. \A d \in Clients, i \in Ids : Holds(d, i)' <=> Holds(d, i)
    BY <1>1 DEF Holds
  <1>8. GamesAreOwned' /\ HostsAreTaken' /\ HostsHoldTheirGames'
    BY <1>1, <1>2, <1>3, <1>7 DEF GamesAreOwned, HostsAreTaken, HostsHoldTheirGames
  <1>9. OneGamePerHost' /\ HostsPlay'
    BY <1>1, <1>2, <1>3 DEF OneGamePerHost, HostsPlay
  <1> QED
    BY <1>5, <1>6, <1>8, <1>9

\* The steps between handlers and methods of the manager.
LEMMA PlainMovesAreGood ==
    ASSUME GamesInv, NEW c \in Clients,
           \/ Leave(c) \/ onGameLst(c) \/ Answer(c)
           \/ \E n \in Names : onGameIns(c, n) \/ onGameInfo(c, n)
    PROVE  GamesInv'
  <1> USE GameNoneAssumption DEF GamesInv
  <1>1. CASE Leave(c) \/ onGameLst(c)
    <2>1. TypeOK'
      BY <1>1 DEF Leave, onGameLst, Goto, TypeOK, Places
    <2> QED
      BY <1>1, <2>1, MovesAreGood DEF Leave, onGameLst, Serving, Goto, TypeOK
  <1>2. CASE Answer(c)
    <2>1. TypeOK' /\ nick[c] # NoNick
      BY <1>2 DEF Answer, Goto, TypeOK, Places, NicknamesInv
    <2> QED
      BY <1>2, <2>1, MovesAreGood DEF Answer, Goto, TypeOK
  <1>3. ASSUME NEW n \in Names, onGameIns(c, n)
        PROVE  GamesInv'
    <2>1. TypeOK'
      BY <1>3 DEF onGameIns, Goto, TypeOK, Places
    <2>2. /\ UNCHANGED <<games, myGame, nick, taken, found>>
          /\ pc[c] = "idle" /\ nick[c] # NoNick
          /\ \A d \in Clients \ {c} : pc'[d] = pc[d] /\ name'[d] = name[d]
      BY <1>3 DEF onGameIns, Serving, Goto, TypeOK
    <2>3. /\ pc'[c] \in {"insert", "leave"}
          /\ pc'[c] = "insert" => myGame[c] = NoGame /\ name'[c] # NoName
      BY <1>3 DEF onGameIns, MayMakeGame, Goto, TypeOK
    <2> QED
      BY <2>1, <2>2, <2>3, MovesAreGood
  <1>4. ASSUME NEW n \in Names, onGameInfo(c, n)
        PROVE  GamesInv'
    <2>1. TypeOK'
      BY <1>4 DEF onGameInfo, Called, Goto, TypeOK, Places
    <2>2. /\ UNCHANGED <<games, myGame, nick, taken, name>>
          /\ pc[c] = "idle" /\ nick[c] # NoNick
          /\ pc'[c] \in {"info", "leave"}
          /\ \A d \in Clients \ {c} : pc'[d] = pc[d] /\ found'[d] = found[d]
      BY <1>4 DEF onGameInfo, Serving, Goto, TypeOK
    <2> QED
      BY <2>1, <2>2, MovesAreGood
  <1> QED
    BY <1>1, <1>2, <1>3, <1>4

LEMMA QuitIsGood ==
    ASSUME GamesInv, NEW c \in Clients, quit(c)
    PROVE  GamesInv'
  <1> USE GameNoneAssumption, NullAssumption DEF GamesInv
  <1>1. /\ pc[c] = "leave" /\ nick[c] \in Nicks
        /\ myGame' = [myGame EXCEPT ![c] = NoGame]
        /\ UNCHANGED <<nick, taken, name>>
    BY DEF quit, NicknamesInv, TypeOK
  <1>2. ASSUME NEW i \in Ids, Listed(i)
        PROVE  /\ games'[i] \in Game
               /\ games'[i].host = games[i].host
               /\ games'[i].players = IF i = myGame[c]
                                       THEN games[i].players \ {nick[c]}
                                       ELSE games[i].players
    BY <1>2 DEF quit, playerLeft, TypeOK, Game, Listed
  <1>3. \A i \in Ids : Listed(i)' <=> Listed(i)
    BY <1>2 DEF quit, playerLeft, TypeOK, Listed
  <1>4. \/ HostedBy(nick[c]) = {} /\ UNCHANGED found
           /\ pc' = [pc EXCEPT ![c] = "disconnect"]
        \/ \E i \in HostedBy(nick[c]) : found' = [found EXCEPT ![c] = i]
                                       /\ pc' = [pc EXCEPT ![c] = "remove"]
    BY DEF quit, Goto
  <1>5. TypeOK'
    <2>1. games' = [i \in Ids |-> games'[i]]
      BY DEF quit, playerLeft
    <2>2. \A i \in Ids : games'[i] \in Game \cup {NoGame}
      BY <1>2, <1>3 DEF Listed
    <2>3. games' \in [Ids -> Game \cup {NoGame}]
      BY <2>1, <2>2
    <2> QED
      BY <1>1, <1>4, <2>3 DEF TypeOK, Places, HostedBy
  <1>6. \A i \in Ids : Listed(i) /\ games[i].host = nick[c] => i = myGame[c]
    BY <1>1 DEF HostsHoldTheirGames, Holds
  <1>7. HostedBy(nick[c]) # {} => HostedBy(nick[c]) = {myGame[c]}
    BY <1>6 DEF HostedBy
  <1>8. \A d \in Clients \ {c} : /\ pc'[d] = pc[d] /\ found'[d] = found[d]
                                /\ myGame'[d] = myGame[d]
    BY <1>1, <1>4 DEF TypeOK
  <1>9. \/ pc'[c] = "disconnect" /\ HostedBy(nick[c]) = {}
        \/ /\ pc'[c] = "remove" /\ HostedBy(nick[c]) # {}
           /\ found'[c] = myGame[c] /\ myGame[c] \in HostedBy(nick[c])
    BY <1>4, <1>7 DEF TypeOK
  <1>10. /\ \A d \in Clients \ {c}, i \in Ids : Holds(d, i)' <=> Holds(d, i)
         /\ \A i \in Ids : Holds(c, i)' => i = myGame[c]
         /\ \A i \in HostedBy(nick[c]) : Holds(c, i)'
    <2>1. myGame'[c] = NoGame
      BY <1>1 DEF TypeOK
    <2>2. \A i \in HostedBy(nick[c]) : i = myGame[c]
      BY <1>7
    <2> QED
      BY <1>8, <1>9, <2>1, <2>2 DEF Holds, HostedBy
  <1>11. NicknamesInv'
    BY <1>1, <1>8 DEF NicknamesInv
  <1>12. PlacesInv'
    <2>1. ASSUME NEW d \in Clients
          PROVE  /\ pc'[d] \in {"insert", "remove", "disconnect"} => myGame'[d] = NoGame
                 /\ pc'[d] = "insert" => name'[d] # NoName
      BY <1>1, <1>8, <1>9 DEF PlacesInv, TypeOK
    <2>2. ASSUME NEW d \in Clients, pc'[d] = "remove"
          PROVE  /\ found'[d] \in Ids /\ Listed(found'[d])
                 /\ games[found'[d]].host = nick[d]
      BY <1>8, <1>9, <2>2 DEF PlacesInv, HostedBy
    <2>3. ASSUME NEW d \in Clients, pc'[d] = "remove"
          PROVE  /\ found'[d] \in Ids /\ games'[found'[d]] # NoGame
                 /\ games'[found'[d]].host = nick'[d]
      BY <1>1, <1>2, <1>3, <2>2, <2>3 DEF Listed
    <2> QED
      BY <2>1, <2>3 DEF PlacesInv, Listed
  <1>13. GamesAreOwned'
    BY <1>3, <1>10 DEF GamesAreOwned, Holds
  <1>14. HostsAreTaken' /\ OneGamePerHost'
    BY <1>1, <1>2, <1>3 DEF HostsAreTaken, OneGamePerHost
  <1>15. HostsHoldTheirGames'
    BY <1>1, <1>2, <1>3, <1>10 DEF HostsHoldTheirGames, HostedBy
  <1>16. HostsPlay'
    <2> SUFFICES ASSUME NEW i \in Ids, Listed(i), games'[i].host \notin games'[i].players
                 PROVE  \E d \in Clients : pc'[d] = "remove" /\ found'[d] = i
      BY <1>3 DEF HostsPlay
    <2>1. CASE games[i].host \in games[i].players
      BY <1>2, <1>9, <2>1 DEF HostedBy
    <2>2. CASE games[i].host \notin games[i].players
      BY <1>1, <1>8, <2>2 DEF HostsPlay
    <2> QED
      BY <2>1, <2>2
  <1> QED
    BY <1>5, <1>11, <1>12, <1>13, <1>14, <1>15, <1>16

LEMMA QuitRemovesIsGood ==
    ASSUME GamesInv, NEW c \in Clients, quitRemoves(c)
    PROVE  GamesInv'
  <1> USE GameNoneAssumption, NullAssumption DEF GamesInv
  <1> DEFINE i == found[c]
  <1>1. /\ pc[c] = "remove" /\ myGame[c] = NoGame /\ nick[c] # NoNick
        /\ i \in Ids /\ Listed(i) /\ games[i].host = nick[c] /\ Holds(c, i)
    BY DEF quitRemoves, PlacesInv, NicknamesInv, Holds
  <1>2. /\ games' = [games EXCEPT ![i] = NoGame]
        /\ found' = [found EXCEPT ![c] = NoGame]
        /\ pc' = [pc EXCEPT ![c] = "disconnect"]
        /\ UNCHANGED <<myGame, nick, taken, name>>
    BY DEF quitRemoves, remGame, Goto
  <1>3. TypeOK'
    BY <1>1, <1>2 DEF TypeOK, Places
  <1>4. \A d \in Clients \ {c} : pc'[d] = pc[d] /\ found'[d] = found[d]
    BY <1>2 DEF TypeOK
  <1>5. pc'[c] = "disconnect"
    BY <1>2 DEF TypeOK
  <1>6. \A j \in Ids : Listed(j)' <=> j # i /\ Listed(j)
    BY <1>1, <1>2 DEF TypeOK, Listed
  <1>7. \A j \in Ids \ {i} : games'[j] = games[j]
    BY <1>2 DEF TypeOK
  <1> HIDE DEF i
  <1>8. \A d \in Clients : Holds(d, i) => d = c
    BY <1>1 DEF GamesAreOwned
  <1>9. \A d \in Clients, j \in Ids : Holds(d, j)' <=> d # c /\ Holds(d, j)
    BY <1>1, <1>2, <1>4, <1>5 DEF Holds
  <1>10. \A j \in Ids : Holds(c, j) => j = i
    BY <1>1 DEF Holds, i
  <1>11. NicknamesInv'
    BY <1>1, <1>2, <1>4 DEF NicknamesInv
  <1>12. PlacesInv'
    <2>1. \A d \in Clients \ {c} : pc[d] = "remove" => found[d] # i
      BY <1>8 DEF Holds
    <2> QED
      BY <1>1, <1>2, <1>4, <1>5, <1>6, <1>7, <2>1 DEF PlacesInv
  <1>13. GamesAreOwned'
    BY <1>6, <1>8, <1>9 DEF GamesAreOwned
  <1>14. HostsAreTaken' /\ OneGamePerHost'
    BY <1>2, <1>6, <1>7 DEF HostsAreTaken, OneGamePerHost
  <1>15. HostsHoldTheirGames'
    BY <1>1, <1>2, <1>6, <1>7, <1>9, <1>10 DEF HostsHoldTheirGames
  <1>16. HostsPlay'
    BY <1>4, <1>6, <1>7 DEF HostsPlay, i
  <1> QED
    BY <1>3, <1>11, <1>12, <1>13, <1>14, <1>15, <1>16

LEMMA QuitDisconnectsIsGood ==
    ASSUME GamesInv, NEW c \in Clients, quitDisconnects(c)
    PROVE  GamesInv'
  <1> USE GameNoneAssumption DEF GamesInv
  <1>1. /\ pc[c] = "disconnect" /\ nick[c] # NoNick /\ myGame[c] = NoGame
        /\ taken' = taken \/ taken' = taken \ {nick[c]}
        /\ nick' = [nick EXCEPT ![c] = NoNick]
        /\ pc' = [pc EXCEPT ![c] = "idle"]
        /\ UNCHANGED <<games, myGame, name, found>>
    BY DEF quitDisconnects, Goto, NicknamesInv, PlacesInv
  <1>2. TypeOK'
    BY <1>1 DEF TypeOK, Places
  <1>3. /\ nick'[c] = NoNick /\ pc'[c] = "idle"
        /\ \A d \in Clients \ {c} : pc'[d] = pc[d] /\ nick'[d] = nick[d]
    BY <1>1 DEF TypeOK
  <1>4. \A i \in Ids : Listed(i) => games[i].host # nick[c]
    BY <1>1 DEF HostsHoldTheirGames, Holds
  <1>5. \A i \in Ids : Listed(i) => games[i].host \in Nicks
    BY DEF TypeOK, Listed, Game
  <1>6. \A d \in Clients, i \in Ids : Holds(d, i)' <=> Holds(d, i)
    BY <1>1, <1>3 DEF Holds
  <1>7. NicknamesInv'
    BY <1>1, <1>3 DEF NicknamesInv
  <1>8. PlacesInv'
    BY <1>1, <1>3 DEF PlacesInv, Listed
  <1>9. GamesAreOwned' /\ HostsHoldTheirGames'
    BY <1>1, <1>3, <1>5, <1>6 DEF GamesAreOwned, HostsHoldTheirGames, Listed
  <1>10. HostsAreTaken' /\ OneGamePerHost'
    BY <1>1, <1>4 DEF HostsAreTaken, OneGamePerHost, Listed
  <1>11. HostsPlay'
    BY <1>1, <1>3 DEF HostsPlay, Listed
  <1> QED
    BY <1>2, <1>7, <1>8, <1>9, <1>10, <1>11

LEMMA RestartIsGood == Restart => GamesInv'
  <1>1. Restart => Init'
    BY DEF Restart, Init
  <1> QED
    BY <1>1, FreshIsGood, PTL

-----------------------------------------------------------------------------
LEMMA GamesStep == GamesInv /\ [Next]_vars => GamesInv'
  <1>1. ASSUME GamesInv, NEW c \in Clients,
               \/ \E u \in Nicks : onLogin(c, u)
               \/ addGame(c) \/ onGameRem(c) \/ onGameStart(c)
               \/ quit(c) \/ quitRemoves(c) \/ quitDisconnects(c)
        PROVE  GamesInv'
    BY <1>1, LoginIsGood, AddIsGood, GameRemIsGood, GameStartIsGood, QuitIsGood,
       QuitRemovesIsGood, QuitDisconnectsIsGood
  <1>2. ASSUME GamesInv, UNCHANGED vars
        PROVE  GamesInv'
    BY <1>2 DEF vars, GamesInv, TypeOK, NicknamesInv, PlacesInv, GamesAreOwned, Holds,
       HostsAreTaken, HostsHoldTheirGames, OneGamePerHost, HostsPlay, Listed
  <1> QED
    BY <1>1, <1>2, PlainMovesAreGood, RestartIsGood DEF Next

\* The inductive invariant holds in every state.
THEOREM GamesInvariance == Spec => []GamesInv
  BY FreshIsGood, GamesStep, PTL DEF Spec

\* The type invariant of Games.
THEOREM GamesTypeCorrect == Spec => []TypeOK
  <1>1. GamesInv => TypeOK
    BY DEF GamesInv
  <1> QED
    BY <1>1, GamesInvariance, PTL

\* Games are held by one client at most, and never deleted while they are: no game
\* is deleted twice (m_pMyGame, quit(), remGame).
THEOREM GamesOwned == Spec => []GamesAreOwned
  <1>1. GamesInv => GamesAreOwned
    BY DEF GamesInv
  <1> QED
    BY <1>1, GamesInvariance, PTL

\* The host of an announced game is marked as playing, so that its nickname is
\* not another session's (quit() removes the game before it calls disconnect).
THEOREM HostsTaken == Spec => []HostsAreTaken
  <1>1. GamesInv => HostsAreTaken
    BY DEF GamesInv
  <1> QED
    BY <1>1, GamesInvariance, PTL

\* The session with the name of the host holds the game.
THEOREM HostsHold == Spec => []HostsHoldTheirGames
  <1>1. GamesInv => HostsHoldTheirGames
    BY DEF GamesInv
  <1> QED
    BY <1>1, GamesInvariance, PTL

\* findGameByHost has one answer at most.
THEOREM HostsHaveOneGame == Spec => []OneGamePerHost
  <1>1. GamesInv => OneGamePerHost
    BY DEF GamesInv
  <1> QED
    BY <1>1, GamesInvariance, PTL

\* A game without its host is about to be removed.
THEOREM HostsArePlaying == Spec => []HostsPlay
  <1>1. GamesInv => HostsPlay
    BY DEF GamesInv
  <1> QED
    BY <1>1, GamesInvariance, PTL

-----------------------------------------------------------------------------
(* Games implements Board.                                                 *)

\* The board has the one game of a host, or none.
LEMMA NoticeIsGame ==
    ASSUME GamesInv, NEW i \in Ids, Listed(i)
    PROVE  /\ games[i].host \in taken /\ games[i].host \in Nicks
           /\ NoticeOf(games[i].host) =
                 [name |-> games[i].name, started |-> games[i].started]
           /\ NoticeOf(games[i].host) \in Announced!Notice
  <1>1. games[i] \in Game /\ games[i].host \in taken
    BY DEF GamesInv, TypeOK, Listed, HostsAreTaken
  <1>2. HostedBy(games[i].host) = {i}
    BY DEF GamesInv, OneGamePerHost, HostedBy
  <1>3. NoticeOf(games[i].host) = [name |-> games[i].name, started |-> games[i].started]
    BY <1>2 DEF NoticeOf
  <1> QED
    BY <1>1, <1>3 DEF Game, Announced!Notice

LEMMA NoNotice ==
    ASSUME NEW u, \A i \in Ids : Listed(i) => games[i].host # u
    PROVE  NoticeOf(u) = NoGame
  BY DEF NoticeOf, HostedBy

\* The place of a user whose games stay as they are.
LEMMA NoticeKept ==
    ASSUME GamesInv, GamesInv', NEW u,
           \A i \in Ids : Listed(i)' /\ games'[i].host = u <=> Listed(i) /\ games[i].host = u,
           \A i \in Ids : Listed(i) /\ games[i].host = u =>
              games'[i].name = games[i].name /\ games'[i].started = games[i].started
    PROVE  NoticeOf(u)' = NoticeOf(u)
  <1>1. CASE \E i \in Ids : Listed(i) /\ games[i].host = u
    <2>1. PICK i \in Ids : Listed(i) /\ games[i].host = u
      BY <1>1
    <2>2. NoticeOf(u) = [name |-> games[i].name, started |-> games[i].started]
      BY <2>1, NoticeIsGame
    <2>3. HostedBy(u)' = {i}
      BY <2>1 DEF GamesInv, OneGamePerHost, HostedBy
    <2>4. NoticeOf(u)' = [name |-> games'[i].name, started |-> games'[i].started]
      BY <2>3 DEF NoticeOf
    <2> QED
      BY <2>1, <2>2, <2>4
  <1>2. CASE \A i \in Ids : ~(Listed(i) /\ games[i].host = u)
    <2>1. HostedBy(u) = {} /\ HostedBy(u)' = {}
      BY <1>2 DEF HostedBy
    <2> QED
      BY <2>1 DEF NoticeOf
  <1> QED
    BY <1>1, <1>2

\* A client that is at the entry of its game, or at the end of quit(), has no game
\* on the board.
LEMMA NoGameOfMine ==
    ASSUME GamesInv, NEW c \in Clients, pc[c] \in {"insert", "disconnect"}
    PROVE  /\ nick[c] \in Nicks /\ nick[c] \in taken
           /\ \A i \in Ids : Listed(i) => games[i].host # nick[c]
  <1>1. nick[c] \in Nicks /\ nick[c] \in taken /\ myGame[c] = NoGame
    BY DEF GamesInv, TypeOK, NicknamesInv, PlacesInv
  <1> QED
    BY <1>1, GameNoneAssumption DEF GamesInv, HostsHoldTheirGames, Holds

LEMMA SigningIn ==
    ASSUME GamesInv, NEW c \in Clients, NEW u \in Nicks, onLogin(c, u)
    PROVE  Announced!SignIn(u)
  <1>1. NoticeOf(u) = NoGame
    BY NoNotice DEF onLogin, GamesInv, HostsAreTaken
  <1>2. \A v \in Nicks : NoticeOf(v)' = NoticeOf(v)
    BY DEF onLogin, NoticeOf, HostedBy, Listed
  <1> QED
    BY <1>1, <1>2 DEF Announced!SignIn, onLogin

LEMMA SigningOut ==
    ASSUME GamesInv, NEW c \in Clients, quitDisconnects(c)
    PROVE  \/ nick[c] \in Nicks /\ Announced!SignOut(nick[c])
           \/ UNCHANGED <<games, taken>>
  <1>1. nick[c] \in Nicks /\ nick[c] \in taken /\ NoticeOf(nick[c]) = NoGame
    BY NoGameOfMine, NoNotice DEF quitDisconnects
  <1>2. \A v \in Nicks : NoticeOf(v)' = NoticeOf(v)
    BY DEF quitDisconnects, NoticeOf, HostedBy, Listed
  <1> QED
    BY <1>1, <1>2 DEF Announced!SignOut, quitDisconnects

LEMMA PuttingUp ==
    ASSUME GamesInv, GamesInv', NEW c \in Clients, addGame(c)
    PROVE  /\ nick[c] \in Nicks /\ name[c] \in Names
           /\ Announced!PutUp(nick[c], name[c])
  <1>1. PICK i \in Ids : /\ ~Listed(i)
                         /\ games' = [games EXCEPT ![i] = NewGame(c)]
    BY DEF addGame
  <1>2. /\ nick[c] \in Nicks /\ nick[c] \in taken /\ NoticeOf(nick[c]) = NoGame
        /\ \A j \in Ids : Listed(j) => games[j].host # nick[c]
    BY NoGameOfMine, NoNotice DEF addGame
  <1>3. name[c] \in Names
    BY DEF addGame, GamesInv, PlacesInv, TypeOK
  <1>4. NewGame(c) \in Game
    BY <1>2, <1>3 DEF NewGame, Game
  <1>5. /\ Listed(i)' /\ games'[i] = NewGame(c)
        /\ \A j \in Ids \ {i} : games'[j] = games[j]
    BY <1>1, <1>4, NullAssumption DEF GamesInv, TypeOK, Listed
  <1>6. NoticeOf(nick[c])' = [name |-> name[c], started |-> FALSE]
    <2>1. HostedBy(nick[c])' = {i}
      <3>1. \A j \in Ids \ {i} : ~(Listed(j)' /\ games'[j].host = nick[c])
        BY <1>2, <1>5 DEF Listed
      <3>2. games'[i].host = nick[c]
        BY <1>5 DEF NewGame
      <3>3. UNCHANGED nick
        BY DEF addGame
      <3> QED
        BY <1>5, <3>1, <3>2, <3>3 DEF HostedBy
    <2>2. games'[i].name = name[c] /\ games'[i].started = FALSE
      BY <1>5 DEF NewGame
    <2> QED
      BY <2>1, <2>2 DEF NoticeOf
  <1>7. \A u \in Nicks \ {nick[c]} : NoticeOf(u)' = NoticeOf(u)
    <2> SUFFICES ASSUME NEW u \in Nicks \ {nick[c]} PROVE NoticeOf(u)' = NoticeOf(u)
      OBVIOUS
    <2>1. games'[i].host = nick[c]
      BY <1>5 DEF NewGame
    <2> QED
      BY <1>1, <1>5, <2>1, NoticeKept DEF Listed
  <1>8. UNCHANGED <<taken, nick>>
    BY DEF addGame
  <1> QED
    BY <1>2, <1>3, <1>6, <1>7, <1>8 DEF Announced!PutUp

\* remGame, by onGameRem or quit().
LEMMA TakingOff ==
    ASSUME GamesInv, GamesInv', NEW i \in Ids, Listed(i), remGame(i), UNCHANGED taken
    PROVE  games[i].host \in Nicks /\ Announced!TakeOff(games[i].host)
  <1>0. PICK h \in Nicks : h = games[i].host
    BY NoticeIsGame
  <1>1. h \in taken /\ h \in Nicks /\ NoticeOf(h) \in Announced!Notice
    BY <1>0, NoticeIsGame
  <1>2. ~Listed(i)' /\ \A j \in Ids \ {i} : games'[j] = games[j]
    BY DEF remGame, GamesInv, TypeOK, Listed
  <1>3. \A j \in Ids \ {i} : Listed(j) => games[j].host # h
    BY <1>0 DEF GamesInv, OneGamePerHost
  <1>4. NoticeOf(h)' = NoGame
    <2>1. HostedBy(h)' = {}
      BY <1>2, <1>3 DEF HostedBy, Listed
    <2> QED
      BY <2>1 DEF NoticeOf
  <1>5. \A u \in Nicks \ {h} : NoticeOf(u)' = NoticeOf(u)
    BY <1>0, <1>2, NoticeKept DEF Listed
  <1> QED
    BY <1>0, <1>1, <1>4, <1>5 DEF Announced!TakeOff

LEMMA Beginning ==
    ASSUME GamesInv, GamesInv', NEW c \in Clients, onGameStart(c)
    PROVE  [Announced!Next]_(Announced!vars)
  <1>1. UNCHANGED taken
    BY DEF onGameStart
  <1>2. CASE myGame[c] = NoGame
    <2>1. \A j \in Ids : games'[j] = games[j]
      BY <1>2, GameNoneAssumption DEF onGameStart
    <2>2. \A u \in Nicks : NoticeOf(u)' = NoticeOf(u)
      BY <2>1, NoticeKept DEF Listed
    <2> QED
      BY <1>1, <2>2 DEF Announced!vars
  <1>3. CASE myGame[c] # NoGame
    <2>1. PICK i \in Ids : i = myGame[c] /\ Listed(i)
      BY <1>3 DEF GamesInv, TypeOK, GamesAreOwned, Holds
    <2>2. games[i] \in Game
      BY <2>1 DEF GamesInv, TypeOK, Listed
    <2>3. /\ games'[i].name = games[i].name /\ games'[i].host = games[i].host
          /\ games'[i].started = TRUE
          /\ \A j \in Ids \ {i} : games'[j] = games[j]
      BY <2>1, <2>2 DEF onGameStart, Game
    <2>4. Listed(i)'
      <3>1. [games[i] EXCEPT !.started = TRUE] \in Game
        BY <2>2 DEF Game
      <3>2. games'[i] = [games[i] EXCEPT !.started = TRUE]
        BY <2>1 DEF onGameStart
      <3> QED
        BY <3>1, <3>2, NullAssumption DEF Listed
    <2>h. PICK h \in Nicks : h = games[i].host
      BY <2>1, NoticeIsGame
    <2>5. /\ h \in taken /\ h \in Nicks /\ NoticeOf(h) \in Announced!Notice
          /\ NoticeOf(h) = [name |-> games[i].name, started |-> games[i].started]
      BY <2>1, <2>h, NoticeIsGame
    <2>6. NoticeOf(h)' = [name |-> games[i].name, started |-> TRUE]
      <3>1. HostedBy(h)' = {i}
        BY <2>1, <2>3, <2>4, <2>h DEF GamesInv, OneGamePerHost, HostedBy, Listed
      <3> QED
        BY <2>3, <3>1 DEF NoticeOf
    <2>7. \A u \in Nicks \ {h} : NoticeOf(u)' = NoticeOf(u)
      BY <2>3, <2>4, <2>h, NoticeKept DEF Listed
    <2>8. Announced!Begin(h)
      <3>1. NoticeOf(h)' = [NoticeOf(h) EXCEPT !.started = TRUE]
        <4> DEFINE q == [NoticeOf(h) EXCEPT !.started = TRUE]
        <4>1. q \in [name : Names, started : BOOLEAN]
          BY <2>5 DEF Announced!Notice
        <4>2. q.name = games[i].name /\ q.started = TRUE
          <5>1. NoticeOf(h) \in [name : Names, started : BOOLEAN]
            BY <2>5 DEF Announced!Notice
          <5>2. NoticeOf(h).name = games[i].name
            BY <2>5
          <5> QED
            BY <5>1, <5>2
        <4> HIDE DEF q
        <4>3. q = [name |-> games[i].name, started |-> TRUE]
          BY <4>1, <4>2
        <4> QED
          BY <2>6, <4>3 DEF q
      <3> DEFINE B == [u \in Nicks |-> NoticeOf(u)]
      <3>2. B' = [B EXCEPT ![h] = [@ EXCEPT !.started = TRUE]]
        <4>1. B[h] = NoticeOf(h)
          OBVIOUS
        <4>2. B' = [u \in Nicks |-> NoticeOf(u)']
          OBVIOUS
        <4> HIDE DEF B
        <4>3. B = [u \in Nicks |-> NoticeOf(u)]
          BY DEF B
        <4> QED
          BY <2>7, <3>1, <4>1, <4>2, <4>3
      <3> QED
        BY <1>1, <2>5, <3>2 DEF Announced!Begin
    <2> QED
      BY <2>5, <2>8 DEF Announced!Next
  <1> QED
    BY <1>2, <1>3

\* playerLeft changes players only.
LEMMA LeavingTakesNothingOff ==
    ASSUME GamesInv, GamesInv', NEW c \in Clients, quit(c)
    PROVE  UNCHANGED Announced!vars
  <1>1. \A j \in Ids : /\ Listed(j)' <=> Listed(j)
                       /\ Listed(j) => /\ games'[j].host = games[j].host
                                       /\ games'[j].name = games[j].name
                                       /\ games'[j].started = games[j].started
    <2> SUFFICES ASSUME NEW j \in Ids
                 PROVE  /\ Listed(j)' <=> Listed(j)
                        /\ Listed(j) => /\ games'[j].host = games[j].host
                                        /\ games'[j].name = games[j].name
                                        /\ games'[j].started = games[j].started
      OBVIOUS
    <2>1. CASE j = myGame[c] /\ Listed(j)
      <3>1. games[j] \in Game
        BY <2>1 DEF GamesInv, TypeOK, Listed
      <3>2. games'[j] = [games[j] EXCEPT !.players = @ \ {nick[c]}]
        BY <2>1 DEF quit, playerLeft
      <3>3. [games[j] EXCEPT !.players = @ \ {nick[c]}] \in Game
        BY <3>1 DEF Game
      <3> QED
        BY <2>1, <3>1, <3>2, <3>3, NullAssumption DEF Game, Listed
    <2>2. CASE ~(j = myGame[c] /\ Listed(j))
      BY <2>2 DEF quit, playerLeft, Listed
    <2> QED
      BY <2>1, <2>2
  <1>2. \A u \in Nicks : NoticeOf(u)' = NoticeOf(u)
    BY <1>1, NoticeKept
  <1>3. UNCHANGED taken
    BY DEF quit
  <1> QED
    BY <1>2, <1>3 DEF Announced!vars

LEMMA BoardInit == Init => Announced!Init
  BY NoNotice DEF Init, Fresh, Announced!Init, Listed

\* Every step of Games is one of Board, or none.
LEMMA BoardStep == GamesInv /\ GamesInv' /\ [Next]_vars => [Announced!Next]_(Announced!vars)
  <1> SUFFICES ASSUME GamesInv, GamesInv', [Next]_vars
               PROVE  [Announced!Next]_(Announced!vars)
    OBVIOUS
  <1>1. ASSUME NEW c \in Clients, NEW u \in Nicks, onLogin(c, u)
        PROVE  Announced!Next
    BY <1>1, SigningIn DEF Announced!Next
  <1>2. ASSUME UNCHANGED <<games, taken>>
        PROVE  UNCHANGED Announced!vars
    BY <1>2 DEF Announced!vars, NoticeOf, HostedBy, Listed
  <1>3. ASSUME NEW c \in Clients, NEW n \in Names, onGameIns(c, n) \/ onGameInfo(c, n)
        PROVE  UNCHANGED Announced!vars
    BY <1>2, <1>3 DEF onGameIns, onGameInfo
  <1>4. ASSUME NEW c \in Clients, Leave(c) \/ onGameLst(c) \/ Answer(c)
        PROVE  UNCHANGED Announced!vars
    BY <1>2, <1>4 DEF Leave, onGameLst, Answer
  <1>5. ASSUME NEW c \in Clients, onGameRem(c)
        PROVE  [Announced!Next]_(Announced!vars)
    <2>1. CASE myGame[c] = NoGame
      BY <1>2, <1>5, <2>1 DEF onGameRem
    <2>2. CASE myGame[c] # NoGame
      <3>1. myGame[c] \in Ids /\ Listed(myGame[c])
        BY <2>2 DEF GamesInv, TypeOK, GamesAreOwned, Holds
      <3> QED
        BY <1>5, <2>2, <3>1, TakingOff DEF onGameRem, Announced!Next
    <2> QED
      BY <2>1, <2>2
  <1>6. ASSUME NEW c \in Clients, quitRemoves(c)
        PROVE  Announced!Next
    <2>1. found[c] \in Ids /\ Listed(found[c])
      BY <1>6 DEF quitRemoves, GamesInv, PlacesInv
    <2> QED
      BY <1>6, <2>1, TakingOff DEF quitRemoves, Announced!Next
  <1>7. ASSUME NEW c \in Clients, onGameStart(c)
        PROVE  [Announced!Next]_(Announced!vars)
    BY <1>7, Beginning
  <1>8. ASSUME NEW c \in Clients, addGame(c)
        PROVE  Announced!Next
    BY <1>8, PuttingUp DEF Announced!Next
  <1>9. ASSUME NEW c \in Clients, quit(c)
        PROVE  UNCHANGED Announced!vars
    BY <1>9, LeavingTakesNothingOff
  <1>10. ASSUME NEW c \in Clients, quitDisconnects(c)
         PROVE  [Announced!Next]_(Announced!vars)
    BY <1>2, <1>10, SigningOut DEF Announced!Next
  <1>11. CASE Restart
    <2>1. taken' = {} /\ \A i \in Ids : games'[i] = NoGame
      BY <1>11 DEF Restart, Fresh
    <2>2. \A u \in Nicks : NoticeOf(u)' = NoGame
      BY <2>1 DEF NoticeOf, HostedBy, Listed
    <2>3. Announced!Wipe
      BY <2>1, <2>2 DEF Announced!Wipe
    <2> QED
      BY <2>3 DEF Announced!Next
  <1>12. CASE UNCHANGED vars
    BY <1>2, <1>12 DEF vars
  <1> QED
    BY <1>1, <1>3, <1>4, <1>5, <1>6, <1>7, <1>8, <1>9, <1>10, <1>11, <1>12 DEF Next

\* The games implement Board: a user's game is off the board before its row says that
\* it has left (quit() in client.cpp), and nobody signs in with one still up.
THEOREM GamesImplementBoard == Spec => BoardIsKept
  BY BoardInit, BoardStep, GamesInvariance, PTL DEF Spec, BoardIsKept, Announced!Spec
=============================================================================
