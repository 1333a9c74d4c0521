# The Arkana-FTS master server in TLA+

The master server (C++, `src/`) lets players log in, chat in channels and
announce games. Every connection is served by a detached thread; all threads
share one MySQL connection; the web site and a cron job call the same stored
functions on the same tables. This directory holds a specification of the parts
that carry the server's own logic, the TLC configurations that check it on small
instances, and proofs of its main invariants for every instance.

## Inventory

| Part | State | Operations | Talks to |
|---|---|---|---|
| Client (`client.cpp`) | nickname, hash, logged-in flag, pointers to channel and game, connection | one handler per packet, `run`, `quit` | everything below |
| ClientsManager (`ClientsManager.cpp`) | map from lower-case nickname to Client | `add`, `remove`, `find` | clients, for whispers and notifications |
| Channel (`channel.cpp`) | ID, name, motto, admin, operators, users | `join`, `quit`, `op`, `deop`, `kick`, `setMotto`, `save`, `destroyDB`, destructor | clients, data base, channel manager |
| ChannelManager (`ChannelManager.cpp`) | list of channels | `init`, `loadChannels`, `createChannel`, `removeChannel`, `findChannel`, destructor | channels, data base |
| DataBase (`db.cpp`) | MySQL connection, recursive mutex | `query`/`free` around every public method | SQL server |
| SQL (`sql/create.sql`) | `users`, `channels`, `channelOps` | `connect`, `disconnect`, `init`, `kick_inactive`, `channelCreate`, `channelAddOp`, `channelDestroy` | also the web site |
| Games (`game.cpp`, `GameManager.cpp`) | list of games, players of a game | `addGame`, `remGame`, `findGame`, `start` | clients |
| Statistics (`Server.cpp`) | counters of players, games, packets | `addPlayer` ... `addStats`, `clearStats` | clients |
| Lifecycle (`main.cpp`) | lock file, exit flag, threads | start, daemon, signals, command line, shutdown | managers |
| Thumbnails, options, singleton, hashes, build, tests | - | sequential helpers | - |

What makes each part correct:

- *Client and ClientsManager:* a session is recorded in the table while it lasts and
  no longer, a user has one at a time, and the manager finds all sessions and nothing
  else.
- *Channel and ChannelManager:* lists of users and pointers of clients agree, nobody is
  in a channel that was destroyed, rights are held by those present, and a channel that
  was created has a row, which keeps its owner. Operators and mottos do not all get there.
- *DataBase:* a thread reads its own results only, and the mutex is released after
  every call, which it is not when a stored function fails.
- *SQL functions:* one place of a user is entered and left without harm to the other.
- *Games:* a game is held by one client, is deleted once, ends with the session of its
  host. Its name is not always its own: `onGameIns` looks for the name and adds the game
  in two calls.
- *Statistics:* counters show what they count. The counters of players and games do
  not: only the tests call `addPlayer` and `addGame`, the commands `nplayers` and `ngames`
  always print 0.
- *Lifecycle:* one server at a time, which `-k` finds, and which ends when told to. Only
  the listeners are waited for then; the threads of clients are detached and may outlive
  the managers they use, although the log says otherwise.

What is hard in this code:

- *One fact, several records.* A session is a flag and a nickname in the Client, an
  entry of the ClientsManager, and a bit and an address in a row of `users`. A
  membership is a pointer of the Client and an element of a list of the Channel. A
  channel is an object, a row, and the ID that links them. Each handler updates
  them one after the other, and they must agree.
- *Names.* Nicknames are compared exactly (rights, kicks), as lower-case keys
  (ClientsManager, quota) and under the collation of the table (SQL), which folds
  accents as well as case; names of channels without regard to case by the server, and
  under the collation by the table.
- *Crashes and restarts.* The tables survive, the objects do not.
- *The environment.* The web site logs the same users in and out of the same rows; a
  client may log in again during a session, or change its password.
- *Locks.* `query()` locks and `free()` unlocks; every path between has to reach it.
  One does not, and what a stored function that failed leaves locked is locked for good.
- *Threads.* Pointers found under a mutex are used after it is unlocked, and what was
  looked for may be there when it is added.
- *Processes.* A lock file is tested, written and deleted by several of them.

`PROJECT.json` lists the hazards line by line with the properties that would catch
them, the components that are not modelled and why, and the source lines of every
definition.

## The modules

| Module | Models | Extends |
|---|---|---|
| `Sessions` | Client (session part), ClientsManager, table `users` and its stored functions, the web site, start and end of the process | - |
| `Chat` | Channel, ChannelManager, chat handlers, tables `channels` and `channelOps` | `Sessions` |
| `DataBase` | the mutex, `query`, `free`, the shared connection | - |
| `Games` | Game, GameManager, the game handlers and the game part of `quit()`, in steps | - |
| `Lifecycle` | `main.cpp`: lock file, daemon, `-k`, listeners, order of the shutdown | - |
| `ChatSteps` | the chat handlers of several threads cut at the mutexes of manager, channels and data base, with deleted objects | - |
| `Rooms` | what the chat promises its users; `Chat` implements it | - |
| `Board` | what the announced games promise; `Games` implements it | - |
| `MCSessions`, `MCChat`, `MCChatSteps` | the small instances | |
| `Sessions_proof`, `Chat_proof`, `ChatRooms_proof`, `ChatSteps_proof`, `ChatPlaces_proof`, `DataBase_proof`, `Games_proof`, `Lifecycle_proof` | the proofs | |

Definitions that begin with "A bug:" in their comment are plausible mistakes. They
are not used by the specifications: each one, put in the place of the definition it
stands before, breaks the property named for it in `PROJECT.json`, which shows that
the property depends on what the code does.

### Sessions

`nick`, `pass`, `loggedIn` are the members of a Client; `conn` says whether its thread
serves it, has left its loop, or does not exist; `clients` is the map of the
ClientsManager; `users` is the table. The column `logged_in_where` is a bit mask and
becomes a set of places: `|` is union and `^` symmetric difference, which is not the
same as removal. Actions: `Accept`, `onLogin` (accepted or refused), `onLogout`, `Drop`
(the peer is gone), `Finish` (the `quit()` at the end of `run()`), `onPlayerSet` for the
password, `SiteConnect` and `SiteDisconnect` (the web site and `kick_inactive`), `Halt`
and `Start` (with the stored procedure `init`).

The constant `Deviations` turns on what the environment does beyond one plain login
per session: `"relogin"`, `"site"`, `"password"`. Some properties hold whatever it does,
some only without it, and the runs say which.

### Chat

`channels[n]` is the Channel object of that name or none, `members[n]` its list of
users, `myChannel[c]` the pointer of the client. The server compares names by `ieq`, so that
`Names` has one member for all cases of a name; the table takes names for the same that
differ by accents too, hence `rows[r]`, the row with its operators, is indexed by
`RecordOf[n]` and has the name it was created with. The field `stored` says whether
`m_iID` is set: only channels read at the start have one, because `channelCreate`'s ID is
dropped. `Saved` therefore creates or updates, never both, and creates nothing when the
table has the name, as `channelCreate` then answers -1 to nobody; `destroyDB` answers for a
channel without an ID without asking the table. Actions are the handlers with everything
they call, the session actions with what they do to channels (`LeaveChannel` inside
`quit()`), `Crash` (a handler that uses a null pointer), `Shutdown` (the destructor of the
manager saves all channels, and does not come to its end if there are users in them) and
`StartChat` (`ChannelManager::init`). Left out: texts of messages, the flag `public` and the
column `location`.

What the table and the memory agree on is said by three properties.
`CreatedChannelsAreSaved`: a channel of a user is in the table from its creation on, or not
at all, and the latter only if the table took its name for another one's.
`RowsKeepTheirOwners`: a row keeps its name and admin, whatever is created, saved and
destroyed under names that the table takes for the same, until its admin destroys it.
`StoredChannelsMatchRows`: a channel that was loaded has the motto and admin of its row, and
its operators are among those of the row. Where they do not agree:

- a channel whose name differs from another one's by an accent is created, but has no row
  (`ChannelManager.cpp:128`, "Update the database right now!");
- a motto or an operator of a channel created since the start is not stored until the next
  one (`channel.cpp:93`), and an operator that was deopped stays in the table
  (`channel.cpp:184`, below the comment "Store the changes in the database");
- a spelling of a nickname with another accent is the same user in the table, and has a
  quota of its own (`ChannelManager.cpp:114`); `QuotaIsKept` is about case only.

### Rooms

`Rooms` knows no lists, pointers, tables or objects: everybody has a name or none and is
in one room or nowhere, a room has an owner while it is open, and operators. Its steps
say what users may rely on: who signs out is nowhere, who is somewhere is in an open
room, a room with people in it closes only by moving all of them to the lobby, and only
the owner, present, changes the operators. `Room` in `Chat` maps `name` to the nicknames,
`where` to the *lists of users* (not to the pointers), `owner` and `ops` to the objects, and
`RoomsAreKept` is the implementation. As handlers read the pointers and the mapping the
lists, this fails as soon as one of the two records is forgotten. Who may close a room is
not part of it: the code keeps no promise about that (`anyone_destroys`).

### ChatSteps

`Chat` again, cut where another thread may come in. `chans[a]` is the Channel at an address,
or `Freed`; `listed` is the list of the manager; `manager`, `mutex[a]` and `db` are the
mutexes; `pc[c]`, `found[c]`, `at[c]`, `held[c]`, `wanted[c]` are where the thread of a client
is and the pointers and names it keeps. A section that locks one mutex and unlocks it
is one step; where a second mutex is asked for inside (`save` inside `createChannel`,
`destroyDB` and the kicks of the destructor inside `removeChannel`), it is several. The
operators are as many as their steps, grouped by handler: `JoinSteps`, `SaveSteps`,
`KickSteps`, `DestroySteps`, `OtherSteps`. A thread that follows a pointer to a deleted object
is undefined behaviour in the code; `dead` then says so and the process is over, until
it is started again. A start makes the system channels and loads any channels of any users
(`AtStart`), as `loadChannels` does not count. `torn` is a history variable: the clients two
handlers have worked on at once. Contents of channels other than users, owner and ID are
left open: whether a kick or a change of motto is allowed is a choice.

`leaked` is the mutex of the data base after a stored function failed: `Leaks`, beside
`Unlocks`, in every step in which one is called (saving, destroying, logging out) and in
`onSignup`. The thread itself goes on and may use the data base, as the mutex is recursive;
once it has ended the mutex belongs to `Ended`, and everybody else who comes to the data
base waits for ever.

What it shows: nothing the threads do brings the manager to list a deleted channel, or an
owner to come to more channels than allowed; a start may load more, and then nobody adds to
them (`QuotaHolds`). Threads wait for each other in a circle only if one in it keeps the
data base after such a failure (`NoCircle`): it then waits for a channel whose thread waits
in `save()` for the data base. The promises of `Chat` about membership
(`MembershipSettles`) and about pointers (`NothingDangles`) hold for every client until two
handlers overlap on it, and then they may fail: `ghosts` is such a behaviour. Both are
proved for any number of clients.

### DataBase

A thread goes through `Lock`, the query, `Fetch` for stored functions, and `Free`; the
kinds of call differ in what they do when the query fails. `depth` counts how often the
recursive mutex is locked, `leaks` the stored functions that failed, each of which leaves it
locked once more; `MaxDepth` bounds how often one thread does that. `LocksAreBalanced` says
that there is no other way to leave it locked, or to unlock it twice. `unread` says whose
results are on the connection. A lost server ends the process (`exit(0)`), and the free of an
uninitialised pointer may.

### Games

A handler is cut wherever it calls the GameManager a second time, as the mutex is
released in between: `onGameIns` / `addGame`, `onGameInfo` and `onGameLst` / `Answer`, and
`quit` / `quitRemoves` / `quitDisconnects`. `games[i]` is the Game at the address `i`, or
none; an address is used again after a deletion, so that a stale pointer may reach
another game. `taken` is what `Sessions` proves of the logins: a user that is marked in
the table cannot log in. The handlers that answer an error close the connection
(they return false), hence their step to `"leave"`. The `disconnect` at the end of `quit()` may
fail, and the user then stays marked. Left out: the data of the map, the
order of the list, and three test players that every game is created with.

What the steps show beyond the properties: `onGameInfo` may use a game that its host
has deleted since `findGame`, and `onGameLst` may announce a count that is not the
number of entries that follow. A client that logs in again under another name and
then leaves abandons its game, because `quit()` looks for games under the new name.

### Board

`Board` is a board with one place per user, and knows no objects, threads or pointers. A user
signs in and out with an empty place only, puts up one game at a time, while signed in, and
a game that has begun keeps its name. `Announced` in `Games` maps `playing` to the users that
are marked in the table and `board` to the games found by their host (`NoticeOf`). That
`BoardIsKept` holds is what makes the search by nickname in `quit()` right: as the place of a
user is empty whenever the user comes or goes, what is found there is of this session, although
the removal is cut in two, and although second logins abandon games. Two games may have one
name, as in the code.

### Lifecycle

`pc[p]` is where `main()` of the process `p` is; `lock` is the file, absent, empty or with a
number; `seen` is what a `-k` has read but not acted upon. Only `daemonize` writes a
number, so the file of a server without `-d` stays empty, and a `-k` then deletes the file of
a running server. Of what the process serves stays what its end waits for: `listening[p]`,
`serving[p]` (threads of clients), `chatting[p]` (users in channels) and `leaked[p]` (the mutex of
the data base). Listeners are joined; a listener that cannot open its socket returns at once.
Then `~ChannelManager` stores all channels (`saveChannels`), for ever if the mutex is leaked,
and deletes them (`deleteChannels`): the destructor of a channel kicks its users until there
are none, and out of the default channel they come back into it, so that it waits for them to
leave. Clients go on meanwhile, as nobody waits for their threads: they enter channels as long
as the manager exists, and when they use one that is gone, that is a `Crash`.
`StopIsHeard` excepts the two waits, and says that there is no third. `Wait` does not look at
`g_bExit`, and `SpuriousWake` is the return of a wait that has no predicate. The
constant `Deviations` says what the operator does beyond one careful thing at a time:
`"overlap"`, `"blind"`, `"early"`. With `"overlap"` or `"blind"` two servers may
run (`OneServer` fails), with `"early"` a signal is lost that comes before the wait
(`StopIsHeard` fails): `cvExit.wait` at `main.cpp:269` has no predicate.

### Grain

In `Sessions` and `Chat` a handler is one step; in `ChatSteps`, `DataBase`, `Games` and
`Lifecycle` the steps are those between which another thread or process may come in. The
stored functions are one step everywhere, as a statement on MyISAM tables holds its
locks until the functions it calls have returned. `Chat` says what a handler does with
every column and right, `ChatSteps` how far that survives the windows in which a pointer
is used after its mutex was released.
`Sessions` and `Chat` have no step for a thread that waits for a leaked data base: such a
handler is one that is not taken, which is why they claim that nothing wrong happens and
never that a handler comes to its end.

## The runs

| Run | Instance | Shows |
|---|---|---|
| `sessions` | 3 clients, 2 of one address; 4 spellings of 2 users, one differing by an accent; 2 hashes; all deviations | `TypeOK`, `SessionsAreRecorded`, `OneSessionPerUser`, `SessionsAreFound` |
| `sessions_plain` | the same without deviations | `OnlySessionsAreFound`, `NobodyIsLockedOut` |
| `chat` | 2 clients, the system administrator and a user with two spellings, the default channel and another in two spellings that are one name to the table, 2 mottos, a quota of 1; the second spelling, the accent and the second motto one at a time (constraint `OneAtATime`) | all properties of `Chat` that hold, and that it implements `Rooms` |
| `chat_steps` | 2 clients, 3 addresses, 3 names, a quota of 1, within the constraint `Bound` | all properties of `ChatSteps` that hold |
| `data_base` | 3 threads, 4 kinds of call, of which the server may refuse each, 3 locks of one thread at most | the protocol of the mutex with leaks, and that it stalls after a leak only |
| `games` | 2 clients, 3 nicknames, 2 names, 3 addresses, second logins, with fairness | all properties of `Games` that hold, and that it implements `Board` |
| `lifecycle` | 3 processes started in 3 ways, a careful operator, with fairness | one server, named daemons, and a server told to stop does unless a client keeps the data base or users stay in the default channel |
| `lockout` | site logins | `NobodyIsLockedOut` fails |
| `ghosts` | as `chat_steps`, 2 names | `MembersExist` fails |
| `operators_lost`, `anyone_destroys` | as `chat`, one motto | what comments promise and the code does not do |
| `data_base_leak` | with `signup`, no other function refused | `LockIsReleased` fails |

Why the bounds are enough. Three clients let one log in while a second holds the user's
session and a third ends; two users are needed to tell rows apart and three
spellings of one to tell the exact, lower-case and collated comparisons apart. In the
chat two clients are an actor and a victim, or two spellings of one owner; a quota of
one is reached by the second channel, and with the default channel destroyed and
created again one user can own both. The third name is `den` with an accent: a channel
beside the one it has the row of. In the games two threads are enough for one to
come into a gap of the other, three nicknames let one of them log in twice while the
other is logged in, and with three addresses (no more than one game per nickname)
no announcement ever lacks room. In `chat_steps` two threads are enough for every pair of
handlers to overlap, one more channel than names lets two of one name come about and a
destroyed one be pointed to while its successor is made. The third name is for a start
that loads two channels of one user, more than the quota. `Bound` does not follow states in
which both clients are torn, or one is and the data base is leaked, as the properties about
single clients say little there; those with a third channel once the data base is leaked or
somebody is torn; and starts after any death but that of one client that is alone, as a start
forgets everything that was before. Everything this run shows is proved without the cut,
for any number of clients. Three processes are a server that died, one that
runs and one that tries to start. Two mottos make a change visible. For the
properties that are proved, no bound matters. Symmetry is used where the clients have
one address, and only in runs without liveness.

Chat is checked without the deviations; the theorems about it hold with them.

Deadlock is checked where the code promises that there is none: a dead server can always
start again, and a process that has exited (`DataBase`) stutters explicitly. It is not
checked in `chat_steps`, `ghosts` and `data_base`, where a client may keep the mutex of the
data base and all others, with their mutexes, wait for it: then the system really stops.
What can be said against that is `NoCircle` and `NeverStalls`.

### What the violations say

- `lockout`: `users` has one column `ip` for two places. When the web site logs the user
  in from another address, `disconnect` of the game finds no row, the bit of the game
  stays, and `connect` refuses the user until the server restarts. Changing the password
  in a session has the same effect, and a second login in one session leaves the first
  user in that state.
- `operators_lost`: `loadChannels` calls `op()` without its second argument, so operators
  are refused as absent.
- `anyone_destroys`: `destroyDB` answers OK to everybody when the channel has no ID.
- `ghosts`: `kick()` finds the user under the mutex of the channel and moves it to the
  default channel after it; if the user's thread is in `quit()` meanwhile, the Client is
  deleted while it is in a list of users.
- `data_base_leak`: `storedFunctionInt` does not call `free()` when its query failed, and
  `signup` calls a function with the wrong number of arguments, so it always fails.

## Fairness

`NeverStalls` needs weak fairness of the steps of a thread inside a call: mutex, query, fetch
and free. It says that threads stall only after a stored function failed.
`LeaversGamesEnd` needs weak fairness of the steps of `quit()` up to the removal of the
games, which take the mutex of the GameManager only and hold it for that step; the
`disconnect` that follows may wait for a leaked data base for ever, and nothing is assumed of
it. That a session whose connection broke ends in the table cannot be claimed for the same
reason. `StopIsHeard` needs weak fairness of the listeners, which test `g_bExit` every second,
and of `main()` after its wait and its joins; what `main()` waits for in the destructors is in
the guards, and nothing is assumed of the wait itself. No fairness is assumed of clients, of
the web site, or of the life of the process. No strong fairness is assumed of the mutex, hence
`NeverStalls` says that somebody goes on, not that everybody does.

## The proofs

Most are invariance proofs with an inductive strengthening, one lemma per action; two
show that a module implements an abstract one.

- `Sessions_proof`. `SessionsInv` joins the type invariant, `SessionData` (a logged-in
  Client has a nickname, a hash and a running server) and the three safety properties.
  They need each other: a login is accepted only when no session of that row is
  recorded (`SessionsAreRecorded`), so the new one is the only one (`OneSessionPerUser`),
  so `add` overwrites no live entry (`SessionsAreFound`, by the assumption that equal
  keys select equal rows). That the site's logout does not erase the address of a user
  in the game is what `DisconnectRowType` says of `^`. `PlainInv` adds, under `Plain` (no
  deviation), that the row of a session has the address and the hash `disconnect` will be
  called with (`OwnRows`); so no `disconnect` fails, and no bit and no entry is left behind
  (`NobodyLockedOut`, `OnlySessionsFound`).
- `Chat_proof`. `ChatImplementsSessions` shows that every chat step is a step of the
  sessions or leaves them alone, so `SessionsInv` is inherited. `ChatInv` adds that lists
  and pointers agree, that non-empty channels exist, that members are logged in, and
  that rows match objects (`TablesInv`). `RowsKept` and `CreatedChannelsSaved` follow from it for each step
  (`SavedRows` says what `save()` does to one row, `OwnRowStays` that no row is dropped from
  under a channel). `MembersAreLoggedIn` is needed for `quit()`, which leaves the
  channel only if logged in; `ChannelsOfMembersExist` for the rights; and
  `NoChannelsWhenDown` for the start. `RightsHeld` is an action property: every step that
  changes a channel is one of the three handlers (`HandlersModify`).
  `QuotaAlwaysKept` counts: a step keeps all admins (`AdminsKept`), so the channels of
  anybody become a subset, or is a `JoinNew`, which adds one channel to an owner whose count,
  under any case of the nickname, was below the limit. It needs finitely many names.
- `ChatRooms_proof`. `ChatImplementsRooms`: initial states map to initial states and every
  step to a step of `Rooms` or a stutter. `PlaceIsPointer`, from `MembershipAgrees`, turns what
  handlers do to the lists into what they do to one place per client; `MembersAreLoggedIn`
  gives that who moves is known, `ChannelsOfMembersExist` that the room is open.
- `ChatSteps_proof`. `StepsInv` says where the thread is that holds each mutex (`LocksInv`),
  that the pointers a place needs are set (`LocalsInv`), that the channel a thread with the
  mutex of the manager is deleting is off the list (`ListInv`), and that the count that let a
  thread create is still below the limit (`QuotaInv`). `QuotaHolds` is about steps: a start may
  load any number, and only the thread of an owner adds to them. `NoCircle` follows from
  `LocksInv` (lemma `LocksAreRanked`): unless it has leaked it, who holds the data base waits
  for nobody, so nobody in a circle waits for the data base; then no holder of a channel is in
  it, and then none of the manager.
- `ChatPlaces_proof` says what `StepsInv` leaves out: where the clients are. `In(c)` are
  the channels that list `c`, `Home(c)` is the one its pointer names, if the client exists.
  `PlaceInv` says of a client that is not torn that the two agree while no handler changes
  it (`Changes`), and while one does, how far they differ (`Underway`): of a thread in `join`,
  `quit`, `kick` or the destructor, what it has done to the list and what it has yet to do to
  the pointer. `OverlapInv` says that the history `torn` misses nobody: a client that two
  threads change now is in it, and so is one that a thread changes while another destroys the
  channel it visits. `LiveInv` says that before anybody is torn a thread that keeps a pointer
  to a channel (`Visits`) has a live one, and `HolderInv` that the channel created or destroyed
  under the mutex of the manager is listed, and exists, for as long as that goes on.
  Then a step that follows a pointer follows a live one (`StepsAreSafe`), or somebody is
  torn: `NothingIsDangling`. A step that moves one client disturbs no other (`MovesOne`),
  and one that moves none keeps `PlaceInv` (`MovesNobody`), so that each of the step lemmas
  looks at one client, the one its handler works on. `MembershipsSettle` is `PlaceInv` when
  no handler changes the client. `GhostsAreTorn` is the limit of the finding `ghosts`:
  a deleted client stays in a list only if two handlers have worked on it at once.
- `DataBase_proof`. `DataBaseInv` says that a working thread owns the mutex and that
  unread results belong to a thread between `query` and `free`. It holds with leaks too: a
  leak blocks, it never mixes results. `LocksBalanced` accounts for every lock with calls of
  every kind and refusals of every kind, so that by `ReleasedUntilLeaked` the mutex is released
  after every call in each behaviour up to the first failure of a stored function.
- `Games_proof`. `GamesInv` adds to the properties that sessions have names of their
  own (`NicknamesInv`) and what a thread knows at each place (`PlacesInv`). The heart is
  `HostsHoldTheirGames`: with it a client that may announce a game has none under its
  name (`OneGamePerHost`), `quit()` finds just the game it has left (`HostsPlay`), and
  after the removal no game of that name is left when the user is marked as gone
  (`HostsAreTaken`). It holds with second logins. `GamesImplementBoard` maps every step to
  one of `Board` or a stutter. By `OneGamePerHost` the place of a user shows the game itself
  (`NoticeIsGame`); a step that leaves the games of a host alone leaves its place alone
  (`NoticeKept`); and a user has an empty place when it comes, by `HostsAreTaken`, and when it
  goes, by `HostsHoldTheirGames` (`NoGameOfMine`).
- `Lifecycle_proof`. `ThreadsInv` holds of any operator. `CarefulInv` says which process
  there is by what is in the lock file, and that what a `-k` has read stays true until
  it acts; it needs `Careful`, the absence of all deviations.

Assumptions on constants: equal keys imply equal rows; every name of a channel has one
record in the table; the "none" values are outside their sets; the default channel is a system channel; names of channels, and addresses in
`ChatSteps`, are finitely many. Each is a named `ASSUME` that TLC
evaluates too.

Only model-checked: the liveness properties (`NeverStalls`, `LeaversGamesEnd`,
`StopIsHeard`), which are outside of what TLAPS can do. Every invariant,
action property and implementation that a passing run checks is a theorem.

## Not modelled

- *Statistics:* the counters of players and games are never counted, and the sums of
  packets, which are added without the mutex, are only shown by the command `stats`.
- *Pictures of a map, options of the command line, singleton, hashes:* sequential code
  without state that two actors share. The wire format of packets and the answers they
  carry are left out for the same reason.
- *Accounts:* failed logins, online times, flags and the profile are columns that no
  decision of the server depends on, except that the fifth failed login is answered
  otherwise. `signup` appears as a call of the data base that never succeeds.
- *`DataBase::init`, `escape()`, `getError()`:* the first runs before any thread does, the
  others use the connection without the mutex but send nothing over it.
- *Test clients, unit tests, the data base builder (which is empty), build files.*
- *Three clients in `ChatSteps`* are beyond what TLC finishes in minutes; the theorems
  cover them.
