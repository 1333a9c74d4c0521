-------------------------------- MODULE Board --------------------------------
(***************************************************************************)
(* What the announced games promise the players, without objects, pointers *)
(* and threads: a board with a place for one game of every user.  A user   *)
(* puts up a game while playing, and nobody takes part in a user's name    *)
(* before the game that was put up under it is off the board: the game of  *)
(* one session is never seen, or taken off, in the next.  Games implements *)
(* it.                                                                     *)
(*                                                                         *)
(* Two games may have one name, as in the code.                            *)
(***************************************************************************)
CONSTANTS
    Users,       \* names of players
    Titles,      \* names of games
    Empty        \* there is no game of this user

VARIABLES
    playing,     \* the users that are signed in
    board        \* board[u]: the game that u has put up

vars == <<playing, board>>

Notice == [name : Titles, started : BOOLEAN]

-----------------------------------------------------------------------------
\* A user signs in with an empty place on the board ...
SignIn(u) ==
    /\ u \notin playing
    /\ board[u] = Empty
    /\ playing' = playing \cup {u}
    /\ UNCHANGED board

\* ... and does not sign out before it is empty again.
SignOut(u) ==
    /\ u \in playing
    /\ board[u] = Empty
    /\ playing' = playing \ {u}
    /\ UNCHANGED board

PutUp(u, n) ==
    /\ u \in playing
    /\ board[u] = Empty
    /\ board' = [board EXCEPT ![u] = [name |-> n, started |-> FALSE]]
    /\ UNCHANGED playing

\* The game is marked as started, and keeps its name.
Begin(u) ==
    /\ u \in playing
    /\ board[u] \in Notice
    /\ board' = [board EXCEPT ![u] = [@ EXCEPT !.started = TRUE]]
    /\ UNCHANGED playing

TakeOff(u) ==
    /\ u \in playing
    /\ board[u] \in Notice
    /\ board' = [board EXCEPT ![u] = Empty]
    /\ UNCHANGED playing

\* The board is wiped, and everybody is signed out.
Wipe ==
    /\ playing' = {}
    /\ board' = [u \in Users |-> Empty]

Init ==
    /\ playing = {}
    /\ board = [u \in Users |-> Empty]

Next ==
    \/ \E u \in Users :
          \/ SignIn(u) \/ SignOut(u) \/ Begin(u) \/ TakeOff(u)
          \/ \E n \in Titles : PutUp(u, n)
    \/ Wipe

Spec == Init /\ [][Next]_vars
=============================================================================
