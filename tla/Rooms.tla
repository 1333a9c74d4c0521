-------------------------------- MODULE Rooms --------------------------------
(***************************************************************************)
(* What the chat promises its users, without lists, pointers, tables and   *)
(* packets: everybody is in one room at most, which is open; who leaves is *)
(* in none; when a room closes everybody in it comes to the lobby; and the *)
(* operators of a room are changed by its owner only, while he is in it.   *)
(* Chat implements it.                                                     *)
(*                                                                         *)
(* Who may close a room is not said: OnlyAdminsDestroy of Chat shows that  *)
(* the code keeps no promise about it.  To be kicked is a Move here, as    *)
(* the state does not tell who has moved somebody.                         *)
(***************************************************************************)
CONSTANTS
    People,      \* whoever may be in a room
    Nicks,       \* names of people
    Rooms,
    Lobby,       \* the room people come to from a room that closes
    Nowhere,     \* where people are that are in no room
    Nobody       \* the name of a stranger, the owner of a closed room

VARIABLES
    name,        \* name[p]: the name of p
    where,       \* where[p]: the room p is in
    owner,       \* owner[r]: the name of the owner of room r
    ops          \* ops[r]: names of the operators of r

vars == <<name, where, owner, ops>>

Open(r) == owner[r] # Nobody

In(r) == {p \in People : where[p] = r}

Known(p) == name[p] # Nobody

-----------------------------------------------------------------------------
\* A name is taken, and may be taken again for another one.
SignIn(p, n) ==
    /\ name' = [name EXCEPT ![p] = n]
    /\ UNCHANGED <<where, owner, ops>>

SignOut(p) ==
    /\ name' = [name EXCEPT ![p] = Nobody]
    /\ where' = [where EXCEPT ![p] = Nowhere]
    /\ UNCHANGED <<owner, ops>>

\* On his own, or kicked to the lobby.
Move(p, r) ==
    /\ Known(p)
    /\ Open(r)
    /\ where' = [where EXCEPT ![p] = r]
    /\ UNCHANGED <<name, owner, ops>>

OpenRoom(p, r) ==
    /\ Known(p)
    /\ ~Open(r)
    /\ owner' = [owner EXCEPT ![r] = name[p]]
    /\ ops' = [ops EXCEPT ![r] = {}]
    /\ where' = [where EXCEPT ![p] = r]
    /\ UNCHANGED name

Appoint(p, r, S) ==
    /\ p \in In(r)
    /\ name[p] = owner[r]
    /\ ops' = [ops EXCEPT ![r] = S]
    /\ UNCHANGED <<name, where, owner>>

Close(r) ==
    /\ Open(r)
    /\ In(r) # {} => r # Lobby /\ Open(Lobby)
    /\ owner' = [owner EXCEPT ![r] = Nobody]
    /\ ops' = [ops EXCEPT ![r] = {}]
    /\ where' = [p \in People |-> IF p \in In(r) THEN Lobby ELSE where[p]]
    /\ UNCHANGED name

\* The house closes, whoever is there, and opens again empty.
End ==
    /\ name' = [p \in People |-> Nobody]
    /\ where' = [p \in People |-> Nowhere]
    /\ owner' = [r \in Rooms |-> Nobody]
    /\ ops' = [r \in Rooms |-> {}]

Begin ==
    /\ \A r \in Rooms : ~Open(r) /\ In(r) = {}
    /\ owner' \in [Rooms -> Nicks \cup {Nobody}]
    /\ UNCHANGED <<name, where, ops>>

Init ==
    /\ name = [p \in People |-> Nobody]
    /\ where = [p \in People |-> Nowhere]
    /\ owner = [r \in Rooms |-> Nobody]
    /\ ops = [r \in Rooms |-> {}]

Next ==
    \/ \E p \in People : SignOut(p) \/ \E n \in Nicks : SignIn(p, n)
    \/ \E p \in People, r \in Rooms :
          \/ Move(p, r) \/ OpenRoom(p, r)
          \/ \E S \in SUBSET Nicks : Appoint(p, r, S)
    \/ \E r \in Rooms : Close(r)
    \/ End
    \/ Begin

Spec == Init /\ [][Next]_vars
=============================================================================
