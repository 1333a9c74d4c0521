------------------------------- MODULE MCChat -------------------------------
(***************************************************************************)
(* Constants for model-checking Chat: the system administrator and a user  *)
(* Ann, whose nickname is spelled in two cases; the default channel and    *)
(* another one, den, of which den' is the spelling with an accent.         *)
(***************************************************************************)
EXTENDS Chat, TLC

CONSTANTS c1, c2, home, md5

MCNicks == {"pompei", "ann", "Ann"}
MCKeys == {"pompei", "ann"}
MCRows == {"Pompei", "Ann"}

MCKeyOf == [n \in MCNicks |-> IF n = "Ann" THEN "ann" ELSE n]
MCRowOf == [n \in MCNicks |-> IF n = "pompei" THEN "Pompei" ELSE "Ann"]

\* The name den' is a channel of its own but has the row of den.
MCNames == {"main", "den", "den'"}
MCRecords == {"Main", "Den"}
MCRecordOf == [n \in MCNames |-> IF n = "main" THEN "Main" ELSE "Den"]

MCAddrOf == [c \in Clients |-> home]

\* All connections come from one address: they are interchangeable.
Symmetry == Permutations(Clients)

\* The other spelling of Ann, the accent and the second motto are looked at one at a
\* time, each with everything else that may happen.
Spelled ==
    \/ \E c \in Clients : nick[c] = "Ann"
    \/ \E n \in Names : Exists(n) /\ "Ann" \in channels[n].ops \cup {channels[n].admin}
    \/ \E r \in Records : rows[r] # NoRow /\ rows[r].admin = "Ann"

Accented ==
    \/ Exists("den'")
    \/ \E r \in Records : rows[r] # NoRow /\ rows[r].name = "den'"

Ruled ==
    \/ \E n \in Names : Exists(n) /\ channels[n].motto = "rules"
    \/ \E r \in Records : rows[r] # NoRow /\ rows[r].motto = "rules"

OneAtATime ==
    ~(Spelled /\ Accented) /\ ~(Accented /\ Ruled) /\ ~(Spelled /\ Ruled)
=============================================================================
