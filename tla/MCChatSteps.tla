----------------------------- MODULE MCChatSteps -----------------------------
(***************************************************************************)
(* Constants for model-checking ChatSteps.                                 *)
(***************************************************************************)
EXTENDS ChatSteps, TLC

CONSTANTS c1, c2, a1, a2, a3

Symmetry == Permutations(Clients) \cup Permutations(Addrs)

\* With a third name a start may load more channels of a user than it may create.
Third ==
    \/ \E c \in Clients : wanted[c] = "pub"
    \/ \E a \in Addrs : Live(a) /\ chans[a].name = "pub"

\* Once the handlers of both clients have overlapped, or those of one have and the mutex
\* of the data base is leaked, little is promised any more, and the behaviours are not
\* followed further; those with a third channel, while neither is the case.  A start
\* forgets what was before: it is enough to follow it from the death of a client that
\* is alone.
Bound ==
    /\ Cardinality(torn) <= IF leaked \/ Third THEN 0 ELSE 1
    /\ Third => ~leaked
    /\ dead # "no" => torn = {} /\ ~leaked /\ Cardinality(alive) = 1
=============================================================================
