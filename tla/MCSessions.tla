----------------------------- MODULE MCSessions -----------------------------
(***************************************************************************)
(* Constants for model-checking Sessions: three spellings of the user Ann  *)
(* (one differs by an accent, which the collation of the table ignores and *)
(* toLower does not), one of the user Bob.                                 *)
(***************************************************************************)
EXTENDS Sessions, TLC

CONSTANTS c1, c2, c3, home, cafe, md5a, md5b

MCNicks == {"ann", "Ann", "ann'", "bob"}
MCKeys == {"ann", "ann'", "bob"}
MCRows == {"Ann", "Bob"}

MCKeyOf == [n \in MCNicks |-> IF n = "Ann" THEN "ann" ELSE n]
MCRowOf == [n \in MCNicks |-> IF n = "bob" THEN "Bob" ELSE "Ann"]

\* Three connections, two of them from one address.
MCAddrOf == (c1 :> home) @@ (c2 :> home) @@ (c3 :> cafe)

\* The clients from one address are interchangeable, and so are the hashes.
Symmetry == Permutations({c1, c2}) \cup Permutations({md5a, md5b})
=============================================================================
