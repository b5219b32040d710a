--------------------------- MODULE MCResultRanking ---------------------------
(* An instance of ResultRanking for TLC. *)
EXTENDS ResultRanking

CONSTANTS u1, u2, u3, u4

\* Three pages of one site and one of another; the works of u3 and u4 are one.
Hosts == [u \in Urls |-> IF u = u4 THEN "b" ELSE "a"]

Works == {<<u, u>> : u \in Urls} \cup ({<<u3, u4>>, <<u4, u3>>} \cap (Urls \X Urls))

\* A page whose text fits, with an image, and one whose image fits.
Found == {[score |-> 2, quality |-> 0, image |-> TRUE],
          [score |-> 1, quality |-> 1, image |-> FALSE]}

Symmetry == Permutations({u1, u2})
=============================================================================
