--------------------------- MODULE MCAccountStore ---------------------------
(* Instances of AccountStore small enough for TLC. *)
EXTENDS AccountStore, TLC

CONSTANTS s1, p1, d1, d2, q1, b1, home, secret

Deletions == Permutations({d1, d2})
=============================================================================
