---------------------------- MODULE MCPackageDir ----------------------------
(* Instances of PackageDir small enough for TLC. *)
EXTENDS PackageDir

CONSTANTS p1, p2, b1, b2, alice, bob

Owners   == [p \in {p1, p2} |-> IF p = p1 THEN alice ELSE bob]
Accounts == [b \in {b1, b2} |-> IF b = b1 THEN alice ELSE bob]
=============================================================================
