----------------------------- MODULE MCFtsIndex -----------------------------
(* Instances of FtsIndex small enough for TLC. *)
EXTENDS FtsIndex, TLC

CONSTANTS s1, s2, hello, later

(* Needles that are a whole token of the texts they occur in. *)
Words == (hello :> {hello}) @@ (later :> {later})

Interchangeable == Permutations(Search)
=============================================================================
