---------------------------- MODULE MCWebClient ----------------------------
(* Instances of WebClient small enough for TLC. *)
EXTENDS WebClient

CONSTANTS a1, a2, t1, t2, p1, p2
=============================================================================
