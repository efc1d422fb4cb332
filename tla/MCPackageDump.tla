--------------------------- MODULE MCPackageDump ---------------------------
(* Instances of PackageDump small enough for TLC. *)
EXTENDS PackageDump

CONSTANTS dump, client, photo, clip, film

Talkers == [m \in {1, 2, 3, 4} |-> IF m = 3 THEN 2 ELSE 1]
(* Message 1 may be older or newer than 2 by any of the three, or be moved. *)
When    == [m \in {1, 2, 3, 4} |-> IF m = 1 THEN {<<1, 0>>, <<1, 1>>, <<2, 0>>} ELSE {<<1, 1>>}]
Limits  == [r \in {dump, client} |-> IF r = dump THEN 2 ELSE 1]
(* Message 2 fills a shard of its own, message 4 and the film are too long  *)
(* for the reader.                                                          *)
Sizes   == [x \in Rows \cup {photo, clip, film} |->
              CASE x = photo -> 2 [] x = clip -> 4 [] x = film -> 7
                [] x \in Rows -> IF x.id = 2 THEN 5 ELSE IF x.id = 4 THEN 7 ELSE 2]
=============================================================================
