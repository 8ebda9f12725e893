------------------------------- MODULE MCSources -------------------------------
(***************************************************************************)
(* A source control with two branches and two projects, one of which a     *)
(* commit may list in two solutions.                                       *)
(***************************************************************************)
EXTENDS Sources

MCFirstListing == [web |-> 1, db |-> 0]

MCListings == {MCFirstListing, [web |-> 0, db |-> 2]}
=============================================================================
