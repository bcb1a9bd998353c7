---------------------------- MODULE MCDiscovery ----------------------------
(***************************************************************************)
(* Discovery for TLC: two services, one with a name that extends the       *)
(* other's, and instances that are healthy, failing or without an address. *)
(***************************************************************************)
EXTENDS Discovery

MCServices == {"user", "user-admin"}
MCKeyRange == [s \in MCServices |-> IF s = "user" THEN <<"user", "user-admin">> ELSE <<s>>]
MCWatchedBy == [w \in Watchers |-> "user"]

Up   == [address |-> "a", passing |-> TRUE]
Sick == [address |-> "b", passing |-> FALSE]
Bare == [address |-> "", passing |-> TRUE]

MCCatalogs == {<<>>, <<Bare, Up>>, <<Sick>>}
=============================================================================
