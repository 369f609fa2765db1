--------------------------- MODULE MCRouteGroups ---------------------------
(* Groups and routes can be exchanged for one another.                       *)
EXTENDS RouteGroups, TLC

Symmetry == Permutations(Group) \cup Permutations(Route)

==============================================================================
