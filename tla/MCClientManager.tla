--------------------------- MODULE MCClientManager ---------------------------
(***************************************************************************)
(* ClientManager for runs in which only the handlers race.                 *)
(***************************************************************************)
EXTENDS ClientManager, TLC

(* Neither the handlers nor the routes are told apart by the manager. *)
Symmetry == Permutations(Handler) \cup Permutations(Route)

==============================================================================
