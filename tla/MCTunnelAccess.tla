--------------------------- MODULE MCTunnelAccess ---------------------------
(* Tunnels, and calls of the same kind, can be exchanged for one another.    *)
EXTENDS TunnelAccess, TLC

Symmetry == Permutations(Tunnel) \cup Permutations(Admin)

==============================================================================
