---------------------------- MODULE AddressLease ----------------------------
(***************************************************************************)
(* What the allocation of tunnel addresses promises: an address is leased  *)
(* to one user and stays with that user, and the WireGuard device accepts  *)
(* an address only from a peer of the user it is leased to.                *)
(***************************************************************************)
CONSTANTS Address, User, NoUser

VARIABLES
  lease,  \* the user each address is leased to
  active  \* the user whose peer the device accepts each address from

lvars == <<lease, active>>

Init ==
  /\ lease = [a \in Address |-> NoUser]
  /\ active = [a \in Address |-> NoUser]

Lease(a, u) ==
  /\ lease[a] = NoUser
  /\ lease' = [lease EXCEPT ![a] = u]
  /\ UNCHANGED active

Serve(a) ==
  /\ lease[a] # NoUser
  /\ active' = [active EXCEPT ![a] = lease[a]]
  /\ UNCHANGED lease

(* A restart may empty the device; the leases stay. *)
Restart == active' = [a \in Address |-> NoUser] /\ UNCHANGED lease

Next ==
  \/ \E a \in Address, u \in User : Lease(a, u)
  \/ \E a \in Address : Serve(a)
  \/ Restart

Spec == Init /\ [][Next]_lvars

=============================================================================
