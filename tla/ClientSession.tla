---------------------------- MODULE ClientSession ----------------------------
(***************************************************************************)
(* What the client service promises to the user of the desktop program: a  *)
(* VPN session is opened by a connection request, it ends in success or in *)
(* a reported failure, and nothing of it (tunnel sockets, TUN interface)   *)
(* is left behind by a failure, by a disconnection or by the death of the  *)
(* service.  ClientManager implements it for a user who does not           *)
(* disconnect while a connection is being set up.                          *)
(***************************************************************************)
VARIABLES
  state,  \* the connection state reported to the user
  held    \* whether some tunnel or interface of the service exists

svars == <<state, held>>

Init == state = "disconnected" /\ held = FALSE

Connect == /\ state \in {"disconnected", "failed"} /\ ~held
           /\ state' = "connecting" /\ UNCHANGED held

(* Setting up, or tearing down after an error, while connecting. *)
Work == state = "connecting" /\ held' \in BOOLEAN /\ UNCHANGED state

Succeed == state = "connecting" /\ held /\ state' = "connected" /\ UNCHANGED held

Fail == state = "connecting" /\ ~held /\ state' = "failed" /\ UNCHANGED held

Disconnect == /\ state \in {"connected", "failed"}
              /\ state' = "disconnected" /\ held' = FALSE

(* The process ends; the operating system takes back what it held. *)
Restart == state' = "disconnected" /\ held' = FALSE

Next == Connect \/ Work \/ Succeed \/ Fail \/ Disconnect \/ Restart

Spec == Init /\ [][Next]_svars

==============================================================================
