---------------------------- MODULE DatagramPipe ----------------------------
(***************************************************************************)
(* What a session of the tunnel promises the two WireGuard devices at its  *)
(* ends: in each direction the datagrams arrive in the order they were     *)
(* sent, each at most once, and none that was not sent.  Any may be lost.  *)
(* Datagrams are numbered by their sender.                                 *)
(***************************************************************************)
EXTENDS Naturals, Sequences

CONSTANT Peer  \* the other end of each end

VARIABLES
  sent,  \* how many datagrams each end has sent
  got    \* the datagrams each end has received, in this order

pipe == <<sent, got>>

Side == DOMAIN Peer

Init == sent = [s \in Side |-> 0] /\ got = [s \in Side |-> <<>>]

Send(s) == sent' = [sent EXCEPT ![s] = @ + 1] /\ UNCHANGED got

Newest(s) == IF got[s] = <<>> THEN 0 ELSE got[s][Len(got[s])]

Deliver(s) ==
  /\ \E n \in (Newest(s) + 1) .. sent[Peer[s]] : got' = [got EXCEPT ![s] = Append(@, n)]
  /\ UNCHANGED sent

(* A new session starts to count again. *)
Reopen == sent' = [s \in Side |-> 0] /\ got' = [s \in Side |-> <<>>]

Next == (\E s \in Side : Send(s) \/ Deliver(s)) \/ Reopen

Spec == Init /\ [][Next]_pipe
=============================================================================
