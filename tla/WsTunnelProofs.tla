--------------------------- MODULE WsTunnelProofs ---------------------------
(***************************************************************************)
(* What holds of a session of the tunnel for any capacity of its buffers,  *)
(* any number of datagrams and any faults.                                 *)
(***************************************************************************)
EXTENDS WsTunnel, TLAPS

LEMMA Constants == Capacity \in Nat /\ Capacity > 0 /\ MaxSent \in Nat /\ None \notin Datagram
BY ConstantAssumption DEF None, Datagram

LEMMA PeerFacts == \A s \in Side : Peer[s] \in Side /\ Peer[s] # s /\ Peer[Peer[s]] = s
BY DEF Side, Peer

LEMMA HeadAndTail ==
  ASSUME NEW S, NEW q \in Seq(S), q # <<>>
  PROVE  Head(q) \in S /\ Tail(q) \in Seq(S) /\ Len(q) \in Nat /\ Len(Tail(q)) = Len(q) - 1
OBVIOUS

LEMMA LastOfQueue ==
  ASSUME NEW S, NEW q \in Seq(S), q # <<>>
  PROVE  Len(q) \in 1 .. Len(q) /\ q[Len(q)] \in S
<1>1. Len(q) \in Nat /\ Len(Tail(q)) \in Nat /\ Len(Tail(q)) = Len(q) - 1
  BY HeadAndTail
<1>2. Len(q) \in 1 .. Len(q)
  BY <1>1
<1> QED
  BY <1>2

LEMMA Appended ==
  ASSUME NEW S, NEW q \in Seq(S), NEW x \in S
  PROVE  Append(q, x) \in Seq(S) /\ Len(q) \in Nat /\ Len(Append(q, x)) = Len(q) + 1
OBVIOUS

(* TypeOK but for the datagrams delivered, in the parts a step changes.      *)
Ends ==
  /\ status \in {"idle", "started", "failed", "stopped"}
  /\ handler \in {"none", "accepted", "serving", "closed"}
  /\ sock \in [Side -> {"none", "open", "closed"}]
  /\ dead \in [Side -> BOOLEAN] /\ known \in [Side -> BOOLEAN]
  /\ cut \in BOOLEAN /\ refused \in BOOLEAN /\ disturbed \in BOOLEAN

Workers ==
  /\ toWS \in [Side -> Step] /\ toUDP \in [Side -> Step]
  /\ buffer \in [Side -> Datagram \cup {None}] /\ data \in [Side -> Datagram \cup {None}]
  /\ \A s \in Side : /\ toWS[s] = "write" <=> buffer[s] # None
                     /\ toUDP[s] = "write" <=> data[s] # None

Queues ==
  /\ udp \in [Side -> Seq(Datagram)] /\ wire \in [Side -> Seq(Datagram)]
  /\ \A s \in Side : Len(udp[s]) <= Capacity /\ Len(wire[s]) <= Capacity

Counts == sent \in [Side -> 0 .. MaxSent] /\ got \in [Side -> Seq(1 .. MaxSent)]

(* What makes the types inductive: goroutines run only in sessions that have *)
(* been started.                                                             *)
NotYet ==
  /\ status \in {"idle", "failed"} =>
       handler = "none" /\ toWS["client"] = "none" /\ toUDP["client"] = "none"
  /\ handler \in {"none", "accepted"} => toWS["server"] = "none" /\ toUDP["server"] = "none"

LEMMA Parts == TypeOK <=> Ends /\ Workers /\ Queues /\ Counts
BY DEF TypeOK, Ends, Workers, Queues, Counts

LEMMA InitType == Init => TypeOK
<1> SUFFICES ASSUME Init PROVE TypeOK
  OBVIOUS
<1>1. Ends /\ Workers
  BY DEF Init, Ends, Workers, Step
<1>2. Queues /\ Counts
  BY Constants DEF Init, Queues, Counts
<1> QED
  BY <1>1, <1>2, Parts

LEMMA Closing ==
  ASSUME TypeOK, NEW s \in Side, Close(s)
  PROVE  /\ Queues'
         /\ sock' \in [Side -> {"none", "open", "closed"}]
BY Constants, PeerFacts DEF TypeOK, Close, Set, Queues

LEMMA StepType == TypeOK /\ NotYet /\ [Next]_vars => TypeOK'
<1> SUFFICES ASSUME TypeOK, NotYet, [Next]_vars PROVE TypeOK'
  OBVIOUS
<1>t. Ends /\ Workers /\ Queues /\ Counts
  BY Parts
<1> SUFFICES Ends' /\ Workers' /\ Queues' /\ Counts'
  BY DEF TypeOK, Ends, Workers, Queues, Counts
<1>1. CASE Start
  <2>1. Workers'
    BY <1>1, <1>t DEF Start, NotYet, Workers, Set, Side, Step
  <2>2. sock' \in [Side -> {"none", "open", "closed"}]
    BY <1>1, <1>t DEF Start, Ends
  <2>3. Ends'
    <3>1. status' \in {"idle", "started", "failed", "stopped"}
      BY <1>1 DEF Start
    <3>2. handler' \in {"none", "accepted", "serving", "closed"}
      BY <1>1, <1>t DEF Start, Ends
    <3>3. UNCHANGED <<dead, known, cut, refused, disturbed>>
      BY <1>1 DEF Start, history
    <3> QED
      BY <2>2, <3>1, <3>2, <3>3, <1>t DEF Ends
  <2>4. UNCHANGED <<udp, wire, sent, got>>
    BY <1>1 DEF Start, history
  <2> QED
    BY <2>1, <2>3, <2>4, <1>t DEF Queues, Counts
<1>2. CASE Serve
  <2>1. Queues' /\ sock' \in [Side -> {"none", "open", "closed"}]
    BY <1>2, <1>t, Closing DEF Serve, Queues, Ends, Side
  <2>2. Workers'
    BY <1>2, <1>t DEF Serve, NotYet, Workers, Set, Side, Step
  <2>3. disturbed' \in BOOLEAN
    BY <1>2, <1>t DEF Serve, Ends
  <2>4. /\ status' \in {"idle", "started", "failed", "stopped"}
        /\ handler' \in {"none", "accepted", "serving", "closed"}
    BY <1>2, <1>t DEF Serve, Ends
  <2>5. UNCHANGED <<dead, known, cut, refused, sent, got>>
    BY <1>2 DEF Serve
  <2> QED
    BY <2>1, <2>2, <2>3, <2>4, <2>5, <1>t DEF Ends, Counts
<1>3. CASE HandlerReturns
  <2>1. Queues' /\ sock' \in [Side -> {"none", "open", "closed"}]
    BY <1>3, Closing DEF HandlerReturns, Side
  <2> QED
    BY <2>1, <1>3, <1>t DEF HandlerReturns, Ends, Workers, Counts, goroutines, history
<1>4. CASE Stop
  <2>1. Queues' /\ sock' \in [Side -> {"none", "open", "closed"}]
    BY <1>4, Closing DEF Stop, Side
  <2> QED
    BY <2>1, <1>4, <1>t DEF Stop, Ends, Workers, Counts, goroutines
<1>5. CASE ServerExits
  <2>1. Queues' /\ sock' \in [Side -> {"none", "open", "closed"}]
    BY <1>5, Closing DEF ServerExits, Side
  <2> QED
    BY <2>1, <1>5, <1>t DEF ServerExits, Ends, Workers, Counts, Set, Side, Step
<1>6. CASE Reconnect
  <2>1. Ends'
    BY <1>6 DEF Reconnect, Ends
  <2>2. Workers'
    BY <1>6 DEF Reconnect, Workers, Step
  <2>3. Queues' /\ Counts'
    BY <1>6, Constants DEF Reconnect, Queues, Counts
  <2> QED
    BY <2>1, <2>2, <2>3
<1>7. CASE SendKeepalive
  <2>1. Queues'
    BY <1>7, <1>t, Constants
    DEF SendKeepalive, Arrives, Room, Set, Queues, Keepalive, Datagram, network, Side
  <2> QED
    BY <2>1, <1>7, <1>t
    DEF SendKeepalive, Ends, Workers, Counts, ends, goroutines, network, history
<1>8. CASE Cut
  BY <1>8, <1>t DEF Cut, Ends, Workers, Queues, Counts, ends, goroutines
<1>9. ASSUME NEW s \in Side, Device(s) PROVE Ends' /\ Workers' /\ Queues' /\ Counts'
  <2>1. Queues'
    BY <1>9, <1>t, Constants
    DEF Device, Arrives, Room, Set, Queues, Counts, Datagram, network
  <2>2. Counts'
    BY <1>9, <1>t, Constants DEF Device, Set, Counts
  <2> QED
    BY <2>1, <2>2, <1>9, <1>t DEF Device, Ends, Workers, ends, goroutines, network
<1>10. ASSUME NEW s \in Side, Noticed(s) PROVE Ends' /\ Workers' /\ Queues' /\ Counts'
  BY <1>10, <1>t
  DEF Noticed, Ends, Workers, Queues, Counts, Set, ends, goroutines, history
<1>11. ASSUME NEW s \in Side, ReadUDP(s) PROVE Ends' /\ Workers' /\ Queues' /\ Counts'
  <2>h. udp[s] \in Seq(Datagram) /\ udp[s] # <<>> /\ Len(udp[s]) <= Capacity
    BY <1>11, <1>t DEF ReadUDP, Queues
  <2>1. Queues' /\ Head(udp[s]) \in Datagram
    BY <2>h, HeadAndTail, <1>11, <1>t, Constants DEF ReadUDP, Set, Queues, network
  <2>2. Workers'
    BY <2>1, <1>11, <1>t, Constants DEF ReadUDP, Set, Workers, Step
  <2> QED
    BY <2>1, <2>2, <1>11, <1>t
    DEF ReadUDP, Remembered, Set, Ends, Counts, ends, network, history
<1>12. ASSUME NEW s \in Side, Deadline(s) PROVE Ends' /\ Workers' /\ Queues' /\ Counts'
  BY <1>12, <1>t
  DEF Deadline, DeadlineStops, Ends, Workers, Queues, Counts, Set, Step, ends, network, history
<1>13. ASSUME NEW s \in Side, UDPError(s) PROVE Ends' /\ Workers' /\ Queues' /\ Counts'
  <2>1. Workers'
    BY <1>13, <1>t DEF UDPError, Workers, Set, Step
  <2> QED
    BY <2>1, <1>13, <1>t DEF UDPError, Ends, Queues, Counts, ends, history
<1>14. ASSUME NEW s \in Side, WriteWS(s) PROVE Ends' /\ Workers' /\ Queues' /\ Counts'
  <2>1. buffer[s] \in Datagram
    BY <1>14, <1>t DEF WriteWS, Workers
  <2>2. Queues'
    <3>1. CASE UNCHANGED wire
      BY <3>1, <1>14, <1>t DEF WriteWS, Queues
    <3>2. CASE Room(wire[s]) /\ wire' = Set(wire, s, Append(wire[s], buffer[s]))
      <4>1. wire[s] \in Seq(Datagram)
        BY <1>t DEF Queues
      <4> QED
        BY <4>1, <3>2, <2>1, Appended, <1>14, <1>t, Constants DEF WriteWS, Room, Set, Queues
    <3> QED
      BY <3>1, <3>2, <1>14 DEF WriteWS, Written
  <2>3. Workers'
    BY <1>14, <1>t, Constants DEF WriteWS, Again, Set, Workers, Step
  <2> QED
    BY <2>2, <2>3, <1>14, <1>t DEF WriteWS, Ends, Counts, ends, history
<1>15. ASSUME NEW s \in Side, ReadWS(s) PROVE Ends' /\ Workers' /\ Queues' /\ Counts'
  <2> DEFINE w == wire[Peer[s]]
  <2>0. w \in Seq(Datagram) /\ Len(w) <= Capacity /\ Peer[s] \in Side
    BY <1>t, PeerFacts DEF Queues
  <2>1. w # <<>> => /\ Head(w) \in Datagram /\ Tail(w) \in Seq(Datagram)
                    /\ Len(Tail(w)) <= Capacity
    BY <2>0, HeadAndTail, Constants
  <2>2. Queues'
    <3>1. CASE UNCHANGED wire
      BY <3>1, <1>15, <1>t DEF ReadWS, ReadMessage, Queues
    <3>2. CASE w # <<>> /\ wire' = Set(wire, Peer[s], Tail(w))
      BY <3>2, <2>0, <2>1, <1>15, <1>t DEF ReadWS, ReadMessage, Set, Queues
    <3> QED
      BY <3>1, <3>2, <1>15 DEF ReadWS, ReadMessage
  <2>3. Workers'
    BY <2>1, <1>15, <1>t, Constants DEF ReadWS, ReadMessage, Set, Workers, Step
  <2> QED
    BY <2>2, <2>3, <1>15, <1>t DEF ReadWS, ReadMessage, Ends, Counts, ends, history
<1>16. ASSUME NEW s \in Side, Received(s), data[s] # None PROVE got' \in [Side -> Seq(1 .. MaxSent)]
  <2>1. data[s] = Keepalive \/ data[s] \in 1 .. MaxSent
    BY <1>16, <1>t DEF Workers, Datagram, Keepalive
  <2> QED
    BY <2>1, <1>16, <1>t DEF Received, Set, Counts
<1>17. CASE WriteUDPClient
  <2>1. "client" \in Side /\ data["client"] # None
    BY <1>17, <1>t DEF WriteUDPClient, Workers, Side
  <2>2. Counts'
    BY <2>1, <1>16, <1>17, <1>t DEF WriteUDPClient, Counts
  <2>3. Workers'
    BY <2>1, <1>17, <1>t, Constants DEF WriteUDPClient, Again, Set, Workers, Step
  <2> QED
    BY <2>2, <2>3, <1>17, <1>t DEF WriteUDPClient, Ends, Queues, ends, network
<1>18. CASE WriteUDPServer
  <2>1. "server" \in Side /\ data["server"] # None
    BY <1>18, <1>t DEF WriteUDPServer, Workers, Side
  <2>2. Counts'
    BY <2>1, <1>16, <1>18, <1>t DEF WriteUDPServer, Counts
  <2>3. Workers'
    BY <2>1, <1>18, <1>t, Constants DEF WriteUDPServer, Again, Set, Workers, Step
  <2> QED
    BY <2>1, <2>2, <2>3, <1>18, <1>t DEF WriteUDPServer, Ends, Queues, Set, ends
<1>19. CASE UNCHANGED vars
  BY <1>19, <1>t
  DEF vars, ends, goroutines, network, history, Ends, Workers, Queues, Counts
<1> QED
  BY <1>1, <1>2, <1>3, <1>4, <1>5, <1>6, <1>7, <1>8, <1>9, <1>10, <1>11, <1>12, <1>13,
     <1>14, <1>15, <1>17, <1>18, <1>19
  DEF Next, Handle, UDPToWS, WSToUDP

(* A step of a goroutine is one of a goroutine that has been started.        *)
LEMMA Started ==
  ASSUME TypeOK, NEW s \in Side, UDPToWS(s) \/ WSToUDP(s)
  PROVE  /\ UNCHANGED <<status, handler>>
         /\ \A t \in Side : /\ toWS[t] = "none" => toWS'[t] = "none"
                            /\ toUDP[t] = "none" => toUDP'[t] = "none"
<1>1. CASE ReadUDP(s) \/ Deadline(s) \/ UDPError(s)
  BY <1>1 DEF ReadUDP, Deadline, DeadlineStops, UDPError, Set, TypeOK, ends
<1>2. CASE WriteWS(s)
  BY <1>2 DEF WriteWS, Set, TypeOK, ends
<1>3. CASE ReadWS(s)
  BY <1>3 DEF ReadWS, ReadMessage, Set, TypeOK, ends
<1>4. CASE WriteUDPClient
  BY <1>4 DEF WriteUDPClient, Set, TypeOK, ends, Side
<1>5. CASE WriteUDPServer
  BY <1>5 DEF WriteUDPServer, Set, TypeOK, ends, Side
<1> QED
  BY <1>1, <1>2, <1>3, <1>4, <1>5 DEF UDPToWS, WSToUDP

LEMMA StepNotYet == TypeOK /\ NotYet /\ [Next]_vars => NotYet'
<1> SUFFICES ASSUME TypeOK, NotYet, [Next]_vars PROVE NotYet'
  OBVIOUS
<1>1. CASE Start \/ Handle \/ Stop \/ ServerExits
  BY <1>1 DEF Start, Handle, Serve, HandlerReturns, Stop, ServerExits, NotYet, Set, TypeOK,
              Side, goroutines
<1>2. CASE Reconnect
  BY <1>2 DEF Reconnect, NotYet, Side
<1>3. CASE SendKeepalive \/ Cut
  BY <1>3 DEF SendKeepalive, Cut, NotYet, ends, goroutines
<1>4. ASSUME NEW s \in Side, Device(s) \/ Noticed(s) PROVE NotYet'
  BY <1>4 DEF Device, Noticed, NotYet, ends, goroutines
<1>5. ASSUME NEW s \in Side, UDPToWS(s) \/ WSToUDP(s) PROVE NotYet'
  BY <1>5, Started DEF NotYet, Side
<1>6. CASE UNCHANGED vars
  BY <1>6 DEF vars, ends, goroutines, NotYet
<1> QED
  BY <1>1, <1>2, <1>3, <1>4, <1>5, <1>6 DEF Next

(* Every variable keeps its type; in particular no buffer exceeds its        *)
(* capacity, and udpToWS and wsToUDP hold a datagram exactly between reading *)
(* and writing it.                                                           *)
THEOREM TypeCorrect == Spec => []TypeOK
<1>1. Init => NotYet
  BY DEF Init, NotYet, Side
<1> QED
  BY <1>1, InitType, StepType, StepNotYet, PTL DEF Spec

------------------------------------------------------------------------------
(* As long as nothing was disturbed, nothing is closed, cut or dead.  This   *)
(* is what the loops rely on when they go on after a deadline.               *)
Whole ==
  ~disturbed =>
    /\ status # "stopped" /\ handler # "closed" /\ ~cut /\ ~refused
    /\ \A s \in Side : /\ sock[s] # "closed" /\ ~dead[s]
                       /\ toWS[s] # "done" /\ toUDP[s] # "done"

LEMMA InitWhole == Init => Whole
BY DEF Init, Whole, Side

LEMMA StepWhole == TypeOK /\ Whole /\ [Next]_vars => Whole'
<1> SUFFICES ASSUME TypeOK, Whole, [Next]_vars, ~disturbed' PROVE Whole'
  BY DEF Whole
<1>t. /\ toWS \in [Side -> Step] /\ toUDP \in [Side -> Step]
      /\ sock \in [Side -> {"none", "open", "closed"}] /\ dead \in [Side -> BOOLEAN]
  BY DEF TypeOK
<1>1. CASE Start
  BY <1>1, <1>t DEF Start, Whole, Set, Side, history
<1>2. CASE Serve
  BY <1>2, <1>t DEF Serve, Whole, Set, Side
<1>3. CASE HandlerReturns
  BY <1>3 DEF HandlerReturns, Whole, Side, history
<1>4. CASE Stop \/ ServerExits \/ Cut
  BY <1>4 DEF Stop, ServerExits, Cut
<1>5. CASE Reconnect
  BY <1>5 DEF Reconnect, Whole
<1>6. CASE SendKeepalive
  BY <1>6 DEF SendKeepalive, Whole, ends, goroutines, network, history
<1>7. ASSUME NEW s \in Side, Device(s) PROVE Whole'
  BY <1>7 DEF Device, Whole, ends, goroutines, network
<1>8. ASSUME NEW s \in Side, Noticed(s) PROVE Whole'
  BY <1>8, PeerFacts DEF Noticed, Gone, Whole, history
<1>9. ASSUME NEW s \in Side, ReadUDP(s) PROVE Whole'
  BY <1>9, <1>t DEF ReadUDP, Whole, Set, ends, network, history
<1>10. ASSUME NEW s \in Side, Deadline(s) PROVE Whole'
  BY <1>10 DEF Deadline, DeadlineStops, Stopping, Cancelled, Whole, Side, history
<1>11. ASSUME NEW s \in Side, UDPError(s) PROVE Whole'
  BY <1>11 DEF UDPError, Whole, history
<1>12. ASSUME NEW s \in Side, WriteWS(s) PROVE Whole'
  <2>1. ~Fails(s) /\ Again(s) = "read"
    BY <1>12 DEF WriteWS, Fails, Again, Stopping, Cancelled, Whole, Side, history
  <2> QED
    BY <2>1, <1>12, <1>t DEF WriteWS, Whole, Set, ends, history
<1>13. ASSUME NEW s \in Side, ReadWS(s) PROVE Whole'
  <2>1. ~Fails(s)
    BY <1>13 DEF ReadWS, ReadMessage, Fails, Whole, history
  <2> QED
    BY <2>1, <1>13, <1>t DEF ReadWS, ReadMessage, Whole, Set, ends, history
<1>14. CASE WriteUDPClient
  <2>1. "client" \in Side /\ Again("client") = "read"
    BY <1>14 DEF WriteUDPClient, Again, Stopping, Whole, Side
  <2> QED
    BY <2>1, <1>14, <1>t DEF WriteUDPClient, Whole, Set, ends, network
<1>15. CASE WriteUDPServer
  <2>1. ~disturbed /\ ~refused
    <3>1. disturbed' = TRUE \/ disturbed' = disturbed
      BY <1>15 DEF WriteUDPServer
    <3>2. ~disturbed
      BY <3>1
    <3> QED
      BY <3>2 DEF Whole
  <2>2. "server" \in Side /\ Again("server") = "read"
    BY <2>1 DEF Again, Stopping, Cancelled, Whole, Side
  <2> QED
    BY <2>1, <2>2, <1>15, <1>t DEF WriteUDPServer, Whole, Set, ends
<1>16. CASE UNCHANGED vars
  BY <1>16 DEF vars, ends, goroutines, network, history, Whole
<1> QED
  BY <1>1, <1>2, <1>3, <1>4, <1>5, <1>6, <1>7, <1>8, <1>9, <1>10, <1>11, <1>12, <1>13,
     <1>14, <1>15, <1>16
  DEF Next, Handle, UDPToWS, WSToUDP

(* No deadline ever ends a session: while nothing went wrong and the client  *)
(* was not stopped, all four goroutines go on.                               *)
THEOREM SilenceKeepsSession == Spec => []SilenceIsNoEnd
<1>1. Whole => SilenceIsNoEnd
  BY DEF Whole, SilenceIsNoEnd
<1> QED
  BY <1>1, TypeCorrect, InitWhole, StepWhole, PTL DEF Spec

------------------------------------------------------------------------------
(* Why a reply finds its address: no datagram passes the client's udpToWS    *)
(* before the address is stored, and none comes back before one has passed.  *)
AddressFirst ==
  /\ (\/ buffer["client"] # None \/ wire["client"] # <<>>
      \/ data["server"] # None \/ known["server"]) => known["client"]
  /\ (\/ udp["server"] # <<>> \/ buffer["server"] # None
      \/ wire["server"] # <<>> \/ data["client"] # None) => known["server"]

LEMMA InitAddress == Init => AddressFirst
BY DEF Init, AddressFirst, Side

LEMMA StepAddress == TypeOK /\ AddressFirst /\ [Next]_vars => AddressFirst'
<1> SUFFICES ASSUME TypeOK, AddressFirst, [Next]_vars PROVE AddressFirst'
  OBVIOUS
<1>s. "client" \in Side /\ "server" \in Side /\ Peer["client"] = "server" /\ Peer["server"] = "client"
  BY DEF Side, Peer
<1>t. /\ buffer \in [Side -> Datagram \cup {None}] /\ data \in [Side -> Datagram \cup {None}]
      /\ udp \in [Side -> Seq(Datagram)] /\ wire \in [Side -> Seq(Datagram)]
      /\ known \in [Side -> BOOLEAN]
      /\ \A s \in Side : /\ toWS[s] = "write" <=> buffer[s] # None
                         /\ toUDP[s] = "write" <=> data[s] # None
  BY DEF TypeOK
<1>c. ASSUME NEW s \in Side, Close(s), UNCHANGED <<buffer, data, known>> PROVE AddressFirst'
  BY <1>c, <1>s, <1>t DEF Close, Set, AddressFirst, Side
<1>1. CASE Start
  BY <1>1 DEF Start, AddressFirst
<1>2. CASE Serve
  <2>1. CASE UNCHANGED <<udp, wire>>
    BY <2>1, <1>2 DEF Serve, AddressFirst
  <2> QED
    BY <2>1, <1>2, <1>c, <1>s DEF Serve
<1>3. CASE HandlerReturns \/ Stop
  BY <1>3, <1>c, <1>s DEF HandlerReturns, Stop, goroutines
<1>4. CASE ServerExits
  BY <1>4, <1>s, <1>t DEF ServerExits, Close, Set, AddressFirst
<1>5. CASE Reconnect
  BY <1>5, <1>s DEF Reconnect, AddressFirst
<1>6. CASE SendKeepalive
  BY <1>6, <1>s, <1>t DEF SendKeepalive, Arrives, Set, AddressFirst, goroutines, network
<1>7. CASE Cut
  BY <1>7 DEF Cut, AddressFirst, goroutines
<1>8. ASSUME NEW s \in Side, Device(s) PROVE AddressFirst'
  BY <1>8, <1>s, <1>t DEF Device, Arrives, Set, AddressFirst, goroutines, network, Side
<1>9. ASSUME NEW s \in Side, Noticed(s) PROVE AddressFirst'
  BY <1>9 DEF Noticed, AddressFirst, goroutines
<1>10. ASSUME NEW s \in Side, ReadUDP(s) PROVE AddressFirst'
  <2>1. CASE s = "client"
    BY <2>1, <1>10, <1>s, <1>t DEF ReadUDP, Remembered, Set, AddressFirst, network
  <2>2. CASE s = "server"
    BY <2>2, <1>10, <1>s, <1>t DEF ReadUDP, Remembered, Set, AddressFirst, network
  <2> QED
    BY <2>1, <2>2 DEF Side
<1>11. ASSUME NEW s \in Side, Deadline(s) \/ UDPError(s) PROVE AddressFirst'
  BY <1>11 DEF Deadline, UDPError, AddressFirst, network
<1>12. ASSUME NEW s \in Side, WriteWS(s) PROVE AddressFirst'
  <2>1. known[s] \/ (s = "server" /\ known["server"])
    BY <1>12, <1>t, <1>s DEF WriteWS, AddressFirst, Side
  <2>2. known["server"] => known["client"]
    BY DEF AddressFirst
  <2>3. UNCHANGED <<udp, data, known>> /\ buffer' = Set(buffer, s, None)
    BY <1>12 DEF WriteWS
  <2>4. \A t \in Side : t # s => wire'[t] = wire[t]
    BY <1>12, <1>t DEF WriteWS, Written, Set
  <2> QED
    BY <2>1, <2>2, <2>3, <2>4, <1>s, <1>t DEF Set, AddressFirst, Side
<1>13. ASSUME NEW s \in Side, ReadWS(s) PROVE AddressFirst'
  <2>1. CASE UNCHANGED <<data, wire>>
    BY <2>1, <1>13 DEF ReadWS, ReadMessage, AddressFirst
  <2>2. CASE s = "client" /\ wire["server"] # <<>>
    BY <2>2, <1>13, <1>s, <1>t DEF ReadWS, ReadMessage, Set, AddressFirst
  <2>3. CASE s = "server" /\ wire["client"] # <<>>
    BY <2>3, <1>13, <1>s, <1>t DEF ReadWS, ReadMessage, Set, AddressFirst
  <2> QED
    BY <2>1, <2>2, <2>3, <1>13, <1>s DEF ReadWS, ReadMessage, Side
<1>14. CASE WriteUDPClient
  BY <1>14, <1>s, <1>t DEF WriteUDPClient, Set, AddressFirst, network
<1>15. CASE WriteUDPServer
  BY <1>15, <1>s, <1>t DEF WriteUDPServer, Set, AddressFirst
<1>16. CASE UNCHANGED vars
  BY <1>16 DEF vars, goroutines, network, AddressFirst
<1> QED
  BY <1>1, <1>2, <1>3, <1>4, <1>5, <1>6, <1>7, <1>8, <1>9, <1>10, <1>11, <1>12, <1>13,
     <1>14, <1>15, <1>16
  DEF Next, Handle, UDPToWS, WSToUDP

(* The client has stored the address for replies before the first reply can  *)
(* reach wsToUDP.                                                            *)
THEOREM RepliesHaveAddress == Spec => []ReplyHasAddress
<1>1. AddressFirst => ReplyHasAddress
  BY DEF AddressFirst, ReplyHasAddress
<1> QED
  BY <1>1, TypeCorrect, InitAddress, StepAddress, PTL DEF Spec

------------------------------------------------------------------------------
(* The order of the datagrams of one direction.  They pass five places, from *)
(* the sender's socket to the device of the other side; what is further on   *)
(* has a smaller number.  Keepalives may be anywhere.                        *)
Values(q) == {q[i] : i \in 1 .. Len(q)}

Before(A, B) == \A a \in A, b \in B : b # Keepalive => a < b

Increasing(q) == \A i, j \in 1 .. Len(q) : i < j /\ q[j] # Keepalive => q[i] < q[j]

Held(x) == {x} \ {None}

Chain(delivered, reading, wired, writing, waiting) ==
  /\ Before(delivered, reading \cup wired \cup writing \cup waiting)
  /\ Before(reading, wired \cup writing \cup waiting)
  /\ Before(wired, writing \cup waiting)
  /\ Before(writing, waiting)

LEMMA EmptyQueue == Values(<<>>) = {} /\ Increasing(<<>>)
BY DEF Values, Increasing

LEMMA QueueValues == ASSUME NEW S, NEW q \in Seq(S) PROVE Values(q) \subseteq S
BY DEF Values

LEMMA AppendedValues ==
  ASSUME NEW S, NEW q \in Seq(S), NEW n \in S PROVE Values(Append(q, n)) = Values(q) \cup {n}
<1>1. /\ Len(q) \in Nat /\ Len(Append(q, n)) = Len(q) + 1 /\ Append(q, n)[Len(q) + 1] = n
      /\ \A i \in 1 .. Len(q) : Append(q, n)[i] = q[i]
  OBVIOUS
<1> QED
  BY <1>1 DEF Values

LEMMA AppendedQueue ==
  ASSUME NEW q \in Seq(Datagram), NEW n \in Datagram, Increasing(q), Before(Values(q), {n})
  PROVE  Values(Append(q, n)) = Values(q) \cup {n} /\ Increasing(Append(q, n))
<1> DEFINE r == Append(q, n)
<1>1. /\ Len(q) \in Nat /\ Len(r) = Len(q) + 1 /\ r[Len(q) + 1] = n
      /\ \A i \in 1 .. Len(q) : r[i] = q[i]
  OBVIOUS
<1>2. Values(r) = Values(q) \cup {n}
  BY AppendedValues
<1>3. ASSUME NEW i \in 1 .. Len(r), NEW j \in 1 .. Len(r), i < j, r[j] # Keepalive
      PROVE  r[i] < r[j]
  <2>1. i \in 1 .. Len(q) /\ r[i] = q[i]
    BY <1>1, <1>3
  <2>2. CASE j \in 1 .. Len(q)
    BY <2>1, <2>2, <1>1, <1>3 DEF Increasing
  <2>3. CASE j = Len(q) + 1
    BY <2>1, <2>3, <1>1, <1>3 DEF Before, Values
  <2> QED
    BY <2>2, <2>3, <1>1
<1> QED
  BY <1>2, <1>3 DEF Increasing

LEMMA ShortenedQueue ==
  ASSUME NEW q \in Seq(Datagram), q # <<>>, Increasing(q)
  PROVE  /\ Head(q) \in Values(q) /\ Values(Tail(q)) \subseteq Values(q)
         /\ Before({Head(q)}, Values(Tail(q))) /\ Increasing(Tail(q))
<1> DEFINE r == Tail(q)
<1>1. /\ Len(q) \in Nat /\ Len(q) > 0 /\ Len(r) = Len(q) - 1 /\ Head(q) = q[1]
      /\ \A i \in 1 .. Len(r) : r[i] = q[i + 1]
  OBVIOUS
<1>2. Head(q) \in Values(q) /\ Values(r) \subseteq Values(q)
  BY <1>1 DEF Values
<1>3. Before({Head(q)}, Values(r))
  BY <1>1 DEF Before, Values, Increasing
<1>4. Increasing(r)
  BY <1>1 DEF Increasing
<1> QED
  BY <1>2, <1>3, <1>4

LEMMA Shrunk ==
  ASSUME NEW D, NEW I, NEW W, NEW B, NEW U, Chain(D, I, W, B, U),
         NEW I2 \in SUBSET I, NEW W2 \in SUBSET W, NEW B2 \in SUBSET B, NEW U2 \in SUBSET U
  PROVE  Chain(D, I2, W2, B2, U2)
BY DEF Chain, Before

LEMMA Arrived ==
  ASSUME NEW D, NEW I, NEW W, NEW B, NEW U, NEW n, Chain(D, I, W, B, U),
         Before(D \cup I \cup W \cup B, {n})
  PROVE  Chain(D, I, W, B, U \cup {n})
BY DEF Chain, Before

LEMMA Taken ==
  ASSUME NEW D, NEW I, NEW W, NEW U, NEW U2 \in SUBSET U, NEW n \in U,
         Chain(D, I, W, {}, U), Before({n}, U2)
  PROVE  Chain(D, I, W, {n}, U2)
BY DEF Chain, Before

LEMMA Sent ==
  ASSUME NEW D, NEW I, NEW W, NEW U, NEW n, Chain(D, I, W, {n}, U)
  PROVE  Chain(D, I, W \cup {n}, {}, U)
BY DEF Chain, Before

LEMMA Fetched ==
  ASSUME NEW D, NEW W, NEW B, NEW U, NEW W2 \in SUBSET W, NEW n \in W,
         Chain(D, {}, W, B, U), Before({n}, W2)
  PROVE  Chain(D, {n}, W2, B, U)
BY DEF Chain, Before

LEMMA HandedOver ==
  ASSUME NEW D, NEW W, NEW B, NEW U, NEW n, Chain(D, {n}, W, B, U)
  PROVE  Chain(D \cup {n}, {}, W, B, U)
BY DEF Chain, Before

Delivered(s) == Values(got[Peer[s]])
Reading(s) == Held(data[Peer[s]])
Wired(s) == Values(wire[s])
Writing(s) == Held(buffer[s])
Waiting(s) == Values(udp[s])

Line(s) ==
  /\ Chain(Delivered(s), Reading(s), Wired(s), Writing(s), Waiting(s))
  /\ Increasing(wire[s]) /\ Increasing(udp[s])
  /\ \A n \in Delivered(s) \cup Reading(s) \cup Wired(s) \cup Writing(s) \cup Waiting(s) :
       n <= sent[s]

InLine == \A s \in Side : Line(s)

LEMMA InitLine == Init => InLine
BY EmptyQueue, PeerFacts
DEF Init, InLine, Line, Chain, Before, Delivered, Reading, Wired, Writing, Waiting, Held

LEMMA Typed ==
  ASSUME TypeOK, NEW s \in Side
  PROVE  /\ Peer[s] \in Side /\ udp[s] \in Seq(Datagram) /\ wire[s] \in Seq(Datagram)
         /\ buffer[s] \in Datagram \cup {None} /\ data[s] \in Datagram \cup {None}
         /\ sent[s] \in 0 .. MaxSent /\ got[s] \in Seq(1 .. MaxSent)
         /\ toWS[s] = "write" => buffer[s] \in Datagram
         /\ toUDP[s] = "write" => data[s] \in Datagram
BY PeerFacts DEF TypeOK

(* A step that only discards datagrams keeps the order.                      *)
LEMMA Discarded ==
  ASSUME NEW s \in Side, Line(s),
         sent'[s] = sent[s], got'[Peer[s]] = got[Peer[s]],
         data'[Peer[s]] \in {data[Peer[s]], None}, buffer'[s] \in {buffer[s], None},
         wire'[s] \in {wire[s], <<>>}, udp'[s] \in {udp[s], <<>>}
  PROVE  Line(s)'
<1>1. /\ Delivered(s)' = Delivered(s) /\ Reading(s)' \subseteq Reading(s)
      /\ Writing(s)' \subseteq Writing(s)
  BY DEF Delivered, Reading, Writing, Held
<1>2. /\ Wired(s)' \subseteq Wired(s) /\ Waiting(s)' \subseteq Waiting(s)
      /\ Increasing(wire[s])' /\ Increasing(udp[s])'
  BY EmptyQueue DEF Wired, Waiting, Line
<1> QED
  BY <1>1, <1>2, Shrunk DEF Line

LEMMA StepLine == TypeOK /\ InLine /\ [Next]_vars => InLine'
<1> SUFFICES ASSUME TypeOK, InLine, [Next]_vars, NEW s \in Side PROVE Line(s)'
  BY DEF InLine
<1>l. Line(s) /\ Peer[s] \in Side /\ Peer[s] # s /\ Peer[Peer[s]] = s
  BY PeerFacts DEF InLine
<1>t. /\ buffer \in [Side -> Datagram \cup {None}] /\ data \in [Side -> Datagram \cup {None}]
      /\ udp \in [Side -> Seq(Datagram)] /\ wire \in [Side -> Seq(Datagram)]
      /\ sent \in [Side -> 0 .. MaxSent] /\ got \in [Side -> Seq(1 .. MaxSent)]
  BY DEF TypeOK
<1>c. ASSUME NEW x \in Side, Close(x)
      PROVE  wire'[s] \in {wire[s], <<>>} /\ udp'[s] \in {udp[s], <<>>}
  BY <1>c, <1>t, PeerFacts DEF Close, Set
<1>1. CASE UNCHANGED <<buffer, data, udp, wire, sent, got>>
  BY <1>1, <1>l, Discarded
<1>2. CASE Handle \/ Stop \/ ServerExits
  <2>1. UNCHANGED <<sent, got>>
    BY <1>2 DEF Handle, Serve, HandlerReturns, Stop, ServerExits, history
  <2>2. /\ data'[Peer[s]] \in {data[Peer[s]], None} /\ buffer'[s] \in {buffer[s], None}
    BY <1>2, <1>l, <1>t
    DEF Handle, Serve, HandlerReturns, Stop, ServerExits, goroutines, Set
  <2>3. wire'[s] \in {wire[s], <<>>} /\ udp'[s] \in {udp[s], <<>>}
    BY <1>2, <1>c DEF Handle, Serve, HandlerReturns, Stop, ServerExits, Side
  <2> QED
    BY <2>1, <2>2, <2>3, <1>l, Discarded
<1>3. CASE Reconnect
  BY <1>3, EmptyQueue, PeerFacts
  DEF Reconnect, Line, Chain, Before, Delivered, Reading, Wired, Writing, Waiting, Held
<1>4. ASSUME NEW x \in Side, NEW n \in Datagram, Arrives(x, n),
             UNCHANGED <<buffer, data, wire, got>>,
             \/ n = Keepalive /\ sent' = sent
             \/ n = sent[x] + 1 /\ sent' = Set(sent, x, n)
      PROVE  Line(s)'
  <2>1. CASE x # s
    <3>1. udp'[s] = udp[s] /\ sent'[s] = sent[s]
      BY <2>1, <1>4, <1>t DEF Arrives, Set
    <3> QED
      BY <3>1, <1>4, <1>l, Discarded
  <2>2. CASE x = s
    <3> DEFINE older == Delivered(s) \cup Reading(s) \cup Wired(s) \cup Writing(s)
    <3>1. udp[s] \in Seq(Datagram) /\ udp'[s] = Append(udp[s], n) /\ sent[s] \in Nat
      BY <2>2, <1>4, <1>t, Constants DEF Arrives, Set
    <3>2. sent'[s] \in Nat /\ sent[s] <= sent'[s] /\ n <= sent'[s]
      BY <2>2, <1>4, <1>t, <3>1 DEF Set, Keepalive
    <3>3. older \cup Waiting(s) \subseteq Nat
      <4>1. Delivered(s) \subseteq 1 .. MaxSent
        BY <1>l, <1>t, QueueValues DEF Delivered
      <4>2. Wired(s) \subseteq Datagram /\ Waiting(s) \subseteq Datagram
        BY <1>l, <1>t, QueueValues DEF Wired, Waiting
      <4>3. Reading(s) \subseteq Datagram /\ Writing(s) \subseteq Datagram
        BY <1>l, <1>t DEF Reading, Writing, Held
      <4> QED
        BY <4>1, <4>2, <4>3, Constants DEF Datagram
    <3>4. Before(older, {n}) /\ Before(Waiting(s), {n})
      BY <2>2, <1>4, <1>l, <3>1, <3>3 DEF Before, Line
    <3>5. Waiting(s)' = Waiting(s) \cup {n} /\ Increasing(udp[s])'
      BY <3>1, <3>4, <1>l, AppendedQueue DEF Waiting, Line
    <3>6. /\ Delivered(s)' = Delivered(s) /\ Reading(s)' = Reading(s)
          /\ Wired(s)' = Wired(s) /\ Writing(s)' = Writing(s) /\ Increasing(wire[s])'
      BY <1>4, <1>l DEF Delivered, Reading, Wired, Writing, Line
    <3>7. Chain(Delivered(s), Reading(s), Wired(s), Writing(s), Waiting(s) \cup {n})
      BY <3>4, <1>l, Arrived DEF Line
    <3>8. \A m \in older \cup Waiting(s) \cup {n} : m <= sent'[s]
      BY <3>1, <3>2, <3>3, <1>l DEF Line
    <3> QED
      BY <3>5, <3>6, <3>7, <3>8 DEF Line
  <2> QED
    BY <2>1, <2>2
<1>5. CASE SendKeepalive
  <2>1. "client" \in Side /\ Keepalive \in Datagram
    BY Constants DEF Side, Keepalive, Datagram
  <2>2. Arrives("client", Keepalive) /\ UNCHANGED <<buffer, data, wire, got, sent>>
    BY <1>5 DEF SendKeepalive, goroutines, network, history
  <2>3. UNCHANGED <<buffer, data, wire, got>> /\ sent' = sent
    BY <2>2
  <2> QED
    BY <2>1, <2>2, <2>3, <1>4
<1>6. ASSUME NEW x \in Side, Device(x) PROVE Line(s)'
  <2>1. sent[x] + 1 \in Datagram
    BY <1>6, <1>t, Constants DEF Device, Datagram
  <2> QED
    BY <2>1, <1>6, <1>4 DEF Device, goroutines, network
<1>7. ASSUME NEW x \in Side, ReadUDP(x) PROVE Line(s)'
  <2>1. UNCHANGED <<data, wire, sent, got>>
    BY <1>7 DEF ReadUDP, network, history
  <2>2. CASE x # s
    <3>1. udp'[s] = udp[s] /\ buffer'[s] = buffer[s]
      BY <2>2, <1>7, <1>t DEF ReadUDP, Set
    <3> QED
      BY <3>1, <2>1, <1>l, Discarded
  <2>3. CASE x = s
    <3> DEFINE n == Head(udp[s])
    <3>1. /\ udp[s] \in Seq(Datagram) /\ udp[s] # <<>> /\ udp'[s] = Tail(udp[s])
          /\ buffer'[s] = n /\ toWS[s] = "read"
      BY <2>3, <1>7, <1>t DEF ReadUDP, Set
    <3>2. n \in Datagram /\ Writing(s) = {} /\ Writing(s)' = {n}
      <4>1. n \in Datagram /\ n # None
        BY <3>1, HeadAndTail, Constants
      <4>2. buffer[s] = None
        BY <3>1 DEF TypeOK
      <4> QED
        BY <3>1, <4>1, <4>2 DEF Writing, Held
    <3>3. /\ n \in Waiting(s) /\ Waiting(s)' \subseteq Waiting(s)
          /\ Before({n}, Waiting(s)') /\ Increasing(udp[s])'
      BY <3>1, <1>l, ShortenedQueue DEF Waiting, Line
    <3>4. /\ Delivered(s)' = Delivered(s) /\ Reading(s)' = Reading(s)
          /\ Wired(s)' = Wired(s) /\ Increasing(wire[s])' /\ sent'[s] = sent[s]
      BY <2>1, <1>l DEF Delivered, Reading, Wired, Line
    <3>5. Chain(Delivered(s), Reading(s), Wired(s), {n}, Waiting(s)')
      BY <3>2, <3>3, <1>l, Taken DEF Line
    <3> QED
      BY <3>2, <3>3, <3>4, <3>5, <1>l DEF Line
  <2> QED
    BY <2>2, <2>3
<1>8. ASSUME NEW x \in Side, WriteWS(x) PROVE Line(s)'
  <2>1. /\ UNCHANGED <<data, udp, sent, got>> /\ buffer' = Set(buffer, x, None)
        /\ toWS[x] = "write"
    BY <1>8 DEF WriteWS, history
  <2>2. CASE x # s \/ UNCHANGED wire
    <3>1. wire'[s] = wire[s] /\ buffer'[s] \in {buffer[s], None}
      BY <2>1, <2>2, <1>8, <1>t DEF WriteWS, Written, Set
    <3> QED
      BY <3>1, <2>1, <1>l, Discarded
  <2>3. CASE x = s /\ wire' = Set(wire, s, Append(wire[s], buffer[s]))
    <3> DEFINE n == buffer[s]
    <3>1. /\ wire[s] \in Seq(Datagram) /\ n \in Datagram /\ n # None
          /\ wire'[s] = Append(wire[s], n) /\ buffer'[s] = None
      BY <2>1, <2>3, <1>t, Typed, Constants DEF Set
    <3>2. Writing(s) = {n} /\ Writing(s)' = {}
      BY <3>1 DEF Writing, Held
    <3>3. Before(Wired(s), {n})
      BY <3>2, <1>l DEF Line, Chain, Before
    <3>4. Wired(s)' = Wired(s) \cup {n} /\ Increasing(wire[s])'
      BY <3>1, <3>3, <1>l, AppendedQueue DEF Wired, Line
    <3>5. /\ Delivered(s)' = Delivered(s) /\ Reading(s)' = Reading(s)
          /\ Waiting(s)' = Waiting(s) /\ Increasing(udp[s])' /\ sent'[s] = sent[s]
      BY <2>1, <1>l DEF Delivered, Reading, Waiting, Line
    <3>6. Chain(Delivered(s), Reading(s), Wired(s) \cup {n}, {}, Waiting(s))
      BY <3>2, <1>l, Sent DEF Line
    <3> QED
      BY <3>2, <3>4, <3>5, <3>6, <1>l DEF Line
  <2> QED
    BY <2>2, <2>3, <1>8 DEF WriteWS, Written
<1>9. ASSUME NEW x \in Side, ReadWS(x) PROVE Line(s)'
  <2>1. UNCHANGED <<buffer, udp, sent, got>>
    BY <1>9 DEF ReadWS, ReadMessage, history
  <2>2. CASE UNCHANGED <<data, wire>>
    BY <2>1, <2>2, <1>1
  <2>3. CASE x = s /\ wire' = Set(wire, Peer[x], Tail(wire[Peer[x]]))
             /\ data' = Set(data, x, Head(wire[Peer[x]]))
    <3>1. wire'[s] = wire[s] /\ data'[Peer[s]] = data[Peer[s]]
      BY <2>3, <1>l, <1>t DEF Set
    <3> QED
      BY <3>1, <2>1, <1>l, Discarded
  <2>4. CASE /\ x = Peer[s] /\ wire[s] # <<>> /\ toUDP[x] = "read"
             /\ wire' = Set(wire, s, Tail(wire[s])) /\ data' = Set(data, x, Head(wire[s]))
    <3> DEFINE n == Head(wire[s])
    <3>1. /\ wire[s] \in Seq(Datagram) /\ wire'[s] = Tail(wire[s]) /\ data'[Peer[s]] = n
      BY <2>4, <1>l, <1>t DEF Set
    <3>2. n \in Datagram /\ Reading(s) = {} /\ Reading(s)' = {n}
      <4>1. n \in Datagram /\ n # None
        BY <2>4, <3>1, HeadAndTail, Constants
      <4>2. data[Peer[s]] = None
        BY <2>4 DEF TypeOK
      <4> QED
        BY <3>1, <4>1, <4>2 DEF Reading, Held
    <3>3. /\ n \in Wired(s) /\ Wired(s)' \subseteq Wired(s)
          /\ Before({n}, Wired(s)') /\ Increasing(wire[s])'
      BY <2>4, <3>1, <1>l, ShortenedQueue DEF Wired, Line
    <3>4. /\ Delivered(s)' = Delivered(s) /\ Writing(s)' = Writing(s)
          /\ Waiting(s)' = Waiting(s) /\ Increasing(udp[s])' /\ sent'[s] = sent[s]
      BY <2>1, <1>l DEF Delivered, Writing, Waiting, Line
    <3>5. Chain(Delivered(s), {n}, Wired(s)', Writing(s), Waiting(s))
      BY <3>2, <3>3, <1>l, Fetched DEF Line
    <3> QED
      BY <3>2, <3>3, <3>4, <3>5, <1>l DEF Line
  <2> QED
    BY <2>2, <2>3, <2>4, <1>9, <1>l DEF ReadWS, ReadMessage, Side
<1>10. ASSUME NEW x \in Side, toUDP[x] = "write", data' = Set(data, x, None),
              UNCHANGED <<buffer, udp, wire, sent>>, got' = got \/ Received(x)
       PROVE  Line(s)'
  <2>1. CASE x # Peer[s] \/ got' = got
    <3>1. got'[Peer[s]] = got[Peer[s]] /\ data'[Peer[s]] \in {data[Peer[s]], None}
      BY <2>1, <1>10, <1>l, <1>t DEF Received, Set
    <3> QED
      BY <3>1, <1>10, <1>l, Discarded
  <2>2. CASE /\ x = Peer[s] /\ data[x] # Keepalive
             /\ got' = Set(got, x, Append(got[x], data[x]))
    <3> DEFINE n == data[x]
    <3>0. n \in 1 .. MaxSent
      BY <2>2, <1>10, Typed, Constants DEF Datagram, Keepalive
    <3>1. n \in Datagram /\ n # None /\ got[x] \in Seq(1 .. MaxSent)
          /\ got'[x] = Append(got[x], n) /\ data'[x] = None
      BY <2>2, <1>10, <1>t, Typed, Constants DEF Set
    <3>2. Delivered(s)' = Delivered(s) \cup {n}
      <4>1. Delivered(s) = Values(got[x]) /\ Delivered(s)' = Values(got'[x])
        BY <2>2 DEF Delivered, Values
      <4> DEFINE Number == 1 .. MaxSent
                 q == got[x]
      <4>2. q \in Seq(Number) /\ n \in Number
        BY <3>0, <3>1
      <4>3. Values(Append(q, n)) = Values(q) \cup {n}
        <5> HIDE DEF Number, q, n
        <5> QED
          BY <4>2, AppendedValues
      <4> QED
        BY <4>1, <4>3, <3>1
    <3>3. Reading(s) = {n} /\ Reading(s)' = {}
      BY <2>2, <3>1 DEF Reading, Held
    <3>4. /\ Wired(s)' = Wired(s) /\ Writing(s)' = Writing(s) /\ Waiting(s)' = Waiting(s)
          /\ Increasing(wire[s])' /\ Increasing(udp[s])' /\ sent'[s] = sent[s]
      BY <1>10, <1>l DEF Wired, Writing, Waiting, Line
    <3>5. Chain(Delivered(s) \cup {n}, {}, Wired(s), Writing(s), Waiting(s))
      BY <3>3, <1>l, HandedOver DEF Line
    <3> QED
      BY <3>2, <3>3, <3>4, <3>5, <1>l DEF Line
  <2> QED
    BY <2>1, <2>2, <1>10 DEF Received
<1>11. CASE WriteUDPClient
  BY <1>11, <1>10 DEF WriteUDPClient, Side, network
<1>12. CASE WriteUDPServer
  BY <1>12, <1>10 DEF WriteUDPServer, Side
<1>13. CASE Start \/ Cut \/ UNCHANGED vars
  BY <1>13, <1>1 DEF Start, Cut, vars, ends, goroutines, network, history
<1>14. ASSUME NEW x \in Side, Deadline(x) \/ UDPError(x) \/ Noticed(x) PROVE Line(s)'
  BY <1>14, <1>1 DEF Deadline, UDPError, Noticed, goroutines, network, history
<1> QED
  BY <1>2, <1>3, <1>5, <1>6, <1>7, <1>8, <1>9, <1>11, <1>12, <1>13, <1>14
  DEF Next, UDPToWS, WSToUDP

(* A step of the session is a step of the channel or leaves it alone.        *)
LEMMA StepPipe == TypeOK /\ InLine /\ [Next]_vars => [Pipe!Next]_(Pipe!pipe)
<1> SUFFICES ASSUME TypeOK, InLine, [Next]_vars PROVE [Pipe!Next]_(Pipe!pipe)
  OBVIOUS
<1>d. Pipe!Side = Side
  BY DEF Pipe!Side, Peer
<1>1. CASE UNCHANGED <<sent, got>>
  BY <1>1 DEF Pipe!pipe
<1>2. CASE Reconnect
  BY <1>2, <1>d DEF Reconnect, Pipe!Next, Pipe!Reopen
<1>3. ASSUME NEW s \in Side, Device(s) PROVE Pipe!Next
  BY <1>3, <1>d DEF Device, Set, Pipe!Next, Pipe!Send
<1>4. ASSUME NEW x \in Side, toUDP[x] = "write", Received(x), UNCHANGED sent
      PROVE  [Pipe!Next]_(Pipe!pipe)
  <2> DEFINE n == data[x]
             s == Peer[x]
  <2>1. CASE n = Keepalive
    BY <2>1, <1>4, <1>1 DEF Received
  <2>2. CASE n # Keepalive
    <3>1. /\ s \in Side /\ Peer[s] = x /\ Line(s) /\ n \in Nat /\ n > 0 /\ n # None
          /\ sent[s] \in Nat /\ got[x] \in Seq(1 .. MaxSent)
      BY <2>2, <1>4, PeerFacts, Typed, Constants DEF InLine, Datagram, Keepalive
    <3>2. n \in Reading(s) /\ n <= sent[s]
      BY <3>1 DEF Reading, Held, Line
    <3>3. \A i \in 1 .. Len(got[x]) : got[x][i] < n
      <4>1. Before(Delivered(s), Reading(s))
        BY <3>1 DEF Line, Chain, Before
      <4>2. \A i \in 1 .. Len(got[x]) : got[x][i] \in Delivered(s)
        BY <3>1 DEF Delivered, Values
      <4>3. \A a \in Delivered(s) : a < n
        BY <2>2, <3>2, <4>1 DEF Before
      <4> QED
        BY <4>2, <4>3
    <3>4. Pipe!Newest(x) \in Nat /\ Pipe!Newest(x) < n
      <4>1. CASE got[x] = <<>>
        BY <4>1, <3>1 DEF Pipe!Newest
      <4>2. CASE got[x] # <<>>
        <5> DEFINE Number == 1 .. MaxSent
        <5>1. got[x] \in Seq(Number) /\ got[x] # <<>>
          BY <4>2, <3>1
        <5>2. Len(got[x]) \in 1 .. Len(got[x]) /\ got[x][Len(got[x])] \in Number
          <6> HIDE DEF Number
          <6> QED
            BY <5>1, LastOfQueue
        <5> QED
          BY <4>2, <5>2, <3>3 DEF Pipe!Newest
      <4> QED
        BY <4>1, <4>2
    <3>5. n \in (Pipe!Newest(x) + 1) .. sent[Peer[x]]
      BY <3>1, <3>2, <3>4
    <3>6. got' = [got EXCEPT ![x] = Append(@, n)]
      BY <2>2, <1>4 DEF Received, Set
    <3> QED
      BY <3>5, <3>6, <1>4, <1>d DEF Pipe!Next, Pipe!Deliver
  <2> QED
    BY <2>1, <2>2
<1>5. CASE WriteUDPClient
  BY <1>5, <1>4, <1>1 DEF WriteUDPClient, Side
<1>6. CASE WriteUDPServer
  BY <1>6, <1>4, <1>1 DEF WriteUDPServer, Side
<1>7. CASE Start \/ Handle \/ Stop \/ ServerExits \/ SendKeepalive \/ Cut \/ UNCHANGED vars
  BY <1>7, <1>1
  DEF Start, Handle, Serve, HandlerReturns, Stop, ServerExits, SendKeepalive, Cut, vars, history
<1>8. ASSUME NEW s \in Side,
             ReadUDP(s) \/ Deadline(s) \/ UDPError(s) \/ WriteWS(s) \/ ReadWS(s) \/ Noticed(s)
      PROVE  [Pipe!Next]_(Pipe!pipe)
  BY <1>8, <1>1 DEF ReadUDP, Deadline, UDPError, WriteWS, ReadWS, ReadMessage, Noticed, history
<1> QED
  BY <1>2, <1>3, <1>5, <1>6, <1>7, <1>8 DEF Next, UDPToWS, WSToUDP

(* The session is an ordered channel without duplicates in each direction,   *)
(* which may lose: it implements DatagramPipe.                               *)
THEOREM ImplementsPipe == Spec => PipeSpec
<1>1. Init => Pipe!Init
  BY DEF Init, Pipe!Init, Pipe!Side, Peer
<1> QED
  BY <1>1, TypeCorrect, InitLine, StepLine, StepPipe, PTL DEF Spec, PipeSpec, Pipe!Spec

------------------------------------------------------------------------------
(* Where the datagrams of one direction are, while nothing goes wrong        *)

(* A client that has been started has its sockets.                           *)
Opened == status = "started" => sock["client"] # "none"

LEMMA StepOpened == TypeOK /\ Opened /\ [Next]_vars => Opened'
<1> SUFFICES ASSUME TypeOK, Opened, [Next]_vars PROVE Opened'
  OBVIOUS
<1>0. "client" \in Side /\ "server" \in Side
  BY DEF Side
<1>1. CASE Start
  BY <1>0, <1>1 DEF Start, Opened
<1>2. CASE Handle \/ Stop \/ ServerExits
  BY <1>0, <1>2 DEF Handle, Serve, HandlerReturns, Stop, ServerExits, Close, Set, Opened, TypeOK
<1>3. CASE Reconnect
  BY <1>3 DEF Reconnect, Opened
<1>4. CASE SendKeepalive \/ Cut \/ UNCHANGED vars
  BY <1>4 DEF SendKeepalive, Cut, vars, ends, network, Opened
<1>5. ASSUME NEW s \in Side, Device(s) \/ Noticed(s) PROVE Opened'
  BY <1>5 DEF Device, Noticed, ends, network, Opened
<1>6. ASSUME NEW s \in Side, UDPToWS(s) \/ WSToUDP(s) PROVE Opened'
  <2>1. UNCHANGED <<status, sock>>
    BY <1>6 DEF UDPToWS, WSToUDP, ReadUDP, Deadline, UDPError, WriteWS, ReadWS, ReadMessage,
       WriteUDPClient, WriteUDPServer, ends, network
  <2> QED
    BY <2>1 DEF Opened
<1> QED
  BY <1>1, <1>2, <1>3, <1>4, <1>5, <1>6 DEF Next

Somewhere(s) == Delivered(s) \cup Reading(s) \cup Wired(s) \cup Writing(s) \cup Waiting(s)
Kept == ~disturbed => \A s \in Side : 1 .. sent[s] \subseteq Somewhere(s)

LEMMA QueueSplit ==
  ASSUME NEW S, NEW q \in Seq(S), q # <<>>
  PROVE  Values(q) \subseteq {Head(q)} \cup Values(Tail(q))
<1>1. /\ Len(q) \in Nat /\ Len(q) > 0 /\ Len(Tail(q)) = Len(q) - 1 /\ Head(q) = q[1]
      /\ \A i \in 1 .. Len(Tail(q)) : Tail(q)[i] = q[i + 1]
  OBVIOUS
<1>2. ASSUME NEW i \in 1 .. Len(q) PROVE q[i] \in {Head(q)} \cup Values(Tail(q))
  <2>1. CASE i = 1
    BY <1>1, <2>1
  <2>2. CASE i # 1
    <3>1. i - 1 \in 1 .. Len(Tail(q)) /\ Tail(q)[i - 1] = q[i]
      BY <1>1, <2>2
    <3> QED
      BY <3>1 DEF Values
  <2> QED
    BY <2>1, <2>2
<1> QED
  BY <1>2 DEF Values

LEMMA StepKept ==
  ASSUME TypeOK, NotYet, Whole, AddressFirst, Opened, Kept, [Next]_vars, ~disturbed', Whole',
         NEW s \in Side
  PROVE  1 .. sent'[s] \subseteq Somewhere(s)'
<1>l. Peer[s] \in Side /\ Peer[s] # s /\ Peer[Peer[s]] = s
  BY PeerFacts
<1>t. /\ buffer \in [Side -> Datagram \cup {None}] /\ data \in [Side -> Datagram \cup {None}]
      /\ udp \in [Side -> Seq(Datagram)] /\ wire \in [Side -> Seq(Datagram)]
      /\ sent \in [Side -> 0 .. MaxSent] /\ got \in [Side -> Seq(1 .. MaxSent)]
  BY DEF TypeOK
<1>1. CASE Reconnect
  BY <1>1 DEF Reconnect
<1> SUFFICES ASSUME ~Reconnect PROVE 1 .. sent'[s] \subseteq Somewhere(s)'
  BY <1>1
<1>d. disturbed' = disturbed \/ disturbed' = TRUE
  BY DEF Next, vars, history, Start, Handle, Serve, HandlerReturns, Stop, ServerExits, SendKeepalive,
     Cut, UDPToWS, WSToUDP, Device, Noticed, ReadUDP, Deadline, UDPError, WriteWS, ReadWS,
     ReadMessage, WriteUDPClient, WriteUDPServer
<1>w. /\ 1 .. sent[s] \subseteq Somewhere(s)
      /\ status # "stopped" /\ handler # "closed" /\ ~cut /\ ~refused
      /\ \A x \in Side : /\ sock[x] # "closed" /\ ~dead[x]
                         /\ toWS[x] # "done" /\ toUDP[x] # "done"
  BY <1>d DEF Kept, Whole
<1>2. ASSUME udp'[s] = udp[s], buffer'[s] = buffer[s], wire'[s] = wire[s],
             data'[Peer[s]] = data[Peer[s]], got'[Peer[s]] = got[Peer[s]], sent'[s] = sent[s]
      PROVE  1 .. sent'[s] \subseteq Somewhere(s)'
  BY <1>2, <1>w DEF Somewhere, Delivered, Reading, Wired, Writing, Waiting
<1>3. ASSUME UNCHANGED <<udp, buffer, wire, data, got, sent>>
      PROVE  1 .. sent'[s] \subseteq Somewhere(s)'
  BY <1>2, <1>3
<1>4. ASSUME NEW x \in Side, NEW n \in Datagram, Arrives(x, n),
             UNCHANGED <<buffer, data, wire, got>>,
             \/ n = Keepalive /\ sent' = sent
             \/ n = sent[x] + 1 /\ sent' = Set(sent, x, n)
      PROVE  1 .. sent'[s] \subseteq Somewhere(s)'
  <2>1. CASE x # s
    <3>1. udp'[s] = udp[s] /\ sent'[s] = sent[s]
      BY <2>1, <1>4, <1>t DEF Arrives, Set
    <3> QED
      BY <3>1, <1>4, <1>2
  <2>2. CASE x = s
    <3>1. udp[s] \in Seq(Datagram) /\ udp'[s] = Append(udp[s], n) /\ sent[s] \in Nat
      BY <2>2, <1>4, <1>t, Constants DEF Arrives, Set
    <3>2. Waiting(s)' = Waiting(s) \cup {n}
      BY <3>1, AppendedValues DEF Waiting
    <3>3. Somewhere(s)' = Somewhere(s) \cup {n}
      BY <3>2, <1>4 DEF Somewhere, Delivered, Reading, Wired, Writing
    <3>4. 1 .. sent'[s] \subseteq 1 .. sent[s] \cup {n}
      BY <2>2, <3>1, <1>4, <1>t DEF Set
    <3> QED
      BY <3>3, <3>4, <1>w
  <2> QED
    BY <2>1, <2>2
<1>5. CASE SendKeepalive
  <2>1. "client" \in Side /\ Keepalive \in Datagram
    BY Constants DEF Side, Keepalive, Datagram
  <2>2. Arrives("client", Keepalive) /\ UNCHANGED <<buffer, data, wire, got, sent>>
    BY <1>5 DEF SendKeepalive, goroutines, network, history
  <2>3. UNCHANGED <<buffer, data, wire, got>> /\ sent' = sent
    BY <2>2
  <2> QED
    BY <2>1, <2>2, <2>3, <1>4
<1>6. ASSUME NEW x \in Side, Device(x) PROVE 1 .. sent'[s] \subseteq Somewhere(s)'
  <2>1. sent[x] + 1 \in Datagram
    BY <1>6, <1>t, Constants DEF Device, Datagram
  <2> QED
    BY <2>1, <1>6, <1>4 DEF Device, goroutines, network
<1>7. ASSUME NEW x \in Side, ReadUDP(x) PROVE 1 .. sent'[s] \subseteq Somewhere(s)'
  <2>1. UNCHANGED <<data, wire, sent, got>>
    BY <1>7 DEF ReadUDP, network, history
  <2>2. CASE x # s
    <3>1. udp'[s] = udp[s] /\ buffer'[s] = buffer[s]
      BY <2>2, <1>7, <1>t DEF ReadUDP, Set
    <3> QED
      BY <3>1, <2>1, <1>2
  <2>3. CASE x = s
    <3>1. /\ udp[s] \in Seq(Datagram) /\ udp[s] # <<>> /\ udp'[s] = Tail(udp[s])
          /\ buffer'[s] = Head(udp[s]) /\ toWS[s] = "read"
      BY <2>3, <1>7, <1>t DEF ReadUDP, Set
    <3>2. Head(udp[s]) # None /\ buffer[s] = None
      BY <3>1, HeadAndTail, Constants DEF TypeOK
    <3>3. Writing(s) = {} /\ Writing(s)' = {Head(udp[s])}
      BY <3>1, <3>2 DEF Writing, Held
    <3>4. Waiting(s) \subseteq {Head(udp[s])} \cup Waiting(s)'
      BY <3>1, QueueSplit DEF Waiting
    <3>5. Somewhere(s) \subseteq Somewhere(s)'
      BY <2>1, <3>3, <3>4 DEF Somewhere, Delivered, Reading, Wired
    <3> QED
      BY <2>1, <3>5, <1>w
  <2> QED
    BY <2>2, <2>3
<1>8. ASSUME NEW x \in Side, WriteWS(x) PROVE 1 .. sent'[s] \subseteq Somewhere(s)'
  <2>1. /\ UNCHANGED <<data, udp, sent, got>> /\ buffer' = Set(buffer, x, None)
        /\ toWS[x] = "write"
    BY <1>8 DEF WriteWS, history
  <2>2. wire' = Set(wire, x, Append(wire[x], buffer[x]))
    BY <1>8, <1>w, PeerFacts DEF WriteWS, Written, Gone, Fails
  <2>3. CASE x # s
    <3>1. wire'[s] = wire[s] /\ buffer'[s] = buffer[s]
      BY <2>1, <2>2, <2>3, <1>t DEF Set
    <3> QED
      BY <3>1, <2>1, <1>2
  <2>4. CASE x = s
    <3>1. /\ wire[s] \in Seq(Datagram) /\ buffer[s] \in Datagram /\ buffer[s] # None
          /\ wire'[s] = Append(wire[s], buffer[s])
      BY <2>1, <2>2, <2>4, <1>t, Typed, Constants DEF Set
    <3>2. Writing(s) = {buffer[s]}
      BY <3>1 DEF Writing, Held
    <3>3. Wired(s)' = Wired(s) \cup {buffer[s]}
      BY <3>1, AppendedValues DEF Wired
    <3>4. Somewhere(s) \subseteq Somewhere(s)'
      BY <2>1, <3>2, <3>3 DEF Somewhere, Delivered, Reading, Waiting
    <3> QED
      BY <2>1, <3>4, <1>w
  <2> QED
    BY <2>3, <2>4
<1>9. ASSUME NEW x \in Side, ReadWS(x) PROVE 1 .. sent'[s] \subseteq Somewhere(s)'
  <2>1. UNCHANGED <<buffer, udp, sent, got>> /\ toUDP[x] = "read"
    BY <1>9 DEF ReadWS, ReadMessage, history
  <2>2. /\ wire[Peer[x]] # <<>>
        /\ data' = Set(data, x, Head(wire[Peer[x]]))
        /\ wire' = Set(wire, Peer[x], Tail(wire[Peer[x]]))
    BY <1>9, <1>w DEF ReadWS, ReadMessage, Fails
  <2>3. CASE x # Peer[s]
    <3>1. Peer[x] # s
      BY <2>3, PeerFacts
    <3>2. wire'[s] = wire[s] /\ data'[Peer[s]] = data[Peer[s]]
      BY <2>2, <2>3, <3>1, <1>l, <1>t, PeerFacts DEF Set
    <3> QED
      BY <3>2, <2>1, <1>2
  <2>4. CASE x = Peer[s]
    <3>1. /\ wire[s] \in Seq(Datagram) /\ wire[s] # <<>> /\ wire'[s] = Tail(wire[s])
          /\ data'[Peer[s]] = Head(wire[s])
      BY <2>2, <2>4, <1>l, <1>t DEF Set
    <3>2. Head(wire[s]) # None /\ data[Peer[s]] = None
      BY <2>1, <2>4, <3>1, HeadAndTail, Constants DEF TypeOK
    <3>3. Reading(s) = {} /\ Reading(s)' = {Head(wire[s])}
      BY <3>1, <3>2 DEF Reading, Held
    <3>4. Wired(s) \subseteq {Head(wire[s])} \cup Wired(s)'
      BY <3>1, QueueSplit DEF Wired
    <3>5. Somewhere(s) \subseteq Somewhere(s)'
      BY <2>1, <3>3, <3>4 DEF Somewhere, Delivered, Writing, Waiting
    <3> QED
      BY <2>1, <3>5, <1>w
  <2> QED
    BY <2>3, <2>4
<1>10. ASSUME NEW x \in Side, toUDP[x] = "write", data' = Set(data, x, None), Received(x),
              UNCHANGED <<buffer, udp, wire, sent>>
       PROVE  1 .. sent'[s] \subseteq Somewhere(s)'
  <2>1. CASE x # Peer[s]
    <3>1. got'[Peer[s]] = got[Peer[s]] /\ data'[Peer[s]] = data[Peer[s]]
      BY <2>1, <1>10, <1>l, <1>t DEF Received, Set
    <3> QED
      BY <3>1, <1>10, <1>2
  <2>2. CASE x = Peer[s] /\ data[x] = Keepalive
    <3>1. Delivered(s)' = Delivered(s) /\ Reading(s) \subseteq {Keepalive}
      BY <2>2, <1>10 DEF Received, Delivered, Reading, Held
    <3>2. Somewhere(s) \subseteq Somewhere(s)' \cup {Keepalive}
      BY <3>1, <1>10 DEF Somewhere, Wired, Writing, Waiting
    <3>3. Keepalive \notin 1 .. sent[s]
      BY <1>t DEF Keepalive
    <3> QED
      BY <3>2, <3>3, <1>10, <1>w
  <2>3. CASE x = Peer[s] /\ data[x] # Keepalive
    <3> DEFINE n == data[x]
               Number == 1 .. MaxSent
               q == got[x]
    <3>1. q \in Seq(Number) /\ n \in Number
      BY <2>3, <1>10, <1>t, Typed, Constants DEF Datagram, Keepalive
    <3>2. got'[x] = Append(q, n)
      BY <2>3, <1>10, <1>t DEF Received, Set
    <3>3. Values(Append(q, n)) = Values(q) \cup {n}
      <4> HIDE DEF Number, q, n
      <4> QED
        BY <3>1, AppendedValues
    <3>4. Delivered(s)' = Delivered(s) \cup {n} /\ Reading(s) \subseteq {n}
      BY <2>3, <3>2, <3>3 DEF Delivered, Reading, Held
    <3>5. Somewhere(s) \subseteq Somewhere(s)'
      BY <3>4, <1>10 DEF Somewhere, Wired, Writing, Waiting
    <3> QED
      BY <3>5, <1>10, <1>w
  <2> QED
    BY <2>2, <2>1, <2>3
<1>11. CASE WriteUDPClient
  <2>1. data["client"] # None
    BY <1>11 DEF WriteUDPClient, TypeOK, Side
  <2>2. known["client"]
    BY <2>1 DEF AddressFirst
  <2>3. status = "started"
    BY <1>11, <1>w DEF WriteUDPClient, NotYet, TypeOK
  <2>4. sock["client"] = "open"
    BY <2>3, <1>w DEF Opened, TypeOK, Side
  <2>5. Received("client")
    BY <1>11, <2>2, <2>4 DEF WriteUDPClient
  <2> QED
    BY <1>11, <2>5, <1>10 DEF WriteUDPClient, Side, network
<1>12. CASE WriteUDPServer
  <2>1. Received("server")
    BY <1>12, <1>w DEF WriteUDPServer
  <2> QED
    BY <1>12, <2>1, <1>10 DEF WriteUDPServer, Side
<1>13. CASE Start
  BY <1>13, <1>3 DEF Start, history
<1>14. CASE Handle
  <2>1. CASE Serve
    <3>1. UNCHANGED <<udp, wire>>
      BY <2>1 DEF Serve
    <3> QED
      BY <2>1, <3>1, <1>3 DEF Serve
  <2>2. CASE HandlerReturns
    BY <2>2, <1>w DEF HandlerReturns, Side
  <2> QED
    BY <2>1, <2>2, <1>14 DEF Handle
<1>15. ~Stop /\ ~ServerExits /\ ~Cut
  BY DEF Stop, ServerExits, Cut
<1>16. ASSUME NEW x \in Side, Deadline(x) \/ UDPError(x) \/ Noticed(x)
       PROVE  1 .. sent'[s] \subseteq Somewhere(s)'
  BY <1>16, <1>3 DEF Deadline, UDPError, Noticed, goroutines, network, history
<1>17. CASE UNCHANGED vars
  BY <1>17, <1>3 DEF vars, goroutines, network, history
<1> QED
  BY <1>5, <1>6, <1>7, <1>8, <1>9, <1>11, <1>12, <1>13, <1>14, <1>15, <1>16, <1>17
  DEF Next, UDPToWS, WSToUDP

(* As long as nothing goes wrong, every numbered datagram that a socket of   *)
(* the session has taken is in a queue, with a goroutine or delivered, for   *)
(* buffers of any size: a full connection makes udpToWS wait, the client     *)
(* always has an address for a reply, and no socket is closed under a        *)
(* datagram.                                                                 *)
THEOREM NoneLost == Spec => []NothingLost
<1>1. Init => Kept /\ Opened /\ NotYet
  BY DEF Init, Kept, Opened, NotYet, Side
<1>2. /\ TypeOK /\ NotYet /\ Whole /\ AddressFirst /\ Opened /\ Kept /\ [Next]_vars /\ Whole'
      => Kept'
  BY StepKept DEF Kept
<1>3. TypeOK /\ Kept => NothingLost
  <2> SUFFICES ASSUME TypeOK, NEW s \in Side, 1 .. sent[s] \subseteq Somewhere(s),
                      NEW n \in 1 .. sent[s]
               PROVE  OnTheWay(s, n) \/ \E i \in DOMAIN got[Peer[s]] : got[Peer[s]][i] = n
    BY DEF Kept, NothingLost
  <2>1. /\ udp[s] \in Seq(Datagram) /\ wire[s] \in Seq(Datagram)
        /\ got[Peer[s]] \in Seq(1 .. MaxSent)
    BY Typed, PeerFacts
  <2>2. n \in Somewhere(s)
    OBVIOUS
  <2>3. \/ \E i \in 1 .. Len(got[Peer[s]]) : got[Peer[s]][i] = n
        \/ n = data[Peer[s]] \/ n = buffer[s]
        \/ \E i \in 1 .. Len(wire[s]) : wire[s][i] = n
        \/ \E i \in 1 .. Len(udp[s]) : udp[s][i] = n
    BY <2>2 DEF Somewhere, Delivered, Reading, Wired, Writing, Waiting, Values, Held
  <2>4. /\ DOMAIN got[Peer[s]] = 1 .. Len(got[Peer[s]])
        /\ DOMAIN wire[s] = 1 .. Len(wire[s]) /\ DOMAIN udp[s] = 1 .. Len(udp[s])
    BY <2>1
  <2> QED
    BY <2>3, <2>4 DEF OnTheWay
<1> QED
  BY <1>1, <1>2, <1>3, TypeCorrect, StepNotYet, InitWhole, StepWhole, InitAddress, StepAddress,
     StepOpened, PTL DEF Spec

==============================================================================
