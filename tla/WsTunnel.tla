------------------------------ MODULE WsTunnel ------------------------------
(***************************************************************************)
(* One session of the tunnel that carries WireGuard's datagrams over a     *)
(* websocket: the client of the tunnel (wstunnel.Client), the handler of   *)
(* the server for its connection (tunnel.Server.handleWebSocket), and the  *)
(* network between them.  Each side runs two goroutines, udpToWS and       *)
(* wsToUDP.  Nothing tells one of them that the other has ended except a   *)
(* cancelled context, a closed channel or a failing socket, and each looks *)
(* at these only between two blocking calls.                               *)
(*                                                                         *)
(* Sessions share nothing: a server serves any number of them like this    *)
(* one.  The two WireGuard devices are external.  They number the          *)
(* datagrams that the sockets of a session take; the client's also sends   *)
(* keepalives (every 25 s, wireguard/interface.go), without a number.      *)
(***************************************************************************)
EXTENDS Naturals, Sequences

CONSTANTS
  Capacity,  \* bound: datagrams a UDP socket, or a direction of the websocket, holds
  MaxSent,   \* bound: numbered datagrams each device sends in a session
  Faults     \* what may go wrong

FaultKind == {"dial", "udp", "refused", "cut", "exit"}

ASSUME ConstantAssumption ==
  Capacity \in Nat \ {0} /\ MaxSent \in Nat /\ Faults \subseteq FaultKind

VARIABLES
  status,     \* where the owner of the client is: Start, Stop
  handler,    \* where the server's handler is
  toWS,       \* where udpToWS of each side is
  toUDP,      \* where wsToUDP of each side is
  buffer,     \* what udpToWS of each side has read
  data,       \* what wsToUDP of each side has read
  udp,        \* what the UDP socket of each side holds for udpToWS
  wire,       \* what each side has written to the websocket and the other has not read
  sock,       \* the websocket and the UDP socket of each side
  dead,       \* calls on the websocket fail at this side
  cut,        \* the network no longer carries the connection
  refused,    \* the server's UDP socket has an error to report (ICMP port unreachable)
  known,      \* client: clientMap holds an address; server: WireGuard knows the session's
  disturbed,  \* history: something went wrong, or the client was stopped
  sent,       \* how many datagrams the socket of each side has taken
  got         \* the datagrams each device has received

ends == <<status, handler>>
goroutines == <<toWS, toUDP, buffer, data>>
network == <<wire, sock, dead, cut, refused>>
history == <<disturbed, sent, got>>
vars == <<ends, goroutines, udp, network, known, history>>

Side == {"client", "server"}
Peer == [s \in Side |-> IF s = "client" THEN "server" ELSE "client"]

Keepalive == 0
Datagram == 0 .. MaxSent
None == MaxSent + 1  \* the variable of a goroutine holds nothing yet

Step == {"none", "read", "write", "done"}

Init ==
  /\ status = "idle" /\ handler = "none"
  /\ toWS = [s \in Side |-> "none"] /\ toUDP = [s \in Side |-> "none"]
  /\ buffer = [s \in Side |-> None] /\ data = [s \in Side |-> None]
  /\ udp = [s \in Side |-> <<>>] /\ wire = [s \in Side |-> <<>>]
  /\ sock = [s \in Side |-> "none"]
  /\ dead = [s \in Side |-> FALSE] /\ cut = FALSE /\ refused = FALSE
  /\ known = [s \in Side |-> FALSE]
  /\ disturbed = FALSE
  /\ sent = [s \in Side |-> 0] /\ got = [s \in Side |-> <<>>]

Set(f, s, value) == [f EXCEPT ![s] = value]

(* A goroutine that returns cancels the context of the server's session. *)
Cancelled == toWS["server"] = "done" \/ toUDP["server"] = "done"

(* What a goroutine finds at the top of its loop. *)
Stopping(s) == IF s = "client" THEN status = "stopped" ELSE Cancelled
Again(s) == IF Stopping(s) THEN "done" ELSE "read"

(* A side closes its two sockets: what they hold is discarded. *)
Close(s) ==
  /\ sock' = Set(sock, s, "closed")
  /\ udp' = Set(udp, s, <<>>) /\ wire' = Set(wire, Peer[s], <<>>)

(* No byte reaches the other side any more. *)
Gone(s) == cut \/ sock[Peer[s]] = "closed"
Fails(s) == dead[s] \/ sock[s] = "closed"

------------------------------------------------------------------------------
(* The client is started and stopped; the server accepts, serves and ends. *)

(* Start: the UDP socket is bound, the server dialled, two goroutines run.   *)
(* A failed bind or dial leaves no socket.                                   *)
Start ==
  /\ status = "idle"
  /\ \/ /\ status' = "started" /\ handler' = "accepted"
        /\ sock' = [s \in Side |-> "open"]
        /\ toWS' = Set(toWS, "client", "read") /\ toUDP' = Set(toUDP, "client", "read")
     \/ /\ "dial" \in Faults
        /\ status' = "failed"
        /\ UNCHANGED <<handler, sock, toWS, toUDP>>
  /\ UNCHANGED <<buffer, data, udp, wire, dead, cut, refused, known, history>>

(* The rest of handleWebSocket: a UDP socket and two goroutines. *)
Serve ==
  /\ handler = "accepted"
  /\ \/ /\ handler' = "serving"
        /\ toWS' = Set(toWS, "server", "read") /\ toUDP' = Set(toUDP, "server", "read")
        /\ UNCHANGED <<sock, udp, wire, disturbed>>
     \/ /\ "udp" \in Faults
        /\ handler' = "closed" /\ Close("server")
        /\ disturbed' = TRUE
        /\ UNCHANGED <<toWS, toUDP>>
  /\ UNCHANGED <<status, buffer, data, dead, cut, refused, known, sent, got>>

(* wg.Wait returns and the deferred calls close both sockets. *)
HandlerReturns ==
  /\ handler = "serving" /\ toWS["server"] = "done" /\ toUDP["server"] = "done"
  /\ handler' = "closed" /\ Close("server")
  /\ UNCHANGED <<status, goroutines, dead, cut, refused, known, history>>

(* Stop of the client closes both of its sockets. *)
Stop ==
  /\ status = "started" /\ status' = "stopped"
  /\ Close("client")
  /\ disturbed' = TRUE
  /\ UNCHANGED <<handler, goroutines, dead, cut, refused, known, sent, got>>

(* The server's process ends: os.Exit, or a crash.  Its Stop before that is a *)
(* Shutdown, which does not touch a connection that has become a websocket.  *)
ServerExits ==
  /\ "exit" \in Faults /\ handler \in {"accepted", "serving"}
  /\ handler' = "closed"
  /\ Close("server")
  /\ toWS' = Set(toWS, "server", "done") /\ toUDP' = Set(toUDP, "server", "done")
  /\ buffer' = Set(buffer, "server", None) /\ data' = Set(data, "server", None)
  /\ disturbed' = TRUE
  /\ UNCHANGED <<status, dead, cut, refused, known, sent, got>>

ClientIdle == \A pc \in {toWS["client"], toUDP["client"]} : pc \in {"none", "done"}

(* The manager makes a new client for its next connection. *)
Reconnect ==
  /\ status \in {"stopped", "failed"} /\ ClientIdle /\ handler \in {"none", "closed"}
  /\ status' = "idle" /\ handler' = "none"
  /\ toWS' = [s \in Side |-> "none"] /\ toUDP' = [s \in Side |-> "none"]
  /\ buffer' = [s \in Side |-> None] /\ data' = [s \in Side |-> None]
  /\ udp' = [s \in Side |-> <<>>] /\ wire' = [s \in Side |-> <<>>]
  /\ sock' = [s \in Side |-> "none"]
  /\ dead' = [s \in Side |-> FALSE] /\ cut' = FALSE /\ refused' = FALSE
  /\ known' = [s \in Side |-> FALSE]
  /\ disturbed' = FALSE
  /\ sent' = [s \in Side |-> 0] /\ got' = [s \in Side |-> <<>>]

------------------------------------------------------------------------------
(* udpToWS *)

(* Variant: the sender's address is not kept. *)
Unremembered(s) == known

(* clientMap["last"] = addr; the server's UDP socket is connected. *)
Remembered(s) == IF s = "client" THEN Set(known, s, TRUE) ELSE known

ReadUDP(s) ==
  /\ toWS[s] = "read" /\ sock[s] = "open" /\ udp[s] # <<>>
  /\ buffer' = Set(buffer, s, Head(udp[s]))
  /\ udp' = Set(udp, s, Tail(udp[s]))
  /\ known' = Remembered(s)
  /\ toWS' = Set(toWS, s, "write")
  /\ UNCHANGED <<ends, toUDP, data, network, history>>

(* Variant: the read has no deadline. *)
NoDeadline(s) == FALSE

(* Variant: a timeout ends the goroutine. *)
DeadlineEnds(s) == toWS[s] = "read" /\ sock[s] = "open" /\ udp[s] = <<>>

(* The read reaches its deadline (1 s, 30 s); the loop goes on unless it     *)
(* must stop.                                                                *)
DeadlineStops(s) ==
  toWS[s] = "read" /\ sock[s] = "open" /\ udp[s] = <<>> /\ Stopping(s)

Deadline(s) ==
  /\ DeadlineStops(s)
  /\ toWS' = Set(toWS, s, "done")
  /\ UNCHANGED <<ends, toUDP, buffer, data, udp, network, known, history>>

(* Any other error of the read: a closed socket, or a refused datagram. *)
UDPError(s) ==
  /\ toWS[s] = "read"
  /\ \/ sock[s] = "closed" /\ UNCHANGED refused
     \/ s = "server" /\ refused /\ refused' = FALSE
  /\ toWS' = Set(toWS, s, "done")
  /\ UNCHANGED <<ends, toUDP, buffer, data, udp, wire, sock, dead, cut, known, history>>

Room(queue) == Len(queue) < Capacity

(* WriteMessage blocks while the connection is full; what is written to a    *)
(* connection that is gone, before anything failed, is lost.                 *)
Written(s) ==
  IF Gone(s) THEN UNCHANGED wire
  ELSE Room(wire[s]) /\ wire' = Set(wire, s, Append(wire[s], buffer[s]))

(* Variant: the same datagram is written again. *)
WriteWSTwice(s) ==
  /\ toWS[s] = "write" /\ ~Fails(s) /\ Written(s)
  /\ UNCHANGED <<ends, goroutines, udp, sock, dead, cut, refused, known, history>>

(* Variant: a write that would have to wait is given up, and the loop goes on. *)
WriteWSImpatient(s) ==
  /\ toWS[s] = "write"
  /\ \/ /\ ~Fails(s) /\ toWS' = Set(toWS, s, Again(s))
        /\ IF Gone(s) \/ Room(wire[s]) THEN Written(s) ELSE UNCHANGED wire
     \/ Fails(s) /\ UNCHANGED wire /\ toWS' = Set(toWS, s, "done")
  /\ buffer' = Set(buffer, s, None)
  /\ UNCHANGED <<ends, toUDP, data, udp, sock, dead, cut, refused, known, history>>

WriteWS(s) ==
  /\ toWS[s] = "write"
  /\ \/ ~Fails(s) /\ Written(s) /\ toWS' = Set(toWS, s, Again(s))
     \/ Fails(s) /\ UNCHANGED wire /\ toWS' = Set(toWS, s, "done")
  /\ buffer' = Set(buffer, s, None)
  /\ UNCHANGED <<ends, toUDP, data, udp, sock, dead, cut, refused, known, history>>

------------------------------------------------------------------------------
(* wsToUDP *)

ReadMessage(s) ==
  /\ toUDP[s] = "read"
  /\ \/ /\ sock[s] = "open" /\ wire[Peer[s]] # <<>>
        /\ data' = Set(data, s, Head(wire[Peer[s]]))
        /\ wire' = Set(wire, Peer[s], Tail(wire[Peer[s]]))
        /\ toUDP' = Set(toUDP, s, "write")
     \/ /\ Fails(s)
        /\ toUDP' = Set(toUDP, s, "done")
        /\ UNCHANGED <<data, wire>>
  /\ UNCHANGED <<ends, toWS, buffer, udp, sock, dead, cut, refused, known, history>>

(* Variant: the two goroutines share a lock, held while WriteMessage blocks. *)
ReadWSLocked(s) == toWS[s] # "write" /\ ReadMessage(s)

(* The two goroutines of a side share no lock. *)
ReadWS(s) == ReadMessage(s)

Received(s) ==
  got' = IF data[s] = Keepalive THEN got ELSE Set(got, s, Append(got[s], data[s]))

(* Variant: the data of an earlier message is kept. *)
WriteUDPKeepingData ==
  /\ toUDP["client"] = "write"
  /\ IF known["client"] /\ sock["client"] = "open" THEN Received("client") ELSE UNCHANGED got
  /\ toUDP' = Set(toUDP, "client", Again("client"))
  /\ UNCHANGED <<ends, toWS, buffer, data, udp, network, known, disturbed, sent>>

(* At the client a datagram goes to the last local sender, if there is one;  *)
(* an error is only logged.                                                  *)
WriteUDPClient ==
  /\ toUDP["client"] = "write"
  /\ IF known["client"] /\ sock["client"] = "open" THEN Received("client") ELSE UNCHANGED got
  /\ toUDP' = Set(toUDP, "client", Again("client"))
  /\ data' = Set(data, "client", None)
  /\ UNCHANGED <<ends, toWS, buffer, udp, network, known, disturbed, sent>>

(* At the server an error ends the goroutine.  A datagram for a device that  *)
(* does not listen is lost, and the error comes with the next call.          *)
WriteUDPServer ==
  /\ toUDP["server"] = "write"
  /\ \/ /\ ~refused
        /\ Received("server") /\ known' = Set(known, "server", TRUE)
        /\ toUDP' = Set(toUDP, "server", Again("server"))
        /\ UNCHANGED <<refused, disturbed>>
     \/ /\ ~refused /\ "refused" \in Faults
        /\ refused' = TRUE /\ disturbed' = TRUE
        /\ toUDP' = Set(toUDP, "server", Again("server"))
        /\ UNCHANGED <<got, known>>
     \/ /\ refused
        /\ refused' = FALSE
        /\ toUDP' = Set(toUDP, "server", "done")
        /\ UNCHANGED <<got, known, disturbed>>
  /\ data' = Set(data, "server", None)
  /\ UNCHANGED <<ends, toWS, buffer, udp, wire, sock, dead, cut, sent>>

------------------------------------------------------------------------------
(* The devices and the network *)

(* A full socket drops the datagram, and nothing changes. *)
Arrives(s, d) == Room(udp[s]) /\ udp' = Set(udp, s, Append(udp[s], d))

(* The client's device uses the tunnel until it is stopped; the server's     *)
(* knows where to send once a datagram has come.                             *)
Device(s) ==
  /\ sock[s] = "open" /\ sent[s] < MaxSent
  /\ s = "server" => known[s]
  /\ sent' = Set(sent, s, sent[s] + 1)
  /\ Arrives(s, sent[s] + 1)
  /\ UNCHANGED <<ends, goroutines, network, known, disturbed, got>>

SendKeepalive ==
  /\ sock["client"] = "open"
  /\ Arrives("client", Keepalive)
  /\ UNCHANGED <<ends, goroutines, network, known, history>>

Cut ==
  /\ "cut" \in Faults /\ ~cut /\ \E s \in Side : sock[s] = "open"
  /\ cut' = TRUE /\ disturbed' = TRUE
  /\ UNCHANGED <<ends, goroutines, udp, wire, sock, dead, refused, known, sent, got>>

(* TCP learns that the connection is over: a FIN, a reset, a retransmission  *)
(* or a keepalive probe unanswered.                                          *)
Noticed(s) ==
  /\ sock[s] = "open" /\ Gone(s) /\ ~dead[s]
  /\ dead' = Set(dead, s, TRUE)
  /\ UNCHANGED <<ends, goroutines, udp, wire, sock, cut, refused, known, history>>

Handle == Serve \/ HandlerReturns
UDPToWS(s) == ReadUDP(s) \/ Deadline(s) \/ UDPError(s) \/ WriteWS(s)
WSToUDP(s) ==
  ReadWS(s) \/ (s = "client" /\ WriteUDPClient) \/ (s = "server" /\ WriteUDPServer)

Next ==
  \/ Start \/ Handle \/ Stop \/ ServerExits \/ Reconnect \/ SendKeepalive \/ Cut
  \/ \E s \in Side : UDPToWS(s) \/ WSToUDP(s) \/ Device(s) \/ Noticed(s)

Spec == Init /\ [][Next]_vars

(* Goroutines are scheduled and blocking calls return when they can; TCP     *)
(* notices in the end; the client's device sends its keepalives.             *)
Fairness ==
  /\ WF_vars(Handle) /\ WF_vars(SendKeepalive)
  /\ \A s \in Side : WF_vars(UDPToWS(s)) /\ WF_vars(WSToUDP(s)) /\ WF_vars(Noticed(s))

FairSpec == Spec /\ Fairness

------------------------------------------------------------------------------
(* Properties *)

(* Every variable has its type, and a goroutine holds a datagram exactly     *)
(* between reading and writing it.                                           *)
TypeOK ==
  /\ status \in {"idle", "started", "failed", "stopped"}
  /\ handler \in {"none", "accepted", "serving", "closed"}
  /\ toWS \in [Side -> Step] /\ toUDP \in [Side -> Step]
  /\ buffer \in [Side -> Datagram \cup {None}] /\ data \in [Side -> Datagram \cup {None}]
  /\ udp \in [Side -> Seq(Datagram)] /\ wire \in [Side -> Seq(Datagram)]
  /\ sock \in [Side -> {"none", "open", "closed"}]
  /\ dead \in [Side -> BOOLEAN] /\ known \in [Side -> BOOLEAN]
  /\ cut \in BOOLEAN /\ refused \in BOOLEAN /\ disturbed \in BOOLEAN
  /\ sent \in [Side -> 0 .. MaxSent] /\ got \in [Side -> Seq(1 .. MaxSent)]
  /\ \A s \in Side : Len(udp[s]) <= Capacity /\ Len(wire[s]) <= Capacity
  /\ \A s \in Side : /\ toWS[s] = "write" <=> buffer[s] # None
                     /\ toUDP[s] = "write" <=> data[s] # None

(* A reply is never read from the websocket before the client has stored the *)
(* address to send it to: the branch of wsToUDP that drops a datagram for    *)
(* lack of an address is never taken.                                        *)
ReplyHasAddress == data["client"] # None => known["client"]

(* The deadlines of the reads never end an idle session: as long as nothing  *)
(* went wrong and the client was not stopped, all goroutines run.            *)
SilenceIsNoEnd ==
  ~disturbed => \A s \in Side : toWS[s] # "done" /\ toUDP[s] # "done"

Pipe == INSTANCE DatagramPipe

(* In each direction datagrams arrive in order and once (DatagramPipe),      *)
(* whatever goroutines, sockets and network do.                              *)
PipeSpec == Pipe!Spec

(* When one goroutine of a session has ended, whatever the reason, all four  *)
(* end and the server closes its sockets: no half of a session stays for     *)
(* ever, at either side.                                                     *)
EndSpreads ==
  (\E s \in Side : toWS[s] = "done" \/ toUDP[s] = "done")
    ~> (ClientIdle /\ handler \in {"none", "closed"})

OnTheWay(s, n) ==
  \/ n \in {buffer[s], data[Peer[s]]}
  \/ \E queue \in {udp[s], wire[s]} : \E i \in DOMAIN queue : queue[i] = n

(* As long as nothing goes wrong, every datagram a socket has taken is with  *)
(* a goroutine, in a queue or delivered: full buffers delay datagrams and    *)
(* lose none.                                                                *)
NothingLost ==
  ~disturbed =>
    \A s \in Side : \A n \in 1 .. sent[s] :
      OnTheWay(s, n) \/ \E i \in DOMAIN got[Peer[s]] : got[Peer[s]][i] = n

(* And it does not stay on the way for ever: neither side waits for the      *)
(* other.                                                                    *)
TrafficFlows ==
  (\E s \in Side, n \in 1 .. MaxSent : OnTheWay(s, n))
    ~> (disturbed \/ ~ \E s \in Side, n \in 1 .. MaxSent : OnTheWay(s, n))
=============================================================================
