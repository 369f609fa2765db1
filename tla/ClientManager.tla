---------------------------- MODULE ClientManager ----------------------------
(***************************************************************************)
(* The connection manager of the client service (connection.Manager) with  *)
(* the tunnel client and the WireGuard interface it creates.               *)
(*                                                                         *)
(* Every accepted Connect starts a goroutine doConnect, an ATTEMPT.  It    *)
(* runs concurrently with later Disconnects, with later attempts, with the *)
(* handlers of PUT /api/routes/settings and with a restart of the service. *)
(* Some of its assignments to the manager's fields are made under m.mu and *)
(* some are not; each access to shared state is a step of its own.         *)
(*                                                                         *)
(* An attempt creates at most one tunnel client and one interface, named   *)
(* here by the attempt, as are its token and its assigned address.  All    *)
(* attempts go to one server, so peerPublicKey is a single value and is    *)
(* left out, as is servers.json, which records only that server's address. *)
(***************************************************************************)
CONSTANTS
  Attempt,    \* names for connection attempts, reused once nothing refers to them
  NoAttempt,  \* nil, the empty string, and the fixed UDP port no tunnel listens on
  Handler,    \* concurrent requests to the route settings handler
  Route,      \* the CIDRs the server may announce
  Default,    \* the AllowedIPs of the server's configuration (all traffic)
  Patient,    \* TRUE: the user waits for each request, and for Connecting to end
  Faults      \* which local operations may fail

FaultKind == {"auth", "dial", "tun", "configure", "routes", "disk", "ipc", "crash"}

ASSUME ConstantAssumption ==
  /\ NoAttempt \notin Attempt
  /\ Default \notin Route
  /\ Patient \in BOOLEAN
  /\ Faults \subseteq FaultKind

VARIABLES
  m,       \* the fields of connection.Manager
  pc,      \* where each attempt is in doConnect
  frame,   \* the local variables of each attempt
  tunnel,  \* the tunnel client each attempt created
  dev,     \* the WireGuard interface each attempt created
  disk,    \* the exclusions in routes.json
  hpc,     \* where each handler is in SetExcludedRoutes
  hframe   \* the local variables of each handler

vars == <<m, pc, frame, tunnel, dev, disk, hpc, hframe>>

Pointer == Attempt \cup {NoAttempt}

State == {"disconnected", "connecting", "connected", "failed"}

Manager == [state : State, token : Pointer, ip : Pointer, tunnel : Pointer,
            iface : Pointer, server : Pointer, error : Pointer,
            available : SUBSET Route, active : SUBSET Route, excluded : SUBSET Route]

(* A tunnel client whose websocket is lost is "broken": one of its two      *)
(* goroutines has returned, running is still true, the sockets are open.    *)
TunnelState == {"none", "up", "broken", "closed"}
Open == {"up", "broken"}

(* allowed and endpoint are those of the interface's only peer; os holds the *)
(* routes of the operating system that point at the interface.               *)
Device == [status : {"none", "created", "up", "destroyed"},
           allowed : SUBSET (Route \cup {Default}),
           endpoint : Pointer,
           os : SUBSET (Route \cup {Default})]
Exists == {"created", "up"}

NoDevice == [status |-> "none", allowed |-> {}, endpoint |-> NoAttempt, os |-> {}]

NewManager(excluded) ==
  [state |-> "disconnected", token |-> NoAttempt, ip |-> NoAttempt,
   tunnel |-> NoAttempt, iface |-> NoAttempt, server |-> NoAttempt,
   error |-> NoAttempt, available |-> {}, active |-> {}, excluded |-> excluded]

Ended == {"idle", "done", "failed"}
Setup == {"auth", "token", "ip", "start", "publish", "create", "available", "filter",
          "active", "configure", "attach", "mark", "stop", "destroy", "report"}
InFlight(a) == pc[a] \notin Ended

Frame == [routes : SUBSET Route, active : SUBSET Route]
EmptyFrame == [routes |-> {}, active |-> {}]

HandlerStep ==
  {"idle", "marshal", "write", "snapshot", "filter", "remove", "add", "route", "record"}
HFrame == [data : SUBSET Route, iface : Pointer,
           available : SUBSET Route, active : SUBSET Route]
EmptyHFrame == [data |-> {}, iface |-> NoAttempt, available |-> {}, active |-> {}]

Started(excluded) ==
  /\ m = NewManager(excluded)
  /\ pc = [a \in Attempt |-> "idle"]
  /\ frame = [a \in Attempt |-> EmptyFrame]
  /\ tunnel = [a \in Attempt |-> "none"]
  /\ dev = [a \in Attempt |-> NoDevice]
  /\ hpc = [h \in Handler |-> "idle"]
  /\ hframe = [h \in Handler |-> EmptyHFrame]

Init == Started({}) /\ disk = {}

------------------------------------------------------------------------------
(* Requests of the user *)

(* Nothing refers to the goroutine and the objects named a any more. *)
Unused(a) ==
  /\ ~InFlight(a)
  /\ tunnel[a] \notin Open
  /\ dev[a].status \notin Exists
  /\ a \notin {m.tunnel, m.iface, m.server, m.token, m.ip}
  /\ \A h \in Handler : hframe[h].iface # a

HandlersIdle == \A h \in Handler : hpc[h] = "idle"

(* Variant: lastError is not reset. *)
ConnectingKeepingError == [m EXCEPT !.state = "connecting"]

Connecting == [m EXCEPT !.state = "connecting", !.error = NoAttempt]

Connect(a) ==
  /\ Unused(a)
  /\ Patient => HandlersIdle
  /\ m.state \notin {"connected", "connecting"}
  /\ m' = Connecting
  /\ pc' = [pc EXCEPT ![a] = "auth"]
  /\ frame' = [frame EXCEPT ![a] = EmptyFrame]
  /\ tunnel' = [tunnel EXCEPT ![a] = "none"]
  /\ dev' = [dev EXCEPT ![a] = NoDevice]
  /\ UNCHANGED <<disk, hpc, hframe>>

(* Stop of a tunnel client: nothing happens unless it is running. *)
Stopped(t) == IF t \in Open THEN "closed" ELSE t

(* Variant: Destroy does not reach the device. *)
NotDestroyed(d) == d

(* Destroy of an interface: the device is closed and its routes go with it. *)
Destroyed(d) == [d EXCEPT !.status = "destroyed", !.allowed = {}, !.os = {}]

(* Variant: the pointer to the destroyed interface is kept. *)
ClearedButInterface ==
  [m EXCEPT !.tunnel = NoAttempt, !.state = "disconnected",
            !.server = NoAttempt, !.token = NoAttempt, !.ip = NoAttempt]

Cleared ==
  [m EXCEPT !.tunnel = NoAttempt, !.iface = NoAttempt, !.state = "disconnected",
            !.server = NoAttempt, !.token = NoAttempt, !.ip = NoAttempt]

(* Under m.mu.  The assignments that doConnect makes without the lock come   *)
(* before or after all of it, never between its statements.                  *)
Disconnect ==
  /\ Patient => m.state # "connecting" /\ HandlersIdle
  /\ m.state # "disconnected"
  /\ tunnel' = [a \in Attempt |-> IF a = m.tunnel THEN Stopped(tunnel[a]) ELSE tunnel[a]]
  /\ dev' = [a \in Attempt |-> IF a = m.iface THEN Destroyed(dev[a]) ELSE dev[a]]
  /\ m' = Cleared
  /\ UNCHANGED <<pc, frame, disk, hpc, hframe>>

------------------------------------------------------------------------------
(* doConnect *)

Goto(a, label) == pc' = [pc EXCEPT ![a] = label]

(* authenticate: the login and the request for the configuration return, if  *)
(* they ever do.                                                             *)
Authenticate(a) ==
  /\ pc[a] = "auth"
  /\ \/ /\ \E routes \in SUBSET Route : frame' = [frame EXCEPT ![a].routes = routes]
        /\ Goto(a, "token")
     \/ "auth" \in Faults /\ Goto(a, "report") /\ UNCHANGED frame
  /\ UNCHANGED <<m, tunnel, dev, disk, hpc, hframe>>

(* m.token = token, without m.mu *)
SetToken(a) ==
  /\ pc[a] = "token" /\ Goto(a, "ip")
  /\ m' = [m EXCEPT !.token = a]
  /\ UNCHANGED <<frame, tunnel, dev, disk, hpc, hframe>>

(* m.assignedIP = wgConfig.Address, without m.mu *)
SetIP(a) ==
  /\ pc[a] = "ip" /\ Goto(a, "start")
  /\ m' = [m EXCEPT !.ip = a]
  /\ UNCHANGED <<frame, tunnel, dev, disk, hpc, hframe>>

(* The tunnel client binds a local port and dials the server.  An unusable  *)
(* URL, a failed bind and a failed dial all end in setError with no socket   *)
(* left open.                                                                *)
StartTunnel(a) ==
  /\ pc[a] = "start"
  /\ \/ tunnel' = [tunnel EXCEPT ![a] = "up"] /\ Goto(a, "publish")
     \/ "dial" \in Faults /\ Goto(a, "report") /\ UNCHANGED tunnel
  /\ UNCHANGED <<m, frame, dev, disk, hpc, hframe>>

(* m.wstunnelClient = wstunnelClient, without m.mu *)
PublishTunnel(a) ==
  /\ pc[a] = "publish" /\ Goto(a, "create")
  /\ m' = [m EXCEPT !.tunnel = a]
  /\ UNCHANGED <<frame, tunnel, dev, disk, hpc, hframe>>

(* Variant: the tunnel is not stopped when the interface cannot be created. *)
CreateInterfaceKeepingTunnel(a) ==
  /\ pc[a] = "create"
  /\ \/ dev' = [dev EXCEPT ![a].status = "created"] /\ Goto(a, "available")
     \/ "tun" \in Faults /\ Goto(a, "report") /\ UNCHANGED dev
  /\ UNCHANGED <<m, frame, tunnel, disk, hpc, hframe>>

(* wireguard.NewInterface *)
CreateInterface(a) ==
  /\ pc[a] = "create"
  /\ \/ dev' = [dev EXCEPT ![a].status = "created"] /\ Goto(a, "available")
     \/ "tun" \in Faults /\ Goto(a, "stop") /\ UNCHANGED dev
  /\ UNCHANGED <<m, frame, tunnel, disk, hpc, hframe>>

SetAvailable(a) ==
  /\ pc[a] = "available" /\ Goto(a, "filter")
  /\ m' = [m EXCEPT !.available = frame[a].routes]
  /\ UNCHANGED <<frame, tunnel, dev, disk, hpc, hframe>>

(* Variant: the filter itself falls back to the default AllowedIPs. *)
FilteredOrDefault(routes) ==
  IF routes \subseteq m.excluded THEN {Default} ELSE routes \ m.excluded

(* filterRoutes reads the exclusions under a lock of its own. *)
Filtered(routes) == routes \ m.excluded

FilterRoutes(a) ==
  /\ pc[a] = "filter" /\ Goto(a, "active")
  /\ frame' = [frame EXCEPT ![a].active = Filtered(frame[a].routes)]
  /\ UNCHANGED <<m, tunnel, dev, disk, hpc, hframe>>

(* Variant: the unfiltered routes are reported. *)
SetActiveUnfiltered(a) ==
  /\ pc[a] = "active" /\ Goto(a, "configure")
  /\ m' = [m EXCEPT !.active = frame[a].routes]
  /\ UNCHANGED <<frame, tunnel, dev, disk, hpc, hframe>>

SetActive(a) ==
  /\ pc[a] = "active" /\ Goto(a, "configure")
  /\ m' = [m EXCEPT !.active = frame[a].active]
  /\ UNCHANGED <<frame, tunnel, dev, disk, hpc, hframe>>

(* Without a route left the AllowedIPs of the server's configuration stay. *)
Installed(active) == IF active = {} THEN {Default} ELSE active

(* SetRoutes stops at the first route that cannot be added; its callers only *)
(* log the error.  A route that exists is passed over in silence             *)
(* (platform_linux.go:66), though it may point at another interface: it is   *)
(* not added, so this too is a fault "routes".                               *)
RoutesAdded(routes) == IF "routes" \in Faults THEN SUBSET routes ELSE {routes}

(* Device, peer and routes in one step: nobody else has the interface yet.   *)
Configure(a) ==
  /\ pc[a] = "configure"
  /\ \/ /\ \E os \in RoutesAdded(Installed(frame[a].active)) :
             dev' = [dev EXCEPT ![a] = [status |-> "up",
                                        allowed |-> Installed(frame[a].active),
                                        endpoint |-> a,
                                        os |-> os]]
        /\ Goto(a, "attach")
     \/ "configure" \in Faults /\ Goto(a, "stop") /\ UNCHANGED dev
  /\ UNCHANGED <<m, frame, tunnel, disk, hpc, hframe>>

(* m.wgInterface = wgInterface, without m.mu *)
AttachInterface(a) ==
  /\ pc[a] = "attach" /\ Goto(a, "mark")
  /\ m' = [m EXCEPT !.iface = a]
  /\ UNCHANGED <<frame, tunnel, dev, disk, hpc, hframe>>

MarkConnected(a) ==
  /\ pc[a] = "mark" /\ Goto(a, "save")
  /\ m' = [m EXCEPT !.state = "connected", !.server = a]
  /\ UNCHANGED <<frame, tunnel, dev, disk, hpc, hframe>>

(* loadRouteSettings *)
SavedSettings == disk

(* The process is gone, with its sockets and its TUN interfaces, and the     *)
(* service manager starts it again: NewManager reads the saved exclusions.   *)
Reboot ==
  /\ m' = NewManager(SavedSettings)
  /\ pc' = [a \in Attempt |-> "idle"]
  /\ frame' = [a \in Attempt |-> EmptyFrame]
  /\ tunnel' = [a \in Attempt |-> "none"]
  /\ dev' = [a \in Attempt |-> NoDevice]
  /\ hpc' = [h \in Handler |-> "idle"]
  /\ hframe' = [h \in Handler |-> EmptyHFrame]
  /\ UNCHANGED disk

(* m.saveServer( *m.currentServer ): the pointer is read after m.mu was      *)
(* released, and dereferencing nil in this goroutine ends the process.       *)
SaveServer(a) ==
  /\ pc[a] = "save"
  /\ \/ /\ m.server # NoAttempt
        /\ Goto(a, "done")
        /\ frame' = [frame EXCEPT ![a] = EmptyFrame]
        /\ UNCHANGED <<m, tunnel, dev, disk, hpc, hframe>>
     \/ m.server = NoAttempt /\ Reboot

(* Variant: the interface that could not be configured is not destroyed. *)
AfterStopReport(a) == "report"

(* Variant: the attempt starts over. *)
AfterStopAgain(a) == "start"

AfterStop(a) == IF dev[a].status = "created" THEN "destroy" ELSE "report"

(* The error paths: Stop the tunnel, Destroy the interface if there is one,  *)
(* then setError.                                                            *)
StopTunnel(a) ==
  /\ pc[a] = "stop"
  /\ tunnel' = [tunnel EXCEPT ![a] = Stopped(@)]
  /\ Goto(a, AfterStop(a))
  /\ UNCHANGED <<m, frame, dev, disk, hpc, hframe>>

DestroyInterface(a) ==
  /\ pc[a] = "destroy" /\ Goto(a, "report")
  /\ dev' = [dev EXCEPT ![a] = Destroyed(@)]
  /\ UNCHANGED <<m, frame, tunnel, disk, hpc, hframe>>

(* Variant: the state is not changed. *)
ErrorOnly(a) == [m EXCEPT !.error = a]

Failed(a) == [m EXCEPT !.state = "failed", !.error = a]

SetError(a) ==
  /\ pc[a] = "report" /\ Goto(a, "failed")
  /\ m' = Failed(a)
  /\ frame' = [frame EXCEPT ![a] = EmptyFrame]
  /\ UNCHANGED <<tunnel, dev, disk, hpc, hframe>>

Step(a) ==
  \/ Authenticate(a) \/ SetToken(a) \/ SetIP(a) \/ StartTunnel(a)
  \/ PublishTunnel(a) \/ CreateInterface(a) \/ SetAvailable(a)
  \/ FilterRoutes(a) \/ SetActive(a) \/ Configure(a) \/ AttachInterface(a)
  \/ MarkConnected(a) \/ SaveServer(a)
  \/ StopTunnel(a) \/ DestroyInterface(a) \/ SetError(a)

------------------------------------------------------------------------------
(* SetExcludedRoutes, run by PUT /api/routes/settings *)

HGoto(h, label) == hpc' = [hpc EXCEPT ![h] = label]

(* The handler returns: its locals are gone. *)
Return(h) ==
  /\ HGoto(h, "idle")
  /\ hframe' = [hframe EXCEPT ![h] = EmptyHFrame]

SetExcluded(h) ==
  /\ hpc[h] = "idle"
  /\ Patient => HandlersIdle
  /\ \E excluded \in SUBSET Route : m' = [m EXCEPT !.excluded = excluded]
  /\ HGoto(h, "marshal")
  /\ UNCHANGED <<pc, frame, tunnel, dev, disk, hframe>>

(* saveRouteSettings encodes the settings under a read lock ... *)
Marshal(h) ==
  /\ hpc[h] = "marshal" /\ HGoto(h, "write")
  /\ hframe' = [hframe EXCEPT ![h].data = m.excluded]
  /\ UNCHANGED <<m, pc, frame, tunnel, dev, disk>>

(* ... and writes the file after releasing it. *)
WriteSettings(h) ==
  /\ hpc[h] = "write"
  /\ \/ disk' = hframe[h].data /\ HGoto(h, "snapshot") /\ UNCHANGED hframe
     \/ "disk" \in Faults /\ Return(h) /\ UNCHANGED disk
  /\ UNCHANGED <<m, pc, frame, tunnel, dev>>

(* ApplyRoutes reads the manager once and then works without the lock. *)
Snapshot(h) ==
  /\ hpc[h] = "snapshot"
  /\ \/ /\ m.state = "connected" /\ m.iface # NoAttempt
        /\ hframe' = [hframe EXCEPT ![h].iface = m.iface, ![h].available = m.available]
        /\ HGoto(h, "filter")
     \/ (m.state # "connected" \/ m.iface = NoAttempt) /\ Return(h)
  /\ UNCHANGED <<m, pc, frame, tunnel, dev, disk>>

FilterSnapshot(h) ==
  /\ hpc[h] = "filter"
  /\ LET active == Filtered(hframe[h].available)
     IN  \/ /\ active # {}
            /\ hframe' = [hframe EXCEPT ![h].active = active]
            /\ HGoto(h, "remove")
         \/ active = {} /\ Return(h)
  /\ UNCHANGED <<m, pc, frame, tunnel, dev, disk>>

(* UpdateAllowedIPs.  A destroyed interface has no device: the call panics,  *)
(* which the HTTP framework turns into an error response.                    *)
RemovePeer(h) ==
  /\ hpc[h] = "remove"
  /\ \/ /\ dev[hframe[h].iface].status = "up"
        /\ dev' = [dev EXCEPT ![hframe[h].iface].allowed = {}]
        /\ HGoto(h, "add") /\ UNCHANGED hframe
     \/ /\ dev[hframe[h].iface].status # "up" \/ "ipc" \in Faults
        /\ Return(h) /\ UNCHANGED dev
  /\ UNCHANGED <<m, pc, frame, tunnel, disk>>

(* Variant: the peer is added without its AllowedIPs. *)
AddedWithoutIPs(d, active) == [d EXCEPT !.endpoint = NoAttempt]

(* AddPeer adds to what the peer already has, if another handler added it.   *)
(* The endpoint is the constant "127.0.0.1:51820".                           *)
Added(d, active) ==
  [d EXCEPT !.endpoint = NoAttempt, !.allowed = @ \cup active]

AddPeer(h) ==
  /\ hpc[h] = "add"
  /\ \/ /\ dev[hframe[h].iface].status = "up"
        /\ dev' = [dev EXCEPT ![hframe[h].iface] = Added(@, hframe[h].active)]
        /\ HGoto(h, "route") /\ UNCHANGED hframe
     \/ /\ dev[hframe[h].iface].status # "up" \/ "ipc" \in Faults
        /\ Return(h) /\ UNCHANGED dev
  /\ UNCHANGED <<m, pc, frame, tunnel, disk>>

(* Variant: the routes of the operating system are replaced. *)
Rerouted(d, routes) == [d EXCEPT !.os = routes]

(* SetRoutes only ever adds. *)
Routed(d, routes) == [d EXCEPT !.os = @ \cup routes]

(* There is nothing to route into once the interface is gone. *)
InstallRoutes(h) ==
  /\ hpc[h] = "route" /\ HGoto(h, "record")
  /\ \/ /\ dev[hframe[h].iface].status = "up"
        /\ \E routes \in RoutesAdded(hframe[h].active) :
             dev' = [dev EXCEPT ![hframe[h].iface] = Routed(@, routes)]
     \/ dev[hframe[h].iface].status # "up" /\ UNCHANGED dev
  /\ UNCHANGED <<m, pc, frame, tunnel, disk, hframe>>

RecordActive(h) ==
  /\ hpc[h] = "record"
  /\ m' = [m EXCEPT !.active = hframe[h].active]
  /\ Return(h)
  /\ UNCHANGED <<pc, frame, tunnel, dev, disk>>

Handle(h) ==
  \/ Marshal(h) \/ WriteSettings(h) \/ Snapshot(h) \/ FilterSnapshot(h)
  \/ RemovePeer(h) \/ AddPeer(h) \/ InstallRoutes(h) \/ RecordActive(h)

------------------------------------------------------------------------------
(* The environment *)

(* The websocket is lost: a goroutine of the tunnel client returns and       *)
(* nobody else is told.                                                      *)
TunnelBreaks(a) ==
  /\ tunnel[a] = "up"
  /\ tunnel' = [tunnel EXCEPT ![a] = "broken"]
  /\ UNCHANGED <<m, pc, frame, dev, disk, hpc, hframe>>

Crash == "crash" \in Faults /\ Reboot

Next ==
  \/ \E a \in Attempt : Connect(a) \/ Step(a) \/ TunnelBreaks(a)
  \/ Disconnect
  \/ \E h \in Handler : SetExcluded(h) \/ Handle(h)
  \/ Crash

Spec == Init /\ [][Next]_vars

(* Goroutines are scheduled; the dial has a time limit (client.go:81) and    *)
(* the later calls are local.  The two calls of authenticate have no time    *)
(* limit and may never return: nothing is assumed of Authenticate, nor of    *)
(* the user.                                                                 *)
FairSpec ==
  Spec /\ \A a \in Attempt : WF_vars(pc[a] # "auth" /\ Step(a))

------------------------------------------------------------------------------
(* Properties that hold whatever the user does *)

(* Every field, local variable and object has a value of its Go type. *)
TypeOK ==
  /\ m \in Manager
  /\ pc \in [Attempt -> Setup \cup Ended \cup {"save"}]
  /\ frame \in [Attempt -> Frame]
  /\ tunnel \in [Attempt -> TunnelState]
  /\ dev \in [Attempt -> Device]
  /\ disk \in SUBSET Route
  /\ hpc \in [Handler -> HandlerStep]
  /\ hframe \in [Handler -> HFrame]

(* An attempt that ended in setError, on any of doConnect's error paths and  *)
(* whatever ran beside it, left neither its tunnel sockets nor its interface *)
(* open.                                                                     *)
FailedAttemptReleases ==
  \A a \in Attempt :
    pc[a] = "failed" => tunnel[a] \notin Open /\ dev[a].status \notin Exists

(* The interface the manager points at is never a destroyed or half set up   *)
(* one: Disconnect and GetStatus may use the pointer without a check, also   *)
(* while attempts overwrite it without the lock.                             *)
PublishedInterfaceIsUp ==
  m.iface # NoAttempt => dev[m.iface].status = "up"

(* "connecting" is only reported while an attempt still works on the         *)
(* connection; otherwise Connect would be refused for ever, since it accepts *)
(* neither a second attempt nor anything but a Disconnect in that state.     *)
ConnectingHasWorker ==
  m.state = "connecting" => \E a \in Attempt : pc[a] \in Setup

(* Unless a route cannot be added, or exists and points elsewhere, the       *)
(* operating system routes into the interface whatever its peer accepts,     *)
(* except what a handler that has just added the peer is about to route;     *)
(* also when handlers interleave.                                            *)
AcceptedIsRouted ==
  \A a \in Attempt : \A r \in dev[a].allowed \ dev[a].os :
    \E h \in Handler : hpc[h] = "route" /\ hframe[h].iface = a /\ r \in hframe[h].active

(* Unless a call into the interface fails, a configured interface is without *)
(* its peer only while a handler that removed it is about to add it again,   *)
(* even when several handlers interleave and reconnections intervene.        *)
PeerComesBack ==
  \A a \in Attempt :
    (dev[a].status = "up" /\ dev[a].allowed = {}) =>
      \E h \in Handler : hpc[h] = "add" /\ hframe[h].iface = a

(* Once the server has answered, an attempt ends: no path of doConnect waits *)
(* for ever or starts over.  A server that never answers keeps it in         *)
(* authenticate, and the manager in "connecting", without limit.             *)
AttemptEnds ==
  \A a \in Attempt : (InFlight(a) /\ pc[a] # "auth") ~> ~InFlight(a)

------------------------------------------------------------------------------
(* Properties that hold when the user is Patient *)

Holds(a) == tunnel[a] \in Open \/ dev[a].status \in Exists

(* Nothing is leaked: an open tunnel or interface belongs to an attempt      *)
(* still setting it up, or is the one the next Disconnect will close.        *)
NoOrphan ==
  \A a \in Attempt :
    Holds(a) => pc[a] \in Setup \/ (m.tunnel = a /\ m.iface = a)

(* "connected" is about one attempt: its token, address, server, tunnel and  *)
(* interface are the ones in the manager, both are still there, and no       *)
(* error of an earlier attempt is reported with it.                          *)
ConnectedIsWhole ==
  m.state = "connected" =>
    \E a \in Attempt :
      /\ {m.token, m.ip, m.server, m.tunnel, m.iface} = {a}
      /\ tunnel[a] \in Open /\ dev[a].status = "up"
      /\ m.error = NoAttempt

(* The active routes shown to the user are the AllowedIPs of the interface,  *)
(* except while a handler is replacing them.                                 *)
ReportedRoutesInstalled ==
  (/\ m.state = "connected"
   /\ \A h \in Handler : hpc[h] \notin {"add", "route", "record"})
  => dev[m.iface].allowed = Installed(m.active)

(* The service as the user sees it: ClientSession. *)
Session ==
  INSTANCE ClientSession WITH
    state <- m.state,
    held  <- \E a \in Attempt : Holds(a)

(* Seen through its state and its open resources, the manager only takes the *)
(* steps of a session that leaves nothing behind.                            *)
SessionSpec == Session!Spec

------------------------------------------------------------------------------
(* What a comment says and the code does not do *)

(* manager.go:247 "Disconnect closes the VPN connection": a disconnected     *)
(* manager stays so until the user connects again.                           *)
DisconnectStays ==
  [][m.state = "disconnected" => m'.state \in {"disconnected", "connecting"}]_vars

==============================================================================
