------------------------- MODULE ClientManagerProofs -------------------------
(***************************************************************************)
(* Proofs about ClientManager for any number of attempts, handlers and     *)
(* routes and any set of faults.                                           *)
(***************************************************************************)
EXTENDS ClientManager, TLAPS

(* What is done to an interface leaves an interface of the same type. *)
LEMMA DestroyedDevice == ASSUME NEW d \in Device PROVE Destroyed(d) \in Device
  BY DEF Destroyed, Device

LEMMA AddedDevice ==
  ASSUME NEW d \in Device, NEW active \in SUBSET Route PROVE Added(d, active) \in Device
  BY DEF Added, Device, Pointer

LEMMA DetachedDevice == ASSUME NEW d \in Device PROVE [d EXCEPT !.allowed = {}] \in Device
  BY DEF Device

LEMMA CreatedDevice ==
  ASSUME NEW d \in Device PROVE [d EXCEPT !.status = "created"] \in Device
  BY DEF Device

LEMMA ConfiguredDevice ==
  ASSUME NEW a \in Attempt, NEW routes \in SUBSET Route,
         NEW os \in RoutesAdded(Installed(routes))
  PROVE  [status |-> "up", allowed |-> Installed(routes), endpoint |-> a,
          os |-> os] \in Device
  BY DEF Device, Installed, Pointer, RoutesAdded

LEMMA RoutedDevice ==
  ASSUME NEW d \in Device, NEW active \in SUBSET Route, NEW routes \in RoutesAdded(active)
  PROVE  Routed(d, routes) \in Device
  BY DEF Routed, Device, RoutesAdded

(* Initially, and after a restart, everything is well typed. *)
LEMMA InitTypeOK == Init => TypeOK
  BY ConstantAssumption
     DEF Init, Started, TypeOK, NewManager, Manager, State, Pointer, EmptyFrame, Frame,
         TunnelState, NoDevice, Device, EmptyHFrame, HFrame, HandlerStep, Ended

LEMMA RebootTypeOK == ASSUME TypeOK, Reboot PROVE TypeOK'
  BY ConstantAssumption
     DEF Reboot, SavedSettings, TypeOK, NewManager, Manager, State, Pointer, EmptyFrame,
         Frame, TunnelState, NoDevice, Device, EmptyHFrame, HFrame, HandlerStep, Ended

LEMMA ConnectTypeOK == ASSUME TypeOK, NEW a \in Attempt, Connect(a) PROVE TypeOK'
  BY ConstantAssumption
     DEF Connect, Connecting, TypeOK, Manager, State, Pointer, EmptyFrame, Frame, Setup,
         TunnelState, NoDevice, Device

LEMMA DisconnectTypeOK == ASSUME TypeOK, Disconnect PROVE TypeOK'
  <1> USE DEF TypeOK
  <1>1. m' \in Manager
    BY DEF Disconnect, Cleared, Manager, State, Pointer
  <1>2. tunnel' \in [Attempt -> TunnelState]
    BY DEF Disconnect, Stopped, TunnelState
  <1>3. dev' \in [Attempt -> Device]
    BY DestroyedDevice DEF Disconnect
  <1> QED BY <1>1, <1>2, <1>3 DEF Disconnect

LEMMA StepTypeOK == ASSUME TypeOK, NEW a \in Attempt, Step(a) PROVE TypeOK'
  <1> USE DEF TypeOK, Goto
  <1>1. CASE Authenticate(a)
    BY <1>1 DEF Authenticate, Frame, Setup
  <1>2. CASE SetToken(a)
    BY <1>2 DEF SetToken, Setup, Manager, Pointer
  <1>3. CASE SetIP(a)
    BY <1>3 DEF SetIP, Setup, Manager, Pointer
  <1>4. CASE StartTunnel(a)
    BY <1>4 DEF StartTunnel, Setup, TunnelState
  <1>5. CASE PublishTunnel(a)
    BY <1>5 DEF PublishTunnel, Setup, Manager, Pointer
  <1>6. CASE CreateInterface(a)
    <2>1. dev' \in [Attempt -> Device]
      BY <1>6, CreatedDevice DEF CreateInterface
    <2> QED BY <2>1, <1>6 DEF CreateInterface, Setup
  <1>7. CASE SetAvailable(a)
    BY <1>7 DEF SetAvailable, Setup, Manager, Frame
  <1>8. CASE FilterRoutes(a)
    BY <1>8 DEF FilterRoutes, Filtered, Setup, Frame
  <1>9. CASE SetActive(a)
    BY <1>9 DEF SetActive, Setup, Manager, Frame
  <1>10. CASE Configure(a)
    <2>1. frame[a].active \in SUBSET Route
      BY DEF Frame
    <2>2. dev' \in [Attempt -> Device]
      BY <1>10, <2>1, ConfiguredDevice DEF Configure
    <2> QED BY <2>2, <1>10 DEF Configure, Setup
  <1>11. CASE AttachInterface(a)
    BY <1>11 DEF AttachInterface, Setup, Manager, Pointer
  <1>12. CASE MarkConnected(a)
    BY <1>12 DEF MarkConnected, Manager, State, Pointer
  <1>13. CASE SaveServer(a)
    BY <1>13, RebootTypeOK DEF SaveServer, Ended, EmptyFrame, Frame
  <1>14. CASE StopTunnel(a)
    BY <1>14 DEF StopTunnel, AfterStop, Stopped, Setup, TunnelState
  <1>15. CASE DestroyInterface(a)
    BY <1>15, DestroyedDevice DEF DestroyInterface, Setup
  <1>16. CASE SetError(a)
    BY <1>16 DEF SetError, Failed, Ended, Manager, State, Pointer, EmptyFrame, Frame
  <1> QED
    BY <1>1, <1>2, <1>3, <1>4, <1>5, <1>6, <1>7, <1>8, <1>9, <1>10, <1>11, <1>12,
       <1>13, <1>14, <1>15, <1>16 DEF Step

LEMMA HandleTypeOK ==
  ASSUME TypeOK, NEW h \in Handler, SetExcluded(h) \/ Handle(h) PROVE TypeOK'
  <1> USE DEF TypeOK, HGoto
  <1>0. ASSUME Return(h) PROVE hpc' \in [Handler -> HandlerStep]
                            /\ hframe' \in [Handler -> HFrame]
    BY <1>0 DEF Return, HandlerStep, EmptyHFrame, HFrame, Pointer
  <1>1. CASE SetExcluded(h)
    BY <1>1 DEF SetExcluded, HandlerStep, Manager
  <1>2. CASE Marshal(h)
    BY <1>2 DEF Marshal, HandlerStep, HFrame, Manager
  <1>3. CASE WriteSettings(h)
    BY <1>0, <1>3 DEF WriteSettings, HandlerStep, HFrame
  <1>4. CASE Snapshot(h)
    <2>1. m.iface \in Pointer /\ m.available \in SUBSET Route
      BY DEF Manager
    <2>2. [hframe EXCEPT ![h].iface = m.iface, ![h].available = m.available]
            \in [Handler -> HFrame]
      BY <2>1 DEF HFrame
    <2>3. hpc' \in [Handler -> HandlerStep]
      BY <1>0, <1>4 DEF Snapshot, HandlerStep
    <2> QED BY <2>2, <2>3, <1>0, <1>4 DEF Snapshot
  <1>5. CASE FilterSnapshot(h)
    <2>1. Filtered(hframe[h].available) \in SUBSET Route
      BY DEF Filtered, HFrame
    <2>2. ASSUME NEW active \in SUBSET Route
          PROVE  [hframe EXCEPT ![h].active = active] \in [Handler -> HFrame]
      BY DEF HFrame
    <2>3. hframe' \in [Handler -> HFrame]
      BY <2>1, <2>2, <1>0, <1>5 DEF FilterSnapshot
    <2>4. hpc' \in [Handler -> HandlerStep]
      BY <1>0, <1>5 DEF FilterSnapshot, HandlerStep
    <2> QED BY <2>3, <2>4, <1>5 DEF FilterSnapshot
  <1>6. CASE RemovePeer(h)
    <2>1. dev' \in [Attempt -> Device]
      BY <1>6, DetachedDevice DEF RemovePeer
    <2> QED BY <2>1, <1>0, <1>6 DEF RemovePeer, HandlerStep
  <1>7. CASE AddPeer(h)
    <2>1. hframe[h].active \in SUBSET Route
      BY DEF HFrame
    <2>2. dev' \in [Attempt -> Device]
      BY <1>7, <2>1, AddedDevice DEF AddPeer
    <2> QED BY <2>2, <1>0, <1>7 DEF AddPeer, HandlerStep
  <1>8. CASE InstallRoutes(h)
    <2>1. hframe[h].active \in SUBSET Route
      BY DEF HFrame
    <2>2. dev' \in [Attempt -> Device]
      BY <1>8, <2>1, RoutedDevice DEF InstallRoutes
    <2> QED BY <2>2, <1>8 DEF InstallRoutes, HandlerStep
  <1>9. CASE RecordActive(h)
    BY <1>0, <1>9 DEF RecordActive, HFrame, Manager
  <1> QED
    BY <1>1, <1>2, <1>3, <1>4, <1>5, <1>6, <1>7, <1>8, <1>9 DEF Handle

LEMMA NextTypeOK == ASSUME TypeOK, [Next]_vars PROVE TypeOK'
  <1>1. CASE \E a \in Attempt : TunnelBreaks(a)
    BY <1>1 DEF TunnelBreaks, TypeOK, TunnelState
  <1>2. CASE UNCHANGED vars
    BY <1>2 DEF vars, TypeOK
  <1> QED
    BY <1>1, <1>2, ConnectTypeOK, StepTypeOK, DisconnectTypeOK, HandleTypeOK, RebootTypeOK
       DEF Next, Crash

(* Every reachable state is well typed: each field of the manager, each local *)
(* variable of a goroutine and each object keeps a value of its type.         *)
THEOREM TypeCorrect == Spec => []TypeOK
  BY InitTypeOK, NextTypeOK, PTL DEF Spec

------------------------------------------------------------------------------
(* How far an attempt has come determines what it holds.  The invariants below *)
(* are not inductive by themselves: that a failed attempt holds nothing needs  *)
(* this for every earlier step of doConnect.                                   *)
ProgressInv ==
  \A a \in Attempt :
    /\ pc[a] \in {"auth", "token", "ip", "start"} => ~Holds(a)
    /\ pc[a] \in {"publish", "create"} => dev[a].status \notin Exists
    /\ pc[a] \in {"available", "filter", "active", "configure"} => dev[a].status = "created"
    /\ pc[a] = "attach" => dev[a].status = "up"
    /\ pc[a] = "stop" => dev[a].status # "up"
    /\ pc[a] = "destroy" => tunnel[a] \notin Open
    /\ pc[a] \in {"report", "failed"} => ~Holds(a)
    /\ m.iface = a => pc[a] \in {"mark", "save", "done"} /\ dev[a].status = "up"

Inv == TypeOK /\ ProgressInv

LEMMA InitInv == Init => Inv
  <1>1. ASSUME Init, NEW a \in Attempt PROVE ProgressInv!(a)
    <2>1. pc[a] = "idle" /\ m.iface # a
      BY <1>1, ConstantAssumption DEF Init, Started, NewManager
    <2> QED BY <2>1
  <1> QED BY <1>1, InitTypeOK DEF Inv, ProgressInv

LEMMA RebootProgress == ASSUME Reboot PROVE ProgressInv'
  BY ConstantAssumption
     DEF Reboot, ProgressInv, NewManager, Holds, Open, Exists, NoDevice

LEMMA ConnectProgress ==
  ASSUME Inv, NEW a \in Attempt, Connect(a) PROVE ProgressInv'
  BY DEF Connect, Connecting, Unused, Inv, TypeOK, Manager, ProgressInv, Holds, Open, Exists,
         NoDevice

LEMMA DisconnectProgress == ASSUME Inv, Disconnect PROVE ProgressInv'
  <1> SUFFICES ASSUME NEW a \in Attempt PROVE ProgressInv!(a)'
    BY DEF ProgressInv
  <1>1. pc'[a] = pc[a] /\ m'.iface = NoAttempt
    BY DEF Disconnect, Cleared, Inv, TypeOK, Manager
  <1>2. tunnel'[a] \in Open => tunnel[a] \in Open
    BY DEF Disconnect, Stopped, Open, Inv, TypeOK
  <1>3. CASE m.iface = a
    BY <1>1, <1>2, <1>3, ConstantAssumption DEF ProgressInv, Inv, Holds, Open, Exists
  <1>4. CASE m.iface # a
    <2>1. dev'[a] = dev[a]
      BY <1>4 DEF Disconnect, Inv, TypeOK
    <2> QED
      BY <1>1, <1>2, <2>1, ConstantAssumption DEF ProgressInv, Inv, Holds, Open, Exists
  <1> QED BY <1>3, <1>4

(* A step of one attempt leaves the program counters and the objects of the  *)
(* others alone, unless it ends the process.                                 *)
LEMMA StepIsLocal ==
  ASSUME TypeOK, NEW a \in Attempt, Step(a), NEW b \in Attempt, b # a
  PROVE  Reboot \/ (/\ pc'[b] = pc[b] /\ tunnel'[b] = tunnel[b] /\ dev'[b] = dev[b]
                    /\ m'.iface = b => m.iface = b)
  BY DEF TypeOK, Manager, Step, Goto, Authenticate, SetToken, SetIP, StartTunnel,
         PublishTunnel, CreateInterface, SetAvailable, FilterRoutes, SetActive, Configure,
         AttachInterface, MarkConnected, SaveServer, StopTunnel, DestroyInterface, SetError,
         Failed

LEMMA StepProgress == ASSUME Inv, NEW a \in Attempt, Step(a) PROVE ProgressInv'
  <1> SUFFICES ASSUME ~Reboot, NEW b \in Attempt PROVE ProgressInv!(b)'
    BY RebootProgress DEF ProgressInv
  <1> USE DEF Inv
  <1>1. CASE b # a
    <2>1. /\ pc'[b] = pc[b] /\ tunnel'[b] = tunnel[b] /\ dev'[b] = dev[b]
          /\ m'.iface = b => m.iface = b
      BY <1>1, StepIsLocal
    <2> QED BY <2>1 DEF ProgressInv, Holds
  <1>2. CASE b = a
    <2> USE <1>2 DEF TypeOK, Goto
    <2>1. CASE Authenticate(a)
      BY <2>1 DEF Authenticate, ProgressInv, Holds
    <2>2. CASE SetToken(a)
      BY <2>2 DEF SetToken, Manager, ProgressInv, Holds
    <2>3. CASE SetIP(a)
      BY <2>3 DEF SetIP, Manager, ProgressInv, Holds
    <2>4. CASE StartTunnel(a)
      BY <2>4 DEF StartTunnel, ProgressInv, Holds, Exists
    <2>5. CASE PublishTunnel(a)
      BY <2>5 DEF PublishTunnel, Manager, ProgressInv, Exists
    <2>6. CASE CreateInterface(a)
      BY <2>6 DEF CreateInterface, Device, ProgressInv, Exists
    <2>7. CASE SetAvailable(a)
      BY <2>7 DEF SetAvailable, Manager, ProgressInv
    <2>8. CASE FilterRoutes(a)
      BY <2>8 DEF FilterRoutes, ProgressInv
    <2>9. CASE SetActive(a)
      BY <2>9 DEF SetActive, Manager, ProgressInv
    <2>10. CASE Configure(a)
      BY <2>10 DEF Configure, ProgressInv
    <2>11. CASE AttachInterface(a)
      BY <2>11 DEF AttachInterface, Manager, ProgressInv
    <2>12. CASE MarkConnected(a)
      BY <2>12 DEF MarkConnected, Manager, ProgressInv
    <2>13. CASE SaveServer(a)
      BY <2>13 DEF SaveServer, ProgressInv
    <2>14. CASE StopTunnel(a)
      BY <2>14 DEF StopTunnel, AfterStop, Stopped, ProgressInv, Holds, Open, Exists
    <2>15. CASE DestroyInterface(a)
      BY <2>15 DEF DestroyInterface, Destroyed, Device, ProgressInv, Holds, Exists
    <2>16. CASE SetError(a)
      BY <2>16 DEF SetError, Failed, Manager, ProgressInv, Holds
    <2> QED
      BY <2>1, <2>2, <2>3, <2>4, <2>5, <2>6, <2>7, <2>8, <2>9, <2>10, <2>11, <2>12,
         <2>13, <2>14, <2>15, <2>16 DEF Step
  <1> QED BY <1>1, <1>2

(* A handler changes what an interface accepts, never whether it exists.     *)
LEMMA HandleIsLocal ==
  ASSUME TypeOK, NEW h \in Handler, SetExcluded(h) \/ Handle(h)
  PROVE  /\ pc' = pc /\ tunnel' = tunnel /\ frame' = frame
         /\ \A b \in Attempt : dev'[b].status = dev[b].status
         /\ m'.iface = m.iface /\ m'.state = m.state /\ m'.tunnel = m.tunnel
         /\ m'.token = m.token /\ m'.ip = m.ip /\ m'.server = m.server
         /\ m'.error = m.error
  <1> USE DEF TypeOK, Manager
  <1>1. CASE SetExcluded(h)
    BY <1>1 DEF SetExcluded
  <1>2. CASE RecordActive(h)
    BY <1>2 DEF RecordActive
  <1>3. CASE RemovePeer(h)
    BY <1>3 DEF RemovePeer, Device
  <1>4. CASE AddPeer(h)
    <2>1. \A b \in Attempt : Added(dev[b], hframe[h].active).status = dev[b].status
      BY DEF Added, Device
    <2> QED BY <1>4, <2>1 DEF AddPeer
  <1>5. CASE InstallRoutes(h)
    <2>1. \A b \in Attempt : \A routes : Routed(dev[b], routes).status = dev[b].status
      BY DEF Routed, Device
    <2> QED BY <1>5, <2>1 DEF InstallRoutes
  <1>6. CASE Marshal(h) \/ WriteSettings(h) \/ Snapshot(h) \/ FilterSnapshot(h)
    BY <1>6 DEF Marshal, WriteSettings, Snapshot, FilterSnapshot
  <1> QED BY <1>1, <1>2, <1>3, <1>4, <1>5, <1>6 DEF Handle

LEMMA NextInv == ASSUME Inv, [Next]_vars PROVE Inv'
  <1>1. TypeOK'
    BY NextTypeOK DEF Inv
  <1>2. ASSUME NEW h \in Handler, SetExcluded(h) \/ Handle(h) PROVE ProgressInv'
    <2>1. /\ pc' = pc /\ tunnel' = tunnel /\ m'.iface = m.iface
          /\ \A b \in Attempt : dev'[b].status = dev[b].status
      BY <1>2, HandleIsLocal DEF Inv
    <2> QED BY <2>1 DEF Inv, ProgressInv, Holds
  <1>3. ASSUME NEW a \in Attempt, TunnelBreaks(a) PROVE ProgressInv'
    <2>1. /\ pc' = pc /\ dev' = dev /\ m' = m
          /\ \A b \in Attempt : tunnel'[b] \in Open => tunnel[b] \in Open
      BY <1>3 DEF TunnelBreaks, Inv, TypeOK, Open
    <2> QED BY <2>1 DEF Inv, ProgressInv, Holds
  <1>4. ASSUME UNCHANGED vars PROVE ProgressInv'
    BY <1>4 DEF vars, Inv, ProgressInv, Holds
  <1>5. ProgressInv'
    BY <1>2, <1>3, <1>4, ConnectProgress, DisconnectProgress, StepProgress, RebootProgress
       DEF Next, Crash
  <1> QED BY <1>1, <1>5 DEF Inv

LEMMA Invariance == Spec => []Inv
  BY InitInv, NextInv, PTL DEF Spec

(* Whatever else runs at the same time, a failed attempt of doConnect has      *)
(* released its tunnel and its interface, on every one of its error paths.     *)
THEOREM FailureReleases == Spec => []FailedAttemptReleases
  <1>1. Inv => FailedAttemptReleases
    BY DEF Inv, ProgressInv, FailedAttemptReleases, Holds
  <1> QED BY <1>1, Invariance, PTL

(* The manager's interface pointer, written without the lock, is nil or refers *)
(* to a configured interface in every state.                                   *)
THEOREM PublishedUp == Spec => []PublishedInterfaceIsUp
  <1>1. Inv => PublishedInterfaceIsUp
    BY DEF Inv, TypeOK, Manager, Pointer, ProgressInv, PublishedInterfaceIsUp
  <1> QED BY <1>1, Invariance, PTL

------------------------------------------------------------------------------
(* "connecting" is always backed by a running attempt. *)

LEMMA InitWorker == Init => ConnectingHasWorker
  BY DEF Init, Started, NewManager, ConnectingHasWorker

LEMMA NextWorker ==
  ASSUME Inv, ConnectingHasWorker, [Next]_vars PROVE ConnectingHasWorker'
  <1> USE DEF Inv, TypeOK, ConnectingHasWorker, Setup
  <1>0. ASSUME Reboot PROVE ConnectingHasWorker'
    BY <1>0 DEF Reboot, NewManager
  <1>1. ASSUME NEW a \in Attempt, Connect(a) PROVE ConnectingHasWorker'
    BY <1>1 DEF Connect
  <1>2. CASE Disconnect
    BY <1>2 DEF Disconnect, Cleared, Manager
  <1>3. ASSUME NEW a \in Attempt, Step(a) PROVE ConnectingHasWorker'
    <2>1. CASE MarkConnected(a)
      BY <2>1 DEF MarkConnected, Manager
    <2>2. CASE SetError(a)
      BY <2>2 DEF SetError, Failed, Manager
    <2>3. CASE SaveServer(a)
      BY <1>0, <2>3 DEF SaveServer, Goto
    <2>4. CASE SetToken(a) \/ SetIP(a) \/ PublishTunnel(a) \/ SetAvailable(a)
               \/ SetActive(a) \/ AttachInterface(a)
      <3>1. m'.state = m.state /\ \A b \in Attempt : pc[b] \in Setup => pc'[b] \in Setup
        BY <2>4 DEF SetToken, SetIP, PublishTunnel, SetAvailable, SetActive,
                    AttachInterface, Goto, Manager
      <3> QED BY <3>1
    <2>5. CASE Authenticate(a) \/ StartTunnel(a) \/ CreateInterface(a) \/ FilterRoutes(a)
               \/ Configure(a) \/ StopTunnel(a) \/ DestroyInterface(a)
      <3>1. m' = m /\ \A b \in Attempt : pc[b] \in Setup => pc'[b] \in Setup
        BY <2>5 DEF Authenticate, StartTunnel, CreateInterface, FilterRoutes, Configure,
                    StopTunnel, AfterStop, DestroyInterface, Goto
      <3> QED BY <3>1
    <2> QED BY <1>3, <2>1, <2>2, <2>3, <2>4, <2>5 DEF Step
  <1>4. ASSUME NEW h \in Handler, SetExcluded(h) \/ Handle(h) PROVE ConnectingHasWorker'
    <2>1. pc' = pc /\ m'.state = m.state
      BY <1>4, HandleIsLocal
    <2> QED BY <2>1
  <1>5. ASSUME NEW a \in Attempt, TunnelBreaks(a) PROVE ConnectingHasWorker'
    BY <1>5 DEF TunnelBreaks
  <1>6. ASSUME UNCHANGED vars PROVE ConnectingHasWorker'
    BY <1>6 DEF vars
  <1> QED
    BY <1>0, <1>1, <1>2, <1>3, <1>4, <1>5, <1>6 DEF Next, Crash

(* The user is never told "connecting" when no goroutine works on it: the      *)
(* state in which Connect refuses to try again has somebody who will leave it. *)
THEOREM ConnectingBacked == Spec => []ConnectingHasWorker
  BY InitWorker, NextWorker, Invariance, PTL DEF Spec

------------------------------------------------------------------------------
(* What the peer accepts is routed, or about to be. *)

(* AcceptedIsRouted is inductive once it is known that only a configured       *)
(* interface has a peer: a new interface starts without one.                   *)
RoutedInv ==
  /\ AcceptedIsRouted
  /\ \A a \in Attempt : dev[a].status # "up" => dev[a].allowed = {}

LEMMA InitRouted == Init => RoutedInv
  BY DEF Init, Started, NoDevice, RoutedInv, AcceptedIsRouted

LEMMA RebootRouted == ASSUME Reboot PROVE RoutedInv'
  BY DEF Reboot, NoDevice, RoutedInv, AcceptedIsRouted

LEMMA StepRouted ==
  ASSUME Inv, RoutedInv, "routes" \notin Faults, NEW a \in Attempt, Step(a)
  PROVE  RoutedInv'
  <1> SUFFICES ASSUME ~Reboot PROVE RoutedInv'
    BY RebootRouted
  <1> USE DEF Inv, TypeOK
  <1>1. UNCHANGED <<hpc, hframe>>
    BY DEF Step, Authenticate, SetToken, SetIP, StartTunnel, PublishTunnel,
           CreateInterface, SetAvailable, FilterRoutes, SetActive, Configure,
           AttachInterface, MarkConnected, SaveServer, StopTunnel, DestroyInterface,
           SetError
  <1>2. CASE CreateInterface(a)
    <2>1. dev[a].allowed = {}
      BY <1>2 DEF CreateInterface, ProgressInv, RoutedInv, Exists
    <2>2. \/ dev' = dev
          \/ dev' = [dev EXCEPT ![a].status = "created"]
      BY <1>2 DEF CreateInterface
    <2>3. \A b \in Attempt : dev'[b].allowed = dev[b].allowed /\ dev'[b].os = dev[b].os
      BY <2>2 DEF Device
    <2>4. \A b \in Attempt : dev'[b].status # "up" => dev'[b].allowed = {}
      BY <2>1, <2>2, <2>3 DEF Device, RoutedInv
    <2> QED BY <1>1, <2>3, <2>4 DEF RoutedInv, AcceptedIsRouted
  <1>3. CASE Configure(a)
    <2>1. \/ dev' = dev
          \/ dev' = [dev EXCEPT ![a] = [status |-> "up",
                                       allowed |-> Installed(frame[a].active),
                                       endpoint |-> a,
                                       os |-> Installed(frame[a].active)]]
      BY <1>3 DEF Configure, RoutesAdded
    <2> QED BY <1>1, <2>1 DEF RoutedInv, AcceptedIsRouted
  <1>4. CASE DestroyInterface(a)
    <2>1. dev' = [dev EXCEPT ![a] = Destroyed(@)]
      BY <1>4 DEF DestroyInterface
    <2>2. Destroyed(dev[a]).allowed = {}
      BY DEF Destroyed, Device
    <2> QED BY <1>1, <2>1, <2>2 DEF RoutedInv, AcceptedIsRouted
  <1>5. CASE ~(CreateInterface(a) \/ Configure(a) \/ DestroyInterface(a))
    <2>1. dev' = dev
      BY <1>5 DEF Step, Authenticate, SetToken, SetIP, StartTunnel, PublishTunnel,
             SetAvailable, FilterRoutes, SetActive, AttachInterface, MarkConnected,
             SaveServer, StopTunnel, SetError
    <2> QED BY <1>1, <2>1 DEF RoutedInv, AcceptedIsRouted
  <1> QED BY <1>2, <1>3, <1>4, <1>5

LEMMA HandleRouted ==
  ASSUME TypeOK, RoutedInv, "routes" \notin Faults,
         NEW h \in Handler, SetExcluded(h) \/ Handle(h)
  PROVE  RoutedInv'
  <1> USE DEF TypeOK, HGoto
  <1>1. CASE SetExcluded(h) \/ Marshal(h) \/ WriteSettings(h) \/ Snapshot(h)
             \/ FilterSnapshot(h) \/ RecordActive(h)
    <2>1. /\ dev' = dev /\ hpc[h] # "route" 
          /\ \A g \in Handler \ {h} : hpc'[g] = hpc[g] /\ hframe'[g] = hframe[g]
      BY <1>1 DEF SetExcluded, Marshal, WriteSettings, Snapshot, FilterSnapshot,
                  RecordActive, Return
    <2> QED BY <2>1 DEF RoutedInv, AcceptedIsRouted
  <1>2. CASE RemovePeer(h)
    <2>1. /\ hpc[h] # "route"
          /\ \A g \in Handler \ {h} : hpc'[g] = hpc[g] /\ hframe'[g] = hframe[g]
      BY <1>2 DEF RemovePeer, Return
    <2>2. \A b \in Attempt :
            /\ dev'[b].allowed \subseteq dev[b].allowed /\ dev'[b].os = dev[b].os
            /\ dev'[b].status = dev[b].status
      BY <1>2 DEF RemovePeer, Device
    <2> QED BY <2>1, <2>2 DEF RoutedInv, AcceptedIsRouted
  <1>3. CASE AddPeer(h)
    <2>1. /\ hpc[h] # "route"
          /\ \A g \in Handler \ {h} : hpc'[g] = hpc[g] /\ hframe'[g] = hframe[g]
      BY <1>3 DEF AddPeer, Return
    <2>2. CASE dev' = dev
      BY <2>1, <2>2 DEF RoutedInv, AcceptedIsRouted
    <2>3. CASE dev' # dev
      <3> DEFINE i == hframe[h].iface
      <3>1. /\ dev[i].status = "up" /\ hpc'[h] = "route" /\ hframe' = hframe
            /\ dev' = [dev EXCEPT ![i] = Added(@, hframe[h].active)]
        BY <1>3, <2>3 DEF AddPeer
      <3>2. i \in Attempt
        BY <2>3, <3>1
      <3>3. /\ Added(dev[i], hframe[h].active).allowed = dev[i].allowed \cup hframe[h].active
            /\ Added(dev[i], hframe[h].active).os = dev[i].os
            /\ Added(dev[i], hframe[h].active).status = "up"
        BY <3>1, <3>2 DEF Added, Device
      <3>4. \A b \in Attempt \ {i} : dev'[b] = dev[b]
        BY <3>1
      <3>5. dev'[i] = Added(dev[i], hframe[h].active)
        BY <3>1, <3>2
      <3> QED BY <2>1, <3>1, <3>2, <3>3, <3>4, <3>5 DEF RoutedInv, AcceptedIsRouted
    <2> QED BY <2>2, <2>3
  <1>4. CASE InstallRoutes(h)
    <2> DEFINE i == hframe[h].iface
    <2>1. hframe' = hframe /\ \A g \in Handler \ {h} : hpc'[g] = hpc[g]
      BY <1>4 DEF InstallRoutes
    <2>2. CASE i \in Attempt /\ dev[i].status = "up"
      <3>1. dev' = [dev EXCEPT ![i] = Routed(@, hframe[h].active)]
        BY <1>4, <2>2 DEF InstallRoutes, RoutesAdded
      <3>2. /\ Routed(dev[i], hframe[h].active).allowed = dev[i].allowed
            /\ Routed(dev[i], hframe[h].active).os = dev[i].os \cup hframe[h].active
            /\ Routed(dev[i], hframe[h].active).status = "up"
        BY <2>2 DEF Routed, Device
      <3>3. \A b \in Attempt \ {i} : dev'[b] = dev[b]
        BY <3>1
      <3>4. dev'[i] = Routed(dev[i], hframe[h].active)
        BY <3>1, <2>2
      <3> QED BY <2>1, <3>2, <3>3, <3>4 DEF RoutedInv, AcceptedIsRouted
    <2>3. CASE ~(i \in Attempt /\ dev[i].status = "up")
      <3>1. dev' = dev
        BY <1>4, <2>3 DEF InstallRoutes
      <3>2. i \in Attempt => dev[i].allowed = {}
        BY <2>3 DEF RoutedInv
      <3> QED BY <2>1, <3>1, <3>2 DEF RoutedInv, AcceptedIsRouted
    <2> QED BY <2>2, <2>3
  <1> QED BY <1>1, <1>2, <1>3, <1>4 DEF Handle

LEMMA NextRouted ==
  ASSUME Inv, RoutedInv, "routes" \notin Faults, [Next]_vars PROVE RoutedInv'
  <1> USE DEF Inv
  <1>1. ASSUME NEW a \in Attempt, Connect(a) PROVE RoutedInv'
    BY <1>1 DEF Connect, NoDevice, RoutedInv, AcceptedIsRouted, TypeOK
  <1>2. ASSUME Disconnect PROVE RoutedInv'
    <2>1. \A b \in Attempt : Destroyed(dev[b]).allowed = {}
      BY DEF Destroyed, Device, TypeOK
    <2> QED BY <1>2, <2>1 DEF Disconnect, RoutedInv, AcceptedIsRouted
  <1>3. ASSUME NEW a \in Attempt, TunnelBreaks(a) PROVE RoutedInv'
    BY <1>3 DEF TunnelBreaks, RoutedInv, AcceptedIsRouted
  <1>4. ASSUME UNCHANGED vars PROVE RoutedInv'
    BY <1>4 DEF vars, RoutedInv, AcceptedIsRouted
  <1> QED BY <1>1, <1>2, <1>3, <1>4, StepRouted, HandleRouted, RebootRouted DEF Next, Crash

(* As long as routes can be added, nothing the peer accepts stays unrouted,    *)
(* however many route handlers interleave with each other, with attempts and   *)
(* with disconnections.                                                        *)
THEOREM AcceptedRouted == "routes" \notin Faults => (Spec => []AcceptedIsRouted)
  <1> SUFFICES ASSUME "routes" \notin Faults PROVE Spec => []AcceptedIsRouted
    OBVIOUS
  <1>1. Inv /\ RoutedInv /\ [Next]_vars => RoutedInv'
    BY NextRouted
  <1>2. RoutedInv => AcceptedIsRouted
    BY DEF RoutedInv
  <1> QED BY <1>1, <1>2, InitRouted, Invariance, PTL DEF Spec

------------------------------------------------------------------------------
(* A Patient user *)

(* One attempt at a time, and what it has already written to the manager's     *)
(* fields is still there: the unlocked assignments meet no other writer.       *)
Sequential ==
  /\ \A a, b \in Attempt : pc[a] \in Setup /\ pc[b] \in Setup => a = b
  /\ \A a \in Attempt :
       /\ pc[a] \in Setup => m.state = "connecting" /\ m.error = NoAttempt
       /\ pc[a] \in {"ip", "start", "publish", "create", "available", "filter", "active",
                     "configure", "attach", "mark"} => m.token = a
       /\ pc[a] \in {"start", "publish", "create", "available", "filter", "active",
                     "configure", "attach", "mark"} => m.ip = a
       /\ pc[a] = "publish" => tunnel[a] \in Open
       /\ pc[a] \in {"create", "available", "filter", "active", "configure", "attach",
                     "mark"} => m.tunnel = a /\ tunnel[a] \in Open
       /\ pc[a] = "mark" => m.iface = a
       /\ Holds(a) => pc[a] \in Setup \/ (m.state = "connected" /\ m.server = a)
       /\ m.iface = a => pc[a] = "mark" \/ (m.state = "connected" /\ m.server = a)
  /\ m.state = "connected" =>
       /\ m.server \in Attempt
       /\ {m.token, m.ip, m.tunnel, m.iface} = {m.server}
       /\ tunnel[m.server] \in Open
       /\ m.error = NoAttempt

LEMMA InitSequential == Init => Sequential
  <1> SUFFICES ASSUME Init PROVE Sequential
    OBVIOUS
  <1>1. m.state = "disconnected" /\ m.iface = NoAttempt
    BY DEF Init, Started, NewManager
  <1>2. \A a \in Attempt : pc[a] = "idle" /\ ~Holds(a)
    BY DEF Init, Started, Holds, Open, Exists, NoDevice
  <1> QED BY <1>1, <1>2, ConstantAssumption DEF Sequential, Setup

LEMMA RebootSequential == ASSUME Reboot PROVE Sequential'
  <1>1. m'.state = "disconnected" /\ m'.iface = NoAttempt
    BY DEF Reboot, NewManager
  <1>2. \A a \in Attempt : pc'[a] = "idle" /\ ~Holds(a)'
    BY DEF Reboot, Holds, Open, Exists, NoDevice
  <1> QED BY <1>1, <1>2, ConstantAssumption DEF Sequential, Setup

LEMMA ConnectSequential ==
  ASSUME Inv, Sequential, NEW a \in Attempt, Connect(a) PROVE Sequential'
  <1> USE DEF Inv, TypeOK
  <1>1. m'.state = "connecting" /\ m'.error = NoAttempt /\ m'.iface = m.iface
    BY DEF Connect, Connecting, Manager
  <1>2. /\ pc'[a] = "auth" /\ ~Holds(a)'
        /\ \A b \in Attempt \ {a} : pc'[b] = pc[b] /\ (Holds(b)' <=> Holds(b))
    BY DEF Connect, Holds, Open, Exists, NoDevice
  <1>3. \A b \in Attempt : pc[b] \notin Setup /\ ~Holds(b) /\ m.iface # b
    BY DEF Sequential, Connect, Unused, InFlight, Ended, Setup
  <1> QED BY <1>1, <1>2, <1>3 DEF Sequential, Setup

LEMMA DisconnectSequential ==
  ASSUME Patient, Inv, Sequential, Disconnect PROVE Sequential'
  <1> USE DEF Inv, TypeOK
  <1>1. m'.state = "disconnected" /\ m'.iface = NoAttempt
    BY DEF Disconnect, Cleared, Manager
  <1>2. ASSUME NEW b \in Attempt PROVE pc'[b] \notin Setup /\ ~Holds(b)'
    <2>1. pc'[b] = pc[b] /\ pc[b] \notin Setup
      BY DEF Disconnect, Sequential
    <2>2. CASE Holds(b)
      <3>1. m.tunnel = b /\ m.iface = b
        BY <2>1, <2>2 DEF Sequential
      <3> QED BY <2>1, <3>1 DEF Disconnect, Stopped, Destroyed, Holds, Open, Exists, Device
    <2>3. CASE ~Holds(b)
      BY <2>1, <2>3 DEF Disconnect, Stopped, Destroyed, Holds, Open, Exists, Device
    <2> QED BY <2>2, <2>3
  <1> QED BY <1>1, <1>2, ConstantAssumption DEF Sequential, Setup

(* Steps that change neither a program counter nor what an attempt holds.    *)
LEMMA QuietSequential ==
  ASSUME Inv, Sequential, pc' = pc,
         \A b \in Attempt : /\ tunnel'[b] \in Open <=> tunnel[b] \in Open
                            /\ dev'[b].status = dev[b].status,
         m'.iface = m.iface, m'.state = m.state, m'.tunnel = m.tunnel,
         m'.token = m.token, m'.ip = m.ip, m'.server = m.server, m'.error = m.error
  PROVE  Sequential'
  <1>1. \A b \in Attempt : Holds(b)' <=> Holds(b)
    BY DEF Holds
  <1> QED BY <1>1 DEF Sequential

(* The attempt that takes a step is the only one, so only its own part of    *)
(* Sequential has to be looked at.                                           *)
LEMMA StepSequential ==
  ASSUME Inv, Sequential, NEW a \in Attempt, Step(a) PROVE Sequential'
  <1> SUFFICES ASSUME ~Reboot PROVE Sequential'
    BY RebootSequential
  <1> USE DEF Inv, TypeOK
  <1>1. CASE SaveServer(a)
    <2>1. /\ m' = m /\ tunnel' = tunnel /\ dev' = dev /\ pc[a] = "save"
          /\ pc' = [pc EXCEPT ![a] = "done"]
      BY <1>1 DEF SaveServer, Goto
    <2>2. \A b \in Attempt : Holds(b)' <=> Holds(b)
      BY <2>1 DEF Holds
    <2>3. \A b \in Attempt : pc'[b] # pc[b] => pc[b] = "save" /\ pc'[b] = "done"
      BY <2>1
    <2> QED BY <2>1, <2>2, <2>3 DEF Sequential, Setup
  <1>2. CASE ~SaveServer(a)
    <2>1. pc[a] \in Setup /\ m.state = "connecting" /\ m.error = NoAttempt
      BY <1>2 DEF Step, Authenticate, SetToken, SetIP, StartTunnel, PublishTunnel,
                  CreateInterface, SetAvailable, FilterRoutes, SetActive, Configure,
                  AttachInterface, MarkConnected, StopTunnel, DestroyInterface, SetError,
                  Setup, Sequential
    <2>2. \A b \in Attempt \ {a} :
            /\ pc'[b] = pc[b] /\ tunnel'[b] = tunnel[b] /\ dev'[b] = dev[b]
            /\ pc[b] \notin Setup /\ ~Holds(b) /\ m.iface # b /\ m'.iface # b
      <3> SUFFICES ASSUME NEW b \in Attempt, b # a
                   PROVE  /\ pc'[b] = pc[b] /\ tunnel'[b] = tunnel[b] /\ dev'[b] = dev[b]
                          /\ pc[b] \notin Setup /\ ~Holds(b) /\ m.iface # b /\ m'.iface # b
        OBVIOUS
      <3>1. pc[b] \notin Setup /\ ~Holds(b) /\ m.iface # b
        BY <2>1 DEF Sequential, Setup
      <3> QED BY <3>1, StepIsLocal
    <2>3. \A b \in Attempt \ {a} : ~Holds(b)'
      BY <2>2 DEF Holds
    <2> DEFINE Own ==
      /\ pc[a] \in Setup => m.state = "connecting" /\ m.error = NoAttempt
      /\ pc[a] \in {"ip", "start", "publish", "create", "available", "filter", "active",
                    "configure", "attach", "mark"} => m.token = a
      /\ pc[a] \in {"start", "publish", "create", "available", "filter", "active",
                    "configure", "attach", "mark"} => m.ip = a
      /\ pc[a] = "publish" => tunnel[a] \in Open
      /\ pc[a] \in {"create", "available", "filter", "active", "configure", "attach",
                    "mark"} => m.tunnel = a /\ tunnel[a] \in Open
      /\ pc[a] = "mark" => m.iface = a
      /\ Holds(a) => pc[a] \in Setup \/ (m.state = "connected" /\ m.server = a)
      /\ m.iface = a => pc[a] = "mark" \/ (m.state = "connected" /\ m.server = a)
      /\ m.state = "connected" =>
           /\ m.server = a
           /\ {m.token, m.ip, m.tunnel, m.iface} = {a}
           /\ tunnel[a] \in Open
           /\ m.error = NoAttempt
    <2>4. Own
      BY <2>1 DEF Sequential
    <2>5. Own'
      <3> USE <2>1, <2>4 DEF Goto, Setup, Manager
      <3>1. CASE Authenticate(a)
        BY <3>1 DEF Authenticate, Holds
      <3>2. CASE SetToken(a)
        BY <3>2 DEF SetToken, Holds
      <3>3. CASE SetIP(a)
        BY <3>3 DEF SetIP, Holds
      <3>4. CASE StartTunnel(a)
        BY <3>4 DEF StartTunnel, Holds, Open
      <3>5. CASE PublishTunnel(a)
        BY <3>5 DEF PublishTunnel, Holds
      <3>6. CASE CreateInterface(a)
        BY <3>6 DEF CreateInterface, Holds
      <3>7. CASE SetAvailable(a)
        BY <3>7 DEF SetAvailable, Holds
      <3>8. CASE FilterRoutes(a)
        BY <3>8 DEF FilterRoutes, Holds
      <3>9. CASE SetActive(a)
        BY <3>9 DEF SetActive, Holds
      <3>10. CASE Configure(a)
        BY <3>10 DEF Configure, Holds
      <3>11. CASE AttachInterface(a)
        BY <3>11 DEF AttachInterface, Holds
      <3>12. CASE MarkConnected(a)
        BY <3>12 DEF MarkConnected, Holds
      <3>13. CASE StopTunnel(a)
        BY <3>13 DEF StopTunnel, AfterStop, Holds
      <3>14. CASE DestroyInterface(a)
        BY <3>14 DEF DestroyInterface, Holds
      <3>15. CASE SetError(a)
        <4>1. ~Holds(a)
          BY <3>15 DEF SetError, ProgressInv
        <4> QED BY <3>15, <4>1 DEF SetError, Failed, Holds
      <3> QED
        BY <1>2, <3>1, <3>2, <3>3, <3>4, <3>5, <3>6, <3>7, <3>8, <3>9, <3>10, <3>11,
           <3>12, <3>13, <3>14, <3>15 DEF Step
    <2>6. ASSUME NEW b \in Attempt PROVE Sequential!2!(b)'
      <3>1. CASE b = a
        BY <2>5, <3>1
      <3>2. CASE b # a
        BY <2>2, <2>3, <3>2 DEF Setup
      <3> QED BY <3>1, <3>2
    <2>7. \A b, c \in Attempt : pc'[b] \in Setup /\ pc'[c] \in Setup => b = c
      BY <2>2
    <2>8. Sequential!3'
      BY <2>5
    <2> QED BY <2>6, <2>7, <2>8 DEF Sequential
  <1> QED BY <1>1, <1>2

LEMMA NextSequential ==
  ASSUME Patient, Inv, Sequential, [Next]_vars PROVE Sequential'
  <1>1. ASSUME NEW h \in Handler, SetExcluded(h) \/ Handle(h) PROVE Sequential'
    <2>1. TypeOK
      BY DEF Inv
    <2> QED BY <1>1, <2>1, HandleIsLocal, QuietSequential
  <1>2. ASSUME NEW a \in Attempt, TunnelBreaks(a) PROVE Sequential'
    <2>1. \A b \in Attempt : /\ tunnel'[b] \in Open <=> tunnel[b] \in Open
                            /\ dev'[b].status = dev[b].status
      BY <1>2 DEF TunnelBreaks, Open, Inv, TypeOK
    <2>2. pc' = pc /\ m' = m
      BY <1>2 DEF TunnelBreaks
    <2> QED BY <2>1, <2>2, QuietSequential
  <1>3. ASSUME UNCHANGED vars PROVE Sequential'
    BY <1>3, QuietSequential DEF vars
  <1> QED
    BY <1>1, <1>2, <1>3, ConnectSequential, DisconnectSequential, StepSequential,
       RebootSequential DEF Next, Crash

LEMMA SequentialInvariance == Patient => (Spec => [](Inv /\ Sequential))
  <1> SUFFICES ASSUME Patient PROVE Spec => [](Inv /\ Sequential)
    OBVIOUS
  <1>1. Inv /\ Sequential /\ [Next]_vars => (Inv /\ Sequential)'
    BY NextInv, NextSequential
  <1> QED BY <1>1, InitInv, InitSequential, PTL DEF Spec

(* With a Patient user the manager leaks nothing, through any failure,         *)
(* reconnection, loss of the tunnel or restart: what is open is being set up   *)
(* or is what the next Disconnect closes.                                      *)
THEOREM NothingLeaks == Patient => (Spec => []NoOrphan)
  <1> SUFFICES ASSUME Patient PROVE Spec => []NoOrphan
    OBVIOUS
  <1>1. Sequential => NoOrphan
    BY DEF Sequential, NoOrphan
  <1> QED BY <1>1, SequentialInvariance, PTL

(* With a Patient user "connected" always describes one whole connection.      *)
THEOREM ConnectedWhole == Patient => (Spec => []ConnectedIsWhole)
  <1> SUFFICES ASSUME Patient PROVE Spec => []ConnectedIsWhole
    OBVIOUS
  <1>1. Inv /\ Sequential => ConnectedIsWhole
    <2> SUFFICES ASSUME Inv, Sequential, m.state = "connected" PROVE ConnectedIsWhole
      BY DEF ConnectedIsWhole
    <2>1. /\ m.server \in Attempt
          /\ {m.token, m.ip, m.server, m.tunnel, m.iface} = {m.server}
          /\ tunnel[m.server] \in Open /\ m.error = NoAttempt
      BY DEF Sequential
    <2>2. dev[m.server].status = "up"
      BY <2>1 DEF Inv, ProgressInv
    <2> QED BY <2>1, <2>2 DEF ConnectedIsWhole
  <1> QED BY <1>1, SequentialInvariance, PTL

------------------------------------------------------------------------------
(* Refinement *)

LEMMA InitSession == Init => Session!Init
  BY DEF Init, Started, NewManager, Session!Init, Holds, Open, Exists, NoDevice

LEMMA RebootSession == ASSUME Reboot PROVE Session!Restart
  BY DEF Reboot, NewManager, Session!Restart, Holds, Open, Exists, NoDevice

LEMMA ConnectSession ==
  ASSUME Inv, Sequential, NEW a \in Attempt, Connect(a) PROVE Session!Connect
  <1> USE DEF Inv, TypeOK
  <1>1. m.state \in {"disconnected", "failed"} /\ m'.state = "connecting"
    BY DEF Connect, Connecting, Manager, State
  <1>2. \A b \in Attempt : ~Holds(b)
    BY <1>1 DEF Sequential
  <1>3. \A b \in Attempt : ~Holds(b)'
    BY <1>2 DEF Connect, Holds, Open, Exists, NoDevice
  <1> QED BY <1>1, <1>2, <1>3 DEF Session!Connect

(* Unless the manager is connecting or connected, nothing is open. *)
LEMMA IdleHoldsNothing ==
  Sequential /\ m.state \in {"disconnected", "failed"} => \A a \in Attempt : ~Holds(a)
  BY DEF Sequential

LEMMA DisconnectSession ==
  ASSUME Patient, Inv, Sequential, Disconnect PROVE Session!Disconnect
  <1>1. m.state \in {"connected", "failed"} /\ m'.state = "disconnected"
    BY DEF Disconnect, Cleared, Inv, TypeOK, Manager, State
  <1>2. Sequential'
    BY DisconnectSequential
  <1>3. \A a \in Attempt : ~Holds(a)'
    BY <1>1, <1>2, IdleHoldsNothing DEF Sequential
  <1> QED BY <1>1, <1>3 DEF Session!Disconnect

LEMMA StepSession ==
  ASSUME Inv, Sequential, NEW a \in Attempt, Step(a)
  PROVE  Session!Next \/ UNCHANGED Session!svars
  <1> SUFFICES ASSUME ~Reboot PROVE Session!Next \/ UNCHANGED Session!svars
    BY RebootSession DEF Session!Next
  <1> USE DEF Inv, TypeOK, Manager
  <1>1. pc[a] \in Setup => m.state = "connecting" /\ \A b \in Attempt \ {a} : ~Holds(b)
    BY DEF Sequential
  <1>2. CASE MarkConnected(a)
    <2>1. pc[a] \in Setup /\ m.iface = a
      BY <1>2 DEF MarkConnected, Setup, Sequential
    <2>2. Holds(a) /\ tunnel' = tunnel /\ dev' = dev /\ m'.state = "connected"
      BY <1>2, <2>1 DEF MarkConnected, ProgressInv, Holds, Exists
    <2>3. Session!Succeed
      BY <1>1, <2>1, <2>2 DEF Session!Succeed, Holds
    <2> QED BY <2>3 DEF Session!Next
  <1>3. CASE SetError(a)
    <2>1. pc[a] \in Setup /\ ~Holds(a)
      BY <1>3 DEF SetError, Setup, ProgressInv
    <2>2. tunnel' = tunnel /\ dev' = dev /\ m'.state = "failed"
      BY <1>3 DEF SetError, Failed
    <2>3. Session!Fail
      BY <1>1, <2>1, <2>2 DEF Session!Fail, Holds
    <2> QED BY <2>3 DEF Session!Next
  <1>4. CASE SaveServer(a)
    <2>1. UNCHANGED <<m, tunnel, dev>>
      BY <1>4 DEF SaveServer
    <2> QED BY <2>1 DEF Session!svars, Holds
  <1>5. CASE ~(MarkConnected(a) \/ SetError(a) \/ SaveServer(a))
    <2>1. pc[a] \in Setup /\ m'.state = m.state
      BY <1>5 DEF Step, Authenticate, SetToken, SetIP, StartTunnel, PublishTunnel,
                  CreateInterface, SetAvailable, FilterRoutes, SetActive, Configure,
                  AttachInterface, StopTunnel, DestroyInterface, Setup
    <2>2. Session!Work
      BY <1>1, <2>1 DEF Session!Work
    <2> QED BY <2>2 DEF Session!Next
  <1> QED BY <1>2, <1>3, <1>4, <1>5

LEMMA NextSession ==
  ASSUME Patient, Inv, Sequential, [Next]_vars
  PROVE  Session!Next \/ UNCHANGED Session!svars
  <1>1. ASSUME NEW h \in Handler, SetExcluded(h) \/ Handle(h) PROVE UNCHANGED Session!svars
    <2>1. /\ tunnel' = tunnel /\ m'.state = m.state
          /\ \A b \in Attempt : dev'[b].status = dev[b].status
      BY <1>1, HandleIsLocal DEF Inv
    <2> QED BY <2>1 DEF Session!svars, Holds
  <1>2. ASSUME NEW a \in Attempt, TunnelBreaks(a) PROVE UNCHANGED Session!svars
    <2>1. /\ dev' = dev /\ m' = m
          /\ \A b \in Attempt : tunnel'[b] \in Open <=> tunnel[b] \in Open
      BY <1>2 DEF TunnelBreaks, Open, Inv, TypeOK
    <2> QED BY <2>1 DEF Session!svars, Holds
  <1>3. ASSUME UNCHANGED vars PROVE UNCHANGED Session!svars
    BY <1>3 DEF vars, Session!svars, Holds
  <1> QED
    BY <1>1, <1>2, <1>3, ConnectSession, DisconnectSession, StepSession, RebootSession
       DEF Next, Crash, Session!Next

(* With a Patient user the manager implements ClientSession: a connection is   *)
(* reported only out of "connecting" and with its resources in place, and a    *)
(* failure, a disconnection and a restart leave none behind.                   *)
THEOREM ImplementsSession == Patient => (Spec => SessionSpec)
  <1> SUFFICES ASSUME Patient PROVE Spec => SessionSpec
    OBVIOUS
  <1>1. Inv /\ Sequential /\ [Next]_vars => [Session!Next]_(Session!svars)
    BY NextSession
  <1> QED BY <1>1, InitSession, SequentialInvariance, PTL DEF Spec, SessionSpec, Session!Spec

------------------------------------------------------------------------------
(* A configured interface gets its peer back. *)

(* PeerComesBack is inductive once it is known that a handler that is to add   *)
(* the peer has routes to add it with, and has them from an interface that was *)
(* published.                                                                  *)
ComesBackInv ==
  /\ PeerComesBack
  /\ \A h \in Handler :
       /\ hpc[h] \in {"filter", "remove", "add"} => hframe[h].iface \in Attempt
       /\ hpc[h] \in {"remove", "add"} => hframe[h].active # {}

LEMMA InitComesBack == Init => ComesBackInv
  BY DEF Init, Started, NoDevice, ComesBackInv, PeerComesBack

LEMMA RebootComesBack == ASSUME Reboot PROVE ComesBackInv'
  BY DEF Reboot, NoDevice, ComesBackInv, PeerComesBack

LEMMA InstalledSomething == \A active : Installed(active) # {}
  BY DEF Installed

(* A step that leaves the handlers alone, and every interface as it was, or    *)
(* not configured, or with a peer, keeps the invariant.                        *)
LEMMA QuietComesBack ==
  ASSUME ComesBackInv, UNCHANGED <<hpc, hframe>>,
         \A b \in Attempt : \/ dev'[b] = dev[b]
                            \/ dev'[b].status # "up"
                            \/ dev'[b].allowed # {}
  PROVE  ComesBackInv'
  BY DEF ComesBackInv, PeerComesBack

LEMMA StepComesBack ==
  ASSUME Inv, ComesBackInv, NEW a \in Attempt, Step(a) PROVE ComesBackInv'
  <1> SUFFICES ASSUME ~Reboot PROVE ComesBackInv'
    BY RebootComesBack
  <1> USE DEF Inv, TypeOK
  <1>1. UNCHANGED <<hpc, hframe>>
    BY DEF Step, Authenticate, SetToken, SetIP, StartTunnel, PublishTunnel,
           CreateInterface, SetAvailable, FilterRoutes, SetActive, Configure,
           AttachInterface, MarkConnected, SaveServer, StopTunnel, DestroyInterface,
           SetError
  <1>2. CASE CreateInterface(a)
    <2>1. \A b \in Attempt : dev'[b] = dev[b] \/ dev'[b].status = "created"
      BY <1>2 DEF CreateInterface, Device
    <2> QED BY <1>1, <2>1, QuietComesBack
  <1>3. CASE Configure(a)
    <2>1. \A b \in Attempt : dev'[b] = dev[b] \/ dev'[b].allowed = Installed(frame[a].active)
      BY <1>3 DEF Configure
    <2> QED BY <1>1, <2>1, InstalledSomething, QuietComesBack
  <1>4. CASE DestroyInterface(a)
    <2>1. Destroyed(dev[a]).status = "destroyed"
      BY DEF Destroyed, Device
    <2>2. \A b \in Attempt : dev'[b] = dev[b] \/ dev'[b].status = "destroyed"
      BY <1>4, <2>1 DEF DestroyInterface
    <2> QED BY <1>1, <2>2, QuietComesBack
  <1>5. CASE ~(CreateInterface(a) \/ Configure(a) \/ DestroyInterface(a))
    <2>1. dev' = dev
      BY <1>5 DEF Step, Authenticate, SetToken, SetIP, StartTunnel, PublishTunnel,
             SetAvailable, FilterRoutes, SetActive, AttachInterface, MarkConnected,
             SaveServer, StopTunnel, SetError
    <2> QED BY <1>1, <2>1, QuietComesBack
  <1> QED BY <1>2, <1>3, <1>4, <1>5

LEMMA HandleComesBack ==
  ASSUME TypeOK, ComesBackInv, "ipc" \notin Faults,
         NEW h \in Handler, SetExcluded(h) \/ Handle(h)
  PROVE  ComesBackInv'
  <1> USE DEF TypeOK, HGoto
  <1> DEFINE i == hframe[h].iface
             Ready(g) == /\ hpc[g] \in {"filter", "remove", "add"} => hframe[g].iface \in Attempt
                         /\ hpc[g] \in {"remove", "add"} => hframe[g].active # {}
  <1>1. CASE SetExcluded(h) \/ Marshal(h) \/ WriteSettings(h) \/ Snapshot(h)
             \/ FilterSnapshot(h) \/ InstallRoutes(h) \/ RecordActive(h)
    <2>1. hpc[h] # "add" /\ \A g \in Handler \ {h} : hpc'[g] = hpc[g] /\ hframe'[g] = hframe[g]
      BY <1>1 DEF SetExcluded, Marshal, WriteSettings, Snapshot, FilterSnapshot,
                  InstallRoutes, RecordActive, Return
    <2>2. \A b \in Attempt : dev'[b].status = dev[b].status /\ dev'[b].allowed = dev[b].allowed
      <3>1. CASE InstallRoutes(h)
        <4>1. \A b \in Attempt : \A routes :
                /\ Routed(dev[b], routes).status = dev[b].status
                /\ Routed(dev[b], routes).allowed = dev[b].allowed
          BY DEF Routed, Device
        <4> QED BY <3>1, <4>1 DEF InstallRoutes
      <3>2. CASE ~InstallRoutes(h)
        BY <1>1, <3>2 DEF SetExcluded, Marshal, WriteSettings, Snapshot, FilterSnapshot,
                          RecordActive
      <3> QED BY <3>1, <3>2
    <2>3. Ready(h)'
      <3>1. CASE Snapshot(h)
        <4>1. m.iface \in Pointer
          BY DEF Manager
        <4>2. CASE Return(h)
          BY <4>2 DEF Return
        <4>3. CASE ~Return(h)
          <5>1. m.iface \in Attempt /\ hpc'[h] = "filter"
            BY <3>1, <4>1, <4>3 DEF Snapshot, Pointer
          <5>2. hframe' = [hframe EXCEPT ![h].iface = m.iface, ![h].available = m.available]
            BY <3>1, <4>3 DEF Snapshot
          <5> QED BY <5>1, <5>2 DEF HFrame
        <4> QED BY <4>2, <4>3
      <3>2. CASE FilterSnapshot(h)
        <4>1. CASE Return(h)
          BY <4>1 DEF Return
        <4>2. CASE ~Return(h)
          <5>1. PICK active \in SUBSET Route :
                  active # {} /\ hframe' = [hframe EXCEPT ![h].active = active]
            BY <3>2, <4>2 DEF FilterSnapshot, Filtered, HFrame
          <5>2. hpc[h] = "filter"
            BY <3>2 DEF FilterSnapshot
          <5> QED BY <5>1, <5>2 DEF ComesBackInv, HFrame
        <4> QED BY <4>1, <4>2
      <3>3. CASE ~Snapshot(h) /\ ~FilterSnapshot(h)
        <4>1. hpc'[h] \in {"marshal", "write", "snapshot", "record", "idle"}
          BY <1>1, <3>3 DEF SetExcluded, Marshal, WriteSettings, InstallRoutes, RecordActive,
                            Return
        <4> QED BY <4>1
      <3> QED BY <3>1, <3>2, <3>3
    <2> QED BY <2>1, <2>2, <2>3 DEF ComesBackInv, PeerComesBack
  <1>2. CASE RemovePeer(h)
    <2>0. \A g \in Handler \ {h} : hpc'[g] = hpc[g] /\ hframe'[g] = hframe[g]
      BY <1>2 DEF RemovePeer, Return
    <2>1. i \in Attempt /\ hframe[h].active # {} /\ hpc[h] = "remove"
      BY <1>2 DEF RemovePeer, ComesBackInv
    <2>2. CASE dev[i].status = "up"
      <3>1. /\ dev' = [dev EXCEPT ![i].allowed = {}]
            /\ hpc'[h] = "add" /\ hframe' = hframe
        BY <1>2, <2>2 DEF RemovePeer
      <3>2. \A b \in Attempt \ {i} : dev'[b] = dev[b]
        BY <3>1
      <3> QED BY <2>0, <2>1, <3>1, <3>2 DEF ComesBackInv, PeerComesBack
    <2>3. CASE dev[i].status # "up"
      <3>1. dev' = dev /\ hpc'[h] = "idle"
        BY <1>2, <2>3 DEF RemovePeer, Return
      <3> QED BY <2>0, <2>1, <3>1 DEF ComesBackInv, PeerComesBack
    <2> QED BY <2>2, <2>3
  <1>3. CASE AddPeer(h)
    <2>0. \A g \in Handler \ {h} : hpc'[g] = hpc[g] /\ hframe'[g] = hframe[g]
      BY <1>3 DEF AddPeer, Return
    <2>1. i \in Attempt /\ hframe[h].active # {} /\ hpc[h] = "add"
      BY <1>3 DEF AddPeer, ComesBackInv
    <2>2. CASE dev[i].status = "up"
      <3>1. /\ dev' = [dev EXCEPT ![i] = Added(@, hframe[h].active)]
            /\ hpc'[h] = "route" /\ hframe' = hframe
        BY <1>3, <2>2 DEF AddPeer
      <3>2. dev'[i].allowed = dev[i].allowed \cup hframe[h].active
        BY <2>1, <3>1 DEF Added, Device
      <3>3. dev'[i].allowed # {}
        BY <2>1, <3>2
      <3>4. \A b \in Attempt \ {i} : dev'[b] = dev[b]
        BY <3>1
      <3> QED BY <2>0, <2>1, <3>1, <3>3, <3>4 DEF ComesBackInv, PeerComesBack
    <2>3. CASE dev[i].status # "up"
      <3>1. dev' = dev /\ hpc'[h] = "idle"
        BY <1>3, <2>3 DEF AddPeer, Return
      <3> QED BY <2>0, <2>1, <2>3, <3>1 DEF ComesBackInv, PeerComesBack
    <2> QED BY <2>2, <2>3
  <1> QED BY <1>1, <1>2, <1>3 DEF Handle

LEMMA NextComesBack ==
  ASSUME Inv, ComesBackInv, "ipc" \notin Faults, [Next]_vars PROVE ComesBackInv'
  <1> USE DEF Inv
  <1>1. ASSUME NEW a \in Attempt, Connect(a) PROVE ComesBackInv'
    <2>1. \A b \in Attempt : dev'[b] = dev[b] \/ dev'[b].status # "up"
      BY <1>1 DEF Connect, NoDevice, TypeOK
    <2> QED BY <1>1, <2>1, QuietComesBack DEF Connect
  <1>2. ASSUME Disconnect PROVE ComesBackInv'
    <2>1. \A b \in Attempt : Destroyed(dev[b]).status = "destroyed"
      BY DEF Destroyed, Device, TypeOK
    <2>2. \A b \in Attempt : dev'[b] = dev[b] \/ dev'[b].status # "up"
      BY <1>2, <2>1 DEF Disconnect
    <2> QED BY <1>2, <2>2, QuietComesBack DEF Disconnect
  <1>3. ASSUME NEW a \in Attempt, TunnelBreaks(a) PROVE ComesBackInv'
    BY <1>3, QuietComesBack DEF TunnelBreaks
  <1>4. ASSUME UNCHANGED vars PROVE ComesBackInv'
    BY <1>4, QuietComesBack DEF vars
  <1> QED
    BY <1>1, <1>2, <1>3, <1>4, StepComesBack, HandleComesBack, RebootComesBack
       DEF Next, Crash

(* As long as no call into the interface fails, a configured interface never   *)
(* stays without its peer: whichever handlers interleave with whichever        *)
(* attempts and disconnections, one of them still has to add it.               *)
THEOREM PeerReturns == "ipc" \notin Faults => (Spec => []PeerComesBack)
  <1> SUFFICES ASSUME "ipc" \notin Faults PROVE Spec => []PeerComesBack
    OBVIOUS
  <1>1. Inv /\ ComesBackInv /\ [Next]_vars => ComesBackInv'
    BY NextComesBack
  <1>2. ComesBackInv => PeerComesBack
    BY DEF ComesBackInv
  <1> QED BY <1>1, <1>2, InitComesBack, Invariance, PTL DEF Spec

------------------------------------------------------------------------------
(* The active routes that are reported are the ones that are installed. *)

OneHandler == \A g, h \in Handler : hpc[g] # "idle" /\ hpc[h] # "idle" => g = h

(* What doConnect has already reported and installed are the routes it filtered. *)
AttemptReports(a) ==
  /\ pc[a] \in {"configure", "attach", "mark"} => m.active = frame[a].active
  /\ pc[a] \in {"attach", "mark"} => dev[a].allowed = Installed(m.active)

(* A handler past its snapshot works on the interface of the connection, which *)
(* is not replaced under it, and what it did to the peer so far is still there. *)
HandlerReplaces(h) ==
  /\ hpc[h] \in {"filter", "remove", "add", "route", "record"} =>
       m.state = "connected" /\ hframe[h].iface = m.iface
  /\ hpc[h] \in {"remove", "add", "route", "record"} => hframe[h].active # {}
  /\ hpc[h] = "add" => dev[m.iface].allowed = {}
  /\ hpc[h] \in {"route", "record"} => dev[m.iface].allowed = hframe[h].active

ReportedInv ==
  /\ OneHandler
  /\ \A a \in Attempt : AttemptReports(a)
  /\ \A h \in Handler : HandlerReplaces(h)
  /\ ReportedRoutesInstalled

LEMMA InitReported == Init => ReportedInv
  BY DEF Init, Started, NewManager, ReportedInv, OneHandler, AttemptReports,
         HandlerReplaces, ReportedRoutesInstalled

LEMMA RebootReported == ASSUME Reboot PROVE ReportedInv'
  BY DEF Reboot, NewManager, ReportedInv, OneHandler, AttemptReports,
         HandlerReplaces, ReportedRoutesInstalled

LEMMA ConnectReported ==
  ASSUME Patient, Inv, ReportedInv, NEW a \in Attempt, Connect(a) PROVE ReportedInv'
  <1> USE DEF Inv, TypeOK
  <1>1. /\ m'.state = "connecting" /\ m'.active = m.active
        /\ pc'[a] = "auth" /\ hpc' = hpc /\ HandlersIdle
    BY DEF Connect, Connecting, Manager
  <1>2. \A b \in Attempt \ {a} : pc'[b] = pc[b] /\ frame'[b] = frame[b] /\ dev'[b] = dev[b]
    BY DEF Connect
  <1>3. OneHandler' /\ ReportedRoutesInstalled'
    BY <1>1 DEF OneHandler, HandlersIdle, ReportedRoutesInstalled
  <1>4. \A b \in Attempt : AttemptReports(b)'
    BY <1>1, <1>2 DEF ReportedInv, AttemptReports
  <1>5. \A h \in Handler : HandlerReplaces(h)'
    BY <1>1 DEF HandlersIdle, HandlerReplaces
  <1> QED BY <1>3, <1>4, <1>5 DEF ReportedInv

LEMMA DisconnectReported ==
  ASSUME Patient, Inv, Sequential, Disconnect PROVE ReportedInv'
  <1> USE DEF Inv, TypeOK
  <1>1. /\ m'.state = "disconnected"
        /\ pc' = pc /\ hpc' = hpc /\ HandlersIdle
    BY DEF Disconnect, Cleared, Manager
  <1>2. \A b \in Attempt : pc[b] \notin Setup
    BY DEF Disconnect, Sequential
  <1>3. OneHandler' /\ ReportedRoutesInstalled'
    BY <1>1 DEF OneHandler, HandlersIdle, ReportedRoutesInstalled
  <1>4. \A b \in Attempt : AttemptReports(b)'
    BY <1>1, <1>2 DEF AttemptReports, Setup
  <1>5. \A h \in Handler : HandlerReplaces(h)'
    BY <1>1 DEF HandlersIdle, HandlerReplaces
  <1> QED BY <1>3, <1>4, <1>5 DEF ReportedInv

LEMMA StepReported ==
  ASSUME Inv, Sequential, ReportedInv, NEW a \in Attempt, Step(a) PROVE ReportedInv'
  <1> SUFFICES ASSUME ~Reboot PROVE ReportedInv'
    BY RebootReported
  <1> USE DEF Inv, TypeOK, Goto
  <1>1. CASE SaveServer(a)
    <2>1. UNCHANGED <<m, dev, hpc, hframe>> /\ pc'[a] = "done"
      BY <1>1 DEF SaveServer
    <2>2. \A b \in Attempt \ {a} : pc'[b] = pc[b] /\ frame'[b] = frame[b]
      BY <1>1 DEF SaveServer
    <2>3. \A b \in Attempt : AttemptReports(b)'
      BY <2>1, <2>2 DEF ReportedInv, AttemptReports
    <2> QED
      BY <2>1, <2>3 DEF ReportedInv, OneHandler, HandlerReplaces, ReportedRoutesInstalled
  <1>2. CASE ~SaveServer(a)
    <2>1. pc[a] \in Setup
      BY <1>2 DEF Step, Authenticate, SetToken, SetIP, StartTunnel, PublishTunnel,
                  CreateInterface, SetAvailable, FilterRoutes, SetActive, Configure,
                  AttachInterface, MarkConnected, StopTunnel, DestroyInterface, SetError,
                  Setup
    <2>2. m.state = "connecting" /\ \A b \in Attempt \ {a} : pc[b] \notin Setup
      BY <2>1 DEF Sequential
    <2>3. UNCHANGED <<hpc, hframe>>
      BY DEF Step, Authenticate, SetToken, SetIP, StartTunnel, PublishTunnel,
             CreateInterface, SetAvailable, FilterRoutes, SetActive, Configure,
             AttachInterface, MarkConnected, SaveServer, StopTunnel, DestroyInterface,
             SetError
    <2>4. \A h \in Handler : HandlerReplaces(h)'
      BY <2>2, <2>3 DEF ReportedInv, HandlerReplaces
    <2>5. \A b \in Attempt \ {a} : AttemptReports(b)'
      <3>1. \A b \in Attempt \ {a} : pc'[b] = pc[b]
        BY StepIsLocal
      <3> QED BY <2>2, <3>1 DEF AttemptReports, Setup
    <2>6. AttemptReports(a)' /\ ReportedRoutesInstalled'
      <3> USE <2>2
      <3>1. CASE SetActive(a)
        BY <3>1 DEF SetActive, Manager, AttemptReports, ReportedRoutesInstalled
      <3>2. CASE Configure(a)
        BY <3>2 DEF Configure, ReportedInv, AttemptReports, ReportedRoutesInstalled
      <3>3. CASE AttachInterface(a)
        BY <3>3 DEF AttachInterface, Manager, ReportedInv, AttemptReports,
                    ReportedRoutesInstalled
      <3>4. CASE MarkConnected(a)
        <4>1. m.iface = a /\ dev[a].allowed = Installed(m.active)
          BY <3>4 DEF MarkConnected, Sequential, ReportedInv, AttemptReports
        <4>2. m'.iface = m.iface /\ m'.active = m.active /\ dev' = dev /\ pc'[a] = "save"
          BY <3>4 DEF MarkConnected, Manager
        <4> QED BY <4>1, <4>2 DEF AttemptReports, ReportedRoutesInstalled
      <3>5. CASE SetError(a)
        BY <3>5 DEF SetError, Failed, Manager, AttemptReports, ReportedRoutesInstalled
      <3>6. CASE SetToken(a) \/ SetIP(a) \/ PublishTunnel(a) \/ SetAvailable(a)
        BY <3>6 DEF SetToken, SetIP, PublishTunnel, SetAvailable, Manager, AttemptReports,
                    ReportedRoutesInstalled
      <3>7. CASE Authenticate(a) \/ StartTunnel(a) \/ CreateInterface(a) \/ FilterRoutes(a)
                 \/ StopTunnel(a) \/ DestroyInterface(a)
        BY <3>7 DEF Authenticate, StartTunnel, CreateInterface, FilterRoutes, StopTunnel,
                    AfterStop, DestroyInterface, AttemptReports, ReportedRoutesInstalled
      <3> QED BY <1>2, <3>1, <3>2, <3>3, <3>4, <3>5, <3>6, <3>7 DEF Step
    <2>7. OneHandler'
      BY <2>3 DEF ReportedInv, OneHandler
    <2> QED BY <2>4, <2>5, <2>6, <2>7 DEF ReportedInv
  <1> QED BY <1>1, <1>2

LEMMA HandleReported ==
  ASSUME Patient, "ipc" \notin Faults, Inv, Sequential, ReportedInv,
         NEW h \in Handler, SetExcluded(h) \/ Handle(h)
  PROVE  ReportedInv'
  <1> USE DEF Inv, TypeOK, HGoto
  <1>1. /\ pc' = pc /\ frame' = frame /\ m'.state = m.state /\ m'.iface = m.iface
        /\ \A g \in Handler \ {h} : hpc'[g] = hpc[g] /\ hpc[g] = "idle"
    <2>1. \A g \in Handler \ {h} : hpc'[g] = hpc[g]
      BY DEF SetExcluded, Handle, Marshal, WriteSettings, Snapshot, FilterSnapshot,
             RemovePeer, AddPeer, InstallRoutes, RecordActive, Return
    <2>2. HandlersIdle \/ hpc[h] # "idle"
      BY DEF SetExcluded, Handle, Marshal, WriteSettings, Snapshot, FilterSnapshot,
             RemovePeer, AddPeer, InstallRoutes, RecordActive
    <2> QED BY <2>1, <2>2, HandleIsLocal DEF HandlersIdle, ReportedInv, OneHandler
  <1>2. OneHandler'
    BY <1>1 DEF OneHandler
  <1>3. \A g \in Handler \ {h} : HandlerReplaces(g)'
    BY <1>1 DEF HandlerReplaces
  <1>4. ASSUME m.state = "connected"
        PROVE  /\ m.iface \in Attempt /\ dev[m.iface].status = "up"
               /\ \A b \in Attempt : AttemptReports(b)'
    <2>1. \A b \in Attempt : pc[b] \notin Setup
      BY <1>4 DEF Sequential
    <2> QED BY <1>1, <1>4, <2>1 DEF Sequential, ProgressInv, AttemptReports, Setup
  <1>5. CASE SetExcluded(h) \/ Marshal(h) \/ WriteSettings(h) \/ Snapshot(h)
             \/ FilterSnapshot(h)
    <2>1. /\ dev' = dev /\ m'.active = m.active
          /\ hpc[h] \in {"idle", "marshal", "write", "snapshot", "filter"}
      BY <1>5 DEF SetExcluded, Marshal, WriteSettings, Snapshot, FilterSnapshot, Manager
    <2>2. \A b \in Attempt : AttemptReports(b)'
      BY <1>1, <2>1 DEF ReportedInv, AttemptReports
    <2>3. ReportedRoutesInstalled'
      BY <1>1, <2>1 DEF ReportedInv, ReportedRoutesInstalled
    <2>4. HandlerReplaces(h)'
      <3>1. CASE Return(h)
        BY <3>1 DEF Return, HandlerReplaces
      <3>2. CASE Snapshot(h) /\ ~Return(h)
        <4>1. hframe' = [hframe EXCEPT ![h].iface = m.iface, ![h].available = m.available]
          BY <3>2 DEF Snapshot
        <4>2. hframe'[h].iface = m.iface
          BY <4>1 DEF HFrame
        <4>3. m.state = "connected" /\ hpc'[h] = "filter" /\ m' = m
          BY <3>2 DEF Snapshot
        <4> QED BY <4>2, <4>3 DEF HandlerReplaces
      <3>3. CASE FilterSnapshot(h) /\ ~Return(h)
        <4>1. PICK active \in SUBSET Route :
                active # {} /\ hframe' = [hframe EXCEPT ![h].active = active]
          BY <3>3 DEF FilterSnapshot, Filtered, HFrame
        <4>2. hframe'[h].active = active /\ hframe'[h].iface = hframe[h].iface
          BY <4>1 DEF HFrame
        <4>3. hpc[h] = "filter" /\ hpc'[h] = "remove"
          BY <3>3 DEF FilterSnapshot
        <4> QED BY <1>1, <4>1, <4>2, <4>3 DEF ReportedInv, HandlerReplaces
      <3>4. CASE ~Snapshot(h) /\ ~FilterSnapshot(h) /\ ~Return(h)
        <4>1. hpc'[h] \in {"marshal", "write", "snapshot"}
          BY <1>5, <3>4 DEF SetExcluded, Marshal, WriteSettings
        <4> QED BY <4>1 DEF HandlerReplaces
      <3> QED BY <3>1, <3>2, <3>3, <3>4
    <2> QED BY <1>2, <1>3, <2>2, <2>3, <2>4 DEF ReportedInv
  <1>6. CASE RemovePeer(h)
    <2>1. hpc[h] = "remove" /\ m.state = "connected" /\ hframe[h].iface = m.iface
          /\ hframe[h].active # {}
      BY <1>6 DEF RemovePeer, ReportedInv, HandlerReplaces
    <2>2. /\ dev' = [dev EXCEPT ![m.iface].allowed = {}]
          /\ hpc'[h] = "add" /\ hframe' = hframe
      BY <1>4, <1>6, <2>1 DEF RemovePeer
    <2>3. dev'[m.iface].allowed = {}
      BY <1>4, <2>1, <2>2 DEF Device
    <2> QED
      BY <1>1, <1>2, <1>3, <1>4, <2>1, <2>2, <2>3
         DEF ReportedInv, HandlerReplaces, ReportedRoutesInstalled
  <1>7. CASE AddPeer(h)
    <2>1. /\ hpc[h] = "add" /\ m.state = "connected" /\ hframe[h].iface = m.iface
          /\ hframe[h].active # {} /\ dev[m.iface].allowed = {}
      BY <1>7 DEF AddPeer, ReportedInv, HandlerReplaces
    <2>2. /\ dev' = [dev EXCEPT ![m.iface] = Added(@, hframe[h].active)]
          /\ hpc'[h] = "route" /\ hframe' = hframe
      BY <1>4, <1>7, <2>1 DEF AddPeer
    <2>3. dev'[m.iface].allowed = hframe[h].active
      BY <1>4, <2>1, <2>2 DEF Added, Device
    <2> QED
      BY <1>1, <1>2, <1>3, <1>4, <2>1, <2>2, <2>3
         DEF ReportedInv, HandlerReplaces, ReportedRoutesInstalled
  <1>8. CASE InstallRoutes(h)
    <2>1. /\ hpc[h] = "route" /\ m.state = "connected" /\ hframe[h].iface = m.iface
          /\ hframe[h].active # {} /\ dev[m.iface].allowed = hframe[h].active
      BY <1>8 DEF InstallRoutes, ReportedInv, HandlerReplaces
    <2>2. hpc'[h] = "record" /\ hframe' = hframe
      BY <1>8 DEF InstallRoutes
    <2>3. \A routes : Routed(dev[m.iface], routes).allowed = dev[m.iface].allowed
      BY <1>4, <2>1 DEF Routed, Device
    <2>4. dev'[m.iface].allowed = dev[m.iface].allowed
      BY <1>4, <1>8, <2>1, <2>3 DEF InstallRoutes
    <2> QED
      BY <1>1, <1>2, <1>3, <1>4, <2>1, <2>2, <2>4
         DEF ReportedInv, HandlerReplaces, ReportedRoutesInstalled
  <1>9. CASE RecordActive(h)
    <2>1. /\ hpc[h] = "record" /\ m.state = "connected" /\ hframe[h].iface = m.iface
          /\ hframe[h].active # {} /\ dev[m.iface].allowed = hframe[h].active
      BY <1>9 DEF RecordActive, ReportedInv, HandlerReplaces
    <2>2. m'.active = hframe[h].active /\ dev' = dev /\ hpc'[h] = "idle"
      BY <1>9 DEF RecordActive, Return, Manager
    <2>3. Installed(m'.active) = m'.active
      BY <2>1, <2>2 DEF Installed
    <2> QED
      BY <1>1, <1>2, <1>3, <1>4, <2>1, <2>2, <2>3
         DEF ReportedInv, HandlerReplaces, ReportedRoutesInstalled
  <1> QED BY <1>5, <1>6, <1>7, <1>8, <1>9 DEF Handle

LEMMA NextReported ==
  ASSUME Patient, "ipc" \notin Faults, Inv, Sequential, ReportedInv, [Next]_vars
  PROVE  ReportedInv'
  <1>1. ASSUME NEW a \in Attempt, TunnelBreaks(a) PROVE ReportedInv'
    BY <1>1 DEF TunnelBreaks, ReportedInv, OneHandler, AttemptReports, HandlerReplaces,
                ReportedRoutesInstalled
  <1>2. ASSUME UNCHANGED vars PROVE ReportedInv'
    BY <1>2 DEF vars, ReportedInv, OneHandler, AttemptReports, HandlerReplaces,
                ReportedRoutesInstalled
  <1> QED
    BY <1>1, <1>2, ConnectReported, DisconnectReported, StepReported, HandleReported,
       RebootReported DEF Next, Crash

(* With a Patient user, and as long as no call into the interface fails, the   *)
(* active routes shown are the ones the interface has, through every attempt,  *)
(* change of the exclusions, failed write of them, disconnection and restart.  *)
THEOREM ReportedInstalled ==
  Patient /\ "ipc" \notin Faults => (Spec => []ReportedRoutesInstalled)
  <1> SUFFICES ASSUME Patient, "ipc" \notin Faults PROVE Spec => []ReportedRoutesInstalled
    OBVIOUS
  <1>1. Inv /\ Sequential /\ ReportedInv /\ [Next]_vars => ReportedInv'
    BY NextReported
  <1>2. ReportedInv => ReportedRoutesInstalled
    BY DEF ReportedInv
  <1> QED BY <1>1, <1>2, InitReported, SequentialInvariance, PTL DEF Spec

==============================================================================
