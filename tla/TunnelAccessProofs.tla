------------------------- MODULE TunnelAccessProofs -------------------------
(***************************************************************************)
(* What holds of the central auth service for any numbers of users,        *)
(* tunnels, nodes' requests, administrators' requests and runs of wsctl.   *)
(***************************************************************************)
EXTENDS TunnelAccess, TLAPS

Label ==
  {"idle", "touch", "user", "access", "all", "valid", "insert", "save", "revoke", "remove",
   "purge", "drop", "add"}

Tables ==
  /\ active \subseteq User /\ tunnels \in [Tunnel -> State] /\ want \in [Tunnel -> State]
  /\ access \subseteq User \X Tunnel /\ overwritten \subseteq Tunnel
  /\ granted \in [User -> SUBSET Tunnel]

(* A call at a label knows the rows it is about to use; only nodes verify    *)
(* and insert, and a node that saves a tunnel keeps the state it has read.   *)
Suits(c, label, local) ==
  /\ label = "idle" => local = EmptyFrame
  /\ label \in {"touch", "insert", "revoke", "remove", "save", "user", "access", "all", "valid"} =>
       local.tunnel \in Tunnel
  /\ label = "save" =>
       local.row # "absent" /\ local.state # "absent" /\ (c \in Node => local.state = local.row)
  /\ label \in {"touch", "user", "access", "all", "valid"} => c \in Node
  /\ label \in {"user", "access", "all", "valid", "purge", "drop", "add"} => local.user \in User
  /\ label \in {"purge", "drop", "add"} => c \in Admin

Typed ==
  /\ Tables /\ settled \subseteq Node
  /\ pc \in [Call -> Label] /\ frame \in [Call -> Frame]
  /\ \A c \in Call : Suits(c, pc[c], frame[c])

LEMMA TypedIsTypeOK == Typed => TypeOK
<1> SUFFICES ASSUME Typed PROVE TypeOK
  OBVIOUS
<1>1. ASSUME NEW c \in Call
      PROVE  \/ pc[c] = "idle" /\ frame[c] = EmptyFrame
             \/ pc[c] \in {"touch", "insert", "revoke", "remove"} /\ frame[c].tunnel # None
             \/ /\ pc[c] = "save" /\ frame[c].tunnel # None
                /\ frame[c].row # "absent" /\ frame[c].state # "absent"
             \/ /\ pc[c] \in {"user", "access", "all", "valid"} /\ c \in Node
                /\ frame[c].tunnel # None /\ frame[c].user # None
             \/ pc[c] \in {"purge", "drop", "add"} /\ c \in Admin /\ frame[c].user # None
  <2>1. pc[c] \in Label /\ Suits(c, pc[c], frame[c])
    BY DEF Typed
  <2> QED
    BY <2>1, ConstantAssumption DEF Suits, Label
<1> QED
  BY <1>1 DEF Typed, Tables, TypeOK, Label

(* One call moves to a label, with local variables of its own. *)
Moves(c, label, local) ==
  /\ pc' = [pc EXCEPT ![c] = label] /\ frame' = [frame EXCEPT ![c] = local]

LEMMA MoveKeeps ==
  ASSUME NEW c \in Call, Typed, NEW label \in Label, NEW local \in Frame,
         Moves(c, label, local), Suits(c, label, local), Tables', settled' \subseteq Node
  PROVE  Typed'
<1>1. pc' \in [Call -> Label] /\ frame' \in [Call -> Frame]
  BY DEF Moves, Typed
<1>2. ASSUME NEW d \in Call PROVE Suits(d, pc'[d], frame'[d])
  <2>1. d # c => pc'[d] = pc[d] /\ frame'[d] = frame[d]
    BY DEF Moves, Typed
  <2>2. d = c => pc'[d] = label /\ frame'[d] = local
    BY DEF Moves, Typed
  <2>3. Suits(d, pc[d], frame[d])
    BY DEF Typed
  <2> QED
    BY <2>1, <2>2, <2>3
<1>3. \A d \in Call : Suits(d, pc[d], frame[d])'
  BY Zenon, <1>2 DEF Suits
<1> QED
  BY <1>1, <1>3 DEF Typed

LEMMA EmptyFrameType == EmptyFrame \in Frame
BY DEF EmptyFrame, Frame, State

LEMMA ReturnKeeps ==
  ASSUME NEW c \in Call, Typed, Return(c), Tables', settled' \subseteq Node
  PROVE  Typed'
<1>1. Moves(c, "idle", EmptyFrame) /\ Suits(c, "idle", EmptyFrame)
  BY DEF Return, Goto, Moves, Suits
<1> QED
  BY <1>1, EmptyFrameType, MoveKeeps DEF Label

LEMMA GotoKeeps ==
  ASSUME NEW c \in Call, Typed, NEW label \in Label, Goto(c, label), UNCHANGED frame,
         Suits(c, label, frame[c]), Tables', settled' \subseteq Node
  PROVE  Typed'
<1>1. frame[c] \in Frame /\ Moves(c, label, frame[c])
  BY DEF Goto, Moves, Typed
<1> QED
  BY <1>1, MoveKeeps

LEMMA SameTables ==
  ASSUME Typed, UNCHANGED UserTables, UNCHANGED TunnelTables
  PROVE  Tables'
BY DEF Typed, Tables, UserTables, TunnelTables

LEMMA BeginKeeps ==
  ASSUME NEW c \in Call, Typed, NEW label \in Label, NEW local \in Frame,
         BeginCall(c, label, local), Suits(c, label, local), settled' \subseteq Node
  PROVE  Typed'
<1>1. Moves(c, label, local) /\ Tables'
  BY SameTables DEF BeginCall, Moves, Goto
<1> QED
  BY <1>1, MoveKeeps

------------------------------------------------------------------------------
LEMMA VerifyTokenKeeps ==
  ASSUME NEW c \in Node, Typed, NEW u \in User \cup {None}, NEW t \in Tunnel, VerifyToken(c, u, t),
         settled' \subseteq Node
  PROVE  Typed'
<1> DEFINE local == [EmptyFrame EXCEPT !.user = u, !.tunnel = t, !.row = "active"]
<1>1. local \in Frame /\ local.tunnel = t
  BY DEF EmptyFrame, Frame, State
<1>2. Suits(c, "touch", local)
  BY <1>1 DEF Suits
<1> QED
  BY <1>1, <1>2, BeginKeeps DEF VerifyToken, Label, Call

LEMMA RegisterKeeps ==
  ASSUME NEW c \in Node, Typed, Register(c), settled' \subseteq Node
  PROVE  Typed'
<1> PICK t \in Tunnel :
      BeginCall(c, IF tunnels[t] = "absent" THEN "insert" ELSE "save",
                [EmptyFrame EXCEPT !.tunnel = t, !.row = tunnels[t], !.state = tunnels[t]])
  BY DEF Register
<1> DEFINE local == [EmptyFrame EXCEPT !.tunnel = t, !.row = tunnels[t], !.state = tunnels[t]]
<1>1. tunnels[t] \in State
  BY DEF Typed, Tables
<1>2. local \in Frame /\ local.tunnel = t /\ local.row = tunnels[t] /\ local.state = tunnels[t]
  BY <1>1 DEF EmptyFrame, Frame
<1>3. tunnels[t] # "absent" => Suits(c, "save", local)
  BY <1>2 DEF Suits
<1>4. Suits(c, "insert", local)
  BY <1>2 DEF Suits
<1> QED
  BY <1>2, <1>3, <1>4, BeginKeeps DEF Label, Call

LEMMA UpdateTunnelKeeps ==
  ASSUME NEW c \in Admin, Typed, UpdateTunnel(c), settled' \subseteq Node
  PROVE  Typed'
<1> PICK t \in Tunnel, state \in {"active", "inactive"} :
      /\ tunnels[t] # "absent"
      /\ BeginCall(c, "save", [EmptyFrame EXCEPT !.tunnel = t, !.row = tunnels[t], !.state = state])
  BY DEF UpdateTunnel
<1> DEFINE local == [EmptyFrame EXCEPT !.tunnel = t, !.row = tunnels[t], !.state = state]
<1>1. tunnels[t] \in State /\ state \in State
  BY DEF Typed, Tables, State
<1>2. local \in Frame /\ local.tunnel = t /\ local.row = tunnels[t] /\ local.state = state
  BY <1>1 DEF EmptyFrame, Frame
<1>3. Suits(c, "save", local)
  BY <1>2, ConstantAssumption DEF Suits
<1> QED
  BY <1>2, <1>3, BeginKeeps DEF Label, Call

LEMMA BeginDeletionKeeps ==
  ASSUME NEW c \in Admin, Typed, DeleteTunnel(c) \/ WsctlDeleteUser(c), settled' \subseteq Node
  PROVE  Typed'
<1>1. ASSUME NEW t \in Tunnel, BeginCall(c, "revoke", [EmptyFrame EXCEPT !.tunnel = t])
      PROVE  Typed'
  <2> DEFINE local == [EmptyFrame EXCEPT !.tunnel = t]
  <2>1. local \in Frame /\ local.tunnel = t
    BY DEF EmptyFrame, Frame, State
  <2>2. Suits(c, "revoke", local)
    BY <2>1 DEF Suits
  <2> QED
    BY <1>1, <2>1, <2>2, BeginKeeps DEF Label, Call
<1>2. ASSUME NEW u \in User, BeginCall(c, "purge", [EmptyFrame EXCEPT !.user = u])
      PROVE  Typed'
  <2> DEFINE local == [EmptyFrame EXCEPT !.user = u]
  <2>1. local \in Frame /\ local.user = u
    BY DEF EmptyFrame, Frame, State
  <2>2. Suits(c, "purge", local)
    BY <2>1 DEF Suits
  <2> QED
    BY <1>2, <2>1, <2>2, BeginKeeps DEF Label, Call
<1> QED
  BY <1>1, <1>2 DEF DeleteTunnel, WsctlDeleteUser

LEMMA NodeStepKeeps ==
  ASSUME NEW c \in Node, Typed, StepOfNode(c), settled' \subseteq Node
  PROVE  Typed'
<1>1. c \in Call /\ frame[c] \in Frame /\ Suits(c, pc[c], frame[c])
  BY DEF Typed, Call
<1>2. CASE ~InsertTunnel(c)
  <2>1. Tables'
    BY <1>2, SameTables DEF StepOfNode, Touch, VerifyUser, ReadAccess, ReadActive, Valid
  <2>2. CASE Return(c)
    BY <1>1, <2>1, <2>2, ReturnKeeps
  <2>3. CASE ~Return(c)
    <3>1. CASE Touch(c)
      <4>1. frame[c].user \in User
        BY <1>1, <2>3, <3>1 DEF Touch, AfterTouch, Frame
      <4>2. Suits(c, "user", frame[c])
        BY <1>1, <3>1, <4>1, ConstantAssumption DEF Touch, Suits, EmptyFrame
      <4> QED
        BY <1>1, <2>1, <2>3, <3>1, <4>2, GotoKeeps DEF Touch, AfterTouch, Label
    <3>2. CASE VerifyUser(c) \/ ReadAccess(c) \/ ReadActive(c)
      <4>1. Suits(c, "access", frame[c]) /\ Suits(c, "all", frame[c]) /\ Suits(c, "valid", frame[c])
        BY <1>1, <3>2 DEF VerifyUser, ReadAccess, ReadActive, Suits
      <4>2. PICK label \in {"access", "all", "valid"} : Goto(c, label) /\ UNCHANGED frame
        BY <2>3, <3>2 DEF VerifyUser, ReadAccess, ReadActive
      <4> QED
        BY <1>1, <2>1, <4>1, <4>2, GotoKeeps DEF Label
    <3> QED
      BY <1>2, <2>3, <3>1, <3>2 DEF StepOfNode, Valid
  <2> QED
    BY <2>2, <2>3
<1>3. CASE InsertTunnel(c)
  <2>1. frame[c].tunnel \in Tunnel
    BY <1>1, <1>3 DEF InsertTunnel, Suits
  <2>2. Tables'
    BY <1>3, <2>1 DEF InsertTunnel, Typed, Tables, State, UserTables, TunnelTables
  <2> QED
    BY <1>1, <1>3, <2>2, ReturnKeeps DEF InsertTunnel
<1> QED
  BY <1>2, <1>3

LEMMA SaveTunnelKeeps ==
  ASSUME NEW c \in Call, Typed, SaveTunnel(c), settled' \subseteq Node
  PROVE  Typed'
<1>1. frame[c].tunnel \in Tunnel /\ frame[c].state \in State
  BY DEF SaveTunnel, Typed, Suits, Frame
<1>2. Tables'
  BY <1>1 DEF SaveTunnel, Typed, Tables, State, UserTables
<1> QED
  BY <1>2, ReturnKeeps DEF SaveTunnel

LEMMA AdminStepKeeps ==
  ASSUME NEW c \in Admin, Typed, StepOfAdmin(c), settled' \subseteq Node
  PROVE  Typed'
<1>1. c \in Call /\ frame[c] \in Frame /\ Suits(c, pc[c], frame[c])
  BY DEF Typed, Call
<1>2. CASE Revoke(c)
  <2>1. Suits(c, "remove", frame[c])
    BY <1>1, <1>2 DEF Revoke, Suits
  <2>2. Tables'
    BY <1>2 DEF Revoke, Typed, Tables, TunnelTables
  <2> QED
    BY <1>1, <1>2, <2>1, <2>2, GotoKeeps DEF Revoke, Label
<1>3. CASE RemoveTunnel(c)
  <2>1. frame[c].tunnel \in Tunnel
    BY <1>1, <1>3 DEF RemoveTunnel, Suits
  <2>2. Tables'
    BY <1>3, <2>1 DEF RemoveTunnel, Typed, Tables, State, UserTables
  <2> QED
    BY <1>1, <1>3, <2>2, ReturnKeeps DEF RemoveTunnel
<1>4. CASE Purge(c)
  <2>1. Suits(c, "drop", frame[c])
    BY <1>1, <1>4 DEF Purge, Suits
  <2>2. Tables'
    BY <1>4 DEF Purge, Typed, Tables, TunnelTables
  <2> QED
    BY <1>1, <1>4, <2>1, <2>2, GotoKeeps DEF Purge, Label
<1>5. CASE DropUser(c)
  <2>1. Tables'
    BY <1>5 DEF DropUser, Typed, Tables, TunnelTables
  <2> QED
    BY <1>1, <1>5, <2>1, ReturnKeeps DEF DropUser
<1>6. CASE AddAccess(c)
  <2>1. frame[c].user \in User /\ pc[c] = "add"
    BY <1>1, <1>6 DEF AddAccess, Suits
  <2>2. frame[c].todo \subseteq Tunnel
    BY <1>1 DEF Frame
  <2>3. PICK t \in frame[c].todo, alone \in BOOLEAN :
          frame' = [frame EXCEPT ![c] = [frame[c] EXCEPT !.todo = @ \ {t}, !.alone = alone]]
    <3>1. frame[c].alone \in BOOLEAN /\ [frame[c] EXCEPT !.alone = frame[c].alone] = frame[c]
      BY <1>1 DEF Frame
    <3>2. ASSUME NEW t \in frame[c].todo, frame' = [frame EXCEPT ![c].todo = @ \ {t}]
          PROVE  frame' = [frame EXCEPT ![c] =
                             [frame[c] EXCEPT !.todo = @ \ {t}, !.alone = frame[c].alone]]
      <4>1. [frame[c] EXCEPT !.todo = @ \ {t}] =
              [frame[c] EXCEPT !.todo = @ \ {t}, !.alone = frame[c].alone]
        BY <1>1 DEF Frame
      <4> QED
        BY <3>2, <4>1
    <3>3. ASSUME NEW t \in frame[c].todo, frame' = [frame EXCEPT ![c].todo = @ \ {t}, ![c].alone = FALSE]
          PROVE  frame' = [frame EXCEPT ![c] = [frame[c] EXCEPT !.todo = @ \ {t}, !.alone = FALSE]]
      BY <3>3
    <3> QED
      BY <1>6, <3>1, <3>2, <3>3 DEF AddAccess
  <2> DEFINE local == [frame[c] EXCEPT !.todo = @ \ {t}, !.alone = alone]
  <2>4. local \in Frame /\ local.user = frame[c].user
    BY <1>1 DEF Frame
  <2>5. Suits(c, "add", local)
    BY <2>1, <2>4 DEF Suits
  <2>6. Moves(c, "add", local)
    <3>1. pc' = [pc EXCEPT ![c] = "add"]
      BY <1>6, <2>1 DEF AddAccess, Typed
    <3> QED
      BY <2>3, <3>1 DEF Moves
  <2>7. Tables'
    BY <1>6, <2>1, <2>2 DEF AddAccess, Typed, Tables, TunnelTables
  <2> QED
    BY <1>1, <2>4, <2>5, <2>6, <2>7, MoveKeeps DEF Label
<1>7. CASE AccessUpdated(c)
  <2>1. frame[c].user \in User /\ frame[c].set \in SUBSET Tunnel
    BY <1>1, <1>7 DEF AccessUpdated, Suits, Frame
  <2>2. Tables'
    BY <1>7, <2>1 DEF AccessUpdated, Typed, Tables, TunnelTables
  <2> QED
    BY <1>1, <1>7, <2>2, ReturnKeeps DEF AccessUpdated
<1> QED
  BY <1>2, <1>3, <1>4, <1>5, <1>6, <1>7 DEF StepOfAdmin

(* The other calls for the user are no longer alone. *)
LEMMA SetUserTunnelAccessKeeps ==
  ASSUME NEW c \in Admin, Typed, SetUserTunnelAccess(c), settled' \subseteq Node
  PROVE  Typed'
<1> PICK u \in User, S \in SUBSET Tunnel, ok \in BOOLEAN :
      /\ pc[c] = "idle" /\ Goto(c, "add")
      /\ IF ok THEN access' = access \ ({u} \X Tunnel)
         ELSE "delete" \in Faults /\ UNCHANGED access
      /\ frame' = [d \in Call |->
                     IF d = c THEN Local(u, S, ok /\ Adding(u) = {})
                     ELSE IF d \in Adding(u) THEN [frame[d] EXCEPT !.alone = FALSE]
                     ELSE frame[d]]
      /\ granted' = [granted EXCEPT ![u] = {}]
      /\ UNCHANGED active /\ UNCHANGED TunnelTables
  BY DEF SetUserTunnelAccess
<1>1. Tables'
  BY DEF Typed, Tables, TunnelTables
<1>2. Local(u, S, ok /\ Adding(u) = {}) \in Frame /\ Local(u, S, ok /\ Adding(u) = {}).user = u
  BY DEF Local, EmptyFrame, Frame, State
<1>3. ASSUME NEW d \in Call
      PROVE  frame'[d] \in Frame /\ pc'[d] \in Label /\ Suits(d, pc'[d], frame'[d])
  <2>1. CASE d = c
    BY <1>2, <2>1 DEF Goto, Typed, Suits, Label
  <2>2. CASE d # c /\ d \in Adding(u)
    <3>1. frame[d] \in Frame /\ pc[d] = "add" /\ pc'[d] = "add" /\ d \in Admin
      BY <2>2 DEF Adding, Goto, Typed
    <3>2. /\ [frame[d] EXCEPT !.alone = FALSE] \in Frame
          /\ [frame[d] EXCEPT !.alone = FALSE].user = frame[d].user
      BY <3>1 DEF Frame
    <3>3. frame[d].user \in User
      BY <2>2 DEF Adding
    <3> QED
      BY <2>2, <3>1, <3>2, <3>3 DEF Suits, Label
  <2>3. CASE d # c /\ d \notin Adding(u)
    BY <2>3 DEF Goto, Typed
  <2> QED
    BY <2>1, <2>2, <2>3
<1>4. pc' \in [Call -> Label] /\ frame' \in [Call -> Frame]
  BY <1>3 DEF Goto, Typed
<1>5. \A d \in Call : Suits(d, pc[d], frame[d])'
  BY Zenon, <1>3 DEF Suits
<1> QED
  BY <1>1, <1>4, <1>5 DEF Typed

LEMMA TypedNext ==
  ASSUME Typed, [Next]_vars
  PROVE  Typed'
<1>1. ASSUME NEW c \in Node, Verify(c) \/ Heartbeat(c) PROVE Typed'
  <2>1. settled' \subseteq Node
    BY <1>1 DEF Verify, Heartbeat, Typed
  <2> QED
    BY <1>1, <2>1, VerifyTokenKeeps DEF Verify, Heartbeat
<1>2. ASSUME Settle(settled) PROVE settled' \subseteq Node
  BY <1>2 DEF Settle, Typed
<1>3. ASSUME UpdateUser \/ DeleteUser, settled' \subseteq Node PROVE Typed'
  <2>1. Tables' /\ UNCHANGED <<pc, frame>>
    BY <1>3 DEF UpdateUser, DeleteUser, Typed, Tables, TunnelTables
  <2>2. \A d \in Call : Suits(d, pc[d], frame[d])'
    BY Zenon, <2>1 DEF Typed, Suits
  <2> QED
    BY <1>3, <2>1, <2>2 DEF Typed
<1>4. ASSUME NEW c \in Call, Abort(c), settled' \subseteq Node PROVE Typed'
  BY <1>4, SameTables, ReturnKeeps DEF Abort
<1>5. CASE UNCHANGED vars
  <2>1. \A d \in Call : Suits(d, pc[d], frame[d])'
    BY Zenon, <1>5 DEF Typed, Suits, vars
  <2> QED
    BY <1>5, <2>1 DEF Typed, Tables, vars
<1> QED
  BY <1>1, <1>2, <1>3, <1>4, <1>5, RegisterKeeps, NodeStepKeeps, UpdateTunnelKeeps,
     BeginDeletionKeeps, SetUserTunnelAccessKeeps, AdminStepKeeps, SaveTunnelKeeps DEF Next

LEMMA TypedInductive == Spec => []Typed
<1>1. Init => Typed
  <2> SUFFICES ASSUME Init PROVE Typed
    OBVIOUS
  <2>1. Tables /\ settled \subseteq Node
    BY DEF Init, Tables, State
  <2>2. pc \in [Call -> Label] /\ frame \in [Call -> Frame]
    BY EmptyFrameType DEF Init, Label
  <2>3. \A c \in Call : Suits(c, pc[c], frame[c])
    BY DEF Init, Suits
  <2> QED
    BY <2>1, <2>2, <2>3 DEF Typed
<1> QED
  BY <1>1, TypedNext, PTL DEF Spec

(* Tables and local variables keep their types, and a call that reads or     *)
(* writes a row of a tunnel or a user knows which.                           *)
THEOREM TypeCorrect == Spec => []TypeOK
BY TypedInductive, TypedIsTypeOK, PTL

------------------------------------------------------------------------------
(* The state of tunnels *)

(* Which actions leave the rows of tunnels and their history. *)
LEMMA TunnelsElsewhere ==
  ASSUME [Next]_vars
  PROVE  \/ UNCHANGED TunnelTables
         \/ \E c \in Node : InsertTunnel(c)
         \/ \E c \in Admin : RemoveTunnel(c)
         \/ \E c \in Call : SaveTunnel(c)
<1>1. CASE UNCHANGED vars
  BY <1>1 DEF vars, TunnelTables
<1>2. ASSUME NEW c \in Node, Verify(c) \/ Heartbeat(c) \/ Register(c) PROVE UNCHANGED TunnelTables
  BY <1>2 DEF Verify, Heartbeat, Register, VerifyToken, BeginCall
<1>3. CASE UpdateUser \/ DeleteUser
  BY <1>3 DEF UpdateUser, DeleteUser
<1>4. ASSUME NEW c \in Node, StepOfNode(c), ~InsertTunnel(c) PROVE UNCHANGED TunnelTables
  BY <1>4 DEF StepOfNode, Touch, VerifyUser, ReadAccess, ReadActive, Valid
<1>5. ASSUME NEW c \in Admin,
             UpdateTunnel(c) \/ DeleteTunnel(c) \/ WsctlDeleteUser(c) \/ SetUserTunnelAccess(c)
      PROVE  UNCHANGED TunnelTables
  BY <1>5 DEF UpdateTunnel, DeleteTunnel, WsctlDeleteUser, SetUserTunnelAccess, BeginCall
<1>6. ASSUME NEW c \in Admin, StepOfAdmin(c), ~RemoveTunnel(c) PROVE UNCHANGED TunnelTables
  BY <1>6 DEF StepOfAdmin, Revoke, Purge, DropUser, AddAccess, AccessUpdated
<1>7. ASSUME NEW c \in Call, Abort(c) PROVE UNCHANGED TunnelTables
  BY <1>7 DEF Abort
<1> QED
  BY <1>1, <1>2, <1>3, <1>4, <1>5, <1>6, <1>7 DEF Next

(* For any number of nodes, administrators and tunnels: a tunnel stays in    *)
(* the state an acknowledged request has given it, unless the Save of a      *)
(* stale row has written over it; a registration or a heartbeat alone never  *)
(* brings back a tunnel that was deactivated or deleted.                     *)
THEOREM StateStays == Spec => []TunnelStateStays
<1>1. Init => TunnelStateStays
  BY DEF Init, TunnelStateStays
<1>2. Typed /\ TunnelStateStays /\ [Next]_vars => TunnelStateStays'
  <2> SUFFICES ASSUME Typed, TunnelStateStays, [Next]_vars PROVE TunnelStateStays'
    OBVIOUS
  <2>1. CASE UNCHANGED TunnelTables
    BY <2>1 DEF TunnelTables, TunnelStateStays
  <2>2. ASSUME NEW c \in Call, InsertTunnel(c) \/ RemoveTunnel(c) PROVE TunnelStateStays'
    <3>1. frame[c].tunnel \in Tunnel
      BY <2>2 DEF InsertTunnel, RemoveTunnel, Typed, Suits
    <3> QED
      BY <2>2, <3>1 DEF InsertTunnel, RemoveTunnel, Typed, Tables, TunnelStateStays, TunnelTables
  <2>3. ASSUME NEW c \in Call, SaveTunnel(c) PROVE TunnelStateStays'
    <3> DEFINE t == frame[c].tunnel
    <3>1. /\ t \in Tunnel /\ frame[c].row # "absent"
          /\ c \in Node => frame[c].state = frame[c].row
      BY <2>3 DEF SaveTunnel, Typed, Suits
    <3>2. ASSUME NEW s \in Tunnel \ overwritten', s # t PROVE tunnels'[s] = want'[s]
      BY <2>3, <3>1, <3>2 DEF SaveTunnel, Typed, Tables, TunnelStateStays
    <3>3. ASSUME t \notin overwritten' PROVE tunnels'[t] = want'[t]
      <4>1. tunnels[t] = frame[c].row /\ t \notin overwritten
        BY <2>3, <3>3 DEF SaveTunnel
      <4>2. want[t] = frame[c].row
        BY <3>1, <4>1 DEF TunnelStateStays
      <4>3. tunnels'[t] = frame[c].state
        BY <2>3, <3>1, <4>1 DEF SaveTunnel, Typed, Tables
      <4>4. want'[t] = IF c \in Node THEN frame[c].row ELSE frame[c].state
        BY <2>3, <3>1, <4>1, <4>2 DEF SaveTunnel, Typed, Tables
      <4> QED
        BY <3>1, <4>3, <4>4
    <3> QED
      BY <3>2, <3>3 DEF TunnelStateStays
  <2> QED
    BY <2>1, <2>2, <2>3, TunnelsElsewhere DEF Call
<1> QED
  BY <1>1, <1>2, TypedInductive, PTL DEF Spec

------------------------------------------------------------------------------
(* Restrictions *)

(* A call of SetUserTunnelAccess that is alone is the only one for its user, *)
(* and has only given her tunnels of its list; nobody is adding tunnels to a *)
(* user who is restricted, and she has rows of these tunnels only.           *)
Alone(c) ==
  pc[c] = "add" =>
    /\ frame[c].todo \subseteq frame[c].set
    /\ frame[c].alone =>
         /\ AccessOf(frame[c].user) \subseteq frame[c].set
         /\ \A d \in Adding(frame[c].user) : d = c

Restricted(u) == granted[u] # {} => Adding(u) = {} /\ AccessOf(u) \subseteq granted[u]

(* A verification that is settled has not passed the query of all tunnels.   *)
Settled(c) ==
  /\ pc[c] \in {"touch", "user", "access", "valid"}
  /\ InForce(frame[c].user)
  /\ pc[c] = "valid" => frame[c].tunnel \in granted[frame[c].user]

Restrictions ==
  /\ \A c \in Admin : Alone(c)
  /\ \A u \in User : Restricted(u)
  /\ \A c \in settled : Settled(c)

(* Steps that neither set nor add access. *)
LEMMA FewerRows ==
  ASSUME Typed, Restrictions, UNCHANGED granted, access' \subseteq access,
         \A c \in Admin : pc'[c] = "add" => pc[c] = "add" /\ frame'[c] = frame[c]
  PROVE  (\A c \in Admin : Alone(c)') /\ (\A u \in User : Restricted(u)')
<1>1. \A u : AccessOf(u)' \subseteq AccessOf(u)
  BY DEF AccessOf
<1>2. \A u : Adding(u)' \subseteq Adding(u)
  BY DEF Adding
<1>3. ASSUME NEW c \in Admin PROVE Alone(c)'
  <2> SUFFICES ASSUME pc'[c] = "add" PROVE Alone(c)'
    BY DEF Alone
  <2>1. pc[c] = "add" /\ frame'[c] = frame[c] /\ Alone(c)
    BY DEF Restrictions
  <2>2. Adding(frame[c].user)' \subseteq Adding(frame[c].user)
    BY <2>1 DEF Adding
  <2>3. AccessOf(frame[c].user)' \subseteq AccessOf(frame[c].user)
    BY <2>1 DEF AccessOf
  <2> QED
    BY <2>1, <2>2, <2>3 DEF Alone
<1>4. ASSUME NEW u \in User PROVE Restricted(u)'
  BY <1>1, <1>2 DEF Restrictions, Restricted
<1> QED
  BY <1>3, <1>4

(* The steps of a call. *)
Acts(c) ==
  \/ c \in Node /\ (Register(c) \/ StepOfNode(c))
  \/ c \in Admin /\ (UpdateTunnel(c) \/ DeleteTunnel(c) \/ WsctlDeleteUser(c)
                      \/ SetUserTunnelAccess(c) \/ StepOfAdmin(c))
  \/ SaveTunnel(c) \/ Abort(c)

(* One call's step leaves the others where they are; only the calls that add *)
(* access for a user may learn that they are not alone.                      *)
LEMMA OthersStay ==
  ASSUME Typed, NEW c \in Call, Acts(c), NEW d \in Call, d # c
  PROVE  /\ pc'[d] = pc[d]
         /\ (pc[d] # "add" \/ ~SetUserTunnelAccess(c)) => frame'[d] = frame[d]
<1>1. CASE SetUserTunnelAccess(c)
  BY <1>1 DEF SetUserTunnelAccess, Goto, Typed, Adding
<1>2. CASE AddAccess(c)
  <2>1. ASSUME NEW t \in frame[c].todo,
               \/ frame' = [frame EXCEPT ![c].todo = @ \ {t}]
               \/ frame' = [frame EXCEPT ![c].todo = @ \ {t}, ![c].alone = FALSE]
        PROVE  frame'[d] = frame[d]
    BY <2>1 DEF Typed
  <2> QED
    BY <1>2, <2>1 DEF AddAccess
<1>3. ASSUME NEW label, NEW local, BeginCall(c, label, local)
      PROVE  pc'[d] = pc[d] /\ frame'[d] = frame[d]
  BY <1>3 DEF BeginCall, Goto, Typed
<1>4. ASSUME NEW label, Goto(c, label), UNCHANGED frame
      PROVE  pc'[d] = pc[d] /\ frame'[d] = frame[d]
  BY <1>4 DEF Goto, Typed
<1>5. ASSUME Return(c)
      PROVE  pc'[d] = pc[d] /\ frame'[d] = frame[d]
  BY <1>5 DEF Return, Goto, Typed
<1>6. CASE Register(c) \/ UpdateTunnel(c) \/ DeleteTunnel(c) \/ WsctlDeleteUser(c)
  BY <1>3, <1>6 DEF Register, UpdateTunnel, DeleteTunnel, WsctlDeleteUser
<1>7. CASE StepOfNode(c) \/ SaveTunnel(c) \/ Abort(c) \/ (StepOfAdmin(c) /\ ~AddAccess(c))
  BY <1>4, <1>5, <1>7 DEF StepOfNode, StepOfAdmin, SaveTunnel, Abort, Touch, AfterTouch, VerifyUser,
     ReadAccess, ReadActive, Valid, InsertTunnel, Revoke, RemoveTunnel, Purge, DropUser, AccessUpdated
<1> QED
  BY <1>1, <1>2, <1>6, <1>7 DEF Acts, StepOfAdmin

(* A restriction in force before and after a step is the same restriction.   *)
LEMMA SameRestriction ==
  ASSUME Typed, Restrictions, NEW c \in Call, Acts(c), NEW u \in User,
         InForce(u), granted'[u] # {}
  PROVE  granted'[u] = granted[u]
<1>1. CASE SetUserTunnelAccess(c)
  BY <1>1 DEF SetUserTunnelAccess, Typed, Tables
<1>2. CASE AccessUpdated(c) /\ c \in Admin
  <2>1. c \in Adding(frame[c].user) /\ frame[c].user \in User
    BY <1>2 DEF AccessUpdated, Adding, Typed, Suits
  <2>2. frame[c].user # u
    BY <2>1 DEF Restrictions, Restricted, InForce
  <2> QED
    BY <1>2, <2>1, <2>2 DEF AccessUpdated, Typed, Tables
<1>3. CASE ~SetUserTunnelAccess(c) /\ ~(AccessUpdated(c) /\ c \in Admin)
  BY <1>3 DEF Acts, StepOfNode, StepOfAdmin, Register, UpdateTunnel, DeleteTunnel, WsctlDeleteUser,
     BeginCall, SaveTunnel, Abort, Touch, VerifyUser, ReadAccess, ReadActive, Valid, InsertTunnel,
     Revoke, RemoveTunnel, Purge, DropUser, AddAccess, UserTables
<1> QED
  BY <1>1, <1>2, <1>3

(* A settled verification that goes on is let in at a tunnel of the user's.  *)
LEMMA VerificationGoesOn ==
  ASSUME Typed, Restrictions, NEW c \in settled, Acts(c), pc'[c] # "idle"
  PROVE  Settled(c)'
<1>1. c \in Node /\ c \in Call /\ pc[c] \in {"touch", "user", "access", "valid"}
  BY DEF Restrictions, Settled, Typed, Call
<1>2. frame[c].user \in User /\ InForce(frame[c].user)
  BY <1>1 DEF Restrictions, Settled, Typed, Suits, InForce, AccessOf, Tables, Frame
<1>3. ~Return(c)
  BY <1>1 DEF Return, Goto, Typed
<1>4. Touch(c) \/ VerifyUser(c) \/ ReadAccess(c)
  <2>1. c \notin Admin
    BY <1>1, ConstantAssumption
  <2> QED
    BY <1>1, <1>3, <2>1 DEF Acts, StepOfNode, Register, BeginCall, SaveTunnel, Abort, InsertTunnel,
       ReadActive, Valid
<1>5. UNCHANGED <<access, granted, frame>>
  BY <1>3, <1>4 DEF Touch, AfterTouch, VerifyUser, ReadAccess, UserTables
<1>6. InForce(frame[c].user)'
  BY <1>2, <1>5 DEF InForce, AccessOf
<1>7. CASE Touch(c) \/ VerifyUser(c)
  <2>1. pc'[c] \in {"user", "access"}
    BY <1>1, <1>3, <1>7 DEF Touch, AfterTouch, VerifyUser, Goto, Typed
  <2> QED
    BY <1>6, <2>1 DEF Settled
<1>8. CASE ReadAccess(c)
  <2>1. AccessOf(frame[c].user) # {}
    BY <1>2 DEF InForce
  <2>2. pc'[c] = "valid" /\ frame[c].tunnel \in AccessOf(frame[c].user)
    BY <1>1, <1>3, <1>8, <2>1 DEF ReadAccess, Goto, Typed
  <2>3. AccessOf(frame[c].user) \subseteq granted[frame[c].user]
    BY <1>2 DEF Restrictions, Restricted, InForce
  <2> QED
    BY <1>5, <1>6, <2>2, <2>3 DEF Settled
<1> QED
  BY <1>4, <1>7, <1>8

LEMMA SettledNext ==
  ASSUME Typed, Restrictions, Settle(settled),
         \/ UpdateUser \/ DeleteUser
         \/ \E c \in Call : Acts(c)
  PROVE  \A d \in settled' : Settled(d)'
<1> SUFFICES ASSUME NEW d \in settled' PROVE Settled(d)'
  OBVIOUS
<1>1. /\ d \in settled /\ pc'[d] # "idle" /\ InForce(frame[d].user)
      /\ InForce(frame[d].user)'
  BY DEF Settle
<1>2. d \in Call /\ Settled(d) /\ frame[d].user \in User
  BY <1>1 DEF Restrictions, Settled, Typed, Suits, Call, InForce, AccessOf, Tables
<1>3. CASE UpdateUser \/ DeleteUser
  BY <1>1, <1>2, <1>3 DEF UpdateUser, DeleteUser, Settled
<1>4. ASSUME NEW c \in Call, Acts(c), c # d PROVE Settled(d)'
  <2>1. pc'[d] = pc[d] /\ frame'[d] = frame[d]
    BY <1>2, <1>4, OthersStay DEF Settled
  <2>2. granted'[frame[d].user] = granted[frame[d].user]
    BY <1>1, <1>2, <1>4, <2>1, SameRestriction DEF InForce
  <2> QED
    BY <1>1, <1>2, <2>1, <2>2 DEF Settled
<1>5. CASE Acts(d)
  BY <1>1, <1>5, VerificationGoesOn
<1> QED
  BY <1>3, <1>4, <1>5

(* Every other step takes rows away, if any, and leads no call to add some.  *)
LEMMA AddsNothing ==
  ASSUME Typed, Restrictions, NEW c \in Call, Acts(c),
         ~(c \in Admin /\ (SetUserTunnelAccess(c) \/ AddAccess(c) \/ AccessUpdated(c)))
  PROVE  (\A d \in Admin : Alone(d)') /\ (\A u \in User : Restricted(u)')
<1>1. UNCHANGED granted /\ access' \subseteq access
  BY DEF Acts, StepOfNode, StepOfAdmin, Register, UpdateTunnel, DeleteTunnel, WsctlDeleteUser,
     BeginCall, SaveTunnel, Abort, Touch, VerifyUser, ReadAccess, ReadActive, Valid, InsertTunnel,
     Revoke, RemoveTunnel, Purge, DropUser, UserTables
<1>2. pc'[c] # "add"
  <2>1. ASSUME NEW label, label # "add", Goto(c, label) PROVE pc'[c] # "add"
    BY <2>1 DEF Goto, Typed
  <2>2. CASE c \in Node /\ (Register(c) \/ StepOfNode(c))
    BY <2>1, <2>2 DEF Register, StepOfNode, BeginCall, Touch, AfterTouch, VerifyUser, ReadAccess,
       ReadActive, Valid, InsertTunnel, Return
  <2>3. CASE UpdateTunnel(c) \/ DeleteTunnel(c) \/ WsctlDeleteUser(c)
    BY <2>1, <2>3 DEF UpdateTunnel, DeleteTunnel, WsctlDeleteUser, BeginCall
  <2>4. CASE Revoke(c) \/ RemoveTunnel(c) \/ Purge(c) \/ DropUser(c)
    BY <2>1, <2>4 DEF Revoke, RemoveTunnel, Purge, DropUser, Return
  <2>5. CASE SaveTunnel(c) \/ Abort(c)
    BY <2>1, <2>5 DEF SaveTunnel, Abort, Return
  <2> QED
    BY <2>2, <2>3, <2>4, <2>5 DEF Acts, StepOfAdmin
<1>3. ASSUME NEW d \in Admin, pc'[d] = "add" PROVE pc[d] = "add" /\ frame'[d] = frame[d]
  <2>1. d \in Call /\ d # c
    BY <1>2, <1>3 DEF Call
  <2>2. ~SetUserTunnelAccess(c)
    BY <1>2 DEF SetUserTunnelAccess, Goto, Typed
  <2> QED
    BY <1>3, <2>1, <2>2, OthersStay
<1> QED
  BY <1>1, <1>3, FewerRows

(* The call that sets a user's tunnels anew takes away what she had; other   *)
(* calls for her are no longer alone.                                        *)
LEMMA SetUserTunnelAccessRestricts ==
  ASSUME Typed, Restrictions, NEW c \in Admin, SetUserTunnelAccess(c)
  PROVE  (\A d \in Admin : Alone(d)') /\ (\A u \in User : Restricted(u)')
<1> PICK u \in User, S \in SUBSET Tunnel, ok \in BOOLEAN :
      /\ pc[c] = "idle" /\ Goto(c, "add")
      /\ IF ok THEN access' = access \ ({u} \X Tunnel)
         ELSE "delete" \in Faults /\ UNCHANGED access
      /\ frame' = [d \in Call |->
                     IF d = c THEN Local(u, S, ok /\ Adding(u) = {})
                     ELSE IF d \in Adding(u) THEN [frame[d] EXCEPT !.alone = FALSE]
                     ELSE frame[d]]
      /\ granted' = [granted EXCEPT ![u] = {}]
  BY DEF SetUserTunnelAccess
<1>1. /\ frame'[c] = Local(u, S, ok /\ Adding(u) = {}) /\ pc'[c] = "add"
      /\ frame'[c].user = u /\ frame'[c].set = S /\ frame'[c].todo = S
      /\ frame'[c].alone = (ok /\ Adding(u) = {})
  BY DEF Call, Goto, Typed, Local, EmptyFrame
<1>2. ASSUME NEW d \in Admin, d # c
      PROVE  /\ pc'[d] = pc[d] /\ frame[d] \in Frame
             /\ d \in Adding(u) => frame'[d] = [frame[d] EXCEPT !.alone = FALSE]
             /\ d \notin Adding(u) => frame'[d] = frame[d]
  BY <1>2 DEF Call, Goto, Typed
<1>3. ASSUME NEW d \in Admin, d # c
      PROVE  /\ frame'[d].user = frame[d].user /\ frame'[d].set = frame[d].set
             /\ frame'[d].todo = frame[d].todo
             /\ d \in Adding(u) => ~frame'[d].alone
             /\ d \notin Adding(u) => frame'[d].alone = frame[d].alone
  <2>1. CASE d \in Adding(u)
    <3>1. frame[d] \in Frame /\ frame'[d] = [frame[d] EXCEPT !.alone = FALSE]
      BY <1>2, <1>3, <2>1
    <3>2. ASSUME NEW f \in Frame
          PROVE  LET g == [f EXCEPT !.alone = FALSE]
                 IN  g.user = f.user /\ g.set = f.set /\ g.todo = f.todo /\ ~g.alone
      BY DEF Frame
    <3> QED
      BY <2>1, <3>1, <3>2
  <2>2. CASE d \notin Adding(u)
    BY <1>2, <1>3, <2>2
  <2> QED
    BY <2>1, <2>2
<1>4. \A v : AccessOf(v)' \subseteq AccessOf(v)
  BY DEF AccessOf
<1>5. ASSUME NEW v \in User, v # u PROVE Adding(v)' = Adding(v)
  BY <1>1, <1>2, <1>3, <1>5 DEF Adding
<1>6. Adding(u)' = Adding(u) \cup {c}
  BY <1>1, <1>2, <1>3 DEF Adding
<1>7. Alone(c)'
  <2>1. CASE ok /\ Adding(u) = {}
    <3>1. AccessOf(u)' = {}
      BY <2>1 DEF AccessOf
    <3>2. \A d \in Adding(u)' : d = c
      BY <1>6, <2>1
    <3> QED
      BY <1>1, <3>1, <3>2 DEF Alone
  <2>2. CASE ~(ok /\ Adding(u) = {})
    BY <1>1, <2>2 DEF Alone
  <2> QED
    BY <2>1, <2>2
<1>8. ASSUME NEW d \in Admin, d # c PROVE Alone(d)'
  <2> SUFFICES ASSUME pc'[d] = "add" PROVE Alone(d)'
    BY DEF Alone
  <2>1. pc[d] = "add" /\ Alone(d) /\ frame[d].user \in User
    BY <1>2, <1>8 DEF Restrictions, Typed, Suits, Call
  <2>2. CASE frame[d].user = u
    <3>1. ~frame'[d].alone
      BY <1>3, <1>8, <2>1, <2>2 DEF Adding
    <3> QED
      BY <1>3, <1>8, <2>1, <3>1 DEF Alone
  <2>3. CASE frame[d].user # u
    <3>1. d \notin Adding(u)
      BY <2>3 DEF Adding
    <3>2. frame'[d] = frame[d] /\ Adding(frame[d].user)' = Adding(frame[d].user)
      BY <1>2, <1>5, <1>8, <2>1, <2>3, <3>1
    <3> QED
      BY <1>4, <2>1, <3>2 DEF Alone
  <2> QED
    BY <2>2, <2>3
<1>9. ASSUME NEW v \in User PROVE Restricted(v)'
  <2>1. CASE v = u
    BY <2>1 DEF Restricted, Typed, Tables
  <2>2. CASE v # u
    BY <1>4, <1>5, <2>2 DEF Restricted, Restrictions, Typed, Tables
  <2> QED
    BY <2>1, <2>2
<1> QED
  BY <1>7, <1>8, <1>9

(* A call that adds a tunnel takes it from its list; a user somebody adds    *)
(* tunnels to is not restricted.                                             *)
LEMMA AddAccessRestricts ==
  ASSUME Typed, Restrictions, NEW c \in Admin, AddAccess(c)
  PROVE  (\A d \in Admin : Alone(d)') /\ (\A u \in User : Restricted(u)')
<1>0. frame[c].user \in User
  BY DEF AddAccess, Typed, Suits, Call
<1> PICK u \in User : u = frame[c].user
  BY <1>0
<1> PICK t \in frame[c].todo :
      \/ /\ access' = access \cup {<<u, t>>}
         /\ frame' = [frame EXCEPT ![c].todo = @ \ {t}]
      \/ /\ UNCHANGED access
         /\ frame' = [frame EXCEPT ![c].todo = @ \ {t}, ![c].alone = FALSE]
  BY DEF AddAccess
<1>1. /\ c \in Call /\ pc[c] = "add" /\ frame[c] \in Frame
      /\ UNCHANGED pc /\ UNCHANGED granted
  BY DEF AddAccess, Typed, Suits, Call
<1>2. /\ frame'[c].user = u /\ frame'[c].set = frame[c].set
      /\ frame'[c].todo = frame[c].todo \ {t}
      /\ frame'[c].alone => frame[c].alone
  <2>1. ASSUME NEW f \in Frame
        PROVE  LET g == [f EXCEPT !.todo = @ \ {t}]
                   h == [f EXCEPT !.todo = @ \ {t}, !.alone = FALSE]
               IN  /\ g.user = f.user /\ g.set = f.set /\ g.todo = f.todo \ {t} /\ g.alone = f.alone
                   /\ h.user = f.user /\ h.set = f.set /\ h.todo = f.todo \ {t} /\ ~h.alone
    BY DEF Frame
  <2>2. \/ frame'[c] = [frame[c] EXCEPT !.todo = @ \ {t}]
        \/ frame'[c] = [frame[c] EXCEPT !.todo = @ \ {t}, !.alone = FALSE]
    BY <1>1 DEF Typed
  <2> QED
    BY <1>1, <2>1, <2>2
<1>3. ASSUME NEW d \in Admin, d # c PROVE frame'[d] = frame[d]
  BY <1>3 DEF Typed, Call
<1>4. \A v : Adding(v)' = Adding(v)
  BY <1>1, <1>2, <1>3 DEF Adding
<1>5. \A v \in User : v # u => AccessOf(v)' = AccessOf(v)
  BY DEF AccessOf
<1>6. AccessOf(u)' \subseteq AccessOf(u) \cup {t}
  BY DEF AccessOf
<1>7. Alone(c) /\ c \in Adding(u)
  BY <1>1 DEF Restrictions, Adding
<1>8. Alone(c)'
  <2>1. frame[c].todo \subseteq frame[c].set
    BY <1>1, <1>7 DEF Alone
  <2>2. ASSUME frame'[c].alone
        PROVE  AccessOf(u)' \subseteq frame[c].set /\ \A d \in Adding(u)' : d = c
    <3>1. AccessOf(u) \subseteq frame[c].set /\ \A d \in Adding(u) : d = c
      BY <1>1, <1>2, <1>7, <2>2 DEF Alone
    <3> QED
      BY <1>4, <1>6, <2>1, <3>1
  <2> QED
    BY <1>2, <2>1, <2>2 DEF Alone
<1>9. ASSUME NEW d \in Admin, d # c PROVE Alone(d)'
  <2> SUFFICES ASSUME pc[d] = "add" PROVE Alone(d)'
    BY <1>1 DEF Alone
  <2>1. Alone(d) /\ frame'[d] = frame[d] /\ frame[d].user \in User
    BY <1>3, <1>9 DEF Restrictions, Typed, Suits, Call
  <2>2. CASE frame[d].user = u
    <3>1. ~frame[d].alone
      BY <1>7, <1>9, <2>1, <2>2 DEF Alone
    <3> QED
      BY <2>1, <3>1 DEF Alone
  <2>3. CASE frame[d].user # u
    BY <1>4, <1>5, <2>1, <2>3 DEF Alone
  <2> QED
    BY <2>2, <2>3
<1>10. ASSUME NEW v \in User PROVE Restricted(v)'
  <2>1. CASE v = u
    BY <1>1, <1>7, <2>1 DEF Restrictions, Restricted
  <2>2. CASE v # u
    BY <1>1, <1>4, <1>5, <2>2 DEF Restrictions, Restricted
  <2> QED
    BY <2>1, <2>2
<1> QED
  BY <1>8, <1>9, <1>10

(* A call that was alone to the end leaves its user with tunnels of its list *)
(* and nobody adding others.                                                 *)
LEMMA AccessUpdatedRestricts ==
  ASSUME Typed, Restrictions, NEW c \in Admin, AccessUpdated(c)
  PROVE  (\A d \in Admin : Alone(d)') /\ (\A u \in User : Restricted(u)')
<1>0. frame[c].user \in User
  BY DEF AccessUpdated, Typed, Suits, Call
<1> PICK u \in User : u = frame[c].user
  BY <1>0
<1>1. /\ c \in Call /\ pc[c] = "add" /\ c \in Adding(u) /\ Alone(c)
      /\ granted' = [granted EXCEPT ![u] = IF frame[c].alone THEN frame[c].set ELSE {}]
      /\ UNCHANGED access
  BY DEF AccessUpdated, Typed, Suits, Call, Adding, Restrictions
<1>2. pc'[c] = "idle" /\ \A d \in Admin : d # c => pc'[d] = pc[d] /\ frame'[d] = frame[d]
  BY <1>1 DEF AccessUpdated, Return, Goto, Typed, Call
<1>3. \A v : AccessOf(v)' = AccessOf(v)
  BY <1>1 DEF AccessOf
<1>4. \A v : Adding(v)' = Adding(v) \ {c}
  BY <1>2 DEF Adding
<1>5. ASSUME NEW d \in Admin PROVE Alone(d)'
  <2> SUFFICES ASSUME pc'[d] = "add" PROVE Alone(d)'
    BY DEF Alone
  <2>1. pc[d] = "add" /\ frame'[d] = frame[d] /\ Alone(d)
    BY <1>2 DEF Restrictions
  <2> QED
    BY <1>3, <1>4, <2>1 DEF Alone
<1>6. Restricted(u)'
  <2>1. CASE frame[c].alone
    <3>1. AccessOf(u) \subseteq frame[c].set /\ \A d \in Adding(u) : d = c
      BY <1>1, <2>1 DEF Alone
    <3>2. Adding(u)' = {} /\ granted'[u] = frame[c].set
      BY <1>1, <1>4, <2>1, <3>1 DEF Typed, Tables
    <3> QED
      BY <1>3, <3>1, <3>2 DEF Restricted
  <2>2. CASE ~frame[c].alone
    BY <1>1, <2>2 DEF Restricted, Typed, Tables
  <2> QED
    BY <2>1, <2>2
<1>7. ASSUME NEW v \in User, v # u PROVE Restricted(v)'
  BY <1>1, <1>3, <1>4, <1>7 DEF Restrictions, Restricted, Typed, Tables
<1> QED
  BY <1>5, <1>6, <1>7

(* A verification that begins while a restriction is in force is settled; no *)
(* other one is disturbed.                                                   *)
LEMMA VerificationBegins ==
  ASSUME Typed, Restrictions, NEW c \in Node, NEW u \in User \cup {None}, NEW t \in Tunnel,
         VerifyToken(c, u, t),
         settled' = settled \/ (u \in User /\ InForce(u) /\ settled' = settled \cup {c})
  PROVE  Restrictions'
<1> DEFINE local == [EmptyFrame EXCEPT !.user = u, !.tunnel = t, !.row = "active"]
<1>1. /\ c \in Call /\ pc[c] = "idle" /\ pc' = [pc EXCEPT ![c] = "touch"]
      /\ frame' = [frame EXCEPT ![c] = local] /\ UNCHANGED granted /\ UNCHANGED access
  BY DEF VerifyToken, BeginCall, Goto, UserTables, Call
<1>2. pc'[c] = "touch" /\ frame'[c] = local /\ local.user = u
  <2>1. pc'[c] = "touch" /\ frame'[c] = local
    BY <1>1 DEF Typed
  <2>2. local.user = u
    BY DEF EmptyFrame
  <2> QED
    BY <2>1, <2>2
<1>3. ASSUME NEW d \in Call, d # c PROVE pc'[d] = pc[d] /\ frame'[d] = frame[d]
  BY <1>1, <1>3 DEF Typed
<1>4. (\A d \in Admin : Alone(d)') /\ (\A v \in User : Restricted(v)')
  <2>1. ASSUME NEW d \in Admin, pc'[d] = "add" PROVE pc[d] = "add" /\ frame'[d] = frame[d]
    BY <1>2, <1>3, <2>1 DEF Call
  <2> QED
    BY <1>1, <2>1, FewerRows
<1>5. ASSUME NEW d \in settled PROVE Settled(d)'
  <2>1. Settled(d) /\ d \in Call /\ d # c
    BY <1>1 DEF Restrictions, Settled, Typed, Call
  <2>2. pc'[d] = pc[d] /\ frame'[d] = frame[d]
    BY <1>3, <2>1
  <2> QED
    BY <1>1, <2>1, <2>2 DEF Settled, InForce, AccessOf
<1>6. ASSUME InForce(u) PROVE Settled(c)'
  <2>1. frame'[c].user = u
    BY <1>2
  <2>2. InForce(u)'
    BY <1>1, <1>6 DEF InForce, AccessOf
  <2> HIDE DEF local
  <2> QED
    BY <1>2, <2>1, <2>2 DEF Settled, InForce, AccessOf
<1> QED
  BY <1>4, <1>5, <1>6 DEF Restrictions

LEMMA RestrictionsNext ==
  ASSUME Typed, Restrictions, [Next]_vars
  PROVE  Restrictions'
<1>1. ASSUME NEW c \in Node, Verify(c) PROVE Restrictions'
  <2>1. PICK u \in User, t \in Tunnel :
          VerifyToken(c, u, t) /\ settled' = IF InForce(u) THEN settled \cup {c} ELSE settled
    BY <1>1 DEF Verify
  <2> QED
    BY <2>1, VerificationBegins
<1>2. ASSUME NEW c \in Node, Heartbeat(c) PROVE Restrictions'
  BY <1>2, VerificationBegins DEF Heartbeat
<1>3. ASSUME NEW c \in Call, Acts(c), Settle(settled) PROVE Restrictions'
  <2>1. (\A d \in Admin : Alone(d)') /\ (\A u \in User : Restricted(u)')
    BY <1>3, AddsNothing, SetUserTunnelAccessRestricts, AddAccessRestricts, AccessUpdatedRestricts
  <2> QED
    BY <1>3, <2>1, SettledNext DEF Restrictions
<1>4. ASSUME UpdateUser \/ DeleteUser, Settle(settled) PROVE Restrictions'
  <2>1. (\A d \in Admin : Alone(d)') /\ (\A u \in User : Restricted(u)')
    BY <1>4, FewerRows DEF UpdateUser, DeleteUser
  <2> QED
    BY <1>4, <2>1, SettledNext DEF Restrictions
<1>5. CASE UNCHANGED vars
  <2>1. (\A d \in Admin : Alone(d)') /\ (\A u \in User : Restricted(u)')
    BY <1>5, FewerRows DEF vars
  <2>2. ASSUME NEW d \in settled' PROVE Settled(d)'
    BY <1>5, <2>2 DEF vars, Restrictions, Settled, InForce, AccessOf
  <2> QED
    BY <2>1, <2>2 DEF Restrictions
<1>6. CASE Next
  BY <1>1, <1>2, <1>3, <1>4, <1>6 DEF Next, Acts, Call
<1> QED
  BY <1>5, <1>6

(* For any numbers of users, tunnels and calls: a user restricted to some    *)
(* tunnels is let in at these only, as long as the restriction was in force  *)
(* during the whole verification, whatever is registered, deactivated or     *)
(* deleted meanwhile.                                                        *)
THEOREM RestrictionsHold == Spec => []RestrictionHolds
<1>1. Init => Restrictions
  <2> SUFFICES ASSUME Init PROVE Restrictions
    OBVIOUS
  <2>1. ASSUME NEW c \in Admin PROVE Alone(c)
    BY DEF Init, Alone, Call
  <2>2. ASSUME NEW u \in User PROVE Restricted(u)
    BY DEF Init, Restricted
  <2> QED
    BY <2>1, <2>2 DEF Init, Restrictions
<1>2. Restrictions => RestrictionHolds
  BY DEF Restrictions, Settled, RestrictionHolds
<1>3. Typed /\ Restrictions /\ [Next]_vars => Restrictions'
  BY RestrictionsNext
<1> QED
  BY <1>1, <1>2, <1>3, TypedInductive, PTL DEF Spec

==============================================================================
