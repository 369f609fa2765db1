---------------------------- MODULE TunnelAccess ----------------------------
(***************************************************************************)
(* The central auth service: the tunnel nodes that are registered, the     *)
(* users, and the rows of user_tunnel_access that say which tunnels a user *)
(* may use; a user without a row may use every active tunnel.  Tunnel      *)
(* nodes ask it to verify a login.  The administrator's requests and       *)
(* wsctl, a process of its own, edit the tables.  Every database statement *)
(* is a step; there is no transaction and no lock.                         *)
(*                                                                         *)
(* The tokens of the nodes and the passwords presented are the right ones: *)
(* a wrong one ends the call.                                              *)
(***************************************************************************)
CONSTANTS
  User,
  Tunnel,  \* the tunnel ids, chosen by the nodes: a deleted one may come back
  Node,    \* the requests of tunnel nodes that run concurrently
  Admin,   \* those of the administrator, and the runs of wsctl
  None,
  Faults   \* "delete", "create": the statements whose errors are ignored fail

ASSUME ConstantAssumption ==
  /\ None \notin User \cup Tunnel
  /\ Node \cap Admin = {}
  /\ Faults \subseteq {"delete", "create"}

VARIABLES
  active,      \* the users who have a row in which is_active is set
  tunnels,     \* the row of each tunnel: "absent", or whether is_active is set
  access,      \* user_tunnel_access
  pc, frame,   \* where each call is, and its local variables
  want,        \* history: the tunnels as the acknowledged changes leave them
  overwritten, \* history: the tunnels some Save wrote over a row changed since it was read
  granted,     \* history: the tunnels a user is restricted to, {} if she is not
  settled      \* history: the verifications during which the user's restriction was in force

vars == <<active, tunnels, access, pc, frame, want, overwritten, granted, settled>>

Call == Node \cup Admin
State == {"absent", "active", "inactive"}

(* row is the state of the tunnel's row as it was read, state the one asked  *)
(* for; set and todo are the list of SetUserTunnelAccess and what is left of *)
(* it; alone: no statement of it failed or met another such call.            *)
Frame ==
  [user : User \cup {None}, tunnel : Tunnel \cup {None}, row : State, state : State,
   set : SUBSET Tunnel, todo : SUBSET Tunnel, alone : BOOLEAN]
EmptyFrame ==
  [user |-> None, tunnel |-> None, row |-> "absent", state |-> "absent",
   set |-> {}, todo |-> {}, alone |-> TRUE]

Init ==
  /\ active = User
  /\ tunnels = [t \in Tunnel |-> "absent"]
  /\ access = {}
  /\ pc = [c \in Call |-> "idle"]
  /\ frame = [c \in Call |-> EmptyFrame]
  /\ want = tunnels
  /\ overwritten = {}
  /\ granted = [u \in User |-> {}]
  /\ settled = {}

AccessOf(u) == {t \in Tunnel : <<u, t>> \in access}

Goto(c, label) == pc' = [pc EXCEPT ![c] = label]
Return(c) == Goto(c, "idle") /\ frame' = [frame EXCEPT ![c] = EmptyFrame]

(* A restriction is in force while it is known and the user has a row. *)
InForce(u) == granted[u] # {} /\ AccessOf(u) # {}
Settle(verifications) ==
  settled' = {c \in verifications : pc'[c] # "idle" /\ InForce(frame[c].user) /\ InForce(frame[c].user)'}

UserTables == <<active, access, granted>>
TunnelTables == <<tunnels, want, overwritten>>

------------------------------------------------------------------------------
(* POST /api/tunnel/verify and /heartbeat *)

(* A call begins with the answer to its first query. *)
BeginCall(c, label, local) ==
  /\ pc[c] = "idle" /\ Goto(c, label)
  /\ frame' = [frame EXCEPT ![c] = local]
  /\ UNCHANGED UserTables /\ UNCHANGED TunnelTables

(* verifyTunnelToken finds the active tunnel; without a user, the call is a  *)
(* heartbeat.                                                                *)
VerifyToken(c, u, t) ==
  /\ tunnels[t] = "active"
  /\ BeginCall(c, "touch", [EmptyFrame EXCEPT !.user = u, !.tunnel = t, !.row = "active"])

Verify(c) ==
  \E u \in User, t \in Tunnel :
    /\ VerifyToken(c, u, t)
    /\ settled' = IF InForce(u) THEN settled \cup {c} ELSE settled

Heartbeat(c) == (\E t \in Tunnel : VerifyToken(c, None, t)) /\ UNCHANGED settled

AfterTouch(c) == IF frame[c].user = None THEN Return(c) ELSE Goto(c, "user") /\ UNCHANGED frame

(* Variant: the row that was read is written back. *)
TouchRow(c) ==
  /\ pc[c] = "touch" /\ AfterTouch(c)
  /\ tunnels' = [tunnels EXCEPT ![frame[c].tunnel] = frame[c].row]
  /\ UNCHANGED UserTables /\ UNCHANGED <<want, overwritten>>

(* Update writes last_seen only, and nothing if the row is gone. *)
Touch(c) ==
  /\ pc[c] = "touch" /\ AfterTouch(c)
  /\ UNCHANGED UserTables /\ UNCHANGED TunnelTables

VerifyUser(c) ==
  /\ pc[c] = "user"
  /\ IF frame[c].user \in active THEN Goto(c, "access") /\ UNCHANGED frame ELSE Return(c)
  /\ UNCHANGED UserTables /\ UNCHANGED TunnelTables

(* Variant: an active tunnel is allowed to everybody. *)
ReadAccessAny(c) ==
  /\ pc[c] = "access" /\ Goto(c, "all")
  /\ UNCHANGED UserTables /\ UNCHANGED TunnelTables /\ UNCHANGED frame

(* GetUserAllowedTunnels: the rows of the user, *)
ReadAccess(c) ==
  LET allowed == AccessOf(frame[c].user)
  IN  /\ pc[c] = "access"
      /\ \/ allowed = {} /\ Goto(c, "all") /\ UNCHANGED frame
         \/ frame[c].tunnel \in allowed /\ Goto(c, "valid") /\ UNCHANGED frame
         \/ allowed # {} /\ frame[c].tunnel \notin allowed /\ Return(c)
      /\ UNCHANGED UserTables /\ UNCHANGED TunnelTables

(* or else the active tunnels. *)
ReadActive(c) ==
  /\ pc[c] = "all"
  /\ IF tunnels[frame[c].tunnel] = "active" THEN Goto(c, "valid") /\ UNCHANGED frame ELSE Return(c)
  /\ UNCHANGED UserTables /\ UNCHANGED TunnelTables

(* The node lets the user in. *)
Valid(c) ==
  /\ pc[c] = "valid" /\ Return(c)
  /\ UNCHANGED UserTables /\ UNCHANGED TunnelTables

------------------------------------------------------------------------------
(* The rows of tunnels: Register, UpdateTunnel, DeleteTunnel, wsctl tunnel *)

(* Variant: a node that is not registered is saved like one that is. *)
RegisterSaving(c) ==
  \E t \in Tunnel :
    BeginCall(c, "save", [EmptyFrame EXCEPT !.tunnel = t, !.row = tunnels[t], !.state = tunnels[t]])

(* A registered node keeps the state it has, *)
Register(c) ==
  \E t \in Tunnel :
    BeginCall(c, IF tunnels[t] = "absent" THEN "insert" ELSE "save",
              [EmptyFrame EXCEPT !.tunnel = t, !.row = tunnels[t], !.state = tunnels[t]])

(* the administrator asks for one. *)
UpdateTunnel(c) ==
  \E t \in Tunnel, state \in {"active", "inactive"} :
    /\ tunnels[t] # "absent"
    /\ BeginCall(c, "save", [EmptyFrame EXCEPT !.tunnel = t, !.row = tunnels[t], !.state = state])

InsertTunnel(c) ==
  LET t == frame[c].tunnel
  IN  /\ pc[c] = "insert" /\ Return(c)
      /\ IF tunnels[t] # "absent" THEN UNCHANGED TunnelTables
         ELSE /\ tunnels' = [tunnels EXCEPT ![t] = "active"]
              /\ want' = [want EXCEPT ![t] = "active"]
              /\ overwritten' = overwritten \ {t}
      /\ UNCHANGED UserTables

(* Save writes every column; it inserts the row if it is gone, active by the *)
(* default of the column.                                                    *)
SaveTunnel(c) ==
  LET t     == frame[c].tunnel
      asked == frame[c].state
  IN  /\ pc[c] = "save" /\ Return(c)
      /\ tunnels' = [tunnels EXCEPT ![t] = IF @ = "absent" THEN "active" ELSE asked]
      /\ IF tunnels[t] # frame[c].row
         THEN overwritten' = overwritten \cup {t} /\ want' = [want EXCEPT ![t] = "absent"]
         ELSE /\ want' = [want EXCEPT ![t] = IF c \in Node \/ @ = "absent" THEN @ ELSE asked]
              /\ UNCHANGED overwritten
      /\ UNCHANGED UserTables

DeleteTunnel(c) ==
  \E t \in Tunnel : tunnels[t] # "absent" /\ BeginCall(c, "revoke", [EmptyFrame EXCEPT !.tunnel = t])

(* A user who loses her last row may use every tunnel from here on. *)
Revoke(c) ==
  /\ pc[c] = "revoke" /\ Goto(c, "remove")
  /\ \/ access' = access \ (User \X {frame[c].tunnel})
     \/ "delete" \in Faults /\ UNCHANGED access
  /\ UNCHANGED <<active, granted, frame>> /\ UNCHANGED TunnelTables

RemoveTunnel(c) ==
  LET t == frame[c].tunnel
  IN  /\ pc[c] = "remove" /\ Return(c)
      /\ tunnels' = [tunnels EXCEPT ![t] = "absent"]
      /\ want' = [want EXCEPT ![t] = "absent"]
      /\ overwritten' = overwritten \ {t}
      /\ UNCHANGED UserTables

------------------------------------------------------------------------------
(* The rows of users and of user_tunnel_access *)

(* UpdateUser and wsctl's updateAuthUser: as in Accounts, a Save may bring   *)
(* back what had changed since the row was read, even a deleted user.        *)
UpdateUser ==
  /\ \E u \in User : active' \in {active \cup {u}, active \ {u}}
  /\ UNCHANGED <<access, granted, pc, frame>> /\ UNCHANGED TunnelTables

(* The service leaves the rows of user_tunnel_access. *)
DeleteUser ==
  /\ \E u \in User : active' = active \ {u}
  /\ UNCHANGED <<access, granted, pc, frame>> /\ UNCHANGED TunnelTables

(* wsctl removes them, before the user. *)
WsctlDeleteUser(c) ==
  \E u \in User : BeginCall(c, "purge", [EmptyFrame EXCEPT !.user = u])

Purge(c) ==
  /\ pc[c] = "purge" /\ Goto(c, "drop")
  /\ \/ access' = access \ ({frame[c].user} \X Tunnel)
     \/ "delete" \in Faults /\ UNCHANGED access
  /\ UNCHANGED <<active, granted, frame>> /\ UNCHANGED TunnelTables

DropUser(c) ==
  /\ pc[c] = "drop" /\ Return(c)
  /\ active' = active \ {frame[c].user}
  /\ UNCHANGED <<access, granted>> /\ UNCHANGED TunnelTables

Adding(u) == {c \in Admin : pc[c] = "add" /\ frame[c].user = u}

Local(u, S, alone) ==
  [EmptyFrame EXCEPT !.user = u, !.set = S, !.todo = S, !.alone = alone]

(* SetUserTunnelAccess looks neither for the user nor for the tunnels; it    *)
(* deletes the rows of the user, then adds the others one by one.            *)
SetUserTunnelAccess(c) ==
  \E u \in User, S \in SUBSET Tunnel, ok \in BOOLEAN :
    /\ pc[c] = "idle" /\ Goto(c, "add")
    /\ IF ok THEN access' = access \ ({u} \X Tunnel)
       ELSE "delete" \in Faults /\ UNCHANGED access
    /\ frame' = [d \in Call |->
                   IF d = c THEN Local(u, S, ok /\ Adding(u) = {})
                   ELSE IF d \in Adding(u) THEN [frame[d] EXCEPT !.alone = FALSE]
                   ELSE frame[d]]
    /\ granted' = [granted EXCEPT ![u] = {}]
    /\ UNCHANGED active /\ UNCHANGED TunnelTables

AddAccess(c) ==
  /\ pc[c] = "add" /\ UNCHANGED pc
  /\ \E t \in frame[c].todo :
       \/ /\ access' = access \cup {<<frame[c].user, t>>}
          /\ frame' = [frame EXCEPT ![c].todo = @ \ {t}]
       \/ /\ "create" \in Faults /\ UNCHANGED access
          /\ frame' = [frame EXCEPT ![c].todo = @ \ {t}, ![c].alone = FALSE]
  /\ UNCHANGED <<active, granted>> /\ UNCHANGED TunnelTables

AccessUpdated(c) ==
  LET u == frame[c].user
  IN  /\ pc[c] = "add" /\ frame[c].todo = {} /\ Return(c)
      /\ granted' = [granted EXCEPT ![u] = IF frame[c].alone THEN frame[c].set ELSE {}]
      /\ UNCHANGED <<active, access>> /\ UNCHANGED TunnelTables

(* A query fails, or the process is killed: what was done stays. *)
Abort(c) ==
  /\ pc[c] # "idle" /\ Return(c)
  /\ UNCHANGED UserTables /\ UNCHANGED TunnelTables

------------------------------------------------------------------------------
StepOfNode(c) ==
  Touch(c) \/ VerifyUser(c) \/ ReadAccess(c) \/ ReadActive(c) \/ Valid(c) \/ InsertTunnel(c)

StepOfAdmin(c) ==
  Revoke(c) \/ RemoveTunnel(c) \/ Purge(c) \/ DropUser(c) \/ AddAccess(c) \/ AccessUpdated(c)

Next ==
  \/ \E c \in Node : Verify(c) \/ Heartbeat(c)
  \/ /\ \/ UpdateUser \/ DeleteUser
        \/ \E c \in Node : Register(c) \/ StepOfNode(c)
        \/ \E c \in Admin : UpdateTunnel(c) \/ DeleteTunnel(c) \/ WsctlDeleteUser(c)
                            \/ SetUserTunnelAccess(c) \/ StepOfAdmin(c)
        \/ \E c \in Call : SaveTunnel(c) \/ Abort(c)
     /\ Settle(settled)

Spec == Init /\ [][Next]_vars

------------------------------------------------------------------------------
(* Properties *)

(* Every variable has a value of its type, and a call that reads or writes a *)
(* row of a tunnel or a user knows which (auth_db.go:14-54).                 *)
TypeOK ==
  /\ active \subseteq User /\ tunnels \in [Tunnel -> State] /\ want \in [Tunnel -> State]
  /\ access \subseteq User \X Tunnel /\ overwritten \subseteq Tunnel
  /\ granted \in [User -> SUBSET Tunnel] /\ settled \subseteq Node
  /\ frame \in [Call -> Frame]
  /\ pc \in [Call -> {"idle", "touch", "user", "access", "all", "valid", "insert", "save",
                      "revoke", "remove", "purge", "drop", "add"}]
  /\ \A c \in Call :
       \/ pc[c] = "idle" /\ frame[c] = EmptyFrame
       \/ pc[c] \in {"touch", "insert", "revoke", "remove"}
          /\ frame[c].tunnel # None
       \/ pc[c] = "save" /\ frame[c].tunnel # None /\ frame[c].row # "absent" /\ frame[c].state # "absent"
       \/ pc[c] \in {"user", "access", "all", "valid"}
          /\ c \in Node /\ frame[c].tunnel # None /\ frame[c].user # None
       \/ pc[c] \in {"purge", "drop", "add"} /\ c \in Admin /\ frame[c].user # None

(* SetUserTunnelAccess (authservice/admin.go:286) and Verify (tunnel.go:39): *)
(* a user restricted to some tunnels is let in at these only, if during the  *)
(* whole verification the restriction was in force: the call that set it had *)
(* ended, without a failed statement and without another one for the user    *)
(* beside it, none had begun since, and the user had a row.  Then no         *)
(* deregistration, deactivation, deletion or re-registration of a tunnel     *)
(* lets her in elsewhere.                                                    *)
RestrictionHolds ==
  \A c \in settled : pc[c] = "valid" => frame[c].tunnel \in granted[frame[c].user]

(* UpdateTunnel (authservice/admin.go:204), DeleteTunnel and wsctl: a tunnel *)
(* that was deactivated or deleted stays so, whatever the nodes ask for      *)
(* meanwhile, unless a whole-row Save, that of Register among them, writes   *)
(* over a row that changed since it was read.                                *)
TunnelStateStays == \A t \in Tunnel \ overwritten : tunnels[t] = want[t]

==============================================================================
