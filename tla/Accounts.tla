------------------------------ MODULE Accounts ------------------------------
(***************************************************************************)
(* The users of the server: rows of the table users, written by            *)
(* registration, by a user's own change of her password, by the            *)
(* administrator's requests under /api/admin/users and by `wsctl user`     *)
(* from a process of its own.  Every database statement is a step: a       *)
(* request reads a row, changes the fields it is asked to change and       *)
(* writes the row back, and nothing holds between the two.                 *)
(*                                                                         *)
(* A user is named by her primary key, which SQLite never gives twice.     *)
(* Names and addresses are left out: a name that is taken makes the call   *)
(* fail.  A password stands for its hash.  A token is a user id the server *)
(* has signed; it lasts 24 hours, /api/auth/refresh renews it without      *)
(* reading the user, and nothing revokes it.                               *)
(***************************************************************************)
CONSTANTS
  User,
  Password,
  Http,         \* the requests that run concurrently
  Ctl,          \* the runs of wsctl
  Registration, \* allow_registration of config.yaml
  None          \* no row, no user

ASSUME ConstantAssumption ==
  /\ None \notin User /\ None \notin Password
  /\ Http \cap Ctl = {}
  /\ Registration \in BOOLEAN

VARIABLES
  users,      \* the table: the row of each user, or None
  used,       \* the primary keys given so far
  tokens,     \* the users who hold a token that has not expired
  pc, frame,  \* where each call is, and its local variables
  want,       \* history: the rows as the acknowledged changes leave them
  overwritten \* history: the users some Save wrote over a row changed since it was read

vars == <<users, used, tokens, pc, frame, want, overwritten>>

Call == Http \cup Ctl

Row == [password : Password, active : BOOLEAN, admin : BOOLEAN]
NewRow(p, admin) == [password |-> p, active |-> TRUE, admin |-> admin]
Exists(u) == users[u] # None

(* What a request asks for.  An update changes one field of the row, a       *)
(* request for several being as stale as a request for one.                  *)
Update ==
  [op : {"update"}, user : User, field : {"password"}, value : Password]
    \cup [op : {"update"}, user : User, field : {"active", "admin"}, value : BOOLEAN]
Change == [op : {"change"}, user : User, current : Password, value : Password]
Delete == [op : {"delete"}, user : User]
Create == [op : {"create"}, user : User, value : Password, admin : BOOLEAN]
Request == Update \cup Change \cup Delete \cup Create

(* row is the Go variable user: the row as First returned it. *)
Frame == [request : Request, row : Row \cup {None}]

Init ==
  /\ users = [u \in User |-> None]
  /\ used = {} /\ tokens = {}
  /\ pc = [c \in Call |-> "idle"]
  /\ frame = [c \in Call |-> None]
  /\ want = users
  /\ overwritten = {}

Goto(c, label) == pc' = [pc EXCEPT ![c] = label]

(* The call answers, with success or with an error. *)
Return(c) == Goto(c, "idle") /\ frame' = [frame EXCEPT ![c] = None]

------------------------------------------------------------------------------
(* Tokens *)

Login(u) ==
  /\ Exists(u) /\ users[u].active
  /\ tokens' = tokens \cup {u}
  /\ UNCHANGED <<users, used, pc, frame, want, overwritten>>

(* The holder does not refresh her token in time. *)
Expire(u) ==
  /\ u \in tokens /\ tokens' = tokens \ {u}
  /\ UNCHANGED <<users, used, pc, frame, want, overwritten>>

(* AdminMiddleware reads the row of the token's user; it does not look       *)
(* whether she is active.                                                    *)
AdminMiddleware == \E u \in tokens : Exists(u) /\ users[u].admin

------------------------------------------------------------------------------
(* The calls *)

Begin(c, request) ==
  /\ pc[c] = "idle"
  /\ Goto(c, IF request.op = "create" THEN "create" ELSE "first")
  /\ frame' = [frame EXCEPT ![c] = [request |-> request, row |-> None]]
  /\ UNCHANGED <<users, used, tokens, want, overwritten>>

Register(c, u, p) ==
  Registration /\ Begin(c, [op |-> "create", user |-> u, value |-> p, admin |-> FALSE])

ChangePassword(c, request) == request.user \in tokens /\ Begin(c, request)

AdminRequest(c, request) == AdminMiddleware /\ Begin(c, request)

Wsctl(c, request) == Begin(c, request)

(* A statement fails, on a locked database for example, or wsctl is killed. *)
Fail(c) ==
  /\ pc[c] # "idle" /\ Return(c)
  /\ UNCHANGED <<users, used, tokens, want, overwritten>>

Insert(c) ==
  LET request == frame[c].request
      row     == NewRow(request.value, request.admin)
  IN  /\ pc[c] = "create" /\ request.user \notin used
      /\ users' = [users EXCEPT ![request.user] = row]
      /\ want' = [want EXCEPT ![request.user] = row]
      /\ used' = used \cup {request.user}
      /\ Return(c)
      /\ UNCHANGED <<tokens, overwritten>>

(* What follows the reading of the row. *)
After(request) ==
  CASE request.op = "update" -> "save"
    [] request.op = "change" -> "column"
    [] request.op = "delete" -> "delete"

(* Variant: the error of First is not looked at. *)
FirstUnchecked(c) ==
  /\ pc[c] = "first" /\ Goto(c, After(frame[c].request))
  /\ frame' = [frame EXCEPT ![c].row = users[frame[c].request.user]]
  /\ UNCHANGED <<users, used, tokens, want, overwritten>>

First(c) ==
  LET request == frame[c].request
      row     == users[request.user]
  IN  /\ pc[c] = "first"
      /\ \/ /\ row # None
            /\ request.op = "change" => row.password = request.current
            /\ Goto(c, After(request))
            /\ frame' = [frame EXCEPT ![c].row = row]
         \/ /\ row # None => request.op = "change" /\ row.password # request.current
            /\ Return(c)
      /\ UNCHANGED <<users, used, tokens, want, overwritten>>

(* Save updates every column of the row, and inserts the row if it is gone.  *)
(* An insert replaces the zero value of a column by its default, and the     *)
(* default of is_active is true.                                             *)
Stored(u, row) == IF Exists(u) THEN row ELSE [row EXCEPT !.active = TRUE]

Changed(row, request) ==
  IF row = None THEN None
  ELSE CASE request.field = "password" -> [row EXCEPT !.password = request.value]
         [] request.field = "active" -> [row EXCEPT !.active = request.value]
         [] request.field = "admin" -> [row EXCEPT !.admin = request.value]

Save(c) ==
  LET request == frame[c].request
      u       == request.user
      row     == frame[c].row
  IN  /\ pc[c] = "save"
      /\ users' = [users EXCEPT ![u] = Stored(u, Changed(row, request))]
      /\ want' = [want EXCEPT ![u] = Changed(@, request)]
      /\ overwritten' = IF users[u] # row THEN overwritten \cup {u} ELSE overwritten
      /\ Return(c)
      /\ UNCHANGED <<used, tokens>>

WithPassword(row, p) == IF row = None THEN None ELSE [row EXCEPT !.password = p]

(* Variant: the row that was read is written back, as by Save. *)
SaveColumn(c) ==
  LET request == frame[c].request
      u       == request.user
  IN  /\ pc[c] = "column"
      /\ users' = [users EXCEPT ![u] = Stored(u, WithPassword(frame[c].row, request.value))]
      /\ want' = [want EXCEPT ![u] = WithPassword(@, request.value)]
      /\ Return(c)
      /\ UNCHANGED <<used, tokens, overwritten>>

(* Update writes the one column, of no row if the user is gone, which is not *)
(* an error.                                                                 *)
UpdateColumn(c) ==
  LET request == frame[c].request
      u       == request.user
  IN  /\ pc[c] = "column"
      /\ users' = [users EXCEPT ![u] = WithPassword(@, request.value)]
      /\ want' = [want EXCEPT ![u] = WithPassword(@, request.value)]
      /\ Return(c)
      /\ UNCHANGED <<used, tokens, overwritten>>

(* The rows of allocated_ips go before, see AddressAllocation; those of      *)
(* sessions were never written.                                              *)
DeleteRow(c) ==
  LET u == frame[c].request.user
  IN  /\ pc[c] = "delete"
      /\ users' = [users EXCEPT ![u] = None]
      /\ want' = [want EXCEPT ![u] = None]
      /\ Return(c)
      /\ UNCHANGED <<used, tokens, overwritten>>

Step(c) == First(c) \/ Insert(c) \/ Save(c) \/ UpdateColumn(c) \/ DeleteRow(c) \/ Fail(c)

Next ==
  \/ \E u \in User : Login(u) \/ Expire(u)
  \/ \E c \in Http :
       \/ \E u \in User, p \in Password : Register(c, u, p)
       \/ \E request \in Change : ChangePassword(c, request)
       \/ \E request \in Update \cup Delete \cup Create : AdminRequest(c, request)
  \/ \E c \in Ctl, request \in Update \cup Delete \cup Create : Wsctl(c, request)
  \/ \E c \in Call : Step(c)

Spec == Init /\ [][Next]_vars

------------------------------------------------------------------------------
(* Properties *)

(* Every variable has a value of its type, and what a call remembers is what *)
(* it has asked for and read (auth.Handler, AdminHandler.UpdateUser, wsctl). *)
TypeOK ==
  /\ users \in [User -> Row \cup {None}]
  /\ used \subseteq User /\ tokens \subseteq User /\ overwritten \subseteq User
  /\ want \in [User -> Row \cup {None}]
  /\ pc \in [Call -> {"idle", "first", "create", "save", "column", "delete"}]
  /\ frame \in [Call -> Frame \cup {None}]
  /\ \A c \in Call :
       IF pc[c] = "idle" THEN frame[c] = None
       ELSE /\ frame[c] \in Frame
            /\ pc[c] = "create" <=> frame[c].request.op = "create"
            /\ pc[c] \in {"save", "column", "delete"} =>
                 frame[c].row # None /\ pc[c] = After(frame[c].request)

(* UpdateUser (admin.go:66), ChangePassword (handler.go:316), DeleteUser     *)
(* (admin.go:124) and wsctl: a change that was acknowledged stays until      *)
(* another one of the same field, whatever calls overlap: a password, a      *)
(* deactivation, a demotion, a deletion.  The whole-row Save of UpdateUser   *)
(* and of wsctl undoes them when it writes over a row that changed since it  *)
(* was read, and nothing else does.                                          *)
AcknowledgedStays == \A u \in User \ overwritten : users[u] = want[u]

==============================================================================
