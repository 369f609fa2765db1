----------------------------- MODULE RouteGroups -----------------------------
(***************************************************************************)
(* The routes pushed to the clients: the tables routes, groups,            *)
(* user_groups and route_groups, edited by the administrator's requests    *)
(* and by wsctl, and read by GetRoutesForUser for every GET /api/config.   *)
(* Every database statement is a step; no call uses a transaction, and     *)
(* foreign keys are not enforced.                                          *)
(*                                                                         *)
(* All users exist at the start; they may be deleted (the other edits of   *)
(* users are in Accounts).  SQLite never gives a primary key twice; a name *)
(* of a group or a route is used again once nothing refers to it.          *)
(***************************************************************************)
CONSTANTS
  User, Group, Route,
  Call,   \* the requests and the runs of wsctl with more than one statement
  Ctl,    \* the runs of wsctl among them, which ask for no configuration
  None,
  Faults  \* "delete": a DELETE of DeleteGroup fails; "query": a query fails

ASSUME ConstantAssumption ==
  /\ None \notin User \cup Group \cup Route
  /\ Ctl \subseteq Call /\ Faults \subseteq {"delete", "query"}

VARIABLES
  users,       \* the rows of users
  groups,      \* the rows of groups
  routes,      \* each route: no row, or "on" if it is enabled and pushed to clients
  userGroups, routeGroups,
  pc, frame,   \* where each call is, and its local variables
  torn,        \* history: the groups whose deletion failed half-way or met another call
  undisturbed  \* history: the answers being computed since no row has changed and no query failed

vars == <<users, groups, routes, userGroups, routeGroups, pc, frame, torn, undisturbed>>
tables == <<users, groups, routes, userGroups, routeGroups>>

State == {"absent", "on", "off"}

(* found and ids are userGroups and the route ids of GetRoutesForUser.       *)
Frame ==
  [user : User \cup {None}, group : Group \cup {None}, route : Route \cup {None},
   state : State, found : SUBSET Group, ids : SUBSET Route]
EmptyFrame ==
  [user |-> None, group |-> None, route |-> None,
   state |-> "absent", found |-> {}, ids |-> {}]

Init ==
  /\ users = User /\ groups = {} /\ userGroups = {} /\ routeGroups = {}
  /\ routes = [r \in Route |-> "absent"]
  /\ pc = [c \in Call |-> "idle"]
  /\ frame = [c \in Call |-> EmptyFrame]
  /\ torn = {} /\ undisturbed = {}

On == {r \in Route : routes[r] = "on"}
GroupsOf(u) == {g \in Group : <<u, g>> \in userGroups}
RoutesOf(G) == {r \in Route : \E g \in G : <<r, g>> \in routeGroups}

Goto(c, label) == pc' = [pc EXCEPT ![c] = label]
Return(c) == Goto(c, "idle") /\ frame' = [frame EXCEPT ![c] = EmptyFrame]

------------------------------------------------------------------------------
(* The calls of one statement, and those whose second is idempotent *)

FreshGroup(g) ==
  /\ g \notin groups /\ \A c \in Call : frame[c].group # g /\ g \notin frame[c].found
  /\ \A u \in User : <<u, g>> \notin userGroups
  /\ \A r \in Route : <<r, g>> \notin routeGroups

FreshRoute(r) ==
  /\ routes[r] = "absent" /\ \A c \in Call : frame[c].route # r /\ r \notin frame[c].ids
  /\ \A g \in Group : <<r, g>> \notin routeGroups

CreateGroup(g) ==
  /\ FreshGroup(g) /\ groups' = groups \cup {g} /\ torn' = torn \ {g}
  /\ UNCHANGED <<users, routes, userGroups, routeGroups>>

(* A route may be created disabled or not pushed, but gorm replaces the zero *)
(* value of a column by its default, which is true.                          *)
CreateRoute(r) ==
  /\ FreshRoute(r) /\ routes' = [routes EXCEPT ![r] = "on"]
  /\ UNCHANGED <<users, groups, userGroups, routeGroups, torn>>

(* The rows of route_groups stay. *)
DeleteRoute(r) ==
  /\ routes[r] # "absent" /\ routes' = [routes EXCEPT ![r] = "absent"]
  /\ UNCHANGED <<users, groups, userGroups, routeGroups, torn>>

RemoveUserFromGroup(u, g) ==
  /\ <<u, g>> \in userGroups /\ userGroups' = userGroups \ {<<u, g>>}
  /\ UNCHANGED <<users, groups, routes, routeGroups, torn>>

RemoveRouteFromGroup(r, g) ==
  /\ <<r, g>> \in routeGroups /\ routeGroups' = routeGroups \ {<<r, g>>}
  /\ UNCHANGED <<users, groups, routes, userGroups, torn>>

(* DeleteUser of the administrator and wsctl's deleteUser: the rows of       *)
(* user_groups stay.                                                         *)
DeleteUser(u) ==
  /\ u \in users /\ users' = users \ {u}
  /\ UNCHANGED <<groups, routes, userGroups, routeGroups, torn>>

Edit ==
  /\ \/ \E g \in Group : CreateGroup(g)
     \/ \E r \in Route : CreateRoute(r) \/ DeleteRoute(r)
     \/ \E u \in User : DeleteUser(u) \/ \E g \in Group : RemoveUserFromGroup(u, g)
     \/ \E r \in Route, g \in Group : RemoveRouteFromGroup(r, g)
  /\ UNCHANGED <<pc, frame>>

------------------------------------------------------------------------------
(* The other calls *)

Begin(c, label, local) ==
  /\ pc[c] = "idle" /\ Goto(c, label)
  /\ frame' = [frame EXCEPT ![c] = local]
  /\ UNCHANGED tables /\ UNCHANGED torn

StartGet(c) ==
  /\ c \notin Ctl
  /\ \E u \in User : Begin(c, "groups", [EmptyFrame EXCEPT !.user = u])
  /\ undisturbed' = undisturbed \cup {c}

(* DeleteGroup, UpdateGroup, AddUserToGroup and AddRouteToGroup begin with   *)
(* the group they find, UpdateRoute with the route; it asks for a state or   *)
(* leaves the one it read.                                                   *)
StartEdit(c) ==
  /\ \/ \E g \in groups :
          \/ Begin(c, "users", [EmptyFrame EXCEPT !.group = g])
          \/ Begin(c, "saveGroup", [EmptyFrame EXCEPT !.group = g])
          \/ \E u \in User \cup {None} :
               Begin(c, "user", [EmptyFrame EXCEPT !.group = g, !.user = u])
          \/ \E r \in Route :
               Begin(c, "route", [EmptyFrame EXCEPT !.group = g, !.route = r])
     \/ \E r \in Route, state \in {"on", "off"} :
          /\ routes[r] # "absent"
          /\ Begin(c, "saveRoute", [EmptyFrame EXCEPT !.route = r, !.state = state])
  /\ UNCHANGED undisturbed

Start(c) == StartGet(c) \/ StartEdit(c)

(* Variant: any user id will do. *)
ReadNoUser(c) ==
  /\ pc[c] = "user" /\ Goto(c, "insertUser")
  /\ UNCHANGED tables /\ UNCHANGED <<frame, torn>>

(* First(&user): None stands for an id that no user ever had. *)
ReadUser(c) ==
  /\ pc[c] = "user" /\ UNCHANGED tables /\ UNCHANGED torn
  /\ \/ frame[c].user \in users /\ Goto(c, "insertUser") /\ UNCHANGED frame
     \/ frame[c].user \notin users /\ Return(c)

(* First(&route) *)
ReadRoute(c) ==
  /\ pc[c] = "route" /\ UNCHANGED tables /\ UNCHANGED torn
  /\ IF routes[frame[c].route] # "absent" THEN Goto(c, "insertRoute") /\ UNCHANGED frame
     ELSE Return(c)

(* Save inserts the row if it is gone, with the defaults of the columns. *)
SaveRoute(c) ==
  /\ pc[c] = "saveRoute" /\ Return(c)
  /\ routes' = [routes EXCEPT ![frame[c].route] = IF @ = "absent" THEN "on" ELSE frame[c].state]
  /\ UNCHANGED <<users, groups, userGroups, routeGroups, torn>>

SaveGroup(c) ==
  /\ pc[c] = "saveGroup" /\ Return(c)
  /\ groups' = groups \cup {frame[c].group}
  /\ UNCHANGED <<users, routes, userGroups, routeGroups, torn>>

(* A row for a group that is gone, or for one that is being deleted. *)
Tearing(g) ==
  IF g \notin groups \/ \E c \in Call : pc[c] \in {"routes", "delete"} /\ frame[c].group = g
  THEN torn \cup {g} ELSE torn

InsertUser(c) ==
  LET g == frame[c].group
  IN  /\ pc[c] = "insertUser" /\ Return(c)
      /\ userGroups' = userGroups \cup {<<frame[c].user, g>>}
      /\ torn' = Tearing(g)
      /\ UNCHANGED <<users, groups, routes, routeGroups>>

InsertRoute(c) ==
  LET g == frame[c].group
  IN  /\ pc[c] = "insertRoute" /\ Return(c)
      /\ routeGroups' = routeGroups \cup {<<frame[c].route, g>>}
      /\ torn' = Tearing(g)
      /\ UNCHANGED <<users, groups, routes, userGroups>>

(* The errors of the two DELETEs of DeleteGroup are ignored. *)
DeleteUsers(c) ==
  LET g == frame[c].group
  IN  /\ pc[c] = "users" /\ Goto(c, "routes")
      /\ \/ userGroups' = userGroups \ (User \X {g}) /\ UNCHANGED torn
         \/ "delete" \in Faults /\ torn' = torn \cup {g} /\ UNCHANGED userGroups
      /\ UNCHANGED <<users, groups, routes, routeGroups, frame>>

(* Variant: the rows of route_groups are left. *)
DeleteNoRoutes(c) ==
  /\ pc[c] = "routes" /\ Goto(c, "delete")
  /\ UNCHANGED <<users, groups, routes, userGroups, routeGroups, frame, torn>>

DeleteRoutes(c) ==
  LET g == frame[c].group
  IN  /\ pc[c] = "routes" /\ Goto(c, "delete")
      /\ \/ routeGroups' = routeGroups \ (Route \X {g}) /\ UNCHANGED torn
         \/ "delete" \in Faults /\ torn' = torn \cup {g} /\ UNCHANGED routeGroups
      /\ UNCHANGED <<users, groups, routes, userGroups, frame>>

DeleteGroup(c) ==
  /\ pc[c] = "delete" /\ Return(c)
  /\ groups' = groups \ {frame[c].group}
  /\ UNCHANGED <<users, routes, userGroups, routeGroups, torn>>

(* A statement fails, or the process is killed: what was done stays. *)
Abort(c) ==
  /\ pc[c] \notin {"idle", "answer"} /\ Return(c)
  /\ UNCHANGED tables /\ UNCHANGED torn

------------------------------------------------------------------------------
(* GetRoutesForUser *)

Read(c) == UNCHANGED tables /\ UNCHANGED torn

ReadUserGroups(c) ==
  LET found == GroupsOf(frame[c].user)
  IN  /\ pc[c] = "groups" /\ Read(c)
      /\ Goto(c, IF found = {} THEN "assigned" ELSE "ids")
      /\ frame' = [frame EXCEPT ![c].found = found]

(* Without a route of her groups, the user gets those of no group. *)
ReadRouteGroups(c) ==
  LET ids == RoutesOf(frame[c].found)
  IN  /\ pc[c] = "ids" /\ Read(c)
      /\ Goto(c, IF ids = {} THEN "assigned" ELSE "select")
      /\ frame' = [frame EXCEPT ![c].ids = ids, ![c].found = {}]

Select(c) ==
  /\ pc[c] = "select" /\ Read(c) /\ Goto(c, "answer")
  /\ frame' = [frame EXCEPT ![c].ids = @ \cap On]

(* Variant: only the routes of the user's own groups are excluded. *)
ReadOwnAssigned(c) ==
  /\ pc[c] = "assigned" /\ Read(c) /\ Goto(c, "others")
  /\ frame' = [frame EXCEPT ![c].ids = RoutesOf(GroupsOf(frame[c].user))]

(* getGlobalRoutes: the routes of groups, then the others. *)
ReadAssigned(c) ==
  /\ pc[c] = "assigned" /\ Read(c) /\ Goto(c, "others")
  /\ frame' = [frame EXCEPT ![c].ids = RoutesOf(Group)]

(* Its error is not looked at: no route is taken to be in a group. *)
ReadAssignedFails(c) ==
  /\ "query" \in Faults
  /\ pc[c] = "assigned" /\ Read(c) /\ Goto(c, "others")
  /\ frame' = [frame EXCEPT ![c].ids = {}]

SelectOthers(c) ==
  /\ pc[c] = "others" /\ Read(c) /\ Goto(c, "answer")
  /\ frame' = [frame EXCEPT ![c].ids = On \ @]

(* GetConfig pushes the routes. *)
Answer(c) == pc[c] = "answer" /\ Return(c) /\ Read(c)

Get(c) ==
  \/ ReadUserGroups(c) \/ ReadRouteGroups(c) \/ Select(c)
  \/ ReadAssigned(c) \/ SelectOthers(c) \/ Answer(c)

Write(c) ==
  \/ ReadUser(c) \/ ReadRoute(c) \/ SaveRoute(c) \/ SaveGroup(c)
  \/ InsertUser(c) \/ InsertRoute(c)
  \/ DeleteUsers(c) \/ DeleteRoutes(c) \/ DeleteGroup(c)

Next ==
  \/ \E c \in Call : Start(c)
  \/ /\ Edit \/ \E c \in Call : Get(c) \/ Write(c) \/ Abort(c)
     /\ undisturbed' = IF tables' = tables
                       THEN {c \in undisturbed : pc'[c] # "idle"} ELSE {}
  \/ \E c \in Call : ReadAssignedFails(c) /\ undisturbed' = undisturbed \ {c}

Spec == Init /\ [][Next]_vars

------------------------------------------------------------------------------
(* Properties *)

(* Every variable has a value of its type (db.go:61-146): in particular an   *)
(* id that no user ever had gets no row of user_groups, though no foreign    *)
(* key is enforced.  Rows of deleted users stay, and may even be added when  *)
(* the deletion comes between the two statements of AddUserToGroup.          *)
TypeOK ==
  /\ users \subseteq User /\ groups \subseteq Group /\ torn \subseteq Group
  /\ routes \in [Route -> State]
  /\ userGroups \subseteq User \X Group /\ routeGroups \subseteq Route \X Group
  /\ frame \in [Call -> Frame] /\ undisturbed \subseteq Call
  /\ pc \in [Call -> {"idle", "route", "saveGroup", "saveRoute", "user",
                      "insertUser", "insertRoute", "users", "routes", "delete", "groups", "ids",
                      "select", "assigned", "others", "answer"}]

(* DeleteGroup (admin.go:745-752) and wsctl's deleteGroup leave no row of    *)
(* user_groups or route_groups behind, in any order of calls, unless one of  *)
(* their DELETEs fails or a user or a route is added to the group meanwhile. *)
OrphansExplained ==
  \A g \in Group \ (groups \cup torn) :
    (\A u \in User : <<u, g>> \notin userGroups) /\ (\A r \in Route : <<r, g>> \notin routeGroups)

(* What the user should get: the routes of her groups that are pushed, or if *)
(* her groups have no route, those of no group.                              *)
Living(r, g) == routes[r] # "absent" /\ g \in groups /\ <<r, g>> \in routeGroups
Entitled(u) ==
  LET own == {r \in Route : \E g \in GroupsOf(u) : Living(r, g)}
  IN  IF own # {} THEN own \cap On ELSE {r \in On : \A g \in Group : ~Living(r, g)}

Dangling == \E r \in Route, g \in Group : <<r, g>> \in routeGroups /\ routes[r] = "absent"

(* admin.go:894 "returns routes that should be pushed to a specific user     *)
(* based on their groups": the four queries of an answer, if nothing changed *)
(* and none failed between them, give the user no route she should not get,  *)
(* and all she should unless a deleted route is still in a group.  It holds  *)
(* while no group has been torn.                                             *)
RoutesPushed ==
  \A c \in undisturbed :
    pc[c] = "answer" /\ torn = {} =>
      /\ frame[c].ids \subseteq Entitled(frame[c].user)
      /\ Dangling \/ Entitled(frame[c].user) \subseteq frame[c].ids

==============================================================================
