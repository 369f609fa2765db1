-------------------------- MODULE RouteGroupsProofs --------------------------
(***************************************************************************)
(* What holds of routes and groups for any numbers of users, groups,       *)
(* routes and calls.                                                       *)
(***************************************************************************)
EXTENDS RouteGroups, TLAPS

Label ==
  {"idle", "route", "saveGroup", "saveRoute", "user", "insertUser", "insertRoute",
   "users", "routes", "delete", "groups", "ids", "select", "assigned", "others", "answer"}

Tables ==
  /\ users \subseteq User /\ groups \subseteq Group /\ torn \subseteq Group
  /\ routes \in [Route -> State]
  /\ userGroups \subseteq User \X Group /\ routeGroups \subseteq Route \X Group

(* A call knows the group, the user and the route it is about to use. *)
Knows(c) ==
  /\ pc[c] \in {"saveGroup", "user", "route", "insertUser", "insertRoute", "users", "routes", "delete"}
       => frame[c].group # None
  /\ pc[c] \in {"route", "saveRoute", "insertRoute"} => frame[c].route # None
  /\ pc[c] = "insertUser" => frame[c].user # None

Typed == TypeOK /\ \A c \in Call : Knows(c)

LEMMA Parts ==
  Typed <=> /\ Tables /\ undisturbed \subseteq Call
            /\ pc \in [Call -> Label] /\ frame \in [Call -> Frame]
            /\ \A c \in Call : Knows(c)
BY Zenon DEF Typed, TypeOK, Tables, Label

(* One call moves to a label, with local variables of its own. *)
Moves(c, label, local) ==
  /\ pc' = [pc EXCEPT ![c] = label] /\ frame' = [frame EXCEPT ![c] = local]

(* Knows for a label and local variables. *)
Suits(label, local) ==
  /\ label \in {"saveGroup", "user", "route", "insertUser", "insertRoute", "users", "routes", "delete"}
       => local.group # None
  /\ label \in {"route", "saveRoute", "insertRoute"} => local.route # None
  /\ label = "insertUser" => local.user # None

LEMMA MoveKeeps ==
  ASSUME NEW c \in Call, Typed, NEW label \in Label, NEW local \in Frame,
         Moves(c, label, local), Suits(label, local), Tables', undisturbed' \subseteq Call
  PROVE  Typed'
<1>1. pc' \in [Call -> Label] /\ frame' \in [Call -> Frame]
  BY Parts DEF Moves
<1>2. ASSUME NEW d \in Call PROVE Knows(d)'
  <2>1. CASE d = c
    <3>1. pc'[d] = label /\ frame'[d] = local
      BY <2>1, Parts DEF Moves
    <3> QED
      BY Zenon, <3>1 DEF Suits, Knows
  <2>2. CASE d # c
    <3>1. pc'[d] = pc[d] /\ frame'[d] = frame[d]
      BY <2>2, Parts DEF Moves
    <3>2. Knows(d)
      BY Parts
    <3> QED
      BY Zenon, <3>1, <3>2 DEF Knows
  <2> QED
    BY <2>1, <2>2
<1> QED
  BY Zenon, <1>1, <1>2 DEF Typed, TypeOK, Tables, Label

LEMMA EmptyFrameType == EmptyFrame \in Frame /\ EmptyFrame.group = None
BY DEF EmptyFrame, Frame, State

LEMMA ReturnKeeps ==
  ASSUME NEW c \in Call, Typed, Return(c), Tables', undisturbed' \subseteq Call
  PROVE  Typed'
<1>1. Moves(c, "idle", EmptyFrame) /\ Suits("idle", EmptyFrame)
  BY DEF Return, Goto, Moves, Suits
<1> QED
  BY <1>1, EmptyFrameType, MoveKeeps DEF Label

(* The call goes on with the local variables it has. *)
LEMMA GotoKeeps ==
  ASSUME NEW c \in Call, Typed, NEW label \in Label, Goto(c, label), UNCHANGED frame,
         Suits(label, frame[c]), Tables', undisturbed' \subseteq Call
  PROVE  Typed'
<1>1. frame[c] \in Frame /\ Moves(c, label, frame[c])
  BY Parts DEF Goto, Moves
<1> QED
  BY <1>1, MoveKeeps

------------------------------------------------------------------------------
LEMMA StartKeeps ==
  ASSUME NEW c \in Call, Typed, Start(c)
  PROVE  Typed'
<1>0. undisturbed' \subseteq Call
  BY Parts DEF Start, StartGet, StartEdit
<1>1. ASSUME NEW label \in Label, NEW local \in Frame, Begin(c, label, local), Suits(label, local)
      PROVE  Typed'
  <2>1. Tables'
    BY <1>1, Parts DEF Begin, Tables, tables
  <2>2. Moves(c, label, local)
    BY <1>1 DEF Begin, Moves, Goto
  <2> QED
    BY <1>0, <1>1, <2>1, <2>2, MoveKeeps
<1>2. ASSUME NEW u \in User, Begin(c, "groups", [EmptyFrame EXCEPT !.user = u])
      PROVE  Typed'
  <2>1. [EmptyFrame EXCEPT !.user = u] \in Frame
    BY DEF EmptyFrame, Frame, State
  <2> QED
    BY <1>1, <1>2, <2>1 DEF Label, Suits
<1>3. ASSUME NEW g \in Group, NEW label \in {"users", "saveGroup"},
             Begin(c, label, [EmptyFrame EXCEPT !.group = g])
      PROVE  Typed'
  <2> DEFINE local == [EmptyFrame EXCEPT !.group = g]
  <2>1. local \in Frame /\ local.group = g
    BY DEF EmptyFrame, Frame, State
  <2>2. Suits(label, local)
    BY <2>1, ConstantAssumption DEF Suits
  <2> QED
    BY <1>1, <1>3, <2>1, <2>2 DEF Label
<1>4. ASSUME NEW g \in Group, NEW u \in User \cup {None},
             Begin(c, "user", [EmptyFrame EXCEPT !.group = g, !.user = u])
      PROVE  Typed'
  <2> DEFINE local == [EmptyFrame EXCEPT !.group = g, !.user = u]
  <2>1. local \in Frame /\ local.group = g
    BY DEF EmptyFrame, Frame, State
  <2>2. Suits("user", local)
    BY <2>1, ConstantAssumption DEF Suits
  <2> QED
    BY <1>1, <1>4, <2>1, <2>2 DEF Label
<1>5. ASSUME NEW g \in Group, NEW r \in Route,
             Begin(c, "route", [EmptyFrame EXCEPT !.group = g, !.route = r])
      PROVE  Typed'
  <2> DEFINE local == [EmptyFrame EXCEPT !.group = g, !.route = r]
  <2>1. local \in Frame /\ local.group = g /\ local.route = r
    BY DEF EmptyFrame, Frame, State
  <2>2. Suits("route", local)
    BY <2>1, ConstantAssumption DEF Suits
  <2> QED
    BY <1>1, <1>5, <2>1, <2>2 DEF Label
<1>6. ASSUME NEW r \in Route, NEW state \in {"on", "off"},
             Begin(c, "saveRoute", [EmptyFrame EXCEPT !.route = r, !.state = state])
      PROVE  Typed'
  <2> DEFINE local == [EmptyFrame EXCEPT !.route = r, !.state = state]
  <2>1. local \in Frame /\ local.route = r
    BY DEF EmptyFrame, Frame, State
  <2>2. Suits("saveRoute", local)
    BY <2>1, ConstantAssumption DEF Suits
  <2> QED
    BY <1>1, <1>6, <2>1, <2>2 DEF Label
<1>7. groups \subseteq Group
  BY Parts DEF Tables
<1> QED
  BY <1>2, <1>3, <1>4, <1>5, <1>6, <1>7 DEF Start, StartGet, StartEdit

LEMMA EditKeeps ==
  ASSUME Typed, Edit, undisturbed' \subseteq Call
  PROVE  Typed'
<1>1. Tables'
  BY Parts DEF Edit, CreateGroup, CreateRoute, DeleteRoute, DeleteUser, RemoveUserFromGroup,
     RemoveRouteFromGroup, Tables, State
<1>2. UNCHANGED <<pc, frame>>
  BY DEF Edit
<1>3. \A c \in Call : Knows(c)'
  BY Zenon, <1>2, Parts DEF Knows
<1> QED
  BY Zenon, <1>1, <1>2, <1>3 DEF Typed, TypeOK, Tables

LEMMA ReadUserKeeps ==
  ASSUME NEW c \in Call, Typed, ReadUser(c), undisturbed' \subseteq Call
  PROVE  Typed'
<1>1. Tables'
  BY Parts DEF ReadUser, tables, Tables
<1>2. CASE Return(c)
  BY <1>1, <1>2, ReturnKeeps
<1>3. CASE frame[c].user \in users /\ Goto(c, "insertUser") /\ UNCHANGED frame
  <2>1. Knows(c) /\ pc[c] = "user" /\ frame[c].user # None
    BY <1>3, Parts, ConstantAssumption DEF ReadUser, Tables
  <2>2. Suits("insertUser", frame[c])
    BY <1>3, <2>1 DEF Knows, Suits
  <2> QED
    BY <1>1, <1>3, <2>2, GotoKeeps DEF Label
<1> QED
  BY <1>2, <1>3 DEF ReadUser

LEMMA ReadRouteKeeps ==
  ASSUME NEW c \in Call, Typed, ReadRoute(c), undisturbed' \subseteq Call
  PROVE  Typed'
<1>1. Tables' /\ Knows(c) /\ pc[c] = "route" /\ frame[c] \in Frame
  BY Parts DEF ReadRoute, tables, Tables
<1>2. CASE Return(c)
  BY <1>1, <1>2, ReturnKeeps
<1>3. CASE Goto(c, "insertRoute") /\ UNCHANGED frame
  <2>1. Suits("insertRoute", frame[c])
    BY <1>1 DEF Knows, Suits
  <2> QED
    BY <1>1, <1>3, <2>1, GotoKeeps DEF Label
<1> QED
  BY <1>2, <1>3 DEF ReadRoute

LEMMA WriteKeeps ==
  ASSUME NEW c \in Call, Typed, Write(c), undisturbed' \subseteq Call
  PROVE  Typed'
<1>1. Knows(c) /\ frame[c] \in Frame
  BY Parts
<1>2. CASE SaveRoute(c)
  <2>1. frame[c].route \in Route /\ frame[c].state \in State
    BY <1>1, <1>2 DEF SaveRoute, Knows, Frame
  <2>2. Tables'
    BY <1>2, <2>1, Parts DEF SaveRoute, Tables, State
  <2> QED
    BY <1>2, <2>2, ReturnKeeps DEF SaveRoute
<1>3. CASE SaveGroup(c)
  <2>1. frame[c].group \in Group
    BY <1>1, <1>3 DEF SaveGroup, Knows, Frame
  <2>2. Tables'
    BY <1>3, <2>1, Parts DEF SaveGroup, Tables
  <2> QED
    BY <1>3, <2>2, ReturnKeeps DEF SaveGroup
<1>4. CASE InsertUser(c)
  <2>1. frame[c].group \in Group /\ frame[c].user \in User
    BY <1>1, <1>4 DEF InsertUser, Knows, Frame
  <2>2. Tables'
    BY <1>4, <2>1, Parts DEF InsertUser, Tearing, Tables
  <2> QED
    BY <1>4, <2>2, ReturnKeeps DEF InsertUser
<1>5. CASE InsertRoute(c)
  <2>1. frame[c].group \in Group /\ frame[c].route \in Route
    BY <1>1, <1>5 DEF InsertRoute, Knows, Frame
  <2>2. Tables'
    BY <1>5, <2>1, Parts DEF InsertRoute, Tearing, Tables
  <2> QED
    BY <1>5, <2>2, ReturnKeeps DEF InsertRoute
<1>6. CASE DeleteUsers(c)
  <2>1. frame[c].group \in Group /\ Suits("routes", frame[c])
    BY <1>1, <1>6 DEF DeleteUsers, Knows, Frame, Suits
  <2>2. Tables'
    BY <1>6, <2>1, Parts DEF DeleteUsers, Tables
  <2> QED
    BY <1>6, <2>1, <2>2, GotoKeeps DEF DeleteUsers, Label
<1>7. CASE DeleteRoutes(c)
  <2>1. frame[c].group \in Group /\ Suits("delete", frame[c])
    BY <1>1, <1>7 DEF DeleteRoutes, Knows, Frame, Suits
  <2>2. Tables'
    BY <1>7, <2>1, Parts DEF DeleteRoutes, Tables
  <2> QED
    BY <1>7, <2>1, <2>2, GotoKeeps DEF DeleteRoutes, Label
<1>8. CASE DeleteGroup(c)
  <2>1. Tables'
    BY <1>8, Parts DEF DeleteGroup, Tables
  <2> QED
    BY <1>8, <2>1, ReturnKeeps DEF DeleteGroup
<1> QED
  BY <1>2, <1>3, <1>4, <1>5, <1>6, <1>7, <1>8, ReadUserKeeps, ReadRouteKeeps
  DEF Write

(* The queries of an answer change local variables only. *)
LEMMA QueryKeeps ==
  ASSUME NEW c \in Call, Typed, Read(c), undisturbed' \subseteq Call,
         NEW label \in {"ids", "select", "assigned", "others", "answer"}, Goto(c, label),
         NEW local \in Frame, frame' = [frame EXCEPT ![c] = local]
  PROVE  Typed'
<1>1. Tables'
  BY Parts DEF Read, tables, Tables
<1>2. Moves(c, label, local) /\ Suits(label, local)
  BY DEF Moves, Goto, Suits
<1> QED
  BY <1>1, <1>2, MoveKeeps DEF Label

LEMMA GetKeeps ==
  ASSUME NEW c \in Call, Typed, Get(c) \/ ReadAssignedFails(c), undisturbed' \subseteq Call
  PROVE  Typed'
<1>1. frame[c] \in Frame
  BY Parts
<1>2. CASE ReadUserGroups(c)
  <2>1. [frame[c] EXCEPT !.found = GroupsOf(frame[c].user)] \in Frame
    BY <1>1 DEF Frame, GroupsOf
  <2> QED
    BY <1>2, <2>1, QueryKeeps DEF ReadUserGroups
<1>3. CASE ReadRouteGroups(c)
  <2>1. [frame[c] EXCEPT !.ids = RoutesOf(frame[c].found), !.found = {}] \in Frame
    BY <1>1 DEF Frame, RoutesOf
  <2> QED
    BY <1>3, <2>1, QueryKeeps DEF ReadRouteGroups
<1>4. CASE Select(c)
  <2>1. [frame[c] EXCEPT !.ids = frame[c].ids \cap On] \in Frame
    BY <1>1 DEF Frame, On
  <2> QED
    BY <1>4, <2>1, QueryKeeps DEF Select
<1>5. CASE ReadAssigned(c)
  <2>1. [frame[c] EXCEPT !.ids = RoutesOf(Group)] \in Frame
    BY <1>1 DEF Frame, RoutesOf
  <2> QED
    BY <1>5, <2>1, QueryKeeps DEF ReadAssigned
<1>6. CASE ReadAssignedFails(c)
  <2> DEFINE local == [frame[c] EXCEPT !.ids = {}]
  <2>1. local \in Frame
    BY <1>1 DEF Frame
  <2>2. frame' = [frame EXCEPT ![c] = local] /\ Goto(c, "others") /\ Read(c)
    BY <1>6 DEF ReadAssignedFails
  <2> HIDE DEF local
  <2> QED
    BY <2>1, <2>2, QueryKeeps
<1>7. CASE SelectOthers(c)
  <2>1. [frame[c] EXCEPT !.ids = On \ frame[c].ids] \in Frame
    BY <1>1 DEF Frame, On
  <2> QED
    BY <1>7, <2>1, QueryKeeps DEF SelectOthers
<1>8. CASE Answer(c)
  <2>1. Tables'
    BY <1>8, Parts DEF Answer, Read, tables, Tables
  <2> QED
    BY <1>8, <2>1, ReturnKeeps DEF Answer
<1> QED
  BY <1>2, <1>3, <1>4, <1>5, <1>6, <1>7, <1>8 DEF Get

LEMMA AbortKeeps ==
  ASSUME NEW c \in Call, Typed, Abort(c), undisturbed' \subseteq Call
  PROVE  Typed'
<1>1. Tables'
  BY Parts DEF Abort, tables, Tables
<1> QED
  BY <1>1, ReturnKeeps DEF Abort

LEMMA TypedInductive == Spec => []Typed
<1>1. Init => Typed
  <2> SUFFICES ASSUME Init PROVE Typed
    OBVIOUS
  <2>1. Tables /\ undisturbed \subseteq Call
    BY DEF Init, Tables, State
  <2>2. pc \in [Call -> Label] /\ frame \in [Call -> Frame]
    BY EmptyFrameType DEF Init, Label
  <2>3. ASSUME NEW c \in Call PROVE Knows(c)
    BY DEF Init, Knows
  <2> QED
    BY <2>1, <2>2, <2>3, Parts
<1>2. Typed /\ [Next]_vars => Typed'
  <2> SUFFICES ASSUME Typed, [Next]_vars PROVE Typed'
    OBVIOUS
  <2>1. CASE \E c \in Call : Start(c)
    BY <2>1, StartKeeps
  <2>2. CASE /\ Edit \/ \E c \in Call : Get(c) \/ Write(c) \/ Abort(c)
             /\ undisturbed' = IF tables' = tables
                               THEN {c \in undisturbed : pc'[c] # "idle"} ELSE {}
    <3>1. undisturbed' \subseteq Call
      BY <2>2, Parts
    <3> QED
      BY <2>2, <3>1, EditKeeps, GetKeeps, WriteKeeps, AbortKeeps
  <2>3. ASSUME NEW c \in Call, ReadAssignedFails(c), undisturbed' = undisturbed \ {c}
        PROVE  Typed'
    <3>1. undisturbed' \subseteq Call
      BY <2>3, Parts
    <3> QED
      BY <2>3, <3>1, GetKeeps
  <2>4. CASE UNCHANGED vars
    BY Zenon, <2>4 DEF vars, Typed, TypeOK, Knows
  <2> QED
    BY <2>1, <2>2, <2>3, <2>4 DEF Next
<1> QED
  BY <1>1, <1>2, PTL DEF Spec

(* Tables and local variables keep their types: in particular an id that no  *)
(* user ever had gets no row of user_groups, although no foreign key is      *)
(* enforced.                                                                 *)
THEOREM TypeCorrect == Spec => []TypeOK
<1>1. Typed => TypeOK
  BY DEF Typed
<1> QED
  BY <1>1, TypedInductive, PTL

------------------------------------------------------------------------------
(* Deleted groups *)

NoUsers(g) == \A u \in User : <<u, g>> \notin userGroups
NoRoutes(g) == \A r \in Route : <<r, g>> \notin routeGroups

(* What DeleteGroup has done so far stays done. *)
Deleting(c) ==
  frame[c].group \notin torn =>
    /\ pc[c] \in {"routes", "delete"} => NoUsers(frame[c].group)
    /\ pc[c] = "delete" => NoRoutes(frame[c].group)

Orphans ==
  /\ \A g \in Group \ (groups \cup torn) : NoUsers(g) /\ NoRoutes(g)
  /\ \A c \in Call : Deleting(c)

(* A step that adds no row and leaves groups and torn alone. *)
LEMMA FewerRows ==
  ASSUME Typed, Orphans, userGroups' \subseteq userGroups, routeGroups' \subseteq routeGroups,
         groups \subseteq groups', torn \subseteq torn',
         \A c \in Call : pc'[c] \in {"routes", "delete"} =>
                            pc'[c] = pc[c] /\ frame'[c].group = frame[c].group
  PROVE  Orphans'
<1>1. ASSUME NEW g \in Group \ (groups' \cup torn') PROVE NoUsers(g)' /\ NoRoutes(g)'
  BY DEF Orphans, NoUsers, NoRoutes
<1>2. ASSUME NEW c \in Call PROVE Deleting(c)'
  BY DEF Orphans, Deleting, NoUsers, NoRoutes
<1> QED
  BY <1>1, <1>2 DEF Orphans

(* What the other calls do while one moves. *)
LEMMA OthersStay ==
  ASSUME NEW c \in Call, Typed, NEW label, Goto(c, label),
         NEW local, frame' = [frame EXCEPT ![c] = local],
         NEW d \in Call, d # c
  PROVE  pc'[d] = pc[d] /\ frame'[d] = frame[d]
BY Parts DEF Goto

(* A call moves to a label before or after the DELETEs of DeleteGroup. *)
LEMMA MovesElsewhere ==
  ASSUME NEW c \in Call, Typed, Orphans, UNCHANGED <<userGroups, routeGroups, torn>>,
         groups \subseteq groups',
         NEW label, label \notin {"routes", "delete"}, Goto(c, label),
         NEW local, frame' = [frame EXCEPT ![c] = local]
  PROVE  Orphans'
<1>1. ASSUME NEW d \in Call, pc'[d] \in {"routes", "delete"}
      PROVE  pc'[d] = pc[d] /\ frame'[d].group = frame[d].group
  <2>1. pc'[c] = label
    BY Parts DEF Goto
  <2>2. d # c
    BY <1>1, <2>1
  <2> QED
    BY <2>2, OthersStay
<1> QED
  BY <1>1, FewerRows

LEMMA ReturnElsewhere ==
  ASSUME NEW c \in Call, Typed, Orphans, UNCHANGED <<userGroups, routeGroups, torn>>,
         groups \subseteq groups', Return(c)
  PROVE  Orphans'
BY MovesElsewhere DEF Return

LEMMA GoesElsewhere ==
  ASSUME NEW c \in Call, Typed, Orphans, UNCHANGED <<userGroups, routeGroups, torn>>,
         groups \subseteq groups', UNCHANGED frame,
         NEW label, label \notin {"routes", "delete"}, Goto(c, label)
  PROVE  Orphans'
<1>1. frame' = [frame EXCEPT ![c] = frame[c]]
  BY Parts
<1> QED
  BY <1>1, MovesElsewhere

LEMMA OrphansStart ==
  ASSUME NEW c \in Call, Typed, Orphans, Start(c)
  PROVE  Orphans'
<1>1. ASSUME NEW label \in {"groups", "users", "saveGroup", "user", "route", "saveRoute"}, NEW local, Begin(c, label, local)
      PROVE  Orphans'
  BY <1>1, MovesElsewhere DEF Begin, tables
<1> QED
  BY <1>1 DEF Start, StartGet, StartEdit

LEMMA OrphansEdit ==
  ASSUME Typed, Orphans, Edit
  PROVE  Orphans'
<1>1. ASSUME NEW g \in Group, CreateGroup(g) PROVE Orphans'
  <2>1. ASSUME NEW h \in Group \ (groups' \cup torn') PROVE NoUsers(h)' /\ NoRoutes(h)'
    BY <1>1, <2>1 DEF CreateGroup, Orphans, NoUsers, NoRoutes
  <2>2. ASSUME NEW c \in Call PROVE Deleting(c)'
    BY <1>1 DEF Edit, CreateGroup, FreshGroup, Orphans, Deleting, NoUsers, NoRoutes
  <2> QED
    BY <2>1, <2>2 DEF Orphans
<1>2. UNCHANGED <<pc, frame>>
  BY DEF Edit
<1>3. ASSUME NEW r \in Route, CreateRoute(r) \/ DeleteRoute(r) PROVE Orphans'
  BY <1>2, <1>3, FewerRows DEF CreateRoute, DeleteRoute
<1>4. ASSUME NEW u \in User, NEW g \in Group, RemoveUserFromGroup(u, g) PROVE Orphans'
  BY <1>2, <1>4, FewerRows DEF RemoveUserFromGroup
<1>5. ASSUME NEW r \in Route, NEW g \in Group, RemoveRouteFromGroup(r, g) PROVE Orphans'
  BY <1>2, <1>5, FewerRows DEF RemoveRouteFromGroup
<1>6. ASSUME NEW u \in User, DeleteUser(u) PROVE Orphans'
  BY <1>2, <1>6, FewerRows DEF DeleteUser
<1> QED
  BY <1>1, <1>3, <1>4, <1>5, <1>6 DEF Edit

LEMMA OrphansRead ==
  ASSUME NEW c \in Call, Typed, Orphans,
         Get(c) \/ ReadAssignedFails(c) \/ ReadUser(c) \/ ReadRoute(c) \/ Abort(c)
  PROVE  Orphans'
<1>1. CASE Get(c) \/ ReadAssignedFails(c)
  <2> PICK label \in {"ids", "select", "assigned", "others", "answer", "idle"} : Goto(c, label)
    BY <1>1 DEF Get, ReadUserGroups, ReadRouteGroups, Select, ReadAssigned, ReadAssignedFails,
       SelectOthers, Answer, Return
  <2> PICK local : frame' = [frame EXCEPT ![c] = local]
    BY <1>1 DEF Get, ReadUserGroups, ReadRouteGroups, Select, ReadAssigned, ReadAssignedFails,
       SelectOthers, Answer, Return
  <2>1. UNCHANGED tables /\ UNCHANGED torn
    BY <1>1 DEF Get, ReadUserGroups, ReadRouteGroups, Select, ReadAssigned, ReadAssignedFails,
       SelectOthers, Answer, Read
  <2> QED
    BY <2>1, MovesElsewhere DEF tables
<1>2. CASE ReadUser(c)
  BY <1>2, ReturnElsewhere, GoesElsewhere DEF ReadUser, tables
<1>3. CASE ReadRoute(c)
  BY <1>3, ReturnElsewhere, GoesElsewhere DEF ReadRoute, tables
<1>4. CASE Abort(c)
  BY <1>4, ReturnElsewhere DEF Abort, tables
<1> QED
  BY <1>1, <1>2, <1>3, <1>4

(* The rows an insertion adds are of a group that is there and not being     *)
(* deleted, or the group is torn.                                            *)
LEMMA OrphansInsert ==
  ASSUME NEW c \in Call, Typed, Orphans, InsertUser(c) \/ InsertRoute(c)
  PROVE  Orphans'
<1> DEFINE g == frame[c].group
<1>1. /\ Return(c) /\ torn' = Tearing(g) /\ UNCHANGED groups
      /\ userGroups' \subseteq userGroups \cup (User \X {g})
      /\ routeGroups' \subseteq routeGroups \cup (Route \X {g})
  <2>1. InsertUser(c) => frame[c].user \in User
    BY Parts DEF InsertUser, Knows, Frame
  <2>2. InsertRoute(c) => frame[c].route \in Route
    BY Parts DEF InsertRoute, Knows, Frame
  <2> QED
    BY <2>1, <2>2 DEF InsertUser, InsertRoute
<1>2. torn \subseteq torn' /\ (g \in torn' \/ g \in groups)
  BY <1>1 DEF Tearing
<1>3. ASSUME NEW h \in Group \ (groups' \cup torn') PROVE NoUsers(h)' /\ NoRoutes(h)'
  <2>1. h # g /\ NoUsers(h) /\ NoRoutes(h)
    BY <1>1, <1>2 DEF Orphans
  <2> QED
    BY <1>1, <2>1 DEF NoUsers, NoRoutes
<1>4. ASSUME NEW d \in Call PROVE Deleting(d)'
  <2> SUFFICES ASSUME frame'[d].group \notin torn', pc'[d] \in {"routes", "delete"}
               PROVE  (NoUsers(frame[d].group) /\ (pc[d] = "delete" => NoRoutes(frame[d].group)))'
    BY DEF Deleting
  <2>1. d # c
    BY <1>1, Parts DEF Return, Goto
  <2>2. pc'[d] = pc[d] /\ frame'[d] = frame[d]
    BY <1>1, <2>1, OthersStay DEF Return
  <2>3. frame[d].group # g
    BY <1>1, <2>2 DEF Tearing
  <2>4. NoUsers(frame[d].group) /\ (pc[d] = "delete" => NoRoutes(frame[d].group))
    BY <1>2, <2>2 DEF Orphans, Deleting
  <2> QED
    BY <1>1, <2>2, <2>3, <2>4 DEF NoUsers, NoRoutes
<1> QED
  BY <1>3, <1>4 DEF Orphans

LEMMA OrphansDelete ==
  ASSUME NEW c \in Call, Typed, Orphans, DeleteUsers(c) \/ DeleteRoutes(c)
  PROVE  Orphans'
<1> DEFINE g == frame[c].group
<1>1. /\ UNCHANGED <<groups, frame>> /\ torn \subseteq torn'
      /\ userGroups' \subseteq userGroups /\ routeGroups' \subseteq routeGroups
  BY DEF DeleteUsers, DeleteRoutes
<1>2. ASSUME NEW h \in Group \ (groups' \cup torn') PROVE NoUsers(h)' /\ NoRoutes(h)'
  BY <1>1 DEF Orphans, NoUsers, NoRoutes
<1>3. ASSUME NEW d \in Call, d # c PROVE Deleting(d)'
  <2>1. pc'[d] = pc[d]
    BY <1>3, Parts DEF DeleteUsers, DeleteRoutes, Goto
  <2>2. Deleting(d)
    BY DEF Orphans
  <2> QED
    BY <1>1, <2>1, <2>2 DEF Deleting, NoUsers, NoRoutes
<1>4. Deleting(c)'
  <2>1. CASE DeleteUsers(c)
    <3>1. pc'[c] = "routes"
      BY <2>1, Parts DEF DeleteUsers, Goto
    <3>2. g \notin torn' => NoUsers(g)'
      BY <2>1 DEF DeleteUsers, NoUsers
    <3> QED
      BY <1>1, <3>1, <3>2 DEF Deleting
  <2>2. CASE DeleteRoutes(c)
    <3>1. g \notin torn => NoUsers(g)
      BY <2>2 DEF DeleteRoutes, Orphans, Deleting
    <3>2. g \notin torn' => NoUsers(g)' /\ NoRoutes(g)'
      BY <1>1, <2>2, <3>1 DEF DeleteRoutes, NoUsers, NoRoutes
    <3> QED
      BY <1>1, <3>2 DEF Deleting
  <2> QED
    BY <2>1, <2>2
<1> QED
  BY <1>2, <1>3, <1>4 DEF Orphans

LEMMA OrphansDeleteGroup ==
  ASSUME NEW c \in Call, Typed, Orphans, DeleteGroup(c)
  PROVE  Orphans'
<1>1. ASSUME NEW h \in Group \ (groups' \cup torn') PROVE NoUsers(h)' /\ NoRoutes(h)'
  <2>1. Deleting(c) /\ pc[c] = "delete"
    BY DEF DeleteGroup, Orphans
  <2>2. NoUsers(h) /\ NoRoutes(h)
    BY <1>1, <2>1 DEF DeleteGroup, Orphans, Deleting
  <2> QED
    BY <2>2 DEF DeleteGroup, NoUsers, NoRoutes
<1>2. ASSUME NEW d \in Call PROVE Deleting(d)'
  <2>1. pc'[c] = "idle"
    BY Parts DEF DeleteGroup, Return, Goto
  <2>2. d # c => pc'[d] = pc[d] /\ frame'[d] = frame[d]
    BY OthersStay DEF DeleteGroup, Return
  <2>3. Deleting(d) /\ UNCHANGED <<userGroups, routeGroups, torn>>
    BY DEF Orphans, DeleteGroup
  <2> QED
    BY <2>1, <2>2, <2>3 DEF Deleting, NoUsers, NoRoutes
<1> QED
  BY <1>1, <1>2 DEF Orphans

(* For any number of calls, groups and members, and in any order: a deletion *)
(* of a group leaves no row of it behind, unless one of its DELETEs fails or *)
(* something is added to the group meanwhile.                                *)
THEOREM GroupsLeaveNothing == Spec => []OrphansExplained
<1>1. Init => Orphans
  BY DEF Init, Orphans, Deleting, NoUsers, NoRoutes
<1>2. Typed /\ Orphans /\ [Next]_vars => Orphans'
  <2> SUFFICES ASSUME Typed, Orphans, [Next]_vars PROVE Orphans'
    OBVIOUS
  <2>1. ASSUME NEW c \in Call, SaveRoute(c) \/ SaveGroup(c) PROVE Orphans'
    BY <2>1, ReturnElsewhere DEF SaveRoute, SaveGroup
  <2>2. ASSUME NEW c \in Call, Get(c) \/ Write(c) \/ Abort(c) PROVE Orphans'
    BY <2>1, <2>2, OrphansRead, OrphansInsert, OrphansDelete, OrphansDeleteGroup DEF Write
  <2>3. CASE UNCHANGED vars
    BY Zenon, <2>3 DEF vars, Orphans, Deleting, NoUsers, NoRoutes
  <2> QED
    BY <2>2, <2>3, OrphansStart, OrphansEdit, OrphansRead DEF Next
<1>3. Orphans => OrphansExplained
  BY DEF Orphans, OrphansExplained, NoUsers, NoRoutes
<1> QED
  BY <1>1, <1>2, <1>3, TypedInductive, PTL DEF Spec

------------------------------------------------------------------------------
(* The routes of a user *)

(* What an answer has found out is still so, if nothing has changed. *)
Answering(c) ==
  LET own == RoutesOf(GroupsOf(frame[c].user))
  IN  /\ pc[c] \in {"groups", "ids", "select", "assigned", "others", "answer"}
      /\ pc[c] = "ids" => frame[c].found = GroupsOf(frame[c].user)
      /\ pc[c] = "select" => frame[c].ids = own /\ own # {}
      /\ pc[c] \in {"assigned", "others"} => own = {}
      /\ pc[c] = "others" => frame[c].ids = RoutesOf(Group)
      /\ pc[c] = "answer" => frame[c].ids = IF own # {} THEN own \cap On ELSE On \ RoutesOf(Group)

Answers == \A c \in undisturbed : Answering(c)

(* A call whose program counter and local variables stay. *)
LEMMA AnsweringStays ==
  ASSUME NEW c \in Call, Answering(c), tables' = tables, pc'[c] = pc[c], frame'[c] = frame[c]
  PROVE  Answering(c)'
<1>1. \A u, G : (GroupsOf(u) = GroupsOf(u)') /\ (RoutesOf(G)' = RoutesOf(G)) /\ On' = On
  BY DEF tables, GroupsOf, RoutesOf, On
<1> QED
  BY <1>1 DEF Answering

(* A query tells what the tables hold. *)
LEMMA QueryAnswers ==
  ASSUME NEW c \in Call, Typed, Answering(c), Get(c), tables' = tables, pc'[c] # "idle"
  PROVE  Answering(c)'
<1> DEFINE own == RoutesOf(GroupsOf(frame[c].user))
<1>1. UNCHANGED <<groups, routes, userGroups, routeGroups>>
  BY DEF tables
<1>2. frame[c] \in Frame
  BY Parts
<1>3. frame'[c].user = frame[c].user => own' = own
  BY <1>1 DEF GroupsOf, RoutesOf
<1>4. On' = On /\ RoutesOf(Group)' = RoutesOf(Group)
  BY <1>1 DEF On, RoutesOf
<1>5. CASE ReadUserGroups(c)
  <2>1. frame'[c].user = frame[c].user /\ frame'[c].found = GroupsOf(frame[c].user)
    BY <1>2, <1>5, Parts DEF ReadUserGroups, Frame
  <2>2. GroupsOf(frame[c].user)' = GroupsOf(frame[c].user)
    BY <1>1, <2>1 DEF GroupsOf
  <2>3. CASE GroupsOf(frame[c].user) = {}
    <3>1. pc'[c] = "assigned" /\ own = {}
      BY <1>5, <2>3, Parts DEF ReadUserGroups, Goto, RoutesOf
    <3> QED
      BY <1>3, <2>1, <3>1 DEF Answering
  <2>4. CASE GroupsOf(frame[c].user) # {}
    <3>1. pc'[c] = "ids"
      BY <1>5, <2>4, Parts DEF ReadUserGroups, Goto
    <3> QED
      BY <2>1, <2>2, <3>1 DEF Answering
  <2> QED
    BY <2>3, <2>4
<1>6. CASE ReadRouteGroups(c)
  <2>1. pc[c] = "ids" /\ frame[c].found = GroupsOf(frame[c].user)
    BY <1>6 DEF ReadRouteGroups, Answering
  <2>2. frame'[c].user = frame[c].user /\ frame'[c].ids = own
    BY <1>2, <1>6, <2>1, Parts DEF ReadRouteGroups, Frame
  <2>3. pc'[c] = IF own = {} THEN "assigned" ELSE "select"
    BY <1>6, <2>1, Parts DEF ReadRouteGroups, Goto
  <2> QED
    BY <1>3, <2>2, <2>3 DEF Answering
<1>7. CASE Select(c)
  <2>1. pc[c] = "select" /\ frame[c].ids = own /\ own # {}
    BY <1>7 DEF Select, Answering
  <2>2. frame'[c].user = frame[c].user /\ frame'[c].ids = own \cap On /\ pc'[c] = "answer"
    BY <1>2, <1>7, <2>1, Parts DEF Select, Frame, Goto
  <2> QED
    BY <1>3, <1>4, <2>1, <2>2 DEF Answering
<1>8. CASE ReadAssigned(c)
  <2>1. own = {}
    BY <1>8 DEF ReadAssigned, Answering
  <2>2. frame'[c].user = frame[c].user /\ frame'[c].ids = RoutesOf(Group) /\ pc'[c] = "others"
    BY <1>2, <1>8, Parts DEF ReadAssigned, Frame, Goto
  <2> QED
    BY <1>3, <1>4, <2>1, <2>2 DEF Answering
<1>9. CASE SelectOthers(c)
  <2>1. own = {} /\ frame[c].ids = RoutesOf(Group)
    BY <1>9 DEF SelectOthers, Answering
  <2>2. frame'[c].user = frame[c].user /\ frame'[c].ids = On \ RoutesOf(Group) /\ pc'[c] = "answer"
    BY <1>2, <1>9, <2>1, Parts DEF SelectOthers, Frame, Goto
  <2> QED
    BY <1>3, <1>4, <2>1, <2>2 DEF Answering
<1>10. ~Answer(c)
  BY Parts DEF Answer, Return, Goto
<1> QED
  BY <1>5, <1>6, <1>7, <1>8, <1>9, <1>10 DEF Get

(* Whatever else one call does, it ends its own answer only. *)
LEMMA OneCallMoves ==
  ASSUME NEW c \in Call, Typed, Get(c) \/ Write(c) \/ Abort(c) \/ ReadAssignedFails(c),
         NEW d \in Call, d # c
  PROVE  pc'[d] = pc[d] /\ frame'[d] = frame[d]
<1>1. \E label, local : Goto(c, label) /\ frame' = [frame EXCEPT ![c] = local]
  <2>1. CASE UNCHANGED frame
    <3>1. frame' = [frame EXCEPT ![c] = frame[c]]
      BY <2>1, Parts
    <3>2. \E label : Goto(c, label)
      BY DEF Get, Write, Abort, ReadUserGroups, ReadRouteGroups, Select, ReadAssigned,
         ReadAssignedFails, SelectOthers, Answer, ReadUser, ReadRoute, SaveRoute, SaveGroup,
         InsertUser, InsertRoute, DeleteUsers, DeleteRoutes, DeleteGroup, Return
    <3> QED
      BY <3>1, <3>2
  <2>2. CASE ~UNCHANGED frame
    BY <2>2 DEF Get, Write, Abort, ReadUserGroups, ReadRouteGroups, Select, ReadAssigned,
       ReadAssignedFails, SelectOthers, Answer, ReadUser, ReadRoute, SaveRoute, SaveGroup,
       InsertUser, InsertRoute, DeleteUsers, DeleteRoutes, DeleteGroup, Return
  <2> QED
    BY <2>1, <2>2
<1> QED
  BY <1>1, OthersStay

LEMMA AnswersInductive == Spec => []Answers
<1>1. Init => Answers
  BY DEF Init, Answers
<1>2. Typed /\ Answers /\ [Next]_vars => Answers'
  <2> SUFFICES ASSUME Typed, Answers, [Next]_vars PROVE Answers'
    OBVIOUS
  <2>1. undisturbed \subseteq Call
    BY Parts
  <2>2. ASSUME NEW c \in Call, Start(c) PROVE Answers'
    <3>1. PICK label, local :
            /\ Begin(c, label, local)
            /\ \/ label = "groups" /\ undisturbed' = undisturbed \cup {c}
               \/ UNCHANGED undisturbed
      BY <2>2 DEF Start, StartGet, StartEdit
    <3>2. tables' = tables /\ pc[c] = "idle" /\ pc'[c] = label /\ frame'[c] = local
      BY <3>1, Parts DEF Begin, Goto, tables
    <3>3. c \notin undisturbed
      BY <3>2 DEF Answers, Answering
    <3>4. ASSUME NEW d \in undisturbed PROVE Answering(d)'
      <4>1. pc'[d] = pc[d] /\ frame'[d] = frame[d]
        BY <2>1, <3>1, <3>3, Parts DEF Begin, Goto
      <4> QED
        BY <2>1, <3>2, <4>1, AnsweringStays DEF Answers
    <3>5. label = "groups" => Answering(c)'
      BY <3>1, <3>2 DEF Answering
    <3> QED
      BY <3>1, <3>4, <3>5 DEF Answers
  <2>3. CASE /\ Edit \/ \E c \in Call : Get(c) \/ Write(c) \/ Abort(c)
             /\ undisturbed' = IF tables' = tables
                               THEN {c \in undisturbed : pc'[c] # "idle"} ELSE {}
    <3> SUFFICES ASSUME tables' = tables, NEW d \in undisturbed, pc'[d] # "idle"
                 PROVE  Answering(d)'
      BY <2>3 DEF Answers
    <3>1. Answering(d) /\ d \in Call
      BY <2>1 DEF Answers
    <3>2. CASE Edit
      BY <3>1, <3>2, AnsweringStays DEF Edit
    <3>3. ASSUME NEW c \in Call, Get(c) \/ Write(c) \/ Abort(c), c # d PROVE Answering(d)'
      <4>1. pc'[d] = pc[d] /\ frame'[d] = frame[d]
        BY <3>1, <3>3, OneCallMoves
      <4> QED
        BY <3>1, <4>1, AnsweringStays
    <3>4. CASE Get(d)
      BY <3>1, <3>4, QueryAnswers
    <3>5. ~Write(d)
      BY <3>1 DEF Answering, Write, ReadUser, ReadRoute, SaveRoute, SaveGroup,
         InsertUser, InsertRoute, DeleteUsers, DeleteRoutes, DeleteGroup
    <3>6. ~Abort(d)
      BY <3>1, Parts DEF Abort, Return, Goto
    <3> QED
      BY <2>3, <3>2, <3>3, <3>4, <3>5, <3>6
  <2>4. ASSUME NEW c \in Call, ReadAssignedFails(c), undisturbed' = undisturbed \ {c}
        PROVE  Answers'
    <3>1. tables' = tables
      BY <2>4 DEF ReadAssignedFails, Read, tables
    <3>2. ASSUME NEW d \in undisturbed, d # c PROVE Answering(d)'
      <4>1. pc'[d] = pc[d] /\ frame'[d] = frame[d]
        BY <2>1, <2>4, <3>2, OneCallMoves
      <4> QED
        BY <2>1, <3>1, <3>2, <4>1, AnsweringStays DEF Answers
    <3> QED
      BY <2>4, <3>2 DEF Answers
  <2>5. CASE UNCHANGED vars
    <3>1. tables' = tables /\ UNCHANGED <<pc, frame, undisturbed>>
      BY <2>5 DEF vars, tables
    <3> QED
      BY <2>1, <3>1, AnsweringStays DEF Answers
  <2> QED
    BY <2>2, <2>3, <2>4, <2>5 DEF Next
<1> QED
  BY <1>1, <1>2, TypedInductive, PTL DEF Spec

(* An answer that nothing has disturbed gives a user the routes of her       *)
(* groups, or if they have none those of no group, for any numbers of        *)
(* groups, routes, members and calls, as long as no group is torn; it may    *)
(* only miss some if a deleted route is still in a group.                    *)
THEOREM RightRoutes == Spec => []RoutesPushed
<1>1. Typed /\ Answers /\ OrphansExplained => RoutesPushed
  <2> SUFFICES ASSUME Typed, Answers, OrphansExplained,
                      NEW c \in undisturbed, pc[c] = "answer", torn = {}
               PROVE  /\ frame[c].ids \subseteq Entitled(frame[c].user)
                      /\ Dangling \/ Entitled(frame[c].user) \subseteq frame[c].ids
    BY DEF RoutesPushed
  <2> DEFINE G == GroupsOf(frame[c].user)
  <2> DEFINE own == {r \in Route : \E g \in G : Living(r, g)}
  <2>1. frame[c].ids = IF RoutesOf(G) # {} THEN RoutesOf(G) \cap On ELSE On \ RoutesOf(Group)
    BY DEF Answers, Answering
  <2>2. ASSUME NEW r \in Route, NEW g \in Group
        PROVE  Living(r, g) <=> routes[r] # "absent" /\ <<r, g>> \in routeGroups
    BY DEF Living, OrphansExplained
  <2>3. G \subseteq Group /\ own \subseteq RoutesOf(G) /\ \A r \in On : routes[r] # "absent"
    BY DEF GroupsOf, RoutesOf, Living, On
  <2>4. RoutesOf(G) \cap On \subseteq own
    BY <2>2, <2>3 DEF RoutesOf, On
  <2>5. {r \in On : \A g \in Group : ~Living(r, g)} = On \ RoutesOf(Group)
    BY <2>2, <2>3 DEF RoutesOf, On
  <2>6. Entitled(frame[c].user) = IF own # {} THEN own \cap On ELSE On \ RoutesOf(Group)
    BY <2>5 DEF Entitled
  <2>7. CASE RoutesOf(G) = {}
    BY <2>1, <2>3, <2>6, <2>7
  <2>8. CASE RoutesOf(G) # {}
    <3>1. frame[c].ids = RoutesOf(G) \cap On
      BY <2>1, <2>8
    <3>2. frame[c].ids # {} => Entitled(frame[c].user) = own \cap On
      BY <2>4, <2>6, <3>1
    <3>3. ~Dangling => own = RoutesOf(G)
      BY <2>2, <2>3 DEF Dangling, RoutesOf
    <3> QED
      BY <2>3, <2>4, <2>6, <2>8, <3>1, <3>2, <3>3
  <2> QED
    BY <2>7, <2>8
<1> QED
  BY <1>1, TypedInductive, AnswersInductive, GroupsLeaveNothing, PTL

==============================================================================
