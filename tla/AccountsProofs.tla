--------------------------- MODULE AccountsProofs ---------------------------
(***************************************************************************)
(* What holds of the table of users for any numbers of users, passwords,   *)
(* requests and runs of wsctl.                                             *)
(***************************************************************************)
EXTENDS Accounts, TLAPS

(* What a call remembers while it runs. *)
Remembers(c) ==
  IF pc[c] = "idle" THEN frame[c] = None
  ELSE /\ frame[c] \in Frame
       /\ pc[c] = "create" <=> frame[c].request.op = "create"
       /\ pc[c] \in {"save", "column", "delete"} =>
            frame[c].row # None /\ pc[c] = After(frame[c].request)

Label == {"idle", "first", "create", "save", "column", "delete"}

Tables ==
  /\ users \in [User -> Row \cup {None}]
  /\ used \subseteq User /\ tokens \subseteq User /\ overwritten \subseteq User
  /\ want \in [User -> Row \cup {None}]

LEMMA Parts ==
  TypeOK <=> /\ Tables
             /\ pc \in [Call -> Label] /\ frame \in [Call -> Frame \cup {None}]
             /\ \A c \in Call : Remembers(c)
BY Zenon DEF TypeOK, Tables, Label, Remembers

(* An update asks for a value of the column's type. *)
LEMMA RequestType ==
  ASSUME NEW request \in Request
  PROVE  /\ request.user \in User
         /\ request.op \in {"update", "change", "delete", "create"}
         /\ request.op = "update" => request \in Update
         /\ request.op \in {"change", "create"} => request.value \in Password
         /\ request.op = "create" => request.admin \in BOOLEAN
BY DEF Request, Update, Change, Delete, Create

LEMMA ChangedType ==
  ASSUME NEW request \in Update, NEW row \in Row \cup {None}
  PROVE  /\ Changed(row, request) \in Row \cup {None}
         /\ row # None => Changed(row, request) \in Row
BY DEF Update, Changed, Row

(* A call that returns, or goes on with what it remembers, leaves the others *)
(* alone.                                                                    *)
LEMMA ReturnKeeps ==
  ASSUME NEW c \in Call, TypeOK, Return(c), Tables'
  PROVE  TypeOK'
<1>1. pc' \in [Call -> Label] /\ frame' \in [Call -> Frame \cup {None}]
  BY Parts DEF Return, Goto, Label
<1>2. ASSUME NEW d \in Call PROVE Remembers(d)'
  BY Parts DEF Return, Goto, Remembers, Label
<1> QED
  BY <1>1, <1>2, Parts DEF Tables, Label, Remembers, TypeOK

(* The beginnings of a call. *)
Begins(c) == \E request \in Request : Begin(c, request)

LEMMA BeginKeeps ==
  ASSUME NEW c \in Call, TypeOK, Begins(c)
  PROVE  TypeOK'
<1> PICK request \in Request : Begin(c, request)
  BY DEF Begins
<1>1. Tables'
  BY Parts DEF Tables, Begin
<1>2. [request |-> request, row |-> None] \in Frame
  BY DEF Frame
<1>3. pc' \in [Call -> Label] /\ frame' \in [Call -> Frame \cup {None}]
  BY <1>2, Parts DEF Begin, Goto, Label
<1>4. ASSUME NEW d \in Call PROVE Remembers(d)'
  <2>1. CASE d = c
    BY <1>2, <2>1, Parts DEF Begin, Goto, Remembers, Label
  <2>2. CASE d # c
    BY <2>2, Parts DEF Begin, Goto, Remembers, Label
  <2> QED
    BY <2>1, <2>2
<1> QED
  BY <1>1, <1>3, <1>4 DEF Tables, Label, Remembers, TypeOK

(* Every request is one a caller may make. *)
LEMMA CallersBegin ==
  ASSUME NEW c \in Call,
         \/ \E u \in User, p \in Password : Register(c, u, p)
         \/ \E request \in Change : ChangePassword(c, request)
         \/ \E request \in Update \cup Delete \cup Create : AdminRequest(c, request)
         \/ \E request \in Update \cup Delete \cup Create : Wsctl(c, request)
  PROVE  Begins(c)
<1>1. ASSUME NEW u \in User, NEW p \in Password
      PROVE  [op |-> "create", user |-> u, value |-> p, admin |-> FALSE] \in Request
  BY DEF Request, Create
<1>2. Change \cup Update \cup Delete \cup Create \subseteq Request
  BY DEF Request
<1> QED
  BY <1>1, <1>2 DEF Begins, Register, ChangePassword, AdminRequest, Wsctl

LEMMA FirstKeeps ==
  ASSUME NEW c \in Call, TypeOK, First(c)
  PROVE  TypeOK'
<1> DEFINE request == frame[c].request
<1> DEFINE row == users[request.user]
<1>1. Tables'
  BY Parts DEF Tables, First
<1>2. frame[c] \in Frame /\ request \in Request /\ request.user \in User /\ pc[c] = "first"
  BY Parts, RequestType DEF First, Remembers, Frame
<1>3. CASE Return(c)
  BY <1>1, <1>3, ReturnKeeps
<1>4. CASE /\ row # None /\ Goto(c, After(request))
           /\ frame' = [frame EXCEPT ![c].row = row]
  <2>1. request.op \in {"update", "change", "delete"}
    BY <1>2, Parts, RequestType DEF Remembers
  <2>2. After(request) \in {"save", "column", "delete"}
    BY <2>1 DEF After
  <2>3. row \in Row
    BY <1>2, <1>4, Parts DEF Tables
  <2>4. [frame[c] EXCEPT !.row = row] \in Frame
    BY <1>2, <2>3 DEF Frame
  <2>5. frame' = [frame EXCEPT ![c] = [frame[c] EXCEPT !.row = row]]
    BY <1>4
  <2>6. pc' \in [Call -> Label] /\ frame' \in [Call -> Frame \cup {None}]
    BY <1>4, <2>2, <2>4, <2>5, Parts DEF Goto, Label
  <2>7. ASSUME NEW d \in Call PROVE Remembers(d)'
    <3>1. CASE d = c
      <4>1. frame'[c] = [frame[c] EXCEPT !.row = row] /\ pc'[c] = After(request)
        BY <1>4, <2>5, Parts DEF Goto
      <4>2. frame'[c].request = request /\ frame'[c].row = row
        BY <1>2, <4>1 DEF Frame
      <4> QED
        BY <1>4, <2>1, <2>2, <2>4, <3>1, <4>1, <4>2 DEF Remembers
    <3>2. CASE d # c
      BY <1>4, <2>5, <3>2, Parts DEF Goto, Remembers
    <3> QED
      BY <3>1, <3>2
  <2> QED
    BY <1>1, <2>6, <2>7 DEF Tables, Label, Remembers, TypeOK
<1> QED
  BY <1>3, <1>4 DEF First

(* The row and the request of a call about to write. *)
LEMMA AboutToWrite ==
  ASSUME NEW c \in Call, TypeOK, pc[c] \in {"create", "save", "column", "delete"}
  PROVE  /\ frame[c].request \in Request /\ frame[c].request.user \in User
         /\ pc[c] = "create" => frame[c].request.op = "create"
         /\ pc[c] = "save" => frame[c].request \in Update
         /\ pc[c] = "column" => frame[c].request \in Change
         /\ pc[c] \in {"save", "column", "delete"} => frame[c].row \in Row
<1>1. frame[c] \in Frame /\ Remembers(c)
  BY Parts DEF Remembers
<1>2. frame[c].request \in Request /\ frame[c].row \in Row \cup {None}
  BY <1>1 DEF Frame
<1>3. frame[c].request.op \in {"update", "change", "delete", "create"}
  BY <1>2, RequestType
<1>4. pc[c] = "save" => frame[c].request.op = "update"
  BY <1>1, <1>3 DEF Remembers, After
<1>5. pc[c] = "column" => frame[c].request.op = "change"
  BY <1>1, <1>3 DEF Remembers, After
<1>6. frame[c].request.op = "change" => frame[c].request \in Change
  BY <1>2 DEF Request, Update, Change, Delete, Create
<1> QED
  BY <1>1, <1>2, <1>4, <1>5, <1>6, RequestType DEF Remembers

LEMMA WithPasswordType ==
  ASSUME NEW row \in Row \cup {None}, NEW p \in Password
  PROVE  WithPassword(row, p) \in Row \cup {None}
BY DEF WithPassword, Row

LEMMA InsertKeeps ==
  ASSUME NEW c \in Call, TypeOK, Insert(c)
  PROVE  TypeOK'
<1>1. /\ frame[c].request.user \in User
      /\ frame[c].request.value \in Password /\ frame[c].request.admin \in BOOLEAN
  BY AboutToWrite, RequestType DEF Insert
<1>2. NewRow(frame[c].request.value, frame[c].request.admin) \in Row
  BY <1>1 DEF NewRow, Row
<1>3. Tables'
  BY <1>1, <1>2, Parts DEF Insert, Tables
<1> QED
  BY <1>3, ReturnKeeps DEF Insert

LEMMA SaveKeeps ==
  ASSUME NEW c \in Call, TypeOK, Save(c)
  PROVE  TypeOK'
<1> DEFINE request == frame[c].request
<1> DEFINE u == request.user
<1>1. u \in User /\ request \in Update /\ frame[c].row \in Row /\ frame[c].row # None
  BY AboutToWrite, Parts DEF Save, Remembers
<1>2. Changed(frame[c].row, request) \in Row
  BY <1>1, ChangedType
<1>3. Stored(u, Changed(frame[c].row, request)) \in Row
  BY <1>2 DEF Stored, Row
<1>4. Changed(want[u], request) \in Row \cup {None}
  BY <1>1, Parts, ChangedType DEF Tables
<1>5. Tables'
  BY <1>1, <1>3, <1>4, Parts DEF Save, Tables
<1> QED
  BY <1>5, ReturnKeeps DEF Save

LEMMA UpdateColumnKeeps ==
  ASSUME NEW c \in Call, TypeOK, UpdateColumn(c)
  PROVE  TypeOK'
<1> DEFINE request == frame[c].request
<1> DEFINE u == request.user
<1>1. u \in User /\ request.value \in Password
  BY AboutToWrite DEF UpdateColumn, Change
<1>2. /\ WithPassword(users[u], request.value) \in Row \cup {None}
      /\ WithPassword(want[u], request.value) \in Row \cup {None}
  BY <1>1, Parts, WithPasswordType DEF Tables
<1>3. Tables'
  BY <1>1, <1>2, Parts DEF UpdateColumn, Tables
<1> QED
  BY <1>3, ReturnKeeps DEF UpdateColumn

LEMMA DeleteRowKeeps ==
  ASSUME NEW c \in Call, TypeOK, DeleteRow(c)
  PROVE  TypeOK'
<1>1. Tables'
  BY AboutToWrite, Parts DEF DeleteRow, Tables
<1> QED
  BY <1>1, ReturnKeeps DEF DeleteRow

(* TypeOK is inductive. *)
THEOREM TypeCorrect == Spec => []TypeOK
<1>1. Init => TypeOK
  BY DEF Init, TypeOK
<1>2. TypeOK /\ [Next]_vars => TypeOK'
  <2> SUFFICES ASSUME TypeOK, [Next]_vars PROVE TypeOK'
    OBVIOUS
  <2>1. ASSUME NEW u \in User, Login(u) \/ Expire(u) PROVE TypeOK'
    <3>1. Tables' /\ UNCHANGED <<pc, frame>>
      BY <2>1, Parts DEF Login, Expire, Tables
    <3> QED
      BY <3>1 DEF Tables, TypeOK
  <2>2. ASSUME NEW c \in Call, Begins(c) PROVE TypeOK'
    BY <2>2, BeginKeeps
  <2>3. ASSUME NEW c \in Call, Step(c) PROVE TypeOK'
    <3>1. CASE Fail(c)
      <4>1. Tables'
        BY <3>1, Parts DEF Fail, Tables
      <4> QED
        BY <3>1, <4>1, ReturnKeeps DEF Fail
    <3> QED
      BY <2>3, <3>1, FirstKeeps, InsertKeeps, SaveKeeps, UpdateColumnKeeps, DeleteRowKeeps DEF Step
  <2>4. CASE UNCHANGED vars
    BY <2>4 DEF TypeOK, vars
  <2> QED
    BY <2>1, <2>2, <2>3, <2>4, CallersBegin DEF Next, Call
<1> QED
  BY <1>1, <1>2, PTL DEF Spec

------------------------------------------------------------------------------
(* Acknowledged changes *)

(* An acknowledged change of a user stays until another of the same field,   *)
(* for any number of racing requests and runs of wsctl and any failures,     *)
(* unless the Save of a stale row has written over it.                       *)
THEOREM ChangesStay == Spec => []AcknowledgedStays
<1>1. Init => AcknowledgedStays
  BY DEF Init, AcknowledgedStays
<1>2. TypeOK /\ AcknowledgedStays /\ [Next]_vars => AcknowledgedStays'
  <2> SUFFICES ASSUME TypeOK, AcknowledgedStays, [Next]_vars PROVE AcknowledgedStays'
    OBVIOUS
  <2>1. CASE UNCHANGED <<users, want, overwritten>>
    BY <2>1 DEF AcknowledgedStays
  <2>2. ASSUME NEW c \in Call, Insert(c) PROVE AcknowledgedStays'
    BY <2>2, AboutToWrite, Parts DEF AcknowledgedStays, Insert, Tables
  <2>3. ASSUME NEW c \in Call, Save(c) PROVE AcknowledgedStays'
    <3> DEFINE request == frame[c].request
    <3> DEFINE u == request.user
    <3> DEFINE row == frame[c].row
    <3>1. u \in User /\ row \in Row /\ row # None
      BY <2>3, AboutToWrite, Parts DEF Save, Remembers
    <3>2. ASSUME u \notin overwritten' PROVE users'[u] = want'[u]
      <4>1. users[u] = row /\ u \notin overwritten
        BY <2>3, <3>2 DEF Save
      <4>2. want[u] = row
        BY <3>1, <4>1 DEF AcknowledgedStays
      <4>3. Stored(u, Changed(row, request)) = Changed(row, request)
        BY <3>1, <4>1 DEF Stored, Exists
      <4> QED
        BY <2>3, <3>1, <4>2, <4>3, Parts DEF Save, Tables
    <3>3. ASSUME NEW v \in User \ overwritten', v # u PROVE users'[v] = want'[v]
      BY <2>3, <3>3, Parts DEF Save, Tables, AcknowledgedStays
    <3> QED
      BY <3>2, <3>3 DEF AcknowledgedStays
  <2>4. ASSUME NEW c \in Call, UpdateColumn(c) PROVE AcknowledgedStays'
    BY <2>4, AboutToWrite, Parts DEF AcknowledgedStays, UpdateColumn, Tables
  <2>5. ASSUME NEW c \in Call, DeleteRow(c) PROVE AcknowledgedStays'
    BY <2>5, AboutToWrite, Parts DEF AcknowledgedStays, DeleteRow, Tables
  <2>6. ASSUME NEW u \in User, Login(u) \/ Expire(u) PROVE AcknowledgedStays'
    BY <2>1, <2>6 DEF Login, Expire
  <2>7. ASSUME NEW c \in Call, Begins(c) PROVE AcknowledgedStays'
    BY <2>1, <2>7 DEF Begins, Begin
  <2>8. ASSUME NEW c \in Call, First(c) \/ Fail(c) PROVE AcknowledgedStays'
    BY <2>1, <2>8 DEF First, Fail
  <2>9. CASE UNCHANGED vars
    BY <2>1, <2>9 DEF vars
  <2> QED
    BY <2>2, <2>3, <2>4, <2>5, <2>6, <2>7, <2>8, <2>9, CallersBegin DEF Next, Step, Call
<1> QED
  BY <1>1, <1>2, TypeCorrect, PTL DEF Spec

==============================================================================
