----------------------- MODULE AddressAllocationProofs -----------------------
(***************************************************************************)
(* Theorems about AddressAllocation, for any sets of users, addresses and  *)
(* requests.                                                               *)
(***************************************************************************)
EXTENDS AddressAllocation, TLAPS

USE ConstantAssumption DEF Running

------------------------------------------------------------------------------
(* Types *)

LEMMA RowTypes == NoRow \in Row /\ EmptyFrame \in Frame
BY DEF NoRow, Row, EmptyFrame, Frame

(* A request has found a row. *)
LEMMA FoundFrame ==
  ASSUME frame \in [Key -> Frame], NEW k \in Key, NEW a \in Address, NEW n \in Nat,
         frame' = [frame EXCEPT ![k].ip = a, ![k].id = n]
  PROVE  /\ frame' \in [Key -> Frame]
         /\ frame'[k].ip = a /\ frame'[k].id = n /\ frame'[k].user = frame[k].user
         /\ \A j \in Key : j # k => frame'[j] = frame[j]
<1>1. PICK u \in Frame : u = frame[k]
  OBVIOUS
<1>2. frame' = [frame EXCEPT ![k] = [u EXCEPT !.ip = a, !.id = n]]
  BY <1>1
<1>3. LET f == [u EXCEPT !.ip = a, !.id = n]
      IN  f \in Frame /\ f.ip = a /\ f.id = n /\ f.user = u.user
  BY DEF Frame
<1> QED
  BY <1>1, <1>2, <1>3

(* A request has chosen an address. *)
LEMMA ChosenFrame ==
  ASSUME frame \in [Key -> Frame], NEW k \in Key, NEW a \in Address,
         frame' = [frame EXCEPT ![k].ip = a]
  PROVE  /\ frame' \in [Key -> Frame]
         /\ frame'[k].ip = a /\ frame'[k].id = frame[k].id /\ frame'[k].user = frame[k].user
         /\ \A j \in Key : j # k => frame'[j] = frame[j]
<1>1. PICK u \in Frame : u = frame[k]
  OBVIOUS
<1>2. frame' = [frame EXCEPT ![k] = [u EXCEPT !.ip = a]]
  BY <1>1
<1>3. LET f == [u EXCEPT !.ip = a]
      IN  f \in Frame /\ f.ip = a /\ f.id = u.id /\ f.user = u.user
  BY DEF Frame
<1> QED
  BY <1>1, <1>2, <1>3

LEMMA TypeInit == Init => TypeOK
BY RowTypes DEF Init, TypeOK

(* A step of a request leaves its user as she was or makes her astray.       *)
LEMMA AstrayGrows ==
  ASSUME NEW k \in Key, Step(k)
  PROVE  astray' = astray \/ astray' = astray \cup {frame[k].user}
BY DEF Step, Lookup, SaveRow, Saved, List, Create, AddPeer, Stray

LEMMA AstrayType ==
  ASSUME TypeOK, NEW k \in Key, Step(k)
  PROVE  astray' \subseteq User \cup {NoUser}
<1>1. frame[k].user \in User \cup {NoUser}
  BY DEF TypeOK, Frame
<1> QED
  BY <1>1, AstrayGrows DEF TypeOK

LEMMA TypeStep == TypeOK /\ [Next]_vars => TypeOK'
<1> SUFFICES ASSUME TypeOK, [Next]_vars PROVE TypeOK'
  OBVIOUS
<1> USE DEF TypeOK, Goto
<1>1. ASSUME NEW k \in Key, NEW u \in User, Request(k, u) PROVE TypeOK'
  <2>1. frame' \in [Key -> Frame]
    BY <1>1 DEF Request, Frame
  <2>2. \A j \in Key : frame'[j].ip = frame[j].ip
    BY <1>1 DEF Request, Frame
  <2> QED
    BY <1>1, <2>1, <2>2 DEF Request
<1>2. ASSUME NEW k \in Key, Lookup(k) PROVE TypeOK'
  <2>0. astray' \subseteq User \cup {NoUser}
    BY <1>2, AstrayType DEF Step
  <2>1. CASE Goto(k, "list") /\ UNCHANGED frame
    BY <1>2, <2>0, <2>1 DEF Lookup
  <2>2. CASE \E a \in Address : /\ FirstRow(frame[k].user, a)
                                /\ frame' = [frame EXCEPT ![k].ip = a, ![k].id = rows[a].id]
                                /\ Goto(k, "save")
    <3>1. PICK a \in Address : /\ frame' = [frame EXCEPT ![k].ip = a, ![k].id = rows[a].id]
                               /\ Goto(k, "save")
      BY <2>2
    <3>2. rows[a].id \in Nat
      BY DEF Row
    <3>3. frame' \in [Key -> Frame] /\ frame'[k].ip = a
      BY <3>1, <3>2, FoundFrame
    <3>4. \A j \in Key : j # k => frame'[j] = frame[j]
      BY <3>1
    <3> QED
      BY <1>2, <2>0, <3>1, <3>3, <3>4 DEF Lookup
  <2> QED
    BY <1>2, <2>1, <2>2 DEF Lookup
<1>3. ASSUME NEW k \in Key, SaveRow(k) PROVE TypeOK'
  <2>1. FrameRow(k) \in Row
    BY DEF FrameRow, Row, Frame
  <2>2. astray' \subseteq User \cup {NoUser}
    BY <1>3, AstrayType DEF Step
  <2> QED
    BY <1>3, <2>1, <2>2 DEF SaveRow, Saved
<1>4. ASSUME NEW k \in Key, List(k) PROVE TypeOK'
  <2>1. CASE Goto(k, "failed") /\ UNCHANGED frame
    BY <1>4, <2>1 DEF List
  <2>2. CASE \E a \in Address : frame' = [frame EXCEPT ![k].ip = a] /\ Goto(k, "create")
    <3>1. PICK a \in Address : frame' = [frame EXCEPT ![k].ip = a] /\ Goto(k, "create")
      BY <2>2
    <3>2. frame' \in [Key -> Frame] /\ frame'[k].ip = a
      BY <3>1, ChosenFrame
    <3>3. \A j \in Key : j # k => frame'[j] = frame[j]
      BY <3>1
    <3> QED
      BY <1>4, <3>1, <3>2, <3>3 DEF List
  <2> QED
    BY <1>4, <2>1, <2>2 DEF List
<1>5. ASSUME NEW k \in Key, Create(k) PROVE TypeOK'
  <2>1. [id |-> ids + 1, user |-> frame[k].user, key |-> k] \in Row
    BY DEF Row, Frame
  <2> QED
    BY <1>5, <2>1 DEF Create
<1>6. ASSUME NEW k \in Key, AddPeer(k) PROVE TypeOK'
  <2>1. astray' \subseteq User \cup {NoUser}
    BY <1>6, AstrayType DEF Step
  <2> QED
    BY <1>6, <2>1 DEF AddPeer
<1>7. ASSUME NEW u \in User, DeleteRows(u) PROVE TypeOK'
  BY <1>7, RowTypes DEF DeleteRows
<1>8. ASSUME NEW u \in User, DeleteUser(u) PROVE TypeOK'
  BY <1>8 DEF DeleteUser
<1>9. CASE Restart
  BY <1>9 DEF Restart
<1>10. CASE UNCHANGED vars
  BY <1>10 DEF vars
<1> QED
  BY <1>1, <1>2, <1>3, <1>4, <1>5, <1>6, <1>7, <1>8, <1>9, <1>10 DEF Next, Step

(* Every reachable state of the allocation is well typed, and no request     *)
(* leaves the scan with anything but an address of the subnet.               *)
THEOREM AllocationTypes == Spec => []TypeOK
BY TypeInit, TypeStep, PTL DEF Spec

------------------------------------------------------------------------------
(* Leases, while nobody is deleted *)

NoDeletion == \A u \in User : deletes[u] = "idle"

RowsWhole == \A a \in Address : IF Taken(a) THEN rows[a].user \in User ELSE rows[a] = NoRow

RunsForUser == \A k \in Key : pc[k] \in Running => frame[k].user \in User

(* A request that is about to save holds a row that is still there. *)
FoundStays ==
  \A k \in Key : pc[k] = "save" =>
    /\ Taken(frame[k].ip) /\ rows[frame[k].ip].id = frame[k].id
    /\ rows[frame[k].ip].user = frame[k].user

(* A peer of the device is the key of a request that was served there. *)
PeersServed ==
  \A a \in Address : owner[a] # NoKey =>
    owner[a] \in Key /\ pc[owner[a]] = "served" /\ frame[owner[a]].ip = a

Recorded ==
  /\ TypeOK /\ NoDeletion /\ RowsWhole /\ RunsForUser
  /\ FoundStays /\ IssuedIsRecorded /\ PeersServed

LEMMA RecordedInit == Init => Recorded
BY TypeInit DEF Init, Recorded, NoDeletion, RowsWhole, RunsForUser, FoundStays,
                PeersServed, IssuedIsRecorded, Taken, NoRow

(* What each step changes, without the data. *)

Others(k) == \A j \in Key : j # k => pc'[j] = pc[j] /\ frame'[j] = frame[j]

LEMMA RequestEffect ==
  ASSUME TypeOK, NEW k \in Key, NEW u \in User, Request(k, u)
  PROVE  /\ Others(k) /\ frame'[k].user = u
         /\ pc[k] = "idle" /\ pc'[k] = "lookup"
         /\ UNCHANGED <<rows, owner, deletes>>
BY DEF Request, Goto, TypeOK, Frame, Others

LEMMA LookupEffect ==
  ASSUME TypeOK, NEW k \in Key, Lookup(k)
  PROVE  /\ Others(k) /\ frame'[k].user = frame[k].user
         /\ UNCHANGED <<rows, owner, deletes>>
         /\ pc[k] = "lookup" /\ pc'[k] \in {"save", "list"}
         /\ pc'[k] = "save" =>
               /\ frame'[k].ip \in RowsOf(frame[k].user)
               /\ frame'[k].id = rows[frame'[k].ip].id
<1>1. UNCHANGED <<rows, owner, deletes>> /\ pc[k] = "lookup"
  BY DEF Lookup
<1>2. CASE Goto(k, "list") /\ UNCHANGED frame
  BY <1>1, <1>2 DEF Goto, TypeOK, Others
<1>3. CASE \E a \in Address :
             /\ FirstRow(frame[k].user, a)
             /\ frame' = [frame EXCEPT ![k].ip = a, ![k].id = rows[a].id]
             /\ Goto(k, "save")
  <2>1. PICK a \in Address :
          /\ a \in RowsOf(frame[k].user)
          /\ frame' = [frame EXCEPT ![k].ip = a, ![k].id = rows[a].id]
          /\ Goto(k, "save")
    BY <1>3 DEF FirstRow
  <2>2. PICK f \in Frame : f = frame[k]
    BY DEF TypeOK
  <2>5. frame'[k] = [f EXCEPT !.ip = a, !.id = rows[a].id]
    BY <2>1, <2>2 DEF TypeOK
  <2>6. frame'[k].ip = a /\ frame'[k].id = rows[a].id /\ frame'[k].user = frame[k].user
    BY <2>2, <2>5 DEF Frame
  <2>3. \A j \in Key : j # k => frame'[j] = frame[j]
    BY <2>1 DEF TypeOK
  <2>4. pc'[k] = "save" /\ \A j \in Key : j # k => pc'[j] = pc[j]
    BY <2>1 DEF Goto, TypeOK
  <2> QED
    BY <1>1, <2>1, <2>6, <2>3, <2>4 DEF Others
<1> QED
  BY <1>2, <1>3 DEF Lookup

LEMMA SaveEffect ==
  ASSUME TypeOK, NEW k \in Key, SaveRow(k), FoundStays
  PROVE  /\ Others(k) /\ pc[k] = "save" /\ pc'[k] = "peer"
         /\ UNCHANGED <<frame, owner, deletes>>
         /\ \A b \in Address :
              rows'[b].id = rows[b].id /\ rows'[b].user = rows[b].user
         /\ \A b \in Address : ~Taken(b) => rows'[b] = rows[b]
<1>1. /\ Others(k) /\ pc[k] = "save" /\ pc'[k] = "peer"
      /\ UNCHANGED <<frame, owner, deletes>>
  BY DEF SaveRow, Goto, TypeOK, Others
<1>2. frame[k].ip \in Address /\ rows \in [Address -> Row]
  BY <1>1 DEF TypeOK
<1>3. /\ Taken(frame[k].ip) /\ rows[frame[k].ip].id = frame[k].id
      /\ rows[frame[k].ip].user = frame[k].user
  BY <1>1 DEF FoundStays
<1>4. rows' = rows \/ rows' = [rows EXCEPT ![frame[k].ip] = FrameRow(k)]
  BY DEF SaveRow, Saved
<1> QED
  BY <1>1, <1>2, <1>3, <1>4 DEF FrameRow, Taken

LEMMA ListEffect ==
  ASSUME TypeOK, NEW k \in Key, List(k)
  PROVE  /\ Others(k) /\ frame'[k].user = frame[k].user
         /\ UNCHANGED <<rows, owner, deletes>>
         /\ pc[k] = "list" /\ pc'[k] \in {"create", "failed"}
<1>1. UNCHANGED <<rows, owner, deletes>> /\ pc[k] = "list"
  BY DEF List
<1>2. CASE Goto(k, "failed") /\ UNCHANGED frame
  BY <1>1, <1>2 DEF Goto, TypeOK, Others
<1>3. CASE \E a \in Address : frame' = [frame EXCEPT ![k].ip = a] /\ Goto(k, "create")
  <2>1. PICK a \in Address : frame' = [frame EXCEPT ![k].ip = a] /\ Goto(k, "create")
    BY <1>3
  <2>2. frame'[k].user = frame[k].user /\ \A j \in Key : j # k => frame'[j] = frame[j]
    BY <2>1, ChosenFrame DEF TypeOK
  <2> QED
    BY <1>1, <2>1, <2>2 DEF Goto, TypeOK, Others
<1> QED
  BY <1>2, <1>3 DEF List

LEMMA CreateEffect ==
  ASSUME TypeOK, NEW k \in Key, Create(k)
  PROVE  /\ Others(k) /\ pc[k] = "create" /\ pc'[k] \in {"peer", "failed"}
         /\ UNCHANGED <<frame, owner, deletes>>
         /\ pc'[k] = "failed" => rows' = rows
         /\ pc'[k] = "peer" =>
               /\ frame[k].ip \in Address /\ ~Taken(frame[k].ip) /\ Taken(frame[k].ip)'
               /\ rows' = [rows EXCEPT ![frame[k].ip] =
                             [id |-> ids + 1, user |-> frame[k].user, key |-> k]]
<1>1. /\ Others(k) /\ pc[k] = "create" /\ pc'[k] \in {"peer", "failed"}
      /\ UNCHANGED <<frame, owner, deletes>> /\ frame[k].ip \in Address
      /\ pc'[k] = "failed" => rows' = rows
      /\ pc'[k] = "peer" =>
            /\ ~Taken(frame[k].ip)
            /\ rows' = [rows EXCEPT ![frame[k].ip] =
                          [id |-> ids + 1, user |-> frame[k].user, key |-> k]]
  BY DEF Create, Goto, TypeOK, Others
<1>2. rows \in [Address -> Row] /\ ids + 1 # 0
  BY DEF TypeOK
<1>3. ASSUME pc'[k] = "peer" PROVE Taken(frame[k].ip)'
  BY <1>1, <1>2, <1>3 DEF Taken
<1> QED
  BY <1>1, <1>3

LEMMA PeerEffect ==
  ASSUME TypeOK, NEW k \in Key, AddPeer(k)
  PROVE  /\ Others(k) /\ pc[k] = "peer" /\ pc'[k] \in {"served", "failed"}
         /\ UNCHANGED <<frame, rows, deletes>>
         /\ pc'[k] = "failed" => owner' = owner
         /\ pc'[k] = "served" => owner' = [owner EXCEPT ![frame[k].ip] = k]
         /\ frame[k].ip \in Address
BY DEF AddPeer, Goto, TypeOK, Others

(* It lasts as long as no deletion begins.                                   *)
LEMMA RecordedStep ==
  ASSUME NoDeletion', Recorded, [Next]_vars
  PROVE  Recorded'
<1>0. /\ TypeOK /\ NoDeletion /\ RowsWhole /\ RunsForUser
      /\ FoundStays /\ IssuedIsRecorded /\ PeersServed
      /\ TypeOK'
  BY TypeStep DEF Recorded
<1> DEFINE Parts == /\ NoDeletion /\ RowsWhole /\ RunsForUser
                    /\ FoundStays /\ IssuedIsRecorded /\ PeersServed
<1>1. ASSUME NEW k \in Key, NEW u \in User, Request(k, u) PROVE Parts'
  <2>1. /\ Others(k) /\ frame'[k].user = u
        /\ pc[k] = "idle" /\ pc'[k] = "lookup"
        /\ UNCHANGED <<rows, owner, deletes>>
    BY <1>0, <1>1, RequestEffect
  <2> QED
    BY <1>0, <2>1 DEF NoDeletion, RowsWhole, RunsForUser, FoundStays, PeersServed,
                      IssuedIsRecorded, Taken, Others
<1>2. ASSUME NEW k \in Key, Lookup(k) PROVE Parts'
  <2>1. /\ Others(k) /\ frame'[k].user = frame[k].user
        /\ UNCHANGED <<rows, owner, deletes>>
        /\ pc[k] = "lookup" /\ pc'[k] \in {"save", "list"}
        /\ pc'[k] = "save" =>
              /\ frame'[k].ip \in RowsOf(frame[k].user)
              /\ frame'[k].id = rows[frame'[k].ip].id
    BY <1>0, <1>2, LookupEffect
  <2> QED
    BY <1>0, <2>1 DEF NoDeletion, RowsWhole, RunsForUser, FoundStays, PeersServed,
                      IssuedIsRecorded, Taken, Others, RowsOf
<1>3. ASSUME NEW k \in Key, SaveRow(k) PROVE Parts'
  <2>1. /\ Others(k) /\ pc[k] = "save" /\ pc'[k] = "peer"
        /\ UNCHANGED <<frame, owner, deletes>>
        /\ \A c \in Address :
             rows'[c].id = rows[c].id /\ rows'[c].user = rows[c].user
        /\ \A c \in Address : ~Taken(c) => rows'[c] = rows[c]
    BY <1>0, <1>3, SaveEffect
  <2>2. \A j \in Key : pc[j] \in {"save", "peer", "served"} => frame[j].ip \in Address
    BY <1>0 DEF TypeOK
  <2>3. RowsWhole'
    BY <1>0, <2>1 DEF RowsWhole, Taken
  <2>4. \A j \in Key : pc[j] \in {"save", "peer", "served"} =>
          /\ rows'[frame'[j].ip].id # 0 /\ rows'[frame'[j].ip].user = frame'[j].user
          /\ rows'[frame'[j].ip].id = rows[frame[j].ip].id
    <3> SUFFICES ASSUME NEW j \in Key, pc[j] \in {"save", "peer", "served"}
                 PROVE  /\ rows'[frame[j].ip].id # 0
                        /\ rows'[frame[j].ip].user = frame[j].user
                        /\ rows'[frame[j].ip].id = rows[frame[j].ip].id
      BY <2>1 DEF Taken
    <3>1. /\ frame[j].ip \in Address /\ rows[frame[j].ip].id # 0
          /\ rows[frame[j].ip].user = frame[j].user
      BY <1>0, <2>2 DEF FoundStays, IssuedIsRecorded, Taken
    <3> QED
      BY <2>1, <3>1
  <2>5. FoundStays' /\ IssuedIsRecorded'
    <3> SUFFICES ASSUME NEW j \in Key
                 PROVE  /\ pc'[j] = "save" =>
                              /\ rows'[frame'[j].ip].id # 0 /\ rows'[frame'[j].ip].id = frame'[j].id
                              /\ rows'[frame'[j].ip].user = frame'[j].user
                        /\ pc'[j] \in {"peer", "served"} =>
                              rows'[frame'[j].ip].id # 0 /\ rows'[frame'[j].ip].user = frame'[j].user
      BY DEF FoundStays, IssuedIsRecorded, Taken
    <3>1. pc'[j] \in {"save", "peer", "served"} => pc[j] \in {"save", "peer", "served"}
      BY <2>1 DEF Others
    <3>2. pc'[j] = "save" => pc[j] = "save" /\ rows[frame[j].ip].id = frame'[j].id
      BY <1>0, <2>1 DEF Others, FoundStays
    <3> QED
      BY <2>4, <3>1, <3>2
  <2>6. NoDeletion' /\ RunsForUser' /\ PeersServed'
    BY <1>0, <2>1 DEF NoDeletion, RunsForUser, PeersServed, Others
  <2> QED
    BY <2>3, <2>5, <2>6
<1>4. ASSUME NEW k \in Key, List(k) PROVE Parts'
  <2>1. /\ Others(k) /\ frame'[k].user = frame[k].user
        /\ UNCHANGED <<rows, owner, deletes>>
        /\ pc[k] = "list" /\ pc'[k] \in {"create", "failed"}
    BY <1>0, <1>4, ListEffect
  <2> QED
    BY <1>0, <2>1 DEF NoDeletion, RowsWhole, RunsForUser, FoundStays, PeersServed,
                      IssuedIsRecorded, Taken, Others
<1>5. ASSUME NEW k \in Key, Create(k) PROVE Parts'
  <2>1. /\ Others(k) /\ pc[k] = "create" /\ pc'[k] \in {"peer", "failed"}
        /\ UNCHANGED <<frame, owner, deletes>>
        /\ pc'[k] = "failed" => rows' = rows
        /\ pc'[k] = "peer" =>
              /\ frame[k].ip \in Address /\ ~Taken(frame[k].ip) /\ Taken(frame[k].ip)'
              /\ rows' = [rows EXCEPT ![frame[k].ip] =
                            [id |-> ids + 1, user |-> frame[k].user, key |-> k]]
    BY <1>0, <1>5, CreateEffect
  <2>2. NoDeletion' /\ RunsForUser' /\ PeersServed'
    BY <1>0, <2>1 DEF NoDeletion, RunsForUser, PeersServed, Others
  <2>3. CASE pc'[k] = "failed"
    BY <1>0, <2>1, <2>2, <2>3 DEF RowsWhole, FoundStays, IssuedIsRecorded, Taken, Others
  <2>4. CASE pc'[k] = "peer"
    <3>1. /\ \A c \in Address : Taken(c) => rows'[c] = rows[c]
          /\ \A c \in Address : c # frame[k].ip => rows'[c] = rows[c]
          /\ rows'[frame[k].ip].user = frame[k].user
          /\ frame[k].user \in User /\ Taken(frame[k].ip)'
      BY <1>0, <2>1, <2>4 DEF TypeOK, RunsForUser
    <3>2. \A j \in Key : pc[j] \in {"save", "peer", "served"} =>
            rows'[frame[j].ip] = rows[frame[j].ip] /\ Taken(frame[j].ip)
      BY <1>0, <3>1 DEF TypeOK, FoundStays, IssuedIsRecorded
    <3>3. RowsWhole'
      BY <1>0, <2>1, <3>1 DEF RowsWhole, Taken
    <3>4. FoundStays'
      BY <1>0, <2>1, <2>4, <3>2 DEF FoundStays, Taken, Others
    <3>5. IssuedIsRecorded'
      BY <1>0, <2>1, <3>1, <3>2 DEF IssuedIsRecorded, Taken, Others
    <3> QED
      BY <2>2, <3>3, <3>4, <3>5
  <2> QED
    BY <2>1, <2>3, <2>4
<1>6. ASSUME NEW k \in Key, AddPeer(k) PROVE Parts'
  <2>1. /\ Others(k) /\ pc[k] = "peer" /\ pc'[k] \in {"served", "failed"}
        /\ UNCHANGED <<frame, rows, deletes>>
        /\ pc'[k] = "failed" => owner' = owner
        /\ pc'[k] = "served" => owner' = [owner EXCEPT ![frame[k].ip] = k]
        /\ frame[k].ip \in Address
    BY <1>0, <1>6, PeerEffect
  <2>2. PeersServed'
    BY <1>0, <2>1 DEF PeersServed, Others, TypeOK
  <2> QED
    BY <1>0, <2>1, <2>2 DEF NoDeletion, RowsWhole, RunsForUser, FoundStays,
                            IssuedIsRecorded, Taken, Others
<1>7. ASSUME NEW u \in User, DeleteRows(u) \/ DeleteUser(u) PROVE Parts'
  <2>1. ~DeleteUser(u)
    BY <1>0 DEF DeleteUser, NoDeletion
  <2>2. deletes'[u] = "user"
    BY <1>0, <1>7, <2>1 DEF DeleteRows, TypeOK
  <2>3. deletes'[u] = "idle"
    BY DEF NoDeletion
  <2> QED
    BY <2>2, <2>3
<1>8. ASSUME Restart PROVE Parts'
  BY <1>0, <1>8 DEF Restart, TypeOK, NoDeletion, RowsWhole, RunsForUser, FoundStays,
                    PeersServed, IssuedIsRecorded, Taken
<1>9. ASSUME UNCHANGED vars PROVE Parts'
  BY <1>0, <1>9 DEF vars, NoDeletion, RowsWhole, RunsForUser, FoundStays,
                    PeersServed, IssuedIsRecorded, Taken
<1>10. Parts'
  BY <1>1, <1>2, <1>3, <1>4, <1>5, <1>6, <1>7, <1>8, <1>9 DEF Next, Step
<1> QED
  BY <1>0, <1>10 DEF Recorded

LEMMA RecordedAlways == Deleting = FALSE => (Spec => []Recorded)
<1> SUFFICES ASSUME Deleting = FALSE PROVE Spec => []Recorded
  OBVIOUS
<1>1. Recorded /\ [Next]_vars => Recorded'
  <2> SUFFICES ASSUME Recorded, [Next]_vars PROVE NoDeletion'
    BY RecordedStep
  <2>1. \A u \in User : ~DeleteRows(u)
    BY DEF DeleteRows
  <2>2. deletes' = deletes \/ \A u \in User : deletes'[u] = deletes[u]
    BY <2>1 DEF Recorded, NoDeletion, vars, Next, Step, Request, Lookup, SaveRow, List, Create,
       AddPeer, DeleteUser, Restart
  <2> QED
    BY <2>2 DEF Recorded, NoDeletion
<1> QED
  BY RecordedInit, <1>1, PTL DEF Spec

(* While nobody is deleted, whatever races, fails or is cut off: an address  *)
(* handed to a user is recorded as that user's.                              *)
THEOREM IssuedRecorded == Deleting = FALSE => (Spec => []IssuedIsRecorded)
<1>1. Recorded => IssuedIsRecorded
  BY DEF Recorded
<1> QED
  BY RecordedAlways, <1>1, PTL

(* The table and the device as leases. *)
Leased == [a \in Address |-> rows[a].user]
Active == [a \in Address |-> UserOf(owner[a])]

LEMMA LeasesInit == Init => Leases!Init
BY DEF Init, Leases!Init, UserOf, NoRow

(* A peer's user does not change while the peer is on the device. *)
LEMMA ActiveKept ==
  ASSUME Recorded, NEW k \in Key, Others(k), frame'[k].user = frame[k].user \/ pc[k] = "idle",
         UNCHANGED owner
  PROVE  Active' = Active
<1> SUFFICES ASSUME NEW a \in Address PROVE UserOf(owner[a])' = UserOf(owner[a])
  BY DEF Active
<1> QED
  BY DEF Recorded, PeersServed, Others, UserOf

LEMMA LeasesStep ==
  ASSUME Deleting = FALSE, Recorded, [Next]_vars
  PROVE  [Leases!Next]_(Leases!lvars)
<1>0. /\ TypeOK /\ NoDeletion /\ RowsWhole /\ RunsForUser
      /\ FoundStays /\ IssuedIsRecorded /\ PeersServed
  BY DEF Recorded
<1> DEFINE Stutter == Leased' = Leased /\ Active' = Active
<1>1. ASSUME NEW k \in Key, NEW u \in User, Request(k, u) PROVE Stutter
  BY <1>0, <1>1, RequestEffect, ActiveKept DEF Leased
<1>2. ASSUME NEW k \in Key, Lookup(k) PROVE Stutter
  BY <1>0, <1>2, LookupEffect, ActiveKept DEF Leased
<1>3. ASSUME NEW k \in Key, SaveRow(k) PROVE Stutter
  <2>1. /\ Others(k) /\ UNCHANGED <<frame, owner>>
        /\ \A c \in Address : rows'[c].user = rows[c].user
    BY <1>0, <1>3, SaveEffect
  <2> QED
    BY <2>1, ActiveKept DEF Leased
<1>4. ASSUME NEW k \in Key, List(k) PROVE Stutter
  BY <1>0, <1>4, ListEffect, ActiveKept DEF Leased
<1>5. ASSUME NEW k \in Key, Create(k)
      PROVE  Stutter \/ \E a \in Address, u \in User : Leases!Lease(a, u)
  <2>1. /\ Others(k) /\ pc[k] = "create" /\ pc'[k] \in {"peer", "failed"}
        /\ UNCHANGED <<frame, owner, deletes>>
        /\ pc'[k] = "failed" => rows' = rows
        /\ pc'[k] = "peer" =>
              /\ frame[k].ip \in Address /\ ~Taken(frame[k].ip)
              /\ rows' = [rows EXCEPT ![frame[k].ip] =
                            [id |-> ids + 1, user |-> frame[k].user, key |-> k]]
    BY <1>0, <1>5, CreateEffect
  <2>2. Active' = Active
    BY <2>1, ActiveKept
  <2>3. CASE pc'[k] = "failed"
    BY <2>1, <2>2, <2>3 DEF Leased
  <2>4. CASE pc'[k] = "peer"
    <3>0. PICK a \in Address : a = frame[k].ip
      BY <2>1, <2>4
    <3>1. PICK u \in User : u = frame[k].user
      BY <1>0, <2>1 DEF RunsForUser
    <3>2. rows[a].user = NoUser
      BY <1>0, <2>1, <2>4, <3>0 DEF RowsWhole, NoRow
    <3>3. rows' = [rows EXCEPT ![a] = [id |-> ids + 1, user |-> u, key |-> k]]
      BY <2>1, <2>4, <3>0, <3>1
    <3>4. rows'[a].user = u /\ \A c \in Address : c # a => rows'[c] = rows[c]
      BY <1>0, <3>3 DEF TypeOK
    <3>5. Leased' = [Leased EXCEPT ![a] = u]
      BY <3>4 DEF Leased
    <3>6. Leases!Lease(a, u)
      BY <2>2, <3>2, <3>5 DEF Leases!Lease, Leased, Active
    <3> QED
      BY <3>6
  <2> QED
    BY <2>1, <2>3, <2>4
<1>6. ASSUME NEW k \in Key, AddPeer(k)
      PROVE  Stutter \/ \E a \in Address : Leases!Serve(a)
  <2>1. /\ Others(k) /\ pc[k] = "peer" /\ pc'[k] \in {"served", "failed"}
        /\ UNCHANGED <<frame, rows, deletes>>
        /\ pc'[k] = "failed" => owner' = owner
        /\ pc'[k] = "served" => owner' = [owner EXCEPT ![frame[k].ip] = k]
        /\ frame[k].ip \in Address
    BY <1>0, <1>6, PeerEffect
  <2>2. CASE pc'[k] = "failed"
    BY <2>1, <2>2, ActiveKept DEF Leased
  <2>3. CASE pc'[k] = "served"
    <3>0. PICK a \in Address : a = frame[k].ip
      BY <2>1
    <3>1. /\ Taken(a) /\ rows[a].user = frame[k].user /\ rows[a].user \in User
      BY <1>0, <2>1, <3>0 DEF IssuedIsRecorded, RowsWhole
    <3>2. owner'[a] = k /\ \A b \in Address : b # a => owner'[b] = owner[b]
      BY <1>0, <2>1, <2>3, <3>0 DEF TypeOK
    <3>3. UserOf(owner[a])' = rows[a].user
      BY <2>1, <3>1, <3>2 DEF UserOf
    <3>4. \A b \in Address : b # a => UserOf(owner[b])' = UserOf(owner[b])
      BY <2>1, <3>2 DEF UserOf
    <3>5. Active' = [Active EXCEPT ![a] = Leased[a]]
      BY <2>1, <3>3, <3>4 DEF Active, Leased
    <3>6. Leases!Serve(a)
      BY <2>1, <3>1, <3>5 DEF Leases!Serve, Leased, Active
    <3> QED
      BY <2>1, <3>6
  <2> QED
    BY <2>1, <2>2, <2>3
<1>7. ASSUME NEW u \in User, DeleteRows(u) \/ DeleteUser(u) PROVE Stutter
  BY <1>0, <1>7 DEF DeleteRows, DeleteUser, NoDeletion
<1>8. ASSUME Restart PROVE Stutter \/ Leases!Restart
  <2>1. CASE owner' = owner
    BY <1>8, <2>1 DEF Restart, Leased, Active, UserOf
  <2>2. CASE owner' = [a \in Address |-> NoKey]
    BY <1>8, <2>2 DEF Restart, Leases!Restart, UserOf
  <2> QED
    BY <1>8, <2>1, <2>2 DEF Restart
<1>9. ASSUME UNCHANGED vars PROVE Stutter
  BY <1>9 DEF vars, Leased, Active, UserOf
<1>10. Stutter \/ Leases!Next
  BY <1>1, <1>2, <1>3, <1>4, <1>5, <1>6, <1>7, <1>8, <1>9 DEF Next, Step, Leases!Next
<1> QED
  BY <1>10 DEF Leases!lvars, Leased, Active

(* While nobody is deleted, the table and the device implement AddressLease: *)
(* an address is leased once, stays with its user, and the device accepts it *)
(* only from a key of that user, whatever races, fails or is cut off.        *)
THEOREM ImplementsLease == Deleting = FALSE => (Spec => LeaseSpec)
<1> SUFFICES ASSUME Deleting = FALSE PROVE Spec => LeaseSpec
  OBVIOUS
<1>1. Spec => []Recorded
  BY RecordedAlways
<1>2. Recorded /\ [Next]_vars => [Leases!Next]_(Leases!lvars)
  BY LeasesStep
<1> QED
  BY LeasesInit, <1>1, <1>2, PTL DEF Spec, LeaseSpec, Leases!Spec

------------------------------------------------------------------------------
(* Users whose requests do not overlap *)

Solo ==
  \A j, k \in Key :
    pc[j] \in Running /\ pc[k] \in Running /\ frame[j].user = frame[k].user => j = k

(* A step of a request that is running. *)
LEMMA StepEffect ==
  ASSUME TypeOK, NEW k \in Key, Step(k)
  PROVE  Others(k) /\ pc[k] \in Running /\ frame'[k].user = frame[k].user
<1>1. CASE SaveRow(k)
  BY <1>1 DEF SaveRow, Goto, TypeOK, Others
<1> QED
  BY <1>1, LookupEffect, ListEffect, CreateEffect, PeerEffect DEF Step

LEMMA SoloStep ==
  ASSUME Overlapping = FALSE, TypeOK, Solo, [Next]_vars
  PROVE  Solo'
<1>1. ASSUME NEW k \in Key, NEW u \in User, Request(k, u) PROVE Solo'
  <2>1. /\ Others(k) /\ frame'[k].user = u
        /\ pc[k] = "idle" /\ pc'[k] = "lookup"
    BY <1>1, RequestEffect
  <2>2. \A j \in Key : ~(pc[j] \in Running /\ frame[j].user = u)
    BY <1>1 DEF Request, Requesting
  <2> QED
    BY <2>1, <2>2 DEF Solo, Others
<1>2. ASSUME NEW k \in Key, Step(k) PROVE Solo'
  BY <1>2, StepEffect DEF Solo, Others
<1>3. ASSUME NEW u \in User, DeleteRows(u) \/ DeleteUser(u) PROVE Solo'
  BY <1>3 DEF DeleteRows, DeleteUser, Solo
<1>4. CASE Restart
  BY <1>4 DEF Restart, Solo, TypeOK
<1>5. CASE UNCHANGED vars
  BY <1>5 DEF vars, Solo
<1> QED
  BY <1>1, <1>2, <1>3, <1>4, <1>5 DEF Next

(* A request that is to create a row has found none of its user, and one     *)
(* that is to save the row it has found knows of no other.                   *)
LookedUp ==
  \A k \in Key :
    /\ pc[k] \in {"list", "create"} => RowsOf(frame[k].user) = {}
    /\ pc[k] = "save" => RowsOf(frame[k].user) \subseteq {frame[k].ip}

OneRow == Solo /\ LookedUp /\ OneAddressPerUser

(* A row is written at address a for user u, who has no other.               *)
LEMMA WriteOneRow ==
  ASSUME TypeOK, OneRow, NEW k \in Key, pc[k] \in Running, pc'[k] \notin {"save", "list", "create"},
         Others(k), frame' = frame, NEW a \in Address, RowsOf(frame[k].user) \subseteq {a},
         \A b \in Address : b # a => rows'[b] = rows[b],
         rows'[a] = rows[a] \/ rows'[a].user = frame[k].user
  PROVE  LookedUp' /\ OneAddressPerUser'
<1>1. OneAddressPerUser'
  <2> SUFFICES ASSUME NEW b \in Address, NEW c \in Address, Taken(b)', Taken(c)',
                      rows'[b].user = rows'[c].user, b # c
               PROVE  FALSE
    BY DEF OneAddressPerUser
  <2>1. CASE b # a /\ c # a
    BY <2>1 DEF OneRow, OneAddressPerUser, Taken
  <2>2. ASSUME NEW d \in Address, d # a, Taken(d)', rows'[d].user = rows'[a].user, Taken(a)'
        PROVE  FALSE
    <3>1. CASE rows'[a] = rows[a]
      BY <2>2, <3>1 DEF OneRow, OneAddressPerUser, Taken
    <3>2. CASE rows'[a].user = frame[k].user
      BY <2>2, <3>2 DEF RowsOf, Taken
    <3> QED
      BY <3>1, <3>2
  <2> QED
    BY <2>1, <2>2
<1>2. ASSUME NEW j \in Key, pc'[j] \in {"save", "list", "create"}
      PROVE  RowsOf(frame[j].user)' \subseteq RowsOf(frame[j].user)
  <2>1. j # k /\ pc'[j] = pc[j] /\ frame'[j] = frame[j]
    BY <1>2 DEF Others
  <2>2. frame[j].user # frame[k].user
    BY <1>2, <2>1 DEF OneRow, Solo
  <2> QED
    BY <2>1, <2>2 DEF RowsOf, Taken
<1>3. LookedUp'
  <2> SUFFICES ASSUME NEW j \in Key
               PROVE  /\ pc'[j] \in {"list", "create"} => RowsOf(frame[j].user)' = {}
                      /\ pc'[j] = "save" => RowsOf(frame[j].user)' \subseteq {frame'[j].ip}
    BY DEF LookedUp
  <2>1. pc'[j] \in {"save", "list", "create"} => j # k /\ pc'[j] = pc[j]
    BY DEF Others
  <2> QED
    BY <1>2, <2>1 DEF OneRow, LookedUp
<1> QED
  BY <1>1, <1>3

LEMMA OneRowStep ==
  ASSUME Overlapping = FALSE, "lookup" \notin Faults, TypeOK, OneRow, [Next]_vars
  PROVE  OneRow'
<1>0. Solo /\ LookedUp /\ OneAddressPerUser /\ Solo'
  BY SoloStep DEF OneRow
<1> SUFFICES LookedUp' /\ OneAddressPerUser'
  BY <1>0 DEF OneRow
<1>1. ASSUME NEW k \in Key, NEW u \in User, Request(k, u) PROVE LookedUp' /\ OneAddressPerUser'
  BY <1>0, <1>1, RequestEffect DEF LookedUp, OneAddressPerUser, Others, RowsOf, Taken
<1>2. ASSUME NEW k \in Key, Lookup(k) PROVE LookedUp' /\ OneAddressPerUser'
  <2>1. /\ Others(k) /\ frame'[k].user = frame[k].user /\ rows' = rows
        /\ pc'[k] \in {"save", "list"}
        /\ pc'[k] = "save" => frame'[k].ip \in RowsOf(frame[k].user)
    BY <1>2, LookupEffect
  <2>2. pc'[k] = "list" => RowsOf(frame[k].user) = {}
    BY <1>2 DEF Lookup, Goto, TypeOK
  <2>3. pc'[k] = "save" => RowsOf(frame[k].user) \subseteq {frame'[k].ip}
    BY <1>0, <2>1 DEF OneAddressPerUser, RowsOf
  <2>4. \A u : RowsOf(u)' = RowsOf(u)
    BY <2>1 DEF RowsOf, Taken
  <2>5. LookedUp'
    BY <1>0, <2>1, <2>2, <2>3, <2>4 DEF LookedUp, Others
  <2> QED
    BY <1>0, <2>1, <2>5 DEF OneAddressPerUser, Taken
<1>3. ASSUME NEW k \in Key, SaveRow(k) PROVE LookedUp' /\ OneAddressPerUser'
  <2>1. /\ Others(k) /\ pc[k] = "save" /\ pc'[k] = "peer" /\ frame' = frame
        /\ frame[k].ip \in Address
    BY <1>3 DEF SaveRow, Goto, TypeOK, Others
  <2>2. rows' = rows \/ rows' = [rows EXCEPT ![frame[k].ip] = FrameRow(k)]
    BY <1>3 DEF SaveRow, Saved
  <2>3. /\ \A b \in Address : b # frame[k].ip => rows'[b] = rows[b]
        /\ rows'[frame[k].ip] = rows[frame[k].ip] \/ rows'[frame[k].ip].user = frame[k].user
    BY <2>1, <2>2 DEF TypeOK, FrameRow
  <2>4. RowsOf(frame[k].user) \subseteq {frame[k].ip}
    BY <1>0, <2>1 DEF LookedUp
  <2> QED
    BY <2>1, <2>3, <2>4, WriteOneRow
<1>4. ASSUME NEW k \in Key, List(k) PROVE LookedUp' /\ OneAddressPerUser'
  <2>1. /\ Others(k) /\ frame'[k].user = frame[k].user /\ rows' = rows
        /\ pc[k] = "list" /\ pc'[k] \in {"create", "failed"}
    BY <1>4, ListEffect
  <2> QED
    BY <1>0, <2>1 DEF LookedUp, OneAddressPerUser, Others, RowsOf, Taken
<1>5. ASSUME NEW k \in Key, Create(k) PROVE LookedUp' /\ OneAddressPerUser'
  <2>1. /\ Others(k) /\ pc[k] = "create" /\ pc'[k] \in {"peer", "failed"}
        /\ frame' = frame /\ frame[k].ip \in Address
    BY <1>5 DEF Create, Goto, TypeOK, Others
  <2>2. rows' = rows
        \/ rows' = [rows EXCEPT ![frame[k].ip] =
                      [id |-> ids + 1, user |-> frame[k].user, key |-> k]]
    BY <1>5 DEF Create
  <2>3. /\ \A b \in Address : b # frame[k].ip => rows'[b] = rows[b]
        /\ rows'[frame[k].ip] = rows[frame[k].ip] \/ rows'[frame[k].ip].user = frame[k].user
    BY <2>1, <2>2 DEF TypeOK
  <2>4. RowsOf(frame[k].user) \subseteq {frame[k].ip}
    BY <1>0, <2>1 DEF LookedUp
  <2> QED
    BY <2>1, <2>3, <2>4, WriteOneRow
<1>6. ASSUME NEW k \in Key, AddPeer(k) PROVE LookedUp' /\ OneAddressPerUser'
  BY <1>0, <1>6, PeerEffect DEF LookedUp, OneAddressPerUser, Others, RowsOf, Taken
<1>7. ASSUME NEW u \in User, DeleteRows(u) PROVE LookedUp' /\ OneAddressPerUser'
  <2>1. \A a \in Address : rows'[a] = rows[a] \/ ~Taken(a)'
    BY <1>7 DEF DeleteRows, TypeOK, Taken, NoRow
  <2>2. pc' = pc /\ frame' = frame
    BY <1>7 DEF DeleteRows
  <2>3. \A v : RowsOf(v)' \subseteq RowsOf(v)
    BY <2>1 DEF RowsOf, Taken
  <2>4. LookedUp'
    BY <1>0, <2>2, <2>3 DEF LookedUp
  <2>5. OneAddressPerUser'
    BY <1>0, <2>1 DEF OneAddressPerUser, Taken
  <2> QED
    BY <2>4, <2>5
<1>8. ASSUME NEW u \in User, DeleteUser(u) PROVE LookedUp' /\ OneAddressPerUser'
  BY <1>0, <1>8 DEF DeleteUser, LookedUp, OneAddressPerUser, RowsOf, Taken
<1>9. CASE Restart
  BY <1>0, <1>9 DEF Restart, TypeOK, LookedUp, OneAddressPerUser, RowsOf, Taken
<1>10. CASE UNCHANGED vars
  BY <1>0, <1>10 DEF vars, LookedUp, OneAddressPerUser, RowsOf, Taken
<1> QED
  BY <1>1, <1>2, <1>3, <1>4, <1>5, <1>6, <1>7, <1>8, <1>9, <1>10 DEF Next, Step

(* A user whose requests do not overlap, and whose lookups do not fail, has  *)
(* at most one address, also while administrators delete users between the   *)
(* statements of a request, saves and creations fail, and the server dies.   *)
THEOREM OneAddress ==
  Overlapping = FALSE /\ "lookup" \notin Faults => (Spec => []OneAddressPerUser)
<1> SUFFICES ASSUME Overlapping = FALSE, "lookup" \notin Faults PROVE Spec => []OneAddressPerUser
  OBVIOUS
<1>1. Init => OneRow
  BY DEF Init, OneRow, Solo, LookedUp, OneAddressPerUser, Taken, NoRow
<1>2. TypeOK /\ OneRow /\ [Next]_vars => OneRow'
  BY OneRowStep
<1>3. OneRow => OneAddressPerUser
  BY DEF OneRow
<1> QED
  BY <1>1, <1>2, <1>3, AllocationTypes, PTL DEF Spec

------------------------------------------------------------------------------
(* The key stored with an address *)

UniqueIds ==
  /\ \A a \in Address : rows[a].id <= ids
  /\ \A a, b \in Address : Taken(a) /\ rows[a].id = rows[b].id => a = b

(* A request of a user who is not astray is her only one, works on the row   *)
(* that a lookup would find, and has stored its key before it configures the *)
(* device.                                                                   *)
Undisturbed(k) ==
  /\ \A j \in Key : pc[j] \in Running /\ frame[j].user = frame[k].user => j = k
  /\ pc[k] \in {"list", "create"} => RowsOf(frame[k].user) = {}
  /\ pc[k] \in {"save", "peer"} => FirstRow(frame[k].user, frame[k].ip)
  /\ pc[k] = "peer" => rows[frame[k].ip].key = k

Accepted ==
  /\ UniqueIds
  /\ \A k \in Key : pc[k] \in Running /\ frame[k].user \notin astray => Undisturbed(k)
  /\ StoredKeyIsAccepted

(* The rows of a user, unless the step writes one of them.                   *)
LEMMA RowsKept ==
  ASSUME NEW v, \A a \in Address : rows'[a] = rows[a] \/ (a \notin RowsOf(v) /\ a \notin RowsOf(v)')
  PROVE  /\ RowsOf(v)' = RowsOf(v)
         /\ \A a \in Address : /\ FirstRow(v, a)' <=> FirstRow(v, a)
                               /\ FirstRow(v, a) => rows'[a] = rows[a]
<1>1. RowsOf(v)' = RowsOf(v)
  BY DEF RowsOf, Taken
<1>2. \A a \in RowsOf(v) : rows'[a] = rows[a]
  BY DEF RowsOf
<1> QED
  BY <1>1, <1>2 DEF FirstRow

(* Where a request writes, the row is or becomes its user's.                 *)
LEMMA WritesOwn ==
  ASSUME Recorded, NEW k \in Key, Step(k), NEW a \in Address
  PROVE  /\ rows'[a] # rows[a] => /\ rows'[a].user = frame[k].user
                                  /\ Taken(a) => rows[a].user = frame[k].user
         /\ owner'[a] # owner[a] => rows[a].user = frame[k].user
<1>0. TypeOK /\ FoundStays /\ IssuedIsRecorded
  BY DEF Recorded
<1>1. CASE Lookup(k) \/ List(k)
  BY <1>1 DEF Lookup, List
<1>2. CASE SaveRow(k)
  <2>1. /\ Taken(frame[k].ip) /\ rows[frame[k].ip].user = frame[k].user /\ frame[k].ip \in Address
    BY <1>0, <1>2 DEF SaveRow, FoundStays, TypeOK
  <2>2. rows' = rows \/ rows' = [rows EXCEPT ![frame[k].ip] = FrameRow(k)]
    BY <1>2 DEF SaveRow, Saved
  <2> QED
    BY <1>0, <1>2, <2>1, <2>2 DEF SaveRow, FrameRow, TypeOK
<1>3. CASE Create(k)
  <2>1. frame[k].ip \in Address
    BY <1>0, <1>3 DEF Create, TypeOK
  <2> QED
    BY <1>0, <1>3, <2>1 DEF Create, TypeOK
<1>4. CASE AddPeer(k)
  <2>1. rows[frame[k].ip].user = frame[k].user
    BY <1>0, <1>4 DEF AddPeer, IssuedIsRecorded
  <2> QED
    BY <1>0, <1>4, <2>1 DEF AddPeer, TypeOK
<1> QED
  BY <1>1, <1>2, <1>3, <1>4 DEF Step

(* The step of a request does nothing to other users.                        *)
LEMMA OthersKept ==
  ASSUME Recorded, Accepted, NEW k \in Key, Step(k)
  PROVE  /\ \A j \in Key : j # k /\ pc'[j] \in Running /\ frame'[j].user \notin astray'
              => Undisturbed(j)'
         /\ \A v \in User \ astray' : v # frame[k].user =>
              \A a \in Address : FirstRow(v, a)' /\ ~Requesting(v)' => owner'[a] = rows'[a].key
<1>0. /\ TypeOK /\ Others(k) /\ pc[k] \in Running /\ frame'[k].user = frame[k].user
      /\ astray \subseteq astray'
  BY StepEffect, AstrayGrows DEF Recorded
<1>1. ASSUME NEW v, v # frame[k].user
      PROVE  /\ RowsOf(v)' = RowsOf(v)
             /\ \A a \in Address : /\ FirstRow(v, a)' <=> FirstRow(v, a)
                                   /\ FirstRow(v, a) => rows'[a] = rows[a] /\ owner'[a] = owner[a]
  <2>1. ASSUME NEW a \in Address, rows'[a] # rows[a] PROVE a \notin RowsOf(v) /\ a \notin RowsOf(v)'
    <3>1. rows'[a].user = frame[k].user /\ (Taken(a) => rows[a].user = frame[k].user)
      BY <2>1, WritesOwn
    <3> QED
      BY <1>1, <3>1 DEF RowsOf
  <2>2. \A a \in Address : FirstRow(v, a) => owner'[a] = owner[a]
    BY <1>1, WritesOwn DEF FirstRow, RowsOf
  <2> QED
    BY <2>1, <2>2, RowsKept
<1>2. ASSUME NEW j \in Key, j # k, pc'[j] \in Running, frame'[j].user \notin astray'
      PROVE  Undisturbed(j)'
  <2>1. pc'[j] = pc[j] /\ frame'[j] = frame[j]
    BY <1>0, <1>2 DEF Others
  <2>2. Undisturbed(j)
    BY <1>0, <1>2, <2>1 DEF Accepted
  <2>3. frame[j].user # frame[k].user
    BY <1>0, <1>2, <2>2 DEF Undisturbed
  <2>4. pc[j] \in {"save", "peer"} => frame[j].ip \in Address
    BY <1>0 DEF TypeOK
  <2>5. \A i \in Key : pc'[i] \in Running /\ frame'[i].user = frame'[j].user => i = j
    BY <1>0, <2>1, <2>2, <2>3 DEF Undisturbed, Others
  <2>6. pc[j] = "peer" => rows'[frame[j].ip].key = j
    BY <1>1, <2>2, <2>3, <2>4 DEF Undisturbed
  <2>7. pc[j] \in {"save", "peer"} => FirstRow(frame[j].user, frame[j].ip)'
    <3> SUFFICES ASSUME pc[j] \in {"save", "peer"} PROVE FirstRow(frame[j].user, frame[j].ip)'
      BY <2>1
    <3>0. PICK v : v = frame[j].user
      OBVIOUS
    <3>1. PICK a \in Address : a = frame[j].ip
      BY <2>4
    <3>2. FirstRow(v, a)
      BY <2>2, <3>0, <3>1 DEF Undisturbed
    <3>3. FirstRow(v, a)'
      BY <1>1, <2>3, <3>0, <3>1, <3>2
    <3> QED
      BY <2>1, <3>0, <3>1, <3>3 DEF FirstRow, RowsOf, Taken
  <2>8. pc[j] \in {"list", "create"} => RowsOf(frame[j].user)' = {}
    <3>1. PICK v : v = frame[j].user
      OBVIOUS
    <3>2. RowsOf(v)' = RowsOf(v)
      BY <1>1, <2>3, <3>1
    <3> QED
      BY <2>1, <2>2, <3>1, <3>2 DEF Undisturbed, RowsOf, Taken
  <2> QED
    BY <2>1, <2>5, <2>6, <2>7, <2>8 DEF Undisturbed
<1>3. ASSUME NEW v \in User \ astray', v # frame[k].user, NEW a \in Address,
             FirstRow(v, a)', ~Requesting(v)'
      PROVE  owner'[a] = rows'[a].key
  <2>1. ~Requesting(v)
    BY <1>0, <1>3 DEF Requesting, Others
  <2>2. owner[a] = rows[a].key
    BY <1>0, <1>1, <1>3, <2>1 DEF Accepted, StoredKeyIsAccepted
  <2> QED
    BY <1>1, <1>3, <2>2
<1> QED
  BY <1>2, <1>3

LEMMA UniqueStep ==
  ASSUME Recorded, UniqueIds, NEW k \in Key, Step(k)
  PROVE  UniqueIds'
<1>0. TypeOK /\ FoundStays
  BY DEF Recorded
<1>1. CASE SaveRow(k)
  <2>1. \A a \in Address : rows'[a].id = rows[a].id
    BY <1>0, <1>1, SaveEffect
  <2> QED
    BY <1>1, <2>1 DEF SaveRow, UniqueIds, Taken
<1>2. CASE Create(k) /\ pc'[k] = "peer"
  <2>1. PICK b \in Address : b = frame[k].ip
    BY <1>0, <1>2, CreateEffect
  <2>2. /\ rows' = [rows EXCEPT ![b] = [id |-> ids + 1, user |-> frame[k].user, key |-> k]]
        /\ ids' = ids + 1
    BY <1>0, <1>2, <2>1 DEF Create, Goto, TypeOK
  <2>3. rows'[b].id = ids + 1 /\ \A a \in Address : a # b => rows'[a] = rows[a]
    BY <1>0, <2>2 DEF TypeOK
  <2>4. ids \in Nat /\ \A a \in Address : rows[a].id \in Nat
    BY <1>0 DEF TypeOK, Row
  <2> QED
    BY <2>2, <2>3, <2>4 DEF UniqueIds, Taken
<1>3. CASE UNCHANGED <<rows, ids>>
  BY <1>3 DEF UniqueIds, Taken
<1> QED
  BY <1>0, <1>1, <1>2, <1>3, CreateEffect DEF Step, Lookup, List, Create, AddPeer, Goto, TypeOK

LEMMA AcceptedStep ==
  ASSUME Deleting = FALSE, Recorded, Accepted, [Next]_vars
  PROVE  Accepted'
<1>0. TypeOK /\ RunsForUser /\ RowsWhole /\ FoundStays /\ NoDeletion
  BY DEF Recorded
<1>1. ASSUME NEW k \in Key, NEW u \in User, Request(k, u) PROVE Accepted'
  <2>1. /\ Others(k) /\ frame'[k].user = u /\ pc[k] = "idle" /\ pc'[k] = "lookup"
        /\ UNCHANGED <<rows, owner, ids>>
    BY <1>0, <1>1, RequestEffect DEF Request
  <2>2. /\ Requesting(u) => astray' = astray \cup {u}
        /\ ~Requesting(u) => astray' = astray \ {u}
    BY <1>1 DEF Request
  <2>3. UniqueIds'
    BY <2>1 DEF Accepted, UniqueIds, Taken
  <2>4. ASSUME NEW j \in Key, pc'[j] \in Running, frame'[j].user \notin astray' PROVE Undisturbed(j)'
    <3>1. CASE j = k
      <4>1. ~Requesting(u)
        BY <2>1, <2>2, <2>4, <3>1
      <4> QED
        BY <2>1, <3>1, <4>1 DEF Undisturbed, Others, Requesting
    <3>2. CASE j # k
      <4>1. pc'[j] = pc[j] /\ frame'[j] = frame[j]
        BY <2>1, <3>2 DEF Others
      <4>2. frame[j].user # u
        BY <2>2, <2>4, <4>1 DEF Requesting
      <4>3. Undisturbed(j)
        BY <2>2, <2>4, <4>1, <4>2 DEF Accepted
      <4> QED
        BY <2>1, <4>1, <4>2, <4>3 DEF Undisturbed, Others, FirstRow, RowsOf, Taken
    <3> QED
      BY <3>1, <3>2
  <2>5. StoredKeyIsAccepted'
    <3> SUFFICES ASSUME NEW v \in User, v \notin astray', NEW a \in Address,
                        FirstRow(v, a)', ~Requesting(v)'
                 PROVE  owner'[a] = rows'[a].key
      BY DEF StoredKeyIsAccepted
    <3>1. v # u
      BY <2>1 DEF Requesting
    <3>2. ~Requesting(v) /\ v \notin astray
      BY <2>1, <2>2, <3>1 DEF Requesting, Others
    <3>3. FirstRow(v, a)
      BY <2>1 DEF FirstRow, RowsOf, Taken
    <3> QED
      BY <2>1, <3>2, <3>3 DEF Accepted, StoredKeyIsAccepted
  <2> QED
    BY <2>3, <2>4, <2>5 DEF Accepted
<1>2. ASSUME NEW k \in Key, Step(k) PROVE Accepted'
  <2>0. PICK u \in User : u = frame[k].user
    BY <1>0, <1>2, StepEffect DEF RunsForUser
  <2>1. /\ Others(k) /\ pc[k] \in Running /\ frame'[k].user = u
        /\ astray' = astray \/ astray' = astray \cup {u}
    BY <1>0, <1>2, <2>0, StepEffect, AstrayGrows
  <2>2. u \notin astray' => Undisturbed(k)
    BY <2>0, <2>1 DEF Accepted
  <2>3. u \notin astray' => \A j \in Key : pc'[j] \in Running /\ frame'[j].user = u => j = k
    BY <2>0, <2>1, <2>2 DEF Undisturbed, Others
  <2> DEFINE Own == /\ pc'[k] \in {"list", "create"} => RowsOf(u)' = {}
                    /\ pc'[k] \in {"save", "peer"} => FirstRow(u, frame[k].ip)'
                    /\ pc'[k] = "peer" => rows'[frame'[k].ip].key = k
                    /\ pc'[k] \notin Running =>
                         \A a \in Address : FirstRow(u, a)' => owner'[a] = rows'[a].key
  <2>4. ASSUME u \notin astray' PROVE Own
    <3>0. Undisturbed(k)
      BY <2>2, <2>4
    <3>1. CASE Lookup(k)
      <4>1. UNCHANGED rows
        BY <3>1 DEF Lookup
      <4>2. CASE \E a \in Address :
                   /\ FirstRow(frame[k].user, a)
                   /\ frame' = [frame EXCEPT ![k].ip = a, ![k].id = rows[a].id]
                   /\ Goto(k, "save")
        <5>1. PICK a \in Address :
                /\ FirstRow(u, a)
                /\ frame' = [frame EXCEPT ![k].ip = a, ![k].id = rows[a].id]
                /\ Goto(k, "save")
          BY <2>0, <4>2
        <5>2. rows[a].id \in Nat
          BY <1>0 DEF TypeOK, Row
        <5>3. frame'[k].ip = a
          BY <1>0, <5>1, <5>2, FoundFrame DEF TypeOK
        <5>4. pc'[k] = "save"
          BY <1>0, <5>1 DEF Goto, TypeOK
        <5> QED
          BY <4>1, <5>1, <5>3, <5>4 DEF FirstRow, RowsOf, Taken
      <4>3. CASE Goto(k, "list") /\ RowsOf(u) = {}
        <5>1. pc'[k] = "list"
          BY <1>0, <4>3 DEF Goto, TypeOK
        <5> QED
          BY <4>1, <4>3, <5>1 DEF RowsOf, Taken
      <4>4. ~Stray(k)
        BY <2>0, <2>4 DEF Stray
      <4> QED
        BY <2>0, <3>1, <4>2, <4>3, <4>4 DEF Lookup
    <3>2. CASE SaveRow(k)
      <4>1. /\ pc[k] = "save" /\ pc'[k] = "peer" /\ frame' = frame
            /\ \A b \in Address : rows'[b].id = rows[b].id /\ rows'[b].user = rows[b].user
        BY <1>0, <3>2, SaveEffect
      <4>2. PICK a \in Address : a = frame[k].ip
        BY <1>0, <4>1 DEF TypeOK
      <4>3. FirstRow(u, a)
        BY <2>0, <3>0, <4>1, <4>2 DEF Undisturbed
      <4>4. FirstRow(u, a)'
        BY <4>1, <4>3 DEF FirstRow, RowsOf, Taken
      <4>5. rows' = [rows EXCEPT ![a] = FrameRow(k)]
        BY <2>0, <2>4, <3>2, <4>2 DEF SaveRow, Saved, Stray
      <4>6. rows'[a].key = k
        BY <1>0, <4>5 DEF TypeOK, FrameRow
      <4> QED
        BY <4>1, <4>2, <4>4, <4>6 DEF FirstRow, RowsOf, Taken
    <3>3. CASE List(k)
      <4>1. pc[k] = "list" /\ pc'[k] \in {"create", "failed"} /\ rows' = rows
        BY <1>0, <3>3, ListEffect
      <4>2. RowsOf(u) = {}
        BY <2>0, <3>0, <4>1 DEF Undisturbed
      <4> QED
        BY <4>1, <4>2 DEF RowsOf, Taken, FirstRow
    <3>4. CASE Create(k)
      <4>1. /\ pc[k] = "create" /\ pc'[k] \in {"peer", "failed"} /\ frame' = frame
            /\ pc'[k] = "failed" => rows' = rows
            /\ pc'[k] = "peer" =>
                  /\ frame[k].ip \in Address
                  /\ Taken(frame[k].ip)'
                  /\ rows' = [rows EXCEPT ![frame[k].ip] =
                                [id |-> ids + 1, user |-> frame[k].user, key |-> k]]
        BY <1>0, <3>4, CreateEffect
      <4>2. RowsOf(u) = {}
        BY <2>0, <3>0, <4>1 DEF Undisturbed
      <4>3. CASE pc'[k] = "failed"
        BY <4>1, <4>2, <4>3 DEF RowsOf, Taken, FirstRow
      <4>4. CASE pc'[k] = "peer"
        <5>1. PICK a \in Address : a = frame[k].ip
          BY <4>1, <4>4
        <5>2. /\ rows'[a].user = u /\ rows'[a].key = k /\ rows'[a].id = ids + 1 /\ Taken(a)'
              /\ \A b \in Address : b # a => rows'[b] = rows[b]
          BY <1>0, <2>0, <4>1, <4>4, <5>1 DEF TypeOK
        <5>3. RowsOf(u)' = {a}
          BY <4>2, <5>2 DEF RowsOf, Taken
        <5>4. FirstRow(u, a)'
          BY <1>0, <5>2, <5>3 DEF FirstRow, TypeOK
        <5> QED
          BY <4>1, <4>4, <5>1, <5>2, <5>4 DEF FirstRow, RowsOf, Taken
      <4> QED
        BY <4>1, <4>3, <4>4
    <3>5. CASE AddPeer(k)
      <4>1. /\ pc[k] = "peer" /\ pc'[k] = "served" /\ UNCHANGED <<frame, rows>>
            /\ owner' = [owner EXCEPT ![frame[k].ip] = k]
        BY <1>0, <2>0, <2>4, <3>5 DEF AddPeer, Goto, TypeOK, Stray
      <4>2. PICK a \in Address : a = frame[k].ip
        BY <1>0, <4>1 DEF TypeOK
      <4>3. FirstRow(u, a) /\ rows[a].key = k
        BY <2>0, <3>0, <4>1, <4>2 DEF Undisturbed
      <4>4. owner'[a] = k
        BY <1>0, <4>1, <4>2 DEF TypeOK
      <4>5. ASSUME NEW b \in Address, FirstRow(u, b)' PROVE b = a
        <5>1. FirstRow(u, b)
          BY <4>1, <4>5 DEF FirstRow, RowsOf, Taken
        <5>2. rows[a].id \in Nat /\ rows[b].id \in Nat
          BY <1>0 DEF TypeOK, Row
        <5>3. rows[a].id = rows[b].id /\ Taken(a)
          BY <4>3, <5>1, <5>2 DEF FirstRow, RowsOf
        <5> QED
          BY <5>3 DEF Accepted, UniqueIds
      <4> QED
        BY <4>1, <4>3, <4>4, <4>5
    <3> QED
      BY <1>2, <3>1, <3>2, <3>3, <3>4, <3>5 DEF Step
  <2> HIDE DEF Own
  <2>5. UniqueIds'
    BY <1>2, UniqueStep DEF Accepted
  <2>6. ASSUME NEW j \in Key, pc'[j] \in Running, frame'[j].user \notin astray' PROVE Undisturbed(j)'
    <3>1. CASE j # k
      BY <1>2, <2>6, <3>1, OthersKept
    <3>2. CASE j = k
      BY <2>1, <2>3, <2>4, <2>6, <3>2 DEF Own, Undisturbed, FirstRow, RowsOf, Taken
    <3> QED
      BY <3>1, <3>2
  <2>7. StoredKeyIsAccepted'
    <3> SUFFICES ASSUME NEW v \in User, v \notin astray', NEW a \in Address,
                        FirstRow(v, a)', ~Requesting(v)'
                 PROVE  owner'[a] = rows'[a].key
      BY DEF StoredKeyIsAccepted
    <3>1. CASE v # u
      BY <1>2, <2>0, <3>1, OthersKept
    <3>2. CASE v = u
      <4>1. pc'[k] \notin Running
        BY <2>1, <3>2 DEF Requesting
      <4>2. FirstRow(u, a)'
        BY <3>2
      <4> QED
        BY <2>4, <3>2, <4>1, <4>2 DEF Own
    <3> QED
      BY <3>1, <3>2
  <2> QED
    BY <2>5, <2>6, <2>7 DEF Accepted
<1>3. ASSUME NEW u \in User PROVE ~DeleteRows(u) /\ ~DeleteUser(u)
  BY <1>0 DEF DeleteRows, DeleteUser, NoDeletion
<1>4. CASE Restart
  <2>1. astray' = User /\ UNCHANGED <<rows, ids, frame>> /\ \A k \in Key : pc'[k] \notin Running
    BY <1>0, <1>4 DEF Restart, TypeOK
  <2> QED
    BY <2>1 DEF Accepted, UniqueIds, StoredKeyIsAccepted, Taken
<1>5. CASE UNCHANGED vars
  BY <1>5 DEF vars, Accepted, UniqueIds, Undisturbed, StoredKeyIsAccepted, FirstRow, RowsOf, Taken,
     Requesting
<1> QED
  BY <1>1, <1>2, <1>3, <1>4, <1>5 DEF Next

(* While nobody is deleted: a user whose last request began alone and was    *)
(* not disturbed by another of hers, by a lookup, save or peer that failed   *)
(* or by a restart is accepted by the device, at the address she is given,   *)
(* with the key that is stored with it; whatever was disturbed before, and   *)
(* whatever overlaps, fails or was cut off for other users.                  *)
THEOREM KeyAccepted == Deleting = FALSE => (Spec => []StoredKeyIsAccepted)
<1> SUFFICES ASSUME Deleting = FALSE PROVE Spec => []StoredKeyIsAccepted
  OBVIOUS
<1>1. Init => Accepted
  BY DEF Init, Accepted, UniqueIds, StoredKeyIsAccepted, FirstRow, RowsOf, Taken, NoRow
<1>2. Recorded /\ Accepted /\ [Next]_vars => Accepted'
  BY AcceptedStep
<1>3. Accepted => StoredKeyIsAccepted
  BY DEF Accepted
<1>4. Spec => []Recorded
  BY RecordedAlways
<1> QED
  BY <1>1, <1>2, <1>3, <1>4, PTL DEF Spec

==============================================================================
