-------------------------- MODULE AddressAllocation --------------------------
(***************************************************************************)
(* GET /api/config of the server: ConfigGenerator.GenerateForUser gives    *)
(* the user a key pair and an address of the server's subnet, recorded in  *)
(* the table allocated_ips, and adds the key as a peer of the WireGuard    *)
(* device.  Requests run concurrently with one another, with DELETE of     *)
(* users by an administrator, and with restarts of the server.  There is   *)
(* no lock and no transaction: every database statement and the call into  *)
(* the device is a step of its own.                                        *)
(*                                                                         *)
(* Every request generates a new key pair (getUserKeys), so a request is   *)
(* named by its key.  There is one server record.                          *)
(***************************************************************************)
EXTENDS Naturals

CONSTANTS
  User,        \* the users, all registered and logged in at the start
  NoUser,
  Address,     \* the assignable addresses of the subnet, in the order of the scan
  NoAddress,
  Key,         \* the key pairs generated: each is one request
  NoKey,
  Overlapping, \* TRUE: a user may issue a request while another of hers is running
  Deleting,    \* TRUE: the administrator may delete users
  Faults       \* which calls may fail

FaultKind == {"lookup", "save", "list", "create", "peer", "delete", "crash"}

ASSUME ConstantAssumption ==
  /\ NoUser \notin User
  /\ Address \subseteq Nat /\ NoAddress \notin Address
  /\ NoKey \notin Key
  /\ Overlapping \in BOOLEAN
  /\ Deleting \in BOOLEAN
  /\ Faults \subseteq FaultKind

VARIABLES
  users,   \* the users in the database
  rows,    \* allocated_ips, indexed by address (the index idx_server_ip is unique)
  ids,     \* the last primary key given to a row
  owner,   \* the device: the peer whose AllowedIPs contain the address
  pc,      \* where each request is
  frame,   \* the local variables of each request
  deletes, \* where the deletion of each user is
  astray   \* history: the users for whom, since the last of their requests that began alone,
           \* requests have overlapped, a lookup, save or peer has failed, or the server has died

vars == <<users, rows, ids, owner, pc, frame, deletes, astray>>

Row == [id : Nat, user : User \cup {NoUser}, key : Key \cup {NoKey}]
NoRow == [id |-> 0, user |-> NoUser, key |-> NoKey]

Taken(a) == rows[a].id # 0
RowsOf(u) == {a \in Address : Taken(a) /\ rows[a].user = u}

(* id is the primary key of the row the lookup returned, ip its address or   *)
(* the one chosen by the scan.                                               *)
Frame == [user : User \cup {NoUser}, ip : Address \cup {NoAddress}, id : Nat]
EmptyFrame == [user |-> NoUser, ip |-> NoAddress, id |-> 0]

Running == {"lookup", "save", "list", "create", "peer"}
Requesting(u) == \E k \in Key : pc[k] \in Running /\ frame[k].user = u

Init ==
  /\ users = User
  /\ rows = [a \in Address |-> NoRow]
  /\ ids = 0
  /\ owner = [a \in Address |-> NoKey]
  /\ pc = [k \in Key |-> "idle"]
  /\ frame = [k \in Key |-> EmptyFrame]
  /\ deletes = [u \in User |-> "idle"]
  /\ astray = {}

Goto(k, label) == pc' = [pc EXCEPT ![k] = label]

Stray(k) == astray' = astray \cup {frame[k].user}

------------------------------------------------------------------------------
(* GenerateForUser *)

(* AuthMiddleware only checks the token, which a deleted user still has; the *)
(* key pair is new whether or not the user already has a row.                *)
Request(k, u) ==
  /\ pc[k] = "idle"
  /\ Overlapping \/ ~Requesting(u)
  /\ frame' = [frame EXCEPT ![k].user = u]
  /\ Goto(k, "lookup")
  /\ astray' = IF Requesting(u) THEN astray \cup {u} ELSE astray \ {u}
  /\ UNCHANGED <<users, rows, ids, owner, deletes>>

(* First orders by the primary key. *)
FirstRow(u, a) == a \in RowsOf(u) /\ \A b \in RowsOf(u) : rows[a].id <= rows[b].id

(* Variant: the row of any user will do. *)
LookupAny(k) ==
  /\ pc[k] = "lookup"
  /\ \/ \E a \in Address :
          /\ Taken(a)
          /\ frame' = [frame EXCEPT ![k].ip = a, ![k].id = rows[a].id]
          /\ Goto(k, "save")
     \/ /\ \A a \in Address : ~Taken(a)
        /\ Goto(k, "list") /\ UNCHANGED frame
  /\ UNCHANGED <<users, rows, ids, owner, deletes, astray>>

(* Variant: only the key is looked up, never found. *)
LookupNothing(k) ==
  /\ pc[k] = "lookup" /\ Goto(k, "list")
  /\ UNCHANGED <<users, rows, ids, owner, frame, deletes, astray>>

(* A failed query is taken for a user without an address. *)
Lookup(k) ==
  /\ pc[k] = "lookup"
  /\ \/ \E a \in Address :
          /\ FirstRow(frame[k].user, a)
          /\ frame' = [frame EXCEPT ![k].ip = a, ![k].id = rows[a].id]
          /\ Goto(k, "save") /\ UNCHANGED astray
     \/ /\ Goto(k, "list") /\ UNCHANGED frame
        /\ \/ RowsOf(frame[k].user) = {} /\ UNCHANGED astray
           \/ "lookup" \in Faults /\ RowsOf(frame[k].user) # {} /\ Stray(k)
  /\ UNCHANGED <<users, rows, ids, owner, deletes>>

FrameRow(k) == [id |-> frame[k].id, user |-> frame[k].user, key |-> k]

(* Variant: the new key is not stored. *)
NotSaved(k) == UNCHANGED <<rows, astray>>

(* Save updates the row with this primary key and inserts it if there is     *)
(* none, unless its address is taken by then; an error is ignored.           *)
Saved(k) ==
  LET a == frame[k].ip
  IN  \/ /\ rows[a].id = frame[k].id \/ ~Taken(a)
         /\ rows' = [rows EXCEPT ![a] = FrameRow(k)] /\ UNCHANGED astray
      \/ /\ (Taken(a) /\ rows[a].id # frame[k].id) \/ "save" \in Faults
         /\ Stray(k) /\ UNCHANGED rows

SaveRow(k) ==
  /\ pc[k] = "save" /\ Goto(k, "peer")
  /\ Saved(k)
  /\ UNCHANGED <<users, ids, owner, frame, deletes>>

(* Variant: the scan does not notice that it has left the subnet. *)
ListUnbounded(k) ==
  /\ pc[k] = "list" /\ Goto(k, "create")
  /\ \/ \E a \in {b \in Address : ~Taken(b)} : frame' = [frame EXCEPT ![k].ip = a]
     \/ (\A a \in Address : Taken(a)) /\ UNCHANGED frame
  /\ UNCHANGED <<users, rows, ids, owner, deletes, astray>>

(* The scan takes the first address that is not in use, and fails when there *)
(* is none.  An error of the query leaves nothing in use.                    *)
List(k) ==
  /\ pc[k] = "list"
  /\ \E used \in {{a \in Address : Taken(a)}}
                   \cup (IF "list" \in Faults THEN {{}} ELSE {}) :
       \/ \E a \in Address \ used :
            /\ \A b \in Address \ used : a <= b
            /\ frame' = [frame EXCEPT ![k].ip = a]
            /\ Goto(k, "create")
       \/ Address \subseteq used /\ Goto(k, "failed") /\ UNCHANGED frame
  /\ UNCHANGED <<users, rows, ids, owner, deletes, astray>>

(* Variant: the unique index is missing. *)
CreateUnindexed(k) ==
  /\ pc[k] = "create"
  /\ ids' = ids + 1
  /\ rows' = [rows EXCEPT ![frame[k].ip] =
                [id |-> ids + 1, user |-> frame[k].user, key |-> k]]
  /\ Goto(k, "peer")
  /\ UNCHANGED <<users, owner, frame, deletes, astray>>

(* The unique index refuses an address another request has taken meanwhile.  *)
Create(k) ==
  /\ pc[k] = "create"
  /\ \/ /\ ~Taken(frame[k].ip)
        /\ ids' = ids + 1
        /\ rows' = [rows EXCEPT ![frame[k].ip] =
                      [id |-> ids + 1, user |-> frame[k].user, key |-> k]]
        /\ Goto(k, "peer")
     \/ /\ Taken(frame[k].ip) \/ "create" \in Faults
        /\ Goto(k, "failed")
        /\ UNCHANGED <<rows, ids>>
  /\ UNCHANGED <<users, owner, frame, deletes, astray>>

(* AddPeer: the device takes the address from whatever peer had it. *)
AddPeer(k) ==
  /\ pc[k] = "peer"
  /\ \/ /\ owner' = [owner EXCEPT ![frame[k].ip] = k]
        /\ Goto(k, "served") /\ UNCHANGED astray
     \/ /\ "peer" \in Faults
        /\ Goto(k, "failed") /\ Stray(k) /\ UNCHANGED owner
  /\ UNCHANGED <<users, rows, ids, frame, deletes>>

Step(k) == Lookup(k) \/ SaveRow(k) \/ List(k) \/ Create(k) \/ AddPeer(k)

------------------------------------------------------------------------------
(* DeleteUser: separate statements; the device is not told.  An error of the *)
(* first is ignored.                                                         *)

DeleteRows(u) ==
  /\ Deleting /\ u \in users /\ deletes[u] = "idle"
  /\ \/ rows' = [a \in Address |-> IF a \in RowsOf(u) THEN NoRow ELSE rows[a]]
     \/ "delete" \in Faults /\ UNCHANGED rows
  /\ deletes' = [deletes EXCEPT ![u] = "user"]
  /\ UNCHANGED <<users, ids, owner, pc, frame, astray>>

DeleteUser(u) ==
  /\ deletes[u] = "user"
  /\ \/ users' = users \ {u}
     \/ "delete" \in Faults /\ UNCHANGED users
  /\ deletes' = [deletes EXCEPT ![u] = "idle"]
  /\ UNCHANGED <<rows, ids, owner, pc, frame, astray>>

------------------------------------------------------------------------------
(* A userspace device dies with the process and a kernel device is deleted   *)
(* by an orderly shutdown; a kernel device survives a kill with its peers.   *)
(* Nothing else brings peers back: see PeerFile.                             *)
Restart ==
  /\ "crash" \in Faults
  /\ owner' \in {owner, [a \in Address |-> NoKey]}
  /\ pc' = [k \in Key |-> IF pc[k] \in Running THEN "failed" ELSE pc[k]]
  /\ deletes' = [u \in User |-> "idle"]
  /\ astray' = User
  /\ UNCHANGED <<users, rows, ids, frame>>

Next ==
  \/ \E k \in Key : (\E u \in User : Request(k, u)) \/ Step(k)
  \/ \E u \in User : DeleteRows(u) \/ DeleteUser(u)
  \/ Restart

Spec == Init /\ [][Next]_vars

------------------------------------------------------------------------------
(* Properties *)

(* Every table, device entry and local variable has a value of its type, and *)
(* a request past the scan has an address of the subnet.                     *)
TypeOK ==
  /\ users \subseteq User
  /\ rows \in [Address -> Row]
  /\ ids \in Nat
  /\ owner \in [Address -> Key \cup {NoKey}]
  /\ pc \in [Key -> {"idle", "served", "failed"} \cup Running]
  /\ frame \in [Key -> Frame]
  /\ \A k \in Key : pc[k] \in {"save", "create", "peer", "served"} => frame[k].ip \in Address
  /\ deletes \in [User -> {"idle", "user"}]
  /\ astray \subseteq User \cup {NoUser}

(* An address that is about to be, or has been, given to a user is recorded  *)
(* as that user's, whatever requests race, fail or are cut off by a restart; *)
(* so two users never hold one address.  It needs Deleting = FALSE.          *)
IssuedIsRecorded ==
  \A k \in Key : pc[k] \in {"peer", "served"} =>
    Taken(frame[k].ip) /\ rows[frame[k].ip].user = frame[k].user

(* The user whose key the device accepts an address from. *)
UserOf(k) == IF k = NoKey THEN NoUser ELSE frame[k].user

Leases ==
  INSTANCE AddressLease WITH
    lease  <- [a \in Address |-> rows[a].user],
    active <- [a \in Address |-> UserOf(owner[a])]

(* Seen through the table and the device, requests only lease addresses that *)
(* are free and only serve an address to the user it is leased to.           *)
LeaseSpec == Leases!Spec

(* config_generator.go:103 "Check if user already has an IP": a user never   *)
(* has two addresses.  It holds while a user's requests do not overlap and   *)
(* the lookup does not fail, also when users are deleted meanwhile.          *)
OneAddressPerUser ==
  \A a, b \in Address : Taken(a) /\ Taken(b) /\ rows[a].user = rows[b].user => a = b

(* config_generator.go:107 "Update last seen and public key": when no        *)
(* request of the user is running, the key stored with the address she is    *)
(* given is the one the device accepts for it.  Overlapping requests of      *)
(* hers, a failing lookup, save or peer and a restart may spoil that; her    *)
(* next request, if nothing disturbs it, repairs it, whatever other users'   *)
(* requests do.  It needs Deleting = FALSE.                                  *)
StoredKeyIsAccepted ==
  \A u \in User \ astray : \A a \in Address :
    FirstRow(u, a) /\ ~Requesting(u) => owner[a] = rows[a].key

==============================================================================
