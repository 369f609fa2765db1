------------------------------ MODULE PeerFile ------------------------------
(***************************************************************************)
(* The server's WireGuard manager and its file /etc/wireguard/<device>     *)
(* .conf: AddPeer and RemovePeer change the device and then rewrite the    *)
(* file from a snapshot of the device; a start of the server takes its     *)
(* private key and its peers from the file.  Calls come from concurrent    *)
(* requests and only the device has a lock; reading, saving and storing    *)
(* the key may fail, and the process may die anywhere.                     *)
(* config.yaml gives no key pair, as the installed default.                *)
(***************************************************************************)
EXTENDS Naturals

CONSTANTS
  Peer,        \* the public keys of the clients
  Call,        \* the calls of AddPeer and RemovePeer
  MaxKeys      \* bound: how many key pairs the server generates

ASSUME ConstantAssumption == MaxKeys \in Nat \ {0}

VARIABLES
  phase,    \* where main is
  boot,     \* the local variables of LoadPeersFromConfig
  device,   \* the peers of the WireGuard device, each with its address
  private,  \* Manager.privateKey; key pairs are numbered as they are generated
  made,     \* how many key pairs have been generated
  file,     \* the configuration file
  row,      \* the key in the server's record of the database, which clients are given
  pc,       \* where each call is
  snapshot, \* the peers each call found on the device
  keyLost,  \* history: a server has ended with a file without its key, or a start could
            \* not read or use the key of its file
  unsynced, \* history: the last start that got so far failed to store its key in the database
  stale     \* history: since the last call that began alone, or the last start, calls have
            \* overlapped or a save has failed

vars == <<phase, boot, device, private, made, file, row, pc, snapshot, keyLost, unsynced, stale>>

(* key 0: no file, or no whole key in it.  ips: the peers listed with         *)
(* AllowedIPs.                                                               *)
File == [key : Nat, peers : SUBSET Peer, ips : SUBSET Peer]
Empty == [key |-> 0, peers |-> {}, ips |-> {}]

Boot == [todo : SUBSET Peer, last : BOOLEAN]
NotBooted == [todo |-> {}, last |-> FALSE]

Running(c) == pc[c] \in {"stats", "truncate", "write"}
Quiet == phase = "serving" /\ \A c \in Call : ~Running(c)

(* After -init-db; the operator may have listed peers with their addresses. *)
Init ==
  /\ phase = "down" /\ boot = NotBooted
  /\ device = {} /\ private = 0 /\ made = 1
  /\ \E P \in SUBSET Peer : file = [key |-> 1, peers |-> P, ips |-> P]
  /\ row = 1
  /\ pc = [c \in Call |-> "idle"]
  /\ snapshot = [c \in Call |-> {}]
  /\ keyLost = FALSE /\ unsynced = FALSE /\ stale = FALSE

------------------------------------------------------------------------------
(* The start of the server *)

Generate == made < MaxKeys /\ made' = made + 1 /\ private' = made + 1

(* Variant: the key is generated anew at every start. *)
KeyGenerated == Generate /\ UNCHANGED keyLost

(* A file that cannot be read, or a key that cannot be used, counts as none. *)
KeyChosen ==
  \/ file.key # 0 /\ private' = file.key /\ UNCHANGED <<made, keyLost>>
  \/ Generate /\ keyLost' = TRUE

(* The peers are read from the file a second time; the first error of        *)
(* reading or adding them ends that.                                         *)
ReadFile ==
  /\ phase = "down" /\ phase' = "peers"
  /\ KeyChosen
  /\ \E todo \in SUBSET file.ips : boot' = [todo |-> todo, last |-> FALSE]
  /\ stale' = FALSE
  /\ UNCHANGED <<device, file, row, pc, snapshot, unsynced>>

(* Only peers listed with an address are added; each of them rewrites the    *)
(* file.                                                                     *)
LoadPeer ==
  /\ phase = "peers" /\ phase' = "truncate"
  /\ \E p \in boot.todo :
       device' = device \cup {p} /\ boot' = [boot EXCEPT !.todo = @ \ {p}]
  /\ UNCHANGED <<private, made, file, row, pc, snapshot, keyLost, unsynced, stale>>

SaveInitial ==
  /\ phase = "peers" /\ boot.todo = {} /\ phase' = "truncate"
  /\ boot' = [boot EXCEPT !.last = TRUE]
  /\ UNCHANGED <<device, private, made, file, row, pc, snapshot, keyLost, unsynced, stale>>

BootTruncate ==
  /\ phase = "truncate" /\ phase' = "write"
  /\ file' = Empty
  /\ UNCHANGED <<boot, device, private, made, row, pc, snapshot, keyLost, unsynced, stale>>

(* The statistics of the device, which SaveConfigFile writes, have no        *)
(* AllowedIPs.                                                               *)
Contents(peers) == [key |-> private, peers |-> peers, ips |-> {}]

AfterSave == phase' = IF boot.last THEN "sync" ELSE "peers"

BootWrite ==
  /\ phase = "write" /\ AfterSave
  /\ file' = Contents(device)
  /\ UNCHANGED <<boot, device, private, made, row, pc, snapshot, keyLost, unsynced, stale>>

(* os.WriteFile fails before or after it has truncated the file; what of the *)
(* contents it has written stays.                                            *)
Partly(peers) == file' = file \/ \E P \in SUBSET peers : file' = Contents(P)

(* A failed save is only logged. *)
BootSaveFails ==
  /\ AfterSave
  /\ \/ phase = "truncate" /\ UNCHANGED file
     \/ phase = "write" /\ Partly(device)
  /\ stale' = (stale \/ boot.last)
  /\ UNCHANGED <<boot, device, private, made, row, pc, snapshot, keyLost, unsynced>>

(* Variant: only a server without a key in its record is given one. *)
SyncMissing ==
  /\ phase = "sync" /\ phase' = "serving"
  /\ row' = IF row = 0 THEN private ELSE row
  /\ unsynced' = FALSE
  /\ UNCHANGED <<boot, device, private, made, file, pc, snapshot, keyLost, stale>>

(* A failure to read or save the record is only logged. *)
SyncServerPublicKey ==
  /\ phase = "sync" /\ phase' = "serving"
  /\ \/ row' = private /\ unsynced' = FALSE
     \/ unsynced' = TRUE /\ UNCHANGED row
  /\ UNCHANGED <<boot, device, private, made, file, pc, snapshot, keyLost, stale>>

Start ==
  \/ ReadFile \/ LoadPeer \/ SaveInitial
  \/ BootTruncate \/ BootWrite \/ BootSaveFails \/ SyncServerPublicKey

------------------------------------------------------------------------------
(* AddPeer, RemovePeer: the device, then SaveConfigFile *)

Goto(c, label) == pc' = [pc EXCEPT ![c] = label]

(* Variant: requests are served before the device is configured. *)
BeginEarly(c, label) ==
  /\ pc[c] = "idle" /\ Goto(c, label)
  /\ stale' = (\E b \in Call : Running(b))

Begin(c, label) ==
  /\ phase = "serving" /\ pc[c] = "idle" /\ Goto(c, label)
  /\ stale' = (\E b \in Call : Running(b))

AddPeer(c, p) ==
  /\ Begin(c, "stats")
  /\ device' = device \cup {p}
  /\ UNCHANGED <<phase, boot, private, made, file, row, snapshot, keyLost, unsynced>>

(* Variant: the file keeps the peer. *)
RemovePeerUnsaved(c, p) ==
  /\ Begin(c, "done")
  /\ device' = device \ {p}
  /\ UNCHANGED <<phase, boot, private, made, file, row, snapshot, keyLost, unsynced>>

RemovePeer(c, p) ==
  /\ Begin(c, "stats")
  /\ device' = device \ {p}
  /\ UNCHANGED <<phase, boot, private, made, file, row, snapshot, keyLost, unsynced>>

GetPeerStats(c) ==
  /\ pc[c] = "stats" /\ Goto(c, "truncate")
  /\ snapshot' = [snapshot EXCEPT ![c] = device]
  /\ UNCHANGED <<phase, boot, device, private, made, file, row, keyLost, unsynced, stale>>

Truncate(c) ==
  /\ pc[c] = "truncate"
  /\ \/ file' = Empty /\ Goto(c, "write") /\ UNCHANGED stale
     \/ Goto(c, "done") /\ stale' = TRUE /\ UNCHANGED file
  /\ UNCHANGED <<phase, boot, device, private, made, row, snapshot, keyLost, unsynced>>

(* If another call has written since the truncation, the end of its longer   *)
(* contents may stay behind this call's.                                     *)
Write(c) ==
  /\ pc[c] = "write" /\ Goto(c, "done")
  /\ \E rest \in SUBSET (file.peers \ snapshot[c]) :
       file' = Contents(snapshot[c] \cup rest)
  /\ UNCHANGED <<phase, boot, device, private, made, row, snapshot, keyLost, unsynced, stale>>

WriteFails(c) ==
  /\ pc[c] = "write" /\ Goto(c, "done")
  /\ Partly(snapshot[c] \cup file.peers) /\ stale' = TRUE
  /\ UNCHANGED <<phase, boot, device, private, made, row, snapshot, keyLost, unsynced>>

Step(c) ==
  \/ \E p \in Peer : AddPeer(c, p) \/ RemovePeer(c, p)
  \/ GetPeerStats(c) \/ Truncate(c) \/ Write(c) \/ WriteFails(c)

------------------------------------------------------------------------------

(* A shutdown, or a kill: only a kernel device that was not closed survives. *)
Stop ==
  /\ phase # "down" /\ phase' = "down"
  /\ keyLost' = (keyLost \/ file.key = 0)
  /\ device' \in {device, {}}
  /\ private' = 0 /\ boot' = NotBooted
  /\ pc' = [c \in Call |-> IF Running(c) THEN "done" ELSE pc[c]]
  /\ snapshot' = [c \in Call |-> {}]
  /\ UNCHANGED <<made, file, row, unsynced, stale>>

Next == Start \/ (\E c \in Call : Step(c)) \/ Stop

Spec == Init /\ [][Next]_vars

------------------------------------------------------------------------------
(* Properties *)

(* Every variable has a value of its type; calls only run while the server   *)
(* serves.                                                                   *)
TypeOK ==
  /\ phase \in {"down", "peers", "truncate", "write", "sync", "serving"}
  /\ boot \in Boot
  /\ device \subseteq Peer
  /\ private \in Nat /\ made \in Nat
  /\ file \in File
  /\ row \in Nat
  /\ pc \in [Call -> {"idle", "stats", "truncate", "write", "done"}]
  /\ snapshot \in [Call -> SUBSET Peer]
  /\ keyLost \in BOOLEAN /\ unsynced \in BOOLEAN /\ stale \in BOOLEAN
  /\ phase # "serving" => \A c \in Call : ~Running(c)

(* manager.go:140 "Persist to config file": when nothing is running the file *)
(* lists exactly the peers of the device, also after deaths in the middle of *)
(* a save, and again after the next call that runs alone if calls overlapped *)
(* or a save failed.                                                         *)
FileListsDevice == Quiet /\ ~stale => file.peers = device

(* main.go:166 "Priority: 1. config.yaml, 2. existing wg config file": the   *)
(* server's key, which its clients' configurations contain, stays the one of *)
(* -init-db across restarts, whatever calls overlap and saves fail, until a  *)
(* server ends between truncating and writing the file, or with a file that  *)
(* a failed save has left without the key, or a start cannot read the file.  *)
KeySurvives == phase = "serving" /\ ~keyLost => private = 1

(* main.go:413 "This ensures the database always has the key that matches    *)
(* the running WireGuard instance": while the server serves, the key clients *)
(* are given is the key of the device, also after the key was lost, unless   *)
(* the key was lost and this very start failed to store the new one, which   *)
(* is only logged (main.go:240).                                             *)
DatabaseKeyMatches == phase = "serving" /\ row # private => keyLost /\ unsynced

==============================================================================
