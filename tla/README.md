# wire-socket: models and proofs

wire-socket is a VPN: a client service on the user's machine logs in to a
server, gets a WireGuard configuration and an address, and sends WireGuard's UDP
datagrams through a websocket. This directory holds TLA+ modules of the parts
that have to be right under concurrency and failure, the TLC configurations that
check them on small instances, and proofs, checked by TLAPS, of their central
properties for every value of the constants.

Contents: [1 inventory](#1-inventory) · [2 plan](#2-plan) ·
[3 modules](#3-the-modules-and-the-code) · [4 runs](#4-what-the-runs-check) ·
[5 bounds, assumptions, fairness](#5-bounds-assumptions-and-fairness) ·
[6 proofs](#6-proofs) · [7 only model-checked](#7-only-model-checked) ·
[8 where the code disagrees with its documents](#8-where-the-code-disagrees-with-its-documents) ·
[9 not modelled](#9-not-modelled) · [10 running](#10-running-it)

Paths below are relative to `src/`. `CB` is `client/backend`, `SI` is
`server/internal`.

## 1 Inventory

### 1.1 Components

| component | state it keeps | operations | who calls it, and what it calls |
|---|---|---|---|
| connection manager, `CB/internal/connection/manager.go` | one `Manager`: state, token, assigned address, pointers to tunnel client, interface and server, last error, available/active/excluded routes; `servers.json`, `routes.json` | Connect (starts goroutine `doConnect`), Disconnect, SetExcludedRoutes, ApplyRoutes, getters | the local HTTP API; calls the server's HTTP API, tunnel client, WireGuard interface |
| local API and service, `CB/internal/api/server.go`, `CB/cmd/client` | none | one handler per request, concurrently; restart by the service manager | the Electron frontend |
| tunnel client, `CB/internal/wstunnel/client.go` | running, websocket, UDP socket, last local sender, stop channel | Start, Stop, goroutines udpToWS and wsToUDP | manager; websocket to the tunnel server; datagrams of the local WireGuard device |
| client interface, `CB/internal/wireguard/interface.go`, `pkg/wireguard/` | TUN device, its only peer (endpoint, AllowedIPs), OS routes | NewInterface, Configure, UpdateAllowedIPs, Destroy | manager |
| tunnel server, `SI/tunnel/server.go` | per connection: websocket, UDP socket, cancelled context | handleWebSocket, goroutines wsToUDP and udpToWS, Stop | tunnel clients; the server's WireGuard device |
| configuration generator, `SI/wireguard/config_generator.go` | rows of `allocated_ips` | GenerateForUser, allocateIP | GET /api/config; WireGuard manager |
| server WireGuard manager, `SI/wireguard/manager.go`, `pkg/wireguard/kernel.go`, `server/cmd/server/main.go` | private key, peers of the device, file `<device>.conf`, key in the database's server record | AddPeer, RemovePeer, SaveConfigFile, LoadConfigFile, LoadPeersFromConfig, start, stop | generator, main |
| NAT manager, `SI/nat/manager.go` | `appliedRules` in memory; rules in the kernel | ApplyRules, Cleanup | admin API, start, shutdown, `wsctl` |
| admin API, `SI/api/admin.go` | rows: users, routes, groups, group members, NAT rules | CRUD, apply routes, apply NAT | administrators; NAT and route managers |
| authentication, `SI/auth/handler.go` | rows of users | Login, Register, ChangePassword, middlewares | all clients |
| central auth service, `SI/authservice/` | users, tunnels, access of users to tunnels | login, verification for tunnels, registration of tunnels, CRUD | tunnel services, clients |
| tunnel service, `SI/tunnelservice/` | allocated addresses, traffic of peers | login through the auth service, configuration, cleanup of inactive peers | clients; auth service |
| databases, `SI/database/` | SQLite tables and unique indexes | open, migrate | everything on the server |
| `wsctl`, `server/cmd/wsctl/main.go` | none; same database and iptables, from another process | user, route, group and NAT commands | administrators |
| Electron frontend, admin pages, scripts | user interface | | the APIs above |

### 1.2 Interactions that are hard

* **Goroutines against requests.** `doConnect` writes the manager's fields partly
  without `m.mu`, while Disconnect, later attempts and the route handlers run.
  Settings and routes are read under the lock and used after it.
* **Requests against requests.** The server's handlers have no lock and no
  transaction: two requests for a configuration, an administrator's deletion, two
  applies of NAT rules interleave statement by statement; only unique indexes and
  the WireGuard device decide. Updates read a row, change it and write all of it.
* **Two processes on the same tables.** The server and `wsctl` both change iptables
  and the databases.
* **Crashes between steps.** Client and server restart anywhere; `routes.json`,
  the WireGuard file, the tables and iptables survive, the memory does not.
* **Partial failure.** Almost every call may fail after earlier ones took effect;
  many errors are only logged.
* **Blocking calls.** The four goroutines of a tunnel session learn that the
  session is over only between two blocking calls.

### 1.3 What makes each component correct

* *Connection manager:* a failed or abandoned attempt leaves no tunnel or interface
  behind; "connected" describes one attempt that is really there; "connecting" is
  always left; the interface's peer is there and its AllowedIPs are routed.
* *Tunnel:* datagrams are neither repeated nor overtaken, not lost while nothing
  fails, never stuck; idle sessions stay; one end of a session ends all of it.
* *Address allocation:* no address belongs to two users, on record or on the
  device; a user has one address and her stored key is the accepted one; the scan
  for a free address ends at the end of the subnet.
* *WireGuard manager:* the file lists the device's peers; the server's key survives
  restarts; clients are given the key of the running device.
* *NAT rules:* rules of others are never removed; no rule is in the table twice;
  what is in the table is tracked; a successful apply leaves the enabled rules.
* *Users:* an acknowledged change of a password, of a role, an activation or a
  deletion stays until the next one, whoever else edits the row.
* *Routes and groups:* a deleted group leaves no member and no route behind; a user
  gets the routes of her groups, or those of no group, of one state of the tables.
* *Central auth service:* a user who is restricted to some tunnels is let in nowhere
  else; a tunnel that was deactivated or deleted stays so.

The hazards, each with its line and the properties that cover it, are listed in
`PROJECT.json`.

## 2 Plan

Order: by what hurts the user most if it is wrong. Every module has one action per
statement group between two points where others may interleave, its assumptions on
constants named, no RECURSIVE operator, and its proofs in a module of its own.

| step | module | abstract specification | state |
|---|---|---|---|
| 1 | `ClientManager` (manager, tunnel client and interface as it sees them, API handlers, restart) | `ClientSession` | done; 10 theorems |
| 2 | `AddressAllocation` (generator, `allocated_ips`, device, deletion of users) | `AddressLease` | done; 5 theorems |
| 3 | `PeerFile` (WireGuard manager, file, start of the server) | | done; 4 theorems |
| 4 | `NatRules` (NAT manager, admin API, wsctl, kernel) | | done; 5 theorems |
| 5 | `WsTunnel` (one session, both sides) | `DatagramPipe` | done; 5 theorems |
| 6 | `Accounts` (login, registration, change of password; UpdateUser, DeleteUser; `wsctl user`) | | done; 2 theorems |
| 7 | `RouteGroups` (routes, groups, members, routes of a user; `wsctl route`, `wsctl group`) | | done; 3 theorems |
| 8 | `TunnelAccess` (central auth service: verification, registration of tunnels, access of users; `wsctl auth-user`, `wsctl tunnel`) | | done; 3 theorems |

Two more modules were considered and left out. The tunnel service (section 9) is started by
no program. The arithmetic of the address scan is a loop over the integers
of the subnet, which `AddressAllocation.List` already states as a choice of the least free one.

Every safety property of a passing run is now stated by a theorem. What could still be
proved is more general: `OneAddress` for the requests of one user that do not overlap while
those of another do, and the promises of a single apply
(section 6, NatRulesProofs) after the first overlap has been cleaned up.

## 3 The modules and the code

`PROJECT.json` maps each definition to its lines. In all modules a process is a
program counter `pc` and a record `frame` of its local variables; a label names
the statement it is about to execute. Variants of operators used to test the
properties stand beside the original with a comment "Variant: ...".

### ClientManager, ClientSession, MCClientManager

`m` is the struct `Manager`; attempt `a` is one goroutine `doConnect` and also names
the tunnel, interface, token and address that it creates. `Connect`, `Disconnect`:
the critical sections of those functions. `Step(a)`: the statements of doConnect in
order, one action for each unlocked assignment (manager.go:184, 193, 202),
each locked section and each call, with its error paths (`StopTunnel`,
`DestroyInterface`, `SetError`). `MarkConnected` and `SaveServer` are separate since
`*m.currentServer` is read after the unlock; nil there is a panic, hence a `Reboot`.
`Handle(h)`: PUT /api/routes/settings, from SetExcludedRoutes through the unlocked
write of the file to the three calls into the device. `TunnelBreaks`: the websocket
is lost and nobody tells the manager. `Crash`: the service dies and starts again.
The arguments (URLs, keys, credentials) are abstracted: attempts use one server.
`Disconnect` is one step: the assignments of doConnect that may fall between its statements
(manager.go:263-265), as it holds `m.mu` and they do not, come before or after all of it.
The fault "routes" is a route that cannot be added, or that exists: platform_linux.go:66 passes over
"File exists" in silence, though the route may point at another interface.

`ClientSession` is what the user is promised: a state and whether resources are
held; "connected" is only reached from "connecting" with resources, and
disconnection, failure and restart leave nothing held.

### WsTunnel, DatagramPipe

One session: `status` and the client's two goroutines follow wstunnel/client.go
(Start, Stop, udpToWS, wsToUDP), `handler` and the server's two goroutines follow
handleWebSocket, wsToUDP, udpToWS of tunnel/server.go. The four queues are the two
UDP sockets (a full one drops) and the two directions of the websocket (a full one
blocks the writer). `Deadline` is a read that times out (1 s and 30 s): it only
changes something if the goroutine finds it must stop. `UDPError` includes the ICMP
error that a connected UDP socket reports when nobody listens at WireGuard's port:
at the server it ends the goroutine. `known` is `clientMap["last"]` at the client.
`Noticed` is TCP, which reports a lost connection in the end. `ServerExits`: the
HTTP server's Shutdown does not touch hijacked connections, so sessions end with
the process. External: the WireGuard devices, UDP sockets and TCP. Keepalives are
datagrams without a number.

`DatagramPipe`: in each direction what is delivered is an increasing sequence of
numbers already sent.

### AddressAllocation, AddressLease

A request is named by the key pair generated for it. Statement by statement:
`Lookup` (config_generator.go:105), `SaveRow` (:111, error ignored), `List` with the
scan (:129, error ignored), `Create` (:164, the unique index), `AddPeer` (:66).
`DeleteRows` (error ignored) and `DeleteUser` are the two statements of DeleteUser that matter;
`Restart` ends the running requests and may empty the device. `owner` is the
device: WireGuard moves an AllowedIP to the peer that was given it last (external).
`Save` of gorm updates by primary key or inserts (external); SQLite does not reuse
the primary key of a row while a request remembers it (external).

`astray` holds the users whose stored key may differ from the one on the device: requests of theirs
have overlapped, a lookup, save or peer has failed, or the server has died. The next request that begins
while none of theirs runs takes them out, so StoredKeyIsAccepted says that it repairs the difference.

`AddressLease`: an address is leased to one user and stays hers; the device accepts
it only from a peer of that user.

### PeerFile

`phase` is main's start: the key from the file or generated (`KeyChosen`; every error of reading the
file or of deriving the public key, main.go:170-178, leads to a new key), peers
loaded one at a time, each with a save, the public key stored in the database
(`SyncServerPublicKey`, whose failure is only logged, :240). Calls
change the device, take a snapshot, truncate and write the file: three steps, since
`os.WriteFile` truncates first and two writes may overlap (the tail of the longer
one may stay). A save may fail before it truncates, after it, or with part of the text written
(`WriteFails`, `BootSaveFails`). Peers are written without AllowedIPs, as `Contents` says. `Stop` may
come anywhere and leaves the peers of a kernel device or none.

`stale`: a save failed or calls overlapped since the file was last written by a call that ran alone. `keyLost`: the
key of the file was lost, by an end of the server between truncation and write, by a failing save that left no key,
or by a start that could not read it. `unsynced`: the last start did not store its key in the database.

### NatRules, MCNatRules

`table` counts the copies of each rule in iptables. An apply is: `Enter` (Cleanup of
the old manager's `applied`, from the last to the first, one command each), forwarding,
check (`-C`) and add (`-A`) for each rule, `Publish` of the new manager. Each of the three commands may
fail: a failing `-C` is taken for a missing rule (nat/manager.go:154, 179, 206, 232), so that a rule in the table is
added again; a failing `-A` or `-D` is only logged, and a Cleanup forgets the rule all the same (:132). A Cleanup
whose list another call has emptied panics (`Panic`). The start applies the rows, or
the rules of config.yaml if there are none; wsctl applies in its own process and
forgets what it added. The shutdown cleans up (`Cleaned`) and exits (`Finish`), with requests served in between.
A rule is a number in the order of application; its
iptables arguments are abstracted, and two rows with the same arguments are one rule. A struct copy torn by two
publishing requests is not represented.

`overlapped` remembers that two calls have run at once: what the
properties promise of a single apply does not hold from then on. `misjudged` are the rules whose failing `-C` was
taken for a missing rule, `lost` those of which a copy may be left that nobody tracks: a `-D` failed, the server
was killed, or wsctl added it.

### Accounts

Rows of `users` and the calls that write them, one statement at a time: `First` reads the row,
`Save` writes all of it (UpdateUser, admin.go:66; `wsctl user update`), `UpdateColumn` only
the password (ChangePassword, auth/handler.go:350), `Insert` and `DeleteRow` create and delete. A
call begins behind its middleware: `ChangePassword` needs a token, `AdminRequest` a token of a
user whose row says is_admin *at that moment* (`AdminMiddleware`, which does not ask
whether she is active), `Register` the setting allow_registration, `Wsctl` nothing. Tokens are sets of user
ids: they end by `Expire`, and refreshing is the absence of it. `Fail` is any statement that fails.

`want` is the table as the acknowledged changes alone would leave it; `overwritten` holds the users
of whom a stale row was saved. The property compares the table with `want` for all the others,
so it is about every other statement of these handlers and every order of them.

Assumed of gorm and SQLite, here and below: `Save` is an UPDATE of every column by primary key
and, if it matched no row, an INSERT in which a zero value is replaced by the default of its
column; `Update` writes one column; foreign keys are not enforced; AUTOINCREMENT never
gives a key twice.

### RouteGroups, MCRouteGroups

The four tables and, statement by statement, the calls that need more than one:
`StartEdit` begins deleting or updating a group, adding a user or a route to it, or updating a
route, with the answer to the call's first query (one that finds nothing ends there, without a
trace), `StartGet` computing the routes of a user (requests only: wsctl, `Ctl`, never asks for them); `ReadUser` and `ReadRoute` are the second checks. DeleteGroup is `DeleteUsers`, `DeleteRoutes` (errors ignored) and
`DeleteGroup`. GetRoutesForUser is `ReadUserGroups`, `ReadRouteGroups`, `Select`, or, for a user whose
groups have no row in route_groups, getGlobalRoutes: `ReadAssigned` (error ignored:
`ReadAssignedFails`) and `SelectOthers`. Calls of one statement are `Edit`. wsctl's commands
have the same statements. DeleteUser leaves the rows of user_groups, and one may be added between the two
statements of AddUserToGroup after the user is gone. `Abort` is a statement that fails or a process that dies; GetConfig
answers without routes when GetRoutesForUser fails (router.go), which no property is about. A route is "on" if it is enabled and pushed; its network, comment and metric are abstracted.

`torn` holds the groups whose deletion met a failing DELETE or another call that added
something to it; `undisturbed` the answers during which no row changed and no query failed.

### TunnelAccess, MCTunnelAccess

The nodes' requests: `Verify` and `Heartbeat` find the active tunnel with that token
(`VerifyToken`), write last_seen (`Touch`), and the former goes on with `VerifyUser` and
GetUserAllowedTunnels (`ReadAccess`, `ReadActive`): no row in user_tunnel_access means every active
tunnel. `Register` inserts the tunnel or saves the row it read. The
administrator's: `UpdateTunnel` (also a Save), `DeleteTunnel` (`Revoke` of the access rows, then
`RemoveTunnel`), `SetUserTunnelAccess` (all rows of the user go, then
`AddAccess` one at a time, errors ignored), users deactivated or deleted (`UpdateUser`, `DeleteUser`; `WsctlDeleteUser`
removes the access rows first). Passwords and tokens presented are right: a wrong one ends the call before
any statement that changes something.

`granted` is the restriction the last SetUserTunnelAccess that ran alone and without an error
has left; `settled` the verifications during which that restriction was in force throughout.

### Composition

The modules meet at interfaces that are stated in both: `ClientManager` uses a tunnel
that is up, broken or closed, which is what `WsTunnel` refines for one session
(`EndSpreads`: a broken half never stays for ever, but the manager is not told);
`AddressAllocation` and `PeerFile` share the call AddPeer, one for who owns
an address and one for what reaches the file, and `AddressAllocation.Restart` empties
the device because saved peers do not come back (section 8; `PeerFile.LoadPeer` loads those
listed with AllowedIPs only, and `PeerFile.Contents` never lists any). `Accounts.DeleteRow` is the
last statement of DeleteUser, whose earlier ones on `allocated_ips` are in
`AddressAllocation`; a deleted user saved again is a user without address there. `RouteGroups` has the users' deletion only, which does not touch its other tables. `TunnelAccess.UpdateUser` and `DeleteUser` change the set of
active users in any way, which covers what `Accounts` shows the statements of the same shape
can do. Sessions of the tunnel share no state, so one is modelled.

## 4 What the runs check

| run | instance | shows |
|---|---|---|
| ClientOverlap | 2 attempts, impatient user, every fault, crashes; fairness; 0.5 M states | `FailedAttemptReleases`, `PublishedInterfaceIsUp`, `ConnectingHasWorker`, and liveness `AttemptEnds`: although fields are assigned without the lock, failures release what they made, the published interface is usable, "connecting" has an attempt behind it, and an attempt that the server has answered ends |
| ClientHandlers | 1 attempt, 2 handlers, 2 routes; 1.4 M | `TypeOK`, `PeerComesBack`, `AcceptedIsRouted`: racing handlers never leave the device without its peer or accept traffic that is not routed |
| ClientPatient | 2 attempts, 1 handler, 2 routes, faults, crashes, waiting user; 1.7 M | `NoOrphan`, `ConnectedIsWhole`, `ReportedRoutesInstalled`, and `SessionSpec` (implements ClientSession); deadlock checked |
| ClientDisconnect | violation | `DisconnectStays`: a disconnect while connecting is undone |
| AllocRace | 2 users, 4 requests, 2 addresses, overlap, every fault, restarts; 1.4 M | `TypeOK`, `IssuedIsRecorded`, `LeaseSpec` (implements AddressLease); `StoredKeyIsAccepted`: a request that nothing disturbs repairs what failures and overlaps before it left |
| AllocSequential | 3 users, 3 requests, 2 addresses, deletions, failing saves, scans, insertions and deletions; 1.0 M | `OneAddressPerUser` |
| PeerFile | 2 peers, 3 calls, 3 key pairs, every save, read and store may fail, deaths; 0.7 M | `TypeOK`, `FileListsDevice`, `KeySurvives`, `DatabaseKeyMatches` |
| NatRules | 2 rules, one of others, 2 requests, wsctl, start, shutdown, two at once; every command may fail, kills; 0.5 M | `TypeOK`; `ForeignKept` unless a failing `-C` and an overlap come together; `CopiesTracked`, `RulesApplied`, `NoDuplicate` until two calls overlap, except for the rules in `lost` and `misjudged` |
| WsTunnel | 1 slot per queue, 2 datagrams each way, keepalives, every fault; 0.3 M; fairness | `TypeOK`, `ReplyHasAddress`, `SilenceIsNoEnd`, `NothingLost`, `PipeSpec` (implements DatagramPipe), liveness `EndSpreads` and `TrafficFlows`; deadlock checked |
| Accounts | 1 user, 2 passwords, 1 request, 1 wsctl, failing statements; 0.3 M | `TypeOK`, `AcknowledgedStays`: only the Save of a stale row undoes an acknowledged change |
| RouteGroups | 1 user, who may be deleted, 2 groups, 2 routes, a request and a run of wsctl, failing queries and DELETEs; 3.0 M | `TypeOK`, `OrphansExplained`, `RoutesPushed`: what a deletion leaves behind, and which routes an undisturbed answer gives |
| TunnelAccess | 1 user, 2 tunnels, 1 node, 2 administrators (or wsctl), faults; 1.1 M | `TypeOK`, `RestrictionHolds`, `TunnelStateStays`: restrictions in force hold for every verification, deactivated tunnels stay so |

Each property is paired in `PROJECT.json` with a mutant, a plausible bug in one mapped
definition (an error path that forgets the tunnel, a missing unique index, a read
without a deadline, ...) under which TLC finds that property violated.

## 5 Bounds, assumptions and fairness

**Bounds.** Attempts, handlers, requests, calls: two or three at once are enough for
every race of the code, all of which are between two actors over one resource; the
names of attempts are reused, so the client runs without end. Two routes allow a
proper exclusion and the exclusion of all. Two addresses with three users make
the subnet full while two race for the last. `MaxKeys`, three key pairs: the first,
the one after a truncated file, and one more. Two rules, one of them also installed
by others; `MaxAtOnce` 2 calls at once and, by failing `-C`s, `MaxCopies` 2 copies of a rule; the view of MCNatRules
leaves out whether a row is disabled or absent, and after an overlap the history that no property reads then. `Capacity` 1 makes every queue full at once, which the waiting
between the two sides needs; `MaxSent` 2 lets datagrams overtake or repeat.
In AllocSequential each request generates its own key, so the number of keys bounds
the requests; three users with one request each.
Accounts: no statement touches two users, so one is enough, and her key is not given again;
a request and wsctl, two actors, are what the race between reading and saving takes. RouteGroups: two groups share or
do not share a route, one route is in a group while the other is not; two calls at once, besides the single-statement
edits, which need no name. TunnelAccess: with two tunnels a restriction to one leaves one out; rows of different
users do not meet, so one is enough.

**Patient = TRUE** (user waits for each request and for "connecting" to end) is what
the frontend's buttons suggest and nothing in the service enforces. Properties that
need it are checked and proved under it; run ClientDisconnect shows what happens
without it. **Overlapping = FALSE** of AddressAllocation likewise, for `OneAddressPerUser` only: one user's requests follow
one another; the code does not enforce it either. Elsewhere no such constant is needed:
history variables (`astray`, `stale`, `keyLost`, `unsynced`, `overlapped`, `misjudged`, `lost`, `overwritten`, `torn`,
`undisturbed`, `settled`) mark what an
overlap or a failure has spoilt, and the runs explore all of it. **Deleting**: IssuedIsRecorded, StoredKeyIsAccepted and
AddressLease hold while nobody is deleted. **Faults** names the local calls that may
fail in a run; the theorems hold for every set of faults unless their statement says
otherwise (`AcceptedRouted` needs that every route is added, `PeerReturns` and `ReportedInstalled` that
calls into the device work, `OneAddress` that the lookup does). In
ClientHandlers "ipc" and "routes" are left out because the properties are about a
device whose calls work: with them they are false, as the code only logs such errors.

**Fairness.** `ClientManager`: weak fairness of each attempt's steps but `Authenticate`: goroutines are
scheduled, the dial of the tunnel has a time limit (wstunnel/client.go:81) and the calls after it are
local. The two calls of authenticate have none (manager.go:337, 361): a server that accepts and never answers keeps
the attempt, so `AttemptEnds` begins where they have returned. `WsTunnel`: weak fairness of the
handler, of each of the four goroutines (a goroutine whose blocking call can return
goes on), of TCP noticing a lost connection (retransmission and keepalive probes
of Go's dialer and listener), and of the keepalives of the client's device
(PersistentKeepalive 25). The last is needed: a server goroutine that blocks in
ReadMessage after its partner ended is woken only by what the client sends. No
fairness is assumed of Stop, of the devices' own traffic or of any fault.

**Deadlock** is checked except in three runs where the bounded names end the
behaviour: AllocSequential (no key pair left for a request), PeerFile
(no key pair left for a start without a file), and ClientDisconnect
(two attempts whose objects nobody can release any more).

## 6 Proofs

All theorems hold for every value of the constants under each module's
`ConstantAssumption`, plus what the statement itself assumes.

**ClientManagerProofs.** `TypeCorrect`. `FailureReleases` and `PublishedUp` follow from
`Inv`, whose part `ProgressInv` says for each label of doConnect what the attempt
holds: `FailedAttemptReleases` alone speaks of the label "failed" only and is not
inductive. `ConnectingBacked` is inductive together with `Inv`: whoever leaves the labels of `Setup`
has just set another state. `AcceptedRouted`: `RoutedInv` adds that an interface that is not
configured has no peer. `NothingLeaks`, `ConnectedWhole` and `ImplementsSession`
use `Sequential`, true for a Patient user: at most one attempt is being set up, the fields it has assigned so far are still its own, and
whatever else is open belongs to the connected one. ImplementsSession maps each action to a step of
ClientSession or a stutter. `PeerReturns`, if "ipc" is not among the faults: `ComesBackInv` adds that a
handler past its snapshot has an interface that was published, and past its filter has routes, so that
AddPeer, which may find the peer removed by others, leaves it with some. `ReportedInstalled`, for a
Patient user and without "ipc": `ReportedInv` says that doConnect has reported and installed the routes it
filtered (`AttemptReports`), that one handler works at a time, on the interface of the connection, and how far it
has come with the peer (`HandlerReplaces`). Without that hypothesis it is false: an AddPeer that fails
leaves a peer without AllowedIPs and the report as it was.

**AddressAllocationProofs.** `AllocationTypes`. `IssuedRecorded` strengthens the property
by the steps before it (`Recorded`): nobody is being deleted (`Deleting = FALSE`), so the row
a request about to save has found is still there, with its primary key and its user
(`FoundStays`), and the key the device accepts for an address is that of a request
served there (`PeersServed`). `ImplementsLease` follows from the same invariant: the user of that
key is the one the address is leased to. `OneAddress` (the requests of a user do not overlap, the lookup does
not fail) from `Solo`, one running request per user, and `LookedUp`: a request that scans or creates still has
a user without a row, one that saves found her only row. Deletions, other failures and restarts
are allowed. `KeyAccepted` assumes only that nobody is deleted; requests may overlap and every call may fail. `Accepted`
strengthens the property: primary keys are unique (`UniqueIds`), and a request of a user who is not astray is her
only one, works on the row a lookup would find and has stored its key before it configures the device (`Undisturbed`).
A request writes rows of its own user only (`WritesOwn`), so what the others do changes nothing of this (`OthersKept`).

**PeerFileProofs.** `TypeCorrect`. `KeyStays` from `KeyKept`: while the key is not lost, the
running key is 1, the file's key is 1 or, in the middle of a save, 0, and 1 whenever the server is
down. `DatabaseFollows`: with TypeOK, `Synced` is inductive, since the last step of a start stores the key or is marked as failed, and nothing after it
changes a key; it differs from the row only where the start had made a new one, for a file whose key was lost. `FileLists` from `FileFollows`: while not `stale` at most one call runs, its snapshot is the device, it writes over
an empty file, and a start about to serve has just written the device's peers.

**NatRulesProofs.** `TypeCorrect`. `ForeignRulesKept` has two halves. `ForeignUntouched`: a rule of others that no failing `-C` has
misjudged is in the table, so a call that checks it never goes on to add it; hence neither the manager nor any call
tracks it, and only tracked rules are removed. This holds for any overlap, kill and failure. A misjudged one is
still there while no calls have overlapped, as `AllTracked` counts its copies. The other three hold until calls overlap. `NeverTwice` from `Single`: one call runs, and the rule it
is to add it has just found missing, unless it is misjudged. `CopiesAreTracked` from `AllTracked`: at every label of the running call each rule has
in the table the copy of others and one copy if it is tracked so far, and more only if it is `lost`; in a cleanup, of the prefix that is not removed yet,
in the phase of adding, of the call's own list, and a list names no rule twice. `ApplyMatchesRows` from `FreshUpToDate`:
unless a row was edited, every enabled row is still to be checked or in the table, and nothing else is tracked or left but what is `lost`.

**WsTunnelProofs.** `TypeCorrect` needs `NotYet` (goroutines only run
in sessions that have been started). `SilenceKeepsSession` from `Whole`: undisturbed, nothing is
closed, cut, dead or refused, and no goroutine has ended. `RepliesHaveAddress` from `AddressFirst`: no
datagram passes the client's udpToWS before the address is stored, and the server's
WireGuard sends nothing before one has passed. `ImplementsPipe` from `InLine`: along the five places of a
direction (socket, buffer, wire, data, received) the numbers are ordered, and each place
holds smaller numbers the nearer it is to the receiver. `NoneLost` from `Kept`: undisturbed, each number sent is in one of these
places. A read takes from a queue what it puts into the buffer, and a write is only refused or dropped in a
session that `Whole` and `AddressFirst` exclude.

**AccountsProofs.** `TypeCorrect`: TypeOK says enough of each label to be inductive.
`ChangesStay`: AcknowledgedStays is inductive with it, because a Save that does not overwrite
has read the row that is there, and that row is the one in `want`.

**RouteGroupsProofs.** `TypeCorrect` from `Typed`, which adds to TypeOK what each call knows at
its label. `GroupsLeaveNothing` from `Orphans`: a deletion under way (`Deleting`) has removed the
rows of the tables it has passed, or it has been marked torn, so nothing is left when the
group's own row goes. `RightRoutes` from `Answers`: what an undisturbed answer has found in its
first queries is still what the tables hold, so that the last query completes the set that
the routes of the user are defined to be.

**TunnelAccessProofs.** `TypeCorrect` and `StateStays` from `Typed`: a node that saves a tunnel
writes the state it has read, so that a Save of a row that has not changed leaves it.
`RestrictionsHold` from `Restrictions`. RestrictionHolds speaks of one label; the invariant says what
makes it true there: a call of SetUserTunnelAccess that is alone has given its user
tunnels of its list only (`Alone`), nobody adds tunnels to a user who is restricted and she has
rows of these tunnels only (`Restricted`), and a settled verification never passes the query of
all active tunnels (`Settled`).

## 7 Only model-checked

* Liveness: AttemptEnds, EndSpreads, TrafficFlows (fairness and ENABLED are out of
  reach of the prover).
* The violation, which is a counterexample by nature.
* Nothing here depends on induction over data or on recursive operators.

## 8 Where the code disagrees with its documents

Kept as a run that TLC finds violated:

* ClientDisconnect: `CB/internal/connection/manager.go:231` sets "connected" whatever the
  state is by then; manager.go:247 "Disconnect closes the VPN connection".

Known from modelling, not kept as runs:

* a server that accepts the login and never answers keeps the client "connecting" without limit, and Connect is
  refused until the user disconnects (connection/manager.go:337, 361 have no time limit, unlike :734); the attempt then still waits;
* a failing `iptables -C`, for whatever reason, counts as a missing rule (`SI/nat/manager.go:154`, 179, 206, 232): a copy is added to a
  rule of others, and two overlapping Cleanups may then remove both; a failing `-D` (:126) leaves a rule that nobody
  tracks, also one whose row was disabled, after an apply that reports success;
* a failure to store the public key is only logged (`server/cmd/server/main.go:240`) and clients are given the old one, while
  :413 says "This ensures the database always has the key that matches the running WireGuard instance"; it matters when a new key was
  generated because the file had lost it;
* any error of reading the key from the file makes a new key (main.go:171, 176), and a save that fails after it truncated
  the file (`SI/wireguard/manager.go:328`) leaves a file without the key;
* DeleteUser (`SI/api/admin.go:124`) leaves the user's rows of user_groups;
* changing the excluded routes while connected gives the peer port 51820 (connection/manager.go:648), whatever port the
  tunnel client listens on; :197 "using the dynamically assigned port". In the model: `AddPeer` sets `endpoint` to nobody's;
* `SI/wireguard/manager.go:323` writes peers without the AllowedIPs that :346 requires, so no saved peer is
  ever loaded; main.go:212 "Load existing peers from config file (if any)";
* UpdateUser (`SI/api/admin.go:115`) and `wsctl user update` save the row they read: a password changed, a
  deactivation or a promotion undone in between comes back, and a deleted user is inserted again, active;
* AdminMiddleware (`SI/auth/handler.go:235`) does not ask whether the administrator is active, and the refresh
  of a token (:145) does not read the user, so tokens of deleted and deactivated users go on;
* adding a user or a route to a group between the statements of DeleteGroup (`SI/api/admin.go:745`), whose
  errors are ignored, leaves rows of a group that is gone;
* DeleteRoute (`SI/api/admin.go:294`) leaves the rows of route_groups: the users of a group whose routes are all deleted
  get no route, while :927 says "User is in groups but no routes assigned, return global routes";
* ApplyRoutes answers before it cleans up when no route is enabled (`SI/api/admin.go:324`): what was applied
  stays in the server's routing table;
* getGlobalRoutes ignores the error of its first query (`SI/api/admin.go:954`): every pushed route is then
  global;
* between the DELETE and the first insertion of SetUserTunnelAccess (`SI/authservice/admin.go:300`), and for good if the
  insertions fail, a restricted user may use every tunnel; so may one whose only tunnel is
  deleted (:251);
* Register of a tunnel (`SI/authservice/tunnel.go:203`) saves the row it read and undoes a deactivation in
  between;
* two overlapping requests of one user create two address rows
  (`SI/wireguard/config_generator.go:105`; only (server_id, ip_address) is unique), or store
  one key and leave the other on the device (:111);
* a user deleted while a request of hers is between its lookup and its save may keep a row (`SI/api/admin.go:138`);
* excluding the last route leaves the former routes installed (connection/manager.go:642),
  and operating system routes are only ever added (`CB/internal/wireguard/interface.go:226`);
* two concurrent updates of the settings may leave the older file (connection/manager.go:594);
* a Disconnect right after "connected" makes `*m.currentServer` a nil dereference (:242);
* a lost websocket is never noticed by the manager, which stays "connected"
  (`CB/internal/wstunnel/client.go:193`; ARCHITECTURE.md:364 speaks of reconnection); one ICMP
  port-unreachable at the server is enough to end a session;
* overlapping saves may leave the older snapshot in the file (`SI/wireguard/manager.go:299`);
* overlapping applies may add a rule twice (`SI/nat/manager.go:154`), after a kill nobody
  tracks what is in the table, and `wsctl nat apply` leaves the old rules
  (`server/cmd/wsctl/main.go:905`).

The properties of section 4 are stated so that they say what does hold around these:
their guards (`astray`, `stale`, `keyLost`, `unsynced`, `torn`, `lost`, `misjudged`, `overlapped`, `overwritten`, `undisturbed`, `settled`,
Patient, Overlapping, Deleting) name exactly the circumstances above.

## 9 Not modelled

* The tunnel service (`SI/tunnelservice/`): no main program starts it (`server/cmd` holds `server` and `wsctl`), only wsctl opens its database.
  No main program starts the central auth service (`SI/authservice/`) either; `TunnelAccess` models its handlers, since wsctl
  writes its database and they are the ones to read it. Its login
  allocates an address with the statements that `AddressAllocation` models for GenerateForUser; its
  cleanup of inactive peers decides from statistics read before.
* ApplyRoutes and `SI/route/manager.go`: the routing table of the server. The manager removes what it has added, then checks
  and adds each route, like the NAT manager; overlapping requests meet as in `NatRules`.
* Login and password of the central auth service's own users: the statements of `Accounts`. wsctl's
  commands on tunnel nodes, and all it prints.
* Text of configurations and files, URLs, logging, statistics: no property is about them.
* Cryptography, token signing, password hashing, gorm, SQLite, WireGuard, iptables,
  TCP: external; what is assumed of them is stated in section 3.
* A torn `routes.json` after a crash inside WriteFile; TLS and compression of the websocket;
  migration of databases; choice of the local API's port.
* `pkg/wstunnel/tunnel.go` is imported by nobody; the frontend only calls the APIs.

## 10 Running it

    tlc -workers 2 -config ClientPatient.cfg ClientManager.tla
    tlc -workers 2 -config ClientHandlers.cfg MCClientManager.tla
    tlc -workers 2 -config WsTunnel.cfg WsTunnel.tla
    tlc -workers 2 -config RouteGroups.cfg MCRouteGroups.tla
    tlapm ClientManagerProofs.tla

The module of each configuration is listed under "runs" in `PROJECT.json`. Each run
takes between a second and about three minutes on two workers.
