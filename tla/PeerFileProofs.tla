--------------------------- MODULE PeerFileProofs ---------------------------
(***************************************************************************)
(* What holds of the WireGuard configuration file for any number of peers, *)
(* calls and starts of the server.                                         *)
(***************************************************************************)
EXTENDS PeerFile, TLAPS

(* The starts of a call: AddPeer and RemovePeer differ in the device only.   *)
Starts(c) == \E p \in Peer : AddPeer(c, p) \/ RemovePeer(c, p)

(* TypeOK is inductive. *)
THEOREM TypeCorrect == Spec => []TypeOK
<1>1. Init => TypeOK
  <2> SUFFICES ASSUME Init PROVE TypeOK
    OBVIOUS
  <2>1. keyLost \in BOOLEAN /\ unsynced \in BOOLEAN /\ stale \in BOOLEAN
    BY DEF Init
  <2> QED
    BY <2>1 DEF Init, TypeOK, NotBooted, Boot, File, Running
<1>2. TypeOK /\ [Next]_vars => TypeOK'
  <2> SUFFICES ASSUME TypeOK, [Next]_vars PROVE TypeOK'
    OBVIOUS
  <2>1. CASE ReadFile
    <3>1. keyLost' \in BOOLEAN /\ unsynced' \in BOOLEAN /\ stale' \in BOOLEAN
      BY <2>1 DEF TypeOK, ReadFile, KeyChosen
    <3>2. private' \in Nat /\ made' \in Nat
      BY <2>1 DEF TypeOK, ReadFile, KeyChosen, Generate, File
    <3>3. boot' \in Boot
      BY <2>1 DEF TypeOK, ReadFile, Boot, File
    <3> QED
      BY <2>1, <3>1, <3>2, <3>3 DEF TypeOK, ReadFile, Running
  <2>2. CASE LoadPeer
    BY <2>2 DEF TypeOK, LoadPeer, Boot, Running
  <2>3. CASE SaveInitial
    BY <2>3 DEF TypeOK, SaveInitial, Boot, Running
  <2>4. CASE BootTruncate
    BY <2>4 DEF TypeOK, BootTruncate, Empty, File, Running
  <2>5. CASE BootWrite
    BY <2>5 DEF TypeOK, BootWrite, AfterSave, Contents, File, Running
  <2>6. CASE BootSaveFails
    <3>1. keyLost' \in BOOLEAN /\ unsynced' \in BOOLEAN /\ stale' \in BOOLEAN
      BY <2>6 DEF TypeOK, BootSaveFails, Boot
    <3>2. file' \in File
      BY <2>6 DEF TypeOK, BootSaveFails, Partly, Contents, File
    <3> QED
      BY <2>6, <3>1, <3>2 DEF TypeOK, BootSaveFails, AfterSave, Running
  <2>7. CASE SyncServerPublicKey
    <3>1. keyLost' \in BOOLEAN /\ unsynced' \in BOOLEAN /\ stale' \in BOOLEAN
      BY <2>7 DEF TypeOK, SyncServerPublicKey
    <3> QED
      BY <2>7, <3>1 DEF TypeOK, SyncServerPublicKey, Running
  <2>8. ASSUME NEW c \in Call, Starts(c) PROVE TypeOK'
    BY <2>8 DEF TypeOK, Starts, AddPeer, RemovePeer, Begin, Goto, Running
  <2>9. ASSUME NEW c \in Call, GetPeerStats(c) PROVE TypeOK'
    BY <2>9 DEF TypeOK, GetPeerStats, Goto, Running
  <2>10. ASSUME NEW c \in Call, Truncate(c) PROVE TypeOK'
    <3>1. keyLost' \in BOOLEAN /\ unsynced' \in BOOLEAN /\ stale' \in BOOLEAN
      BY <2>10 DEF TypeOK, Truncate
    <3> QED
      BY <2>10, <3>1 DEF TypeOK, Truncate, Goto, Running, Empty, File
  <2>11. ASSUME NEW c \in Call, Write(c) PROVE TypeOK'
    BY <2>11 DEF TypeOK, Write, Goto, Running, Contents, File
  <2>12. CASE Stop
    <3>1. keyLost' \in BOOLEAN /\ unsynced' \in BOOLEAN /\ stale' \in BOOLEAN
      BY <2>12 DEF TypeOK, Stop
    <3> QED
      BY <2>12, <3>1 DEF TypeOK, Stop, NotBooted, Boot, Running
  <2>13. CASE UNCHANGED vars
    BY <2>13 DEF TypeOK, vars, Running
  <2>14. ASSUME NEW c \in Call, WriteFails(c) PROVE TypeOK'
    <3>1. keyLost' \in BOOLEAN /\ unsynced' \in BOOLEAN /\ stale' \in BOOLEAN
      BY <2>14 DEF TypeOK, WriteFails
    <3>2. file' \in File
      BY <2>14 DEF TypeOK, WriteFails, Partly, Contents, File
    <3> QED
      BY <2>14, <3>1, <3>2 DEF TypeOK, WriteFails, Goto, Running
  <2> QED
    BY <2>1, <2>2, <2>3, <2>4, <2>5, <2>6, <2>7, <2>8, <2>9, <2>10, <2>11, <2>12, <2>13, <2>14
    DEF Next, Start, Step, Starts
<1> QED
  BY <1>1, <1>2, PTL DEF Spec

------------------------------------------------------------------------------
(* The server's key *)

(* Before the key is lost, a running server has the first key, and so has    *)
(* the file unless a running server has truncated it; so the database has it *)
(* too.                                                                      *)
KeyKept ==
  ~keyLost => /\ phase # "down" => private = 1
              /\ file.key = 1 \/ file.key = 0
              /\ phase = "down" => file.key = 1
              /\ row = 1

(* Until the key is lost with the file, or cannot be read, the server's key  *)
(* never changes, whatever saves overlap or fail and wherever the process    *)
(* dies.                                                                     *)
LEMMA KeyInvariant == Spec => []KeyKept
<1>1. Init => KeyKept
  BY DEF Init, KeyKept
<1>2. TypeOK /\ KeyKept /\ [Next]_vars => KeyKept'
  <2> SUFFICES ASSUME TypeOK, KeyKept, [Next]_vars PROVE KeyKept'
    OBVIOUS
  <2>1. CASE ReadFile
    BY <2>1 DEF TypeOK, KeyKept, ReadFile, KeyChosen, Generate, Running
  <2>2. CASE LoadPeer \/ SaveInitial
    BY <2>2 DEF KeyKept, LoadPeer, SaveInitial
  <2>3. CASE BootTruncate
    BY <2>3 DEF KeyKept, BootTruncate, Empty
  <2>4. CASE BootWrite
    BY <2>4 DEF KeyKept, BootWrite, AfterSave, Contents
  <2>5. CASE BootSaveFails
    <3>1. \/ file' = file
          \/ phase = "write" /\ \E P \in SUBSET device : file' = Contents(P)
      BY <2>5 DEF BootSaveFails, Partly
    <3>2. file'.key \in {file.key, private}
      BY <3>1 DEF Contents
    <3>3. /\ phase # "down" /\ phase' # "down"
          /\ UNCHANGED <<private, row, keyLost>>
      BY <2>5 DEF BootSaveFails, AfterSave
    <3> QED
      BY <3>2, <3>3 DEF KeyKept
  <2>6. CASE SyncServerPublicKey
    BY <2>6 DEF KeyKept, SyncServerPublicKey
  <2>7. ASSUME NEW c \in Call, Starts(c) \/ GetPeerStats(c) PROVE KeyKept'
    BY <2>7 DEF TypeOK, KeyKept, Starts, AddPeer, RemovePeer, Begin, GetPeerStats, Goto
  <2>8. ASSUME NEW c \in Call, Truncate(c) PROVE KeyKept'
    <3>1. UNCHANGED <<phase, private, row, keyLost>> /\ (file' = Empty \/ file' = file)
      BY <2>8 DEF Truncate
    <3>2. phase # "down"
      BY <2>8 DEF TypeOK, Truncate, Running
    <3> QED
      BY <3>1, <3>2 DEF KeyKept, Empty
  <2>9. ASSUME NEW c \in Call, Write(c) PROVE KeyKept'
    BY <2>9 DEF TypeOK, KeyKept, Write, Goto, Contents, Running
  <2>10. CASE Stop
    BY <2>10 DEF KeyKept, Stop
  <2>11. CASE UNCHANGED vars
    BY <2>11 DEF KeyKept, vars
  <2>12. ASSUME NEW c \in Call, WriteFails(c) PROVE KeyKept'
    <3>1. file' = file \/ \E P \in SUBSET (snapshot[c] \cup file.peers) : file' = Contents(P)
      BY <2>12 DEF WriteFails, Partly
    <3>2. file'.key = file.key \/ file'.key = private
      BY <3>1 DEF Contents
    <3>3. phase # "down" /\ UNCHANGED <<phase, private, row, keyLost>>
      BY <2>12 DEF TypeOK, WriteFails, Running
    <3> QED
      BY <3>2, <3>3 DEF KeyKept
  <2> QED
    BY <2>1, <2>2, <2>3, <2>4, <2>5, <2>6, <2>7, <2>8, <2>9, <2>10, <2>11, <2>12
    DEF Next, Start, Step, Starts
<1> QED
  BY <1>1, <1>2, TypeCorrect, PTL DEF Spec

(* A running server has the key of -init-db unless its file was lost or      *)
(* could not be read.                                                        *)
THEOREM KeyStays == Spec => []KeySurvives
<1>1. KeyKept => KeySurvives
  BY DEF KeyKept, KeySurvives
<1> QED
  BY <1>1, KeyInvariant, PTL

------------------------------------------------------------------------------
(* The peers of the file *)

(* One call runs at a time; it writes what the device has, over a truncated  *)
(* file; the file written last at the start lists the device.                *)
OneCall == \A c, d \in Call : Running(c) /\ Running(d) => c = d
SnapshotCurrent ==
  \A c \in Call :
    /\ pc[c] \in {"truncate", "write"} => snapshot[c] = device
    /\ pc[c] = "write" => file.peers = {}
SyncedFile == phase = "sync" => file.peers = device
FileFollows == FileListsDevice /\ (~stale => OneCall /\ SnapshotCurrent /\ SyncedFile)

(* A server with nothing running has a file that lists the peers of its      *)
(* device unless calls have overlapped or a save has failed since the last   *)
(* call that began alone, also after it was killed in the middle of a save.  *)
THEOREM FileLists == Spec => []FileListsDevice
<1>1. Init => FileFollows
  BY DEF Init, FileFollows, OneCall, SnapshotCurrent, SyncedFile, FileListsDevice, Running, Quiet
<1>2. TypeOK /\ FileFollows /\ [Next]_vars => FileFollows'
  <2> SUFFICES ASSUME TypeOK, FileFollows, [Next]_vars PROVE FileFollows'
    OBVIOUS
  <2> USE DEF FileFollows
  <2>1. CASE ReadFile \/ LoadPeer \/ SaveInitial \/ BootTruncate
    BY <2>1 DEF TypeOK, OneCall, SnapshotCurrent, SyncedFile, FileListsDevice, Running, Quiet,
       ReadFile, LoadPeer, SaveInitial, BootTruncate
  <2>2. CASE BootWrite
    BY <2>2 DEF TypeOK, OneCall, SnapshotCurrent, SyncedFile, FileListsDevice, Running, Quiet,
       BootWrite, AfterSave, Contents
  <2>3. CASE SyncServerPublicKey
    BY <2>3 DEF TypeOK, OneCall, SnapshotCurrent, SyncedFile, FileListsDevice, Running, Quiet,
       SyncServerPublicKey
  <2>4. ASSUME NEW c \in Call, Starts(c) PROVE FileFollows'
    BY <2>4 DEF TypeOK, OneCall, SnapshotCurrent, SyncedFile, FileListsDevice, Running, Quiet,
       Starts, AddPeer, RemovePeer, Begin, Goto
  <2>5. ASSUME NEW c \in Call, GetPeerStats(c) PROVE FileFollows'
    BY <2>5 DEF TypeOK, OneCall, SnapshotCurrent, SyncedFile, FileListsDevice, Running, Quiet,
       GetPeerStats, Goto
  <2>6. ASSUME NEW c \in Call, Truncate(c) PROVE FileFollows'
    BY <2>6 DEF TypeOK, OneCall, SnapshotCurrent, SyncedFile, FileListsDevice, Running, Quiet,
       Truncate, Goto, Empty
  <2>7. ASSUME NEW c \in Call, Write(c) PROVE FileFollows'
    BY <2>7 DEF TypeOK, OneCall, SnapshotCurrent, SyncedFile, FileListsDevice, Running, Quiet,
       Write, Goto, Contents
  <2>8. CASE Stop
    BY <2>8 DEF TypeOK, OneCall, SnapshotCurrent, SyncedFile, FileListsDevice, Running, Quiet, Stop
  <2>9. CASE UNCHANGED vars
    BY <2>9 DEF OneCall, SnapshotCurrent, SyncedFile, FileListsDevice, Running, Quiet, vars
  <2>11. ASSUME NEW c \in Call, WriteFails(c) PROVE FileFollows'
    BY <2>11 DEF FileListsDevice, WriteFails
  <2>10. CASE BootSaveFails
    <3>1. CASE boot.last
      <4>1. stale' /\ ~Quiet'
        BY <2>10, <3>1 DEF BootSaveFails, AfterSave, Quiet
      <4> QED
        BY <4>1 DEF FileListsDevice
    <3>2. CASE ~boot.last
      BY <2>10, <3>2 DEF TypeOK, OneCall, SnapshotCurrent, SyncedFile, FileListsDevice, Running,
         Quiet, BootSaveFails, AfterSave
    <3> QED
      BY <3>1, <3>2
  <2> QED
    BY <2>1, <2>2, <2>3, <2>4, <2>5, <2>6, <2>7, <2>8, <2>9, <2>10, <2>11
    DEF Next, Start, Step, Starts
<1>3. FileFollows => FileListsDevice
  BY DEF FileFollows
<1> QED
  BY <1>1, <1>2, <1>3, TypeCorrect, PTL DEF Spec

------------------------------------------------------------------------------
(* The key that clients are given *)

(* A difference between record and device is one that the last start failed  *)
(* to remove.                                                                *)
Synced == phase = "serving" /\ row # private => unsynced

(* While the server serves, the key in its record of the database is the     *)
(* private key of its device, unless the key was lost and the last start     *)
(* failed to store the new one: only a start changes the key, it ends with   *)
(* the record, and before a key was lost there is but one.                   *)
THEOREM DatabaseFollows == Spec => []DatabaseKeyMatches
<1>1. Init => Synced
  BY DEF Init, Synced
<1>2. TypeOK /\ Synced /\ [Next]_vars => Synced'
  <2> SUFFICES ASSUME TypeOK, Synced, [Next]_vars PROVE Synced'
    OBVIOUS
  <2>1. CASE ReadFile \/ LoadPeer \/ SaveInitial \/ BootTruncate
    BY <2>1 DEF Synced, ReadFile, LoadPeer, SaveInitial, BootTruncate
  <2>2. CASE BootWrite \/ BootSaveFails
    BY <2>2 DEF Synced, BootWrite, BootSaveFails, AfterSave
  <2>3. CASE SyncServerPublicKey
    BY <2>3 DEF Synced, SyncServerPublicKey
  <2>4. ASSUME NEW c \in Call, Step(c) PROVE Synced'
    BY <2>4 DEF Synced, Step, AddPeer, RemovePeer, GetPeerStats, Truncate, Write, WriteFails
  <2>5. CASE Stop
    BY <2>5 DEF Synced, Stop
  <2>6. CASE UNCHANGED vars
    BY <2>6 DEF Synced, vars
  <2> QED
    BY <2>1, <2>2, <2>3, <2>4, <2>5, <2>6 DEF Next, Start
<1>3. TypeOK /\ Synced /\ KeyKept => DatabaseKeyMatches
  BY DEF TypeOK, Synced, KeyKept, DatabaseKeyMatches
<1> QED
  BY <1>1, <1>2, <1>3, TypeCorrect, KeyInvariant, PTL DEF Spec

==============================================================================
