------------------------------ MODULE NatRules ------------------------------
(***************************************************************************)
(* The server's NAT rules: rows of the table nat_rules, edited by the      *)
(* administrator, and the copies of the rules in the kernel's iptables,    *)
(* which nat.Manager adds and removes.  POST /api/admin/nat/apply cleans   *)
(* up and applies the enabled rows; the start of the server applies the    *)
(* rows or else the rules of config.yaml; `wsctl nat apply` applies the    *)
(* rows from a process of its own; a shutdown cleans up.  Every iptables   *)
(* command is a step; nothing has a lock.                                  *)
(*                                                                         *)
(* A rule is the text given to iptables.  Rules are numbers in the order   *)
(* in which they are applied (by type, then by primary key).               *)
(***************************************************************************)
EXTENDS Naturals, Sequences, FiniteSets

CONSTANTS
  Rule,
  Foreign,     \* the rules others put into iptables, one copy each
  Yaml,        \* the rules of config.yaml
  Http, Ctl,   \* the requests and the runs of wsctl that apply the rules
  MaxAtOnce,   \* bound: how many calls run at once
  MaxCopies,   \* bound: a failing -C makes no more copies of a rule than this
  Faults       \* "read": the start cannot read the rows; "forward": sysctl fails;
               \* "check", "add", "delete": iptables -C, -A, -D fails; "kill": a process is killed

ASSUME ConstantAssumption ==
  /\ Rule \subseteq Nat /\ Foreign \subseteq Rule /\ Yaml \subseteq Rule
  /\ Http \cap Ctl = {} /\ (Http \cup Ctl) \cap {"start", "shutdown"} = {}
  /\ MaxAtOnce \in Nat /\ MaxCopies \in Nat
  /\ Faults \subseteq {"read", "forward", "check", "add", "delete", "kill"}

VARIABLES
  enabled, \* nat.enabled of config.yaml
  rows,    \* the database: the row of each rule
  table,   \* iptables: how many copies of each rule it has
  up,      \* the server runs
  manager, \* the server's nat.Manager
  pc,      \* where each call is
  frame,   \* the local variables of each call
  fresh,   \* history: who made the last apply, if it succeeded and no row has changed since it read them
  lost,    \* history: the rules of which a copy may be left that nobody tracks
  misjudged, \* history: the rules whose failing -C was taken for a missing rule
  overlapped \* history: two calls have run at once

vars == <<enabled, rows, table, up, manager, pc, frame, fresh, lost, misjudged, overlapped>>

Call == Http \cup Ctl \cup {"start", "shutdown"}

(* on is config.Enabled, applied is appliedRules. *)
Manager == [on : BOOLEAN, applied : Seq(Rule)]
NewManager(on) == [on |-> on, applied |-> <<>>]

(* todo: the rules of the new manager not applied yet; mine: its             *)
(* appliedRules; i: the index of Cleanup's loop.                             *)
Frame == [todo : SUBSET Rule, mine : Seq(Rule), i : Nat]
EmptyFrame == [todo |-> {}, mine |-> <<>>, i |-> 0]

Running(c) == pc[c] # "idle"
Quiet == \A c \in Call : ~Running(c)
Overlap == \E c, d \in Call : c # d /\ Running(c) /\ Running(d)

EnabledRows == {r \in Rule : rows[r] = "enabled"}
Least(S, r) == r \in S /\ \A s \in S : r <= s
In(s, r) == \E n \in 1..Len(s) : s[n] = r

Init ==
  /\ enabled \in BOOLEAN
  /\ rows \in [Rule -> {"absent", "enabled"}]
  /\ table = [r \in Rule |-> IF r \in Foreign THEN 1 ELSE 0]
  /\ up = FALSE
  /\ manager = NewManager(FALSE)
  /\ pc = [c \in Call |-> "idle"]
  /\ frame = [c \in Call |-> EmptyFrame]
  /\ fresh = "no" /\ lost = {} /\ misjudged = {} /\ overlapped = FALSE

Goto(c, label) == pc' = [pc EXCEPT ![c] = label]

(* The call has returned. *)
Return(c) == Goto(c, "idle") /\ frame' = [frame EXCEPT ![c] = EmptyFrame]

(* The server ends: what its calls tracked is lost, the table stays. *)
Exit ==
  /\ up' = FALSE /\ manager' = NewManager(FALSE)
  /\ pc' = [c \in Call |-> IF c \in Ctl THEN pc[c] ELSE "idle"]
  /\ frame' = [c \in Call |-> IF c \in Ctl THEN frame[c] ELSE EmptyFrame]
  /\ lost' = lost \cup {r \in Rule : In(manager.applied, r) \/ \E c \in Call \ Ctl : In(frame[c].mine, r)}
  /\ fresh' = "no"

------------------------------------------------------------------------------
(* Rows: CreateNATRule, UpdateNATRule, DeleteNATRule, and wsctl's commands *)

(* A rule may be created disabled, but gorm replaces the zero value of a     *)
(* column by its default, which is true: the row is enabled.                 *)
CreateRule(r) == rows[r] = "absent" /\ rows' = [rows EXCEPT ![r] = "enabled"]

UpdateRule(r) ==
  /\ rows[r] # "absent"
  /\ \E state \in {"enabled", "disabled"} : rows' = [rows EXCEPT ![r] = state]

DeleteRule(r) == rows[r] # "absent" /\ rows' = [rows EXCEPT ![r] = "absent"]

Edit ==
  /\ \E r \in Rule : CreateRule(r) \/ UpdateRule(r) \/ DeleteRule(r)
  /\ fresh' = "no"
  /\ UNCHANGED <<enabled, table, up, manager, pc, frame, lost, misjudged>>

------------------------------------------------------------------------------
(* What makes the rules be applied *)

Begin(c, rules, label) ==
  /\ pc[c] = "idle" /\ Goto(c, label)
  /\ Cardinality({d \in Call : Running(d)}) < MaxAtOnce
  /\ frame' = [frame EXCEPT ![c] = [EmptyFrame EXCEPT !.todo = rules]]
  /\ UNCHANGED <<enabled, rows, table, up, manager, lost, misjudged>>

(* Variant: the rules of config.yaml only. *)
YamlRules == Yaml

(* loadNATConfig: the enabled rows, or else the rules of config.yaml. *)
StartRules == IF EnabledRows # {} THEN EnabledRows ELSE Yaml

(* Requests are only taken when the rules have been applied.  A failing read *)
(* of the rows counts as no rows. *)
Start ==
  /\ ~up
  /\ LET label == IF enabled THEN "forward" ELSE "publish"
     IN  \/ /\ Begin("start", StartRules, label)
            /\ fresh' = IF enabled /\ EnabledRows # {} THEN "server" ELSE "no"
         \/ "read" \in Faults /\ Begin("start", Yaml, label) /\ fresh' = "no"

(* Variant: requests are taken before the rules have been applied. *)
ApplyEarly(c) == Begin(c, EnabledRows, "enter") /\ fresh' = "server"

ApplyNATRules(c) == up /\ Begin(c, EnabledRows, "enter") /\ fresh' = "server"

WsctlApply(c) == enabled /\ Begin(c, EnabledRows, "forward") /\ fresh' = "wsctl"

Shutdown == up /\ Begin("shutdown", {}, "enter") /\ fresh' = "no"

------------------------------------------------------------------------------
(* Cleanup of the server's manager *)

Enter(c) ==
  /\ pc[c] = "enter"
  /\ \/ /\ manager.on /\ Goto(c, "cleanup")
        /\ frame' = [frame EXCEPT ![c].i = Len(manager.applied)]
     \/ /\ ~manager.on /\ Goto(c, IF c = "shutdown" THEN "exit" ELSE "forward")
        /\ UNCHANGED frame
  /\ UNCHANGED <<enabled, rows, table, up, manager, fresh, lost, misjudged>>

(* iptables -D removes one copy; an error is only logged. *)
Remove(c) ==
  /\ pc[c] = "cleanup" /\ frame[c].i \in 1..Len(manager.applied)
  /\ LET r == manager.applied[frame[c].i]
     IN  \/ table' = [table EXCEPT ![r] = IF @ > 0 THEN @ - 1 ELSE 0] /\ UNCHANGED lost
         \/ "delete" \in Faults /\ lost' = lost \cup {r} /\ UNCHANGED table
  /\ frame' = [frame EXCEPT ![c].i = @ - 1]
  /\ UNCHANGED <<enabled, rows, up, manager, pc, fresh, misjudged>>

(* Another call has emptied appliedRules: the index is out of range.  Gin    *)
(* recovers the panic of a request; that of the signal handler ends the      *)
(* process.                                                                  *)
Panic(c) ==
  /\ pc[c] = "cleanup" /\ frame[c].i > Len(manager.applied)
  /\ \/ c = "shutdown" /\ Exit
     \/ c # "shutdown" /\ Return(c) /\ fresh' = "no" /\ UNCHANGED <<up, manager, lost>>
  /\ UNCHANGED <<enabled, rows, table, misjudged>>

Cleaned(c) ==
  /\ pc[c] = "cleanup" /\ frame[c].i = 0
  /\ manager' = [manager EXCEPT !.applied = <<>>]
  /\ Goto(c, IF c = "shutdown" THEN "exit" ELSE "forward")
  /\ UNCHANGED <<enabled, rows, table, up, frame, fresh, lost, misjudged>>

(* The signal handler has cleaned up; it stops the tunnel server and closes  *)
(* WireGuard, with requests still served, and exits.                         *)
Finish ==
  /\ pc["shutdown"] = "exit" /\ Exit
  /\ UNCHANGED <<enabled, rows, table, misjudged>>

------------------------------------------------------------------------------
(* Apply of a new manager *)

(* enableIPForwarding.  The start only logs its failure and takes requests   *)
(* with the manager it has.                                                  *)
Forward(c) ==
  /\ pc[c] = "forward"
  /\ \/ Goto(c, "check") /\ UNCHANGED <<fresh, frame>>
     \/ /\ "forward" \in Faults /\ fresh' = "no"
        /\ \/ /\ c = "start" /\ Goto(c, "publish")
              /\ frame' = [frame EXCEPT ![c].todo = {}]
           \/ c # "start" /\ Return(c)
  /\ UNCHANGED <<enabled, rows, table, up, manager, lost, misjudged>>

(* Variant: every rule is added. *)
CheckNothing(c) ==
  /\ pc[c] = "check" /\ frame[c].todo # {} /\ Goto(c, "add")
  /\ UNCHANGED <<enabled, rows, table, up, manager, frame, fresh, lost, misjudged>>

(* Variant: a rule that exists is taken over. *)
CheckTracking(c) ==
  /\ pc[c] = "check"
  /\ \E r \in Rule :
       /\ Least(frame[c].todo, r)
       /\ \/ table[r] = 0 /\ Goto(c, "add") /\ UNCHANGED frame
          \/ /\ table[r] > 0 /\ UNCHANGED pc
             /\ frame' = [frame EXCEPT ![c].todo = @ \ {r}, ![c].mine = Append(@, r)]
  /\ UNCHANGED <<enabled, rows, table, up, manager, fresh, lost, misjudged>>

(* iptables -C: a rule that exists is left alone, and not tracked.  Every    *)
(* failure of the command counts as a missing rule.                          *)
Check(c) ==
  /\ pc[c] = "check"
  /\ \E r \in Rule :
       /\ Least(frame[c].todo, r)
       /\ \/ table[r] = 0 /\ Goto(c, "add") /\ UNCHANGED <<frame, misjudged>>
          \/ /\ table[r] > 0 /\ UNCHANGED <<pc, misjudged>>
             /\ frame' = [frame EXCEPT ![c].todo = @ \ {r}]
          \/ /\ "check" \in Faults /\ table[r] > 0 /\ table[r] < MaxCopies
             /\ Goto(c, "add") /\ misjudged' = misjudged \cup {r} /\ UNCHANGED frame
  /\ UNCHANGED <<enabled, rows, table, up, manager, fresh, lost>>

(* Variant: the rule is not tracked. *)
AddUntracked(c) ==
  /\ pc[c] = "add" /\ Goto(c, "check")
  /\ \E r \in Rule :
       /\ Least(frame[c].todo, r)
       /\ table' = [table EXCEPT ![r] = @ + 1]
       /\ frame' = [frame EXCEPT ![c].todo = @ \ {r}]
  /\ UNCHANGED <<enabled, rows, up, manager, fresh, lost, misjudged>>

(* iptables -A; an error is only logged.  What wsctl adds it forgets when it *)
(* ends.                                                                     *)
Add(c) ==
  /\ pc[c] = "add" /\ Goto(c, "check")
  /\ \E r \in Rule :
       /\ Least(frame[c].todo, r)
       /\ \/ /\ table' = [table EXCEPT ![r] = @ + 1]
             /\ frame' = [frame EXCEPT ![c].todo = @ \ {r}, ![c].mine = Append(@, r)]
             /\ lost' = IF c \in Ctl THEN lost \cup {r} ELSE lost
             /\ UNCHANGED fresh
          \/ /\ "add" \in Faults /\ fresh' = "no"
             /\ frame' = [frame EXCEPT ![c].todo = @ \ {r}]
             /\ UNCHANGED <<table, lost>>
  /\ UNCHANGED <<enabled, rows, up, manager, misjudged>>

Applied(c) ==
  /\ pc[c] = "check" /\ frame[c].todo = {} /\ Goto(c, "publish")
  /\ UNCHANGED <<enabled, rows, table, up, manager, frame, fresh, lost, misjudged>>

(* A request replaces the server's manager, wsctl drops its own. *)
Publish(c) ==
  /\ pc[c] = "publish" /\ Return(c)
  /\ manager' = IF c \in Ctl THEN manager
                ELSE [on |-> c \in Http \/ enabled, applied |-> frame[c].mine]
  /\ up' = (up \/ c = "start")
  /\ UNCHANGED <<enabled, rows, table, fresh, lost, misjudged>>

Step(c) ==
  \/ Enter(c) \/ Remove(c) \/ Panic(c) \/ Cleaned(c)
  \/ Forward(c) \/ Check(c) \/ Add(c) \/ Applied(c) \/ Publish(c)

Kill ==
  /\ "kill" \in Faults
  /\ up \/ Running("start")
  /\ Exit /\ UNCHANGED <<enabled, rows, table, misjudged>>

KillWsctl(c) ==
  /\ "kill" \in Faults
  /\ Running(c) /\ Return(c) /\ fresh' = "no"
  /\ UNCHANGED <<enabled, rows, table, up, manager, lost, misjudged>>

Move ==
  \/ Edit \/ Start \/ Shutdown \/ Finish \/ Kill
  \/ \E c \in Http : ApplyNATRules(c)
  \/ \E c \in Ctl : WsctlApply(c) \/ KillWsctl(c)
  \/ \E c \in Call : Step(c)

Next == Move /\ overlapped' = (overlapped \/ Overlap')

Spec == Init /\ [][Next]_vars

------------------------------------------------------------------------------
(* Properties *)

(* Every variable has a value of its type. *)
Types ==
  /\ rows \in [Rule -> {"absent", "enabled", "disabled"}]
  /\ table \in [Rule -> Nat]
  /\ enabled \in BOOLEAN /\ up \in BOOLEAN /\ fresh \in {"no", "wsctl", "server"}
  /\ manager \in Manager
  /\ pc \in [Call -> {"idle", "enter", "cleanup", "exit", "forward", "check", "add", "publish"}]
  /\ frame \in [Call -> Frame]

(* Requests and the shutdown only run between the start and the end of the   *)
(* server, a server that is down has no manager, and wsctl never cleans up.  *)
Lifecycle ==
  /\ pc["start"] \in {"idle", "forward", "check", "add", "publish"}
  /\ pc["shutdown"] \in {"idle", "enter", "cleanup", "exit"}
  /\ ~up => /\ manager = NewManager(FALSE)
            /\ pc["shutdown"] = "idle"
            /\ \A c \in Http : ~Running(c)
  /\ \A c \in Ctl : pc[c] \notin {"enter", "cleanup", "exit"}

(* Types and lifecycle: NewManager, Apply and Cleanup, main's start and      *)
(* signal handler (main.go:278-340).                                         *)
TypeOK ==
  /\ Types /\ Lifecycle
  /\ lost \subseteq Rule /\ misjudged \subseteq Rule /\ overlapped \in BOOLEAN

(* Rules that others put into iptables are not removed, whatever applies     *)
(* overlap, fail, are killed or come from wsctl, but for one case: a failing *)
(* iptables -C (manager.go:154) has made the server add and track a copy of  *)
(* its own, and overlapping Cleanups then remove both.                       *)
ForeignKept == \A r \in Foreign : table[r] = 0 => r \in misjudged /\ overlapped

(* manager.go:51 "Track applied rules for cleanup": when nothing is running, *)
(* each rule the server's manager tracks, once, is in iptables, besides a    *)
(* copy of others; and no rule has a copy beyond those, unless a failing -D  *)
(* (only logged, :126), a killed server or wsctl has left one of it behind.  *)
(* It holds until two applies have overlapped, also when -C fails.           *)
CopiesTracked ==
  Quiet /\ ~overlapped => \A r \in Rule :
    LET tracked == {n \in 1..Len(manager.applied) : manager.applied[n] = r}
        expected == (IF r \in Foreign THEN 1 ELSE 0) + (IF tracked = {} THEN 0 ELSE 1)
    IN  /\ table[r] >= expected
        /\ r \notin lost => table[r] = expected
        /\ \A m, n \in tracked : m = n

(* admin.go:549 "reloads and applies all NAT rules from the database" and    *)
(* DEPLOY.md:166 "NAT rules can be updated without restarting the server -   *)
(* just run `wsctl nat apply`": after an apply that succeeded, and until a   *)
(* row changes, every enabled rule is in iptables; if it was the server's,   *)
(* nothing else is but the rules of others and of copies left behind.  It    *)
(* holds until two applies have overlapped.                                  *)
RulesApplied ==
  Quiet /\ ~overlapped => \A r \in Rule :
    /\ fresh # "no" /\ r \in EnabledRows => table[r] > 0
    /\ fresh = "server" /\ table[r] > 0 => r \in EnabledRows \cup Foreign \cup lost

(* manager.go:151 "Check if rule already exists": no rule is in iptables     *)
(* twice, until two applies have overlapped or a -C of that very rule has    *)
(* failed; also with the applies of wsctl and of servers that are killed,    *)
(* and with copies left behind.                                              *)
NoDuplicate == ~overlapped => \A r \in Rule \ misjudged : table[r] <= 1

==============================================================================
