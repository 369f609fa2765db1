--------------------------- MODULE NatRulesProofs ---------------------------
(***************************************************************************)
(* What holds of the NAT rules for any set of rules and of calls.          *)
(***************************************************************************)
EXTENDS NatRules, TLAPS

USE ConstantAssumption

------------------------------------------------------------------------------
(* The local variables of a call *)

LEMMA Empties == EmptyFrame \in Frame /\ \A b \in BOOLEAN : NewManager(b) \in Manager
BY DEF EmptyFrame, Frame, NewManager, Manager

LEMMA SetTodo ==
  ASSUME frame \in [Call -> Frame], NEW c \in Call, NEW T \in SUBSET Rule,
         frame' = [frame EXCEPT ![c].todo = T]
  PROVE  /\ frame' \in [Call -> Frame]
         /\ frame'[c].todo = T /\ frame'[c].mine = frame[c].mine
         /\ \A d \in Call : d # c => frame'[d] = frame[d]
<1>1. PICK f \in Frame : f = frame[c]
  OBVIOUS
<1>2. frame' = [frame EXCEPT ![c] = [f EXCEPT !.todo = T]]
  BY <1>1
<1>3. [f EXCEPT !.todo = T] \in Frame /\ [f EXCEPT !.todo = T].mine = f.mine
      /\ [f EXCEPT !.todo = T].todo = T
  BY DEF Frame
<1> QED
  BY <1>1, <1>2, <1>3

LEMMA SetTodoMine ==
  ASSUME frame \in [Call -> Frame], NEW c \in Call, NEW T \in SUBSET Rule, NEW r \in Rule,
         frame' = [frame EXCEPT ![c].todo = T, ![c].mine = Append(frame[c].mine, r)]
  PROVE  /\ frame' \in [Call -> Frame]
         /\ frame'[c].todo = T /\ frame'[c].mine = Append(frame[c].mine, r)
         /\ \A d \in Call : d # c => frame'[d] = frame[d]
<1>1. PICK f \in Frame : f = frame[c]
  OBVIOUS
<1>2. PICK m \in Seq(Rule) : m = Append(f.mine, r)
  <2>1. PICK q \in Seq(Rule) : q = f.mine
    BY DEF Frame
  <2>2. Append(q, r) \in Seq(Rule)
    OBVIOUS
  <2> QED
    BY <2>1, <2>2
<1>3. frame' = [frame EXCEPT ![c] = [f EXCEPT !.todo = T, !.mine = m]]
  BY <1>1, <1>2
<1>4. PICK g \in Frame : g = [f EXCEPT !.todo = T, !.mine = m] /\ g.todo = T /\ g.mine = m
  <2>1. LET g == [f EXCEPT !.todo = T, !.mine = m]
        IN  g \in Frame /\ g.todo = T /\ g.mine = m
    BY DEF Frame
  <2> QED
    BY <2>1
<1>5. frame' = [frame EXCEPT ![c] = g]
  BY <1>3, <1>4
<1>6. frame'[c] = g /\ \A d \in Call : d # c => frame'[d] = frame[d]
  BY <1>5
<1>7. frame' \in [Call -> Frame]
  BY <1>4, <1>5
<1> QED
  BY <1>1, <1>2, <1>4, <1>6, <1>7

LEMMA SetIndex ==
  ASSUME frame \in [Call -> Frame], NEW c \in Call, NEW n \in Nat,
         frame' = [frame EXCEPT ![c].i = n]
  PROVE  /\ frame' \in [Call -> Frame]
         /\ frame'[c].todo = frame[c].todo /\ frame'[c].mine = frame[c].mine
         /\ frame'[c].i = n
         /\ \A d \in Call : d # c => frame'[d] = frame[d]
<1>1. PICK f \in Frame : f = frame[c]
  OBVIOUS
<1>2. frame' = [frame EXCEPT ![c] = [f EXCEPT !.i = n]]
  BY <1>1
<1>3. [f EXCEPT !.i = n] \in Frame /\ [f EXCEPT !.i = n].mine = f.mine
      /\ [f EXCEPT !.i = n].todo = f.todo /\ [f EXCEPT !.i = n].i = n
  BY DEF Frame
<1> QED
  BY <1>1, <1>2, <1>3

(* What a call starts with. *)
LEMMA BeginFrame ==
  ASSUME frame \in [Call -> Frame], NEW c \in Call, NEW rules \in SUBSET Rule, NEW label,
         Begin(c, rules, label)
  PROVE  /\ frame' \in [Call -> Frame] /\ frame'[c].mine = <<>> /\ frame'[c].todo = rules
         /\ \A d \in Call : d # c => frame'[d] = frame[d]
<1> DEFINE f == [todo |-> rules, mine |-> <<>>, i |-> 0]
<1>1. f \in Frame /\ f.mine = <<>> /\ f.todo = rules
  BY DEF Frame
<1>2. frame' = [frame EXCEPT ![c] = f]
  <2>1. [EmptyFrame EXCEPT !.todo = rules] = f
    BY DEF EmptyFrame
  <2> QED
    BY <2>1 DEF Begin
<1> HIDE DEF f
<1> QED
  BY <1>1, <1>2

(* What is left of a call that has returned, and of those of a server that   *)
(* has ended.                                                                *)
LEMMA ReturnFrame ==
  ASSUME frame \in [Call -> Frame], NEW c \in Call, Return(c)
  PROVE  /\ frame' \in [Call -> Frame] /\ frame'[c] = EmptyFrame /\ frame'[c].mine = <<>>
         /\ \A d \in Call : d # c => frame'[d] = frame[d]
BY Empties DEF Return, EmptyFrame

LEMMA ExitFrame ==
  ASSUME frame \in [Call -> Frame], Exit
  PROVE  /\ frame' \in [Call -> Frame]
         /\ \A d \in Call : frame'[d] = IF d \in Ctl THEN frame[d] ELSE EmptyFrame
BY Empties DEF Exit

------------------------------------------------------------------------------
(* Types *)

LEMMA TypesInit == Init => Types
<1> SUFFICES ASSUME Init PROVE Types
  OBVIOUS
<1>1. rows \in [Rule -> {"absent", "enabled", "disabled"}]
  BY DEF Init
<1>2. table \in [Rule -> Nat]
  BY DEF Init
<1>3. manager \in Manager /\ frame \in [Call -> Frame]
  BY Empties DEF Init
<1> QED
  BY <1>1, <1>2, <1>3 DEF Init, Types

(* The end of the process, whatever caused it. *)
LEMMA ExitTypes ==
  ASSUME Types, Exit, rows' = rows, table' = table, enabled' = enabled
  PROVE  Types'
BY Empties, ExitFrame DEF Types, Exit

LEMMA BeginTypes ==
  ASSUME Types, NEW c \in Call, NEW rules \in SUBSET Rule,
         NEW label \in {"enter", "forward", "publish"}, Begin(c, rules, label),
         fresh' \in {"no", "wsctl", "server"}
  PROVE  Types'
<1>1. frame' \in [Call -> Frame]
  BY BeginFrame DEF Types
<1> QED
  BY <1>1 DEF Types, Begin, Goto

LEMMA Rules ==
  /\ "start" \in Call /\ "shutdown" \in Call /\ Http \subseteq Call /\ Ctl \subseteq Call
  /\ EnabledRows \in SUBSET Rule /\ StartRules \in SUBSET Rule
BY DEF EnabledRows, StartRules, Call

LEMMA StepTypes == ASSUME Types, NEW c \in Call, Step(c) PROVE Types'
<1>0. manager.applied \in Seq(Rule) /\ frame[c].mine \in Seq(Rule)
      /\ frame[c].todo \in SUBSET Rule /\ frame[c].i \in Nat
  BY DEF Types, Manager, Frame
<1>1. CASE Enter(c)
  <2>2. CASE UNCHANGED frame
    BY <1>1, <2>2 DEF Enter, Types, Goto
  <2>3. CASE frame' = [frame EXCEPT ![c].i = Len(manager.applied)]
    <3>1. PICK n \in Nat : n = Len(manager.applied)
      BY <1>0
    <3>2. frame' \in [Call -> Frame]
      BY <2>3, <3>1, SetIndex DEF Types
    <3> QED
      BY <1>1, <2>3, <3>2 DEF Enter, Types, Goto
  <2> QED
    BY <1>1, <2>2, <2>3 DEF Enter
<1>2. CASE Remove(c)
  <2>1. frame[c].i - 1 \in Nat /\ manager.applied[frame[c].i] \in Rule
    BY <1>0, <1>2 DEF Remove
  <2>2. frame' \in [Call -> Frame]
    BY <1>2, <2>1, SetIndex DEF Remove, Types
  <2>3. table' \in [Rule -> Nat]
    <3>1. PICK r \in Rule : r = manager.applied[frame[c].i]
      BY <2>1
    <3>2. PICK n \in Nat : n = IF table[r] > 0 THEN table[r] - 1 ELSE 0
      BY DEF Types
    <3>3. table' = table \/ table' = [table EXCEPT ![r] = n]
      BY <1>2, <3>1, <3>2 DEF Remove
    <3> QED
      BY <3>3 DEF Types
  <2> QED
    BY <1>2, <2>2, <2>3 DEF Remove, Types
<1>3. CASE Panic(c)
  <2>1. CASE c = "shutdown"
    BY <1>3, <2>1, ExitTypes DEF Panic
  <2>2. CASE c # "shutdown"
    BY <1>3, <2>2, ReturnFrame DEF Panic, Types, Return, Goto
  <2> QED
    BY <2>1, <2>2
<1>4. CASE Cleaned(c)
  <2>1. PICK m \in Manager : m = manager
    BY DEF Types
  <2>2. PICK q \in Seq(Rule) : q = <<>>
    <3>1. <<>> \in Seq(Rule)
      OBVIOUS
    <3> QED
      BY <3>1, Zenon
  <2>3. [m EXCEPT !.applied = q] \in Manager
    BY DEF Manager
  <2>4. manager' \in Manager
    BY <1>4, <2>1, <2>2, <2>3 DEF Cleaned
  <2> QED
    BY <1>4, <2>4 DEF Cleaned, Types, Goto
<1>5. CASE Forward(c)
  <2>1. frame' \in [Call -> Frame]
    BY <1>5, SetTodo, ReturnFrame DEF Forward, Types
  <2> QED
    BY <1>5, <2>1 DEF Forward, Return, Types, Goto
<1>6. CASE Check(c)
  <2>1. PICK r \in Rule : \/ Goto(c, "add") /\ UNCHANGED frame
                          \/ UNCHANGED pc /\ frame' = [frame EXCEPT ![c].todo = frame[c].todo \ {r}]
    BY <1>6 DEF Check
  <2>2. frame[c].todo \ {r} \in SUBSET Rule
    BY <1>0
  <2>3. frame' \in [Call -> Frame]
    BY <2>1, <2>2, SetTodo DEF Types
  <2> QED
    BY <1>6, <2>1, <2>3 DEF Check, Types, Goto
<1>7. CASE Add(c)
  <2>1. PICK r \in Rule :
          \/ /\ table' = [table EXCEPT ![r] = table[r] + 1]
             /\ frame' = [frame EXCEPT ![c].todo = frame[c].todo \ {r},
                                       ![c].mine = Append(frame[c].mine, r)]
             /\ UNCHANGED fresh
          \/ /\ frame' = [frame EXCEPT ![c].todo = frame[c].todo \ {r}]
             /\ fresh' = "no"
             /\ UNCHANGED table
    BY <1>7 DEF Add
  <2>2. frame[c].todo \ {r} \in SUBSET Rule
    BY <1>0
  <2>3. frame' \in [Call -> Frame]
    BY <2>1, <2>2, SetTodo, SetTodoMine DEF Types
  <2>4. table' \in [Rule -> Nat]
    <3>1. table \in [Rule -> Nat] /\ table[r] + 1 \in Nat
      BY DEF Types
    <3>2. table' = [table EXCEPT ![r] = table[r] + 1] \/ table' = table
      BY <2>1
    <3> QED
      BY <3>1, <3>2
  <2> QED
    BY <1>7, <2>1, <2>3, <2>4 DEF Add, Types, Goto
<1>8. CASE Applied(c)
  BY <1>8 DEF Applied, Types, Goto
<1>9. CASE Publish(c)
  <2>1. manager' \in Manager
    BY <1>0, <1>9 DEF Publish, Types, Manager
  <2>2. frame' \in [Call -> Frame]
    BY <1>9, ReturnFrame DEF Publish, Types
  <2>3. up' \in BOOLEAN
    BY <1>9 DEF Publish
  <2> QED
    BY <1>9, <2>1, <2>2, <2>3 DEF Publish, Return, Types, Goto
<1> QED
  BY <1>1, <1>2, <1>3, <1>4, <1>5, <1>6, <1>7, <1>8, <1>9 DEF Step

LEMMA TypesStep == Types /\ [Next]_vars => Types'
<1> SUFFICES ASSUME Types, [Next]_vars PROVE Types'
  OBVIOUS
<1>1. CASE Edit
  BY <1>1 DEF Types, Edit, CreateRule, UpdateRule, DeleteRule
<1>2. CASE Start
  BY <1>2, Rules, BeginTypes DEF Start, Types, Begin
<1>3. CASE Shutdown
  BY <1>3, Rules, BeginTypes DEF Shutdown, Begin
<1>4. CASE Kill \/ Finish
  BY <1>4, ExitTypes DEF Kill, Finish
<1>5. ASSUME NEW c \in Http, ApplyNATRules(c) PROVE Types'
  BY <1>5, Rules, BeginTypes DEF ApplyNATRules, Begin
<1>6. ASSUME NEW c \in Ctl, WsctlApply(c) PROVE Types'
  BY <1>6, Rules, BeginTypes DEF WsctlApply, Begin
<1>7. ASSUME NEW c \in Ctl, KillWsctl(c) PROVE Types'
  BY <1>7, Rules, ReturnFrame DEF KillWsctl, Return, Types, Goto
<1>8. CASE UNCHANGED vars
  BY <1>8 DEF Types, vars
<1> QED
  BY <1>1, <1>2, <1>3, <1>4, <1>5, <1>6, <1>7, <1>8, StepTypes DEF Next, Move

------------------------------------------------------------------------------
(* Lifecycle *)

LEMMA CallsApart ==
  /\ "start" \notin Http /\ "shutdown" \notin Http /\ "start" \notin Ctl /\ "shutdown" \notin Ctl
  /\ Http \cap Ctl = {}
OBVIOUS

LEMMA LifecycleStep == Types /\ Lifecycle /\ [Next]_vars => Lifecycle'
<1> SUFFICES ASSUME Types, Lifecycle, [Next]_vars PROVE Lifecycle'
  OBVIOUS
<1> USE Rules, CallsApart DEF Lifecycle, Types, Running, Goto, Return
<1>1. ASSUME Exit PROVE Lifecycle'
  BY <1>1 DEF Exit
<1>2. CASE Edit
  BY <1>2 DEF Edit
<1>3. CASE Start
  BY <1>3 DEF Start, Begin
<1>4. CASE Shutdown
  BY <1>4 DEF Shutdown, Begin
<1>5. ASSUME NEW c \in Http, ApplyNATRules(c) PROVE Lifecycle'
  BY <1>5 DEF ApplyNATRules, Begin
<1>6. ASSUME NEW c \in Ctl, WsctlApply(c) PROVE Lifecycle'
  BY <1>6 DEF WsctlApply, Begin
<1>7. ASSUME NEW c \in Call, Step(c) PROVE Lifecycle'
  <2>1. CASE Enter(c)
    BY <2>1 DEF Enter
  <2>2. CASE Remove(c)
    BY <2>2 DEF Remove
  <2>3. CASE Panic(c)
    <3>1. CASE c = "shutdown"
      BY <1>1, <2>3, <3>1 DEF Panic
    <3>2. CASE c # "shutdown"
      <4>1. pc' = [pc EXCEPT ![c] = "idle"] /\ up' = up /\ manager' = manager
        BY <2>3, <3>2 DEF Panic
      <4> QED
        BY <4>1
    <3> QED
      BY <3>1, <3>2
  <2>4. CASE Cleaned(c)
    <3>1. [NewManager(FALSE) EXCEPT !.applied = <<>>] = NewManager(FALSE)
      BY DEF NewManager
    <3>2. manager' = [manager EXCEPT !.applied = <<>>] /\ up' = up
      BY <2>4 DEF Cleaned
    <3>3. ~up => manager' = NewManager(FALSE)
      BY <3>1, <3>2
    <3> QED
      BY <2>4, <3>3 DEF Cleaned
  <2>5. CASE Forward(c)
    BY <2>5 DEF Forward
  <2>6. CASE Check(c)
    BY <2>6 DEF Check
  <2>7. CASE Add(c)
    BY <2>7 DEF Add
  <2>8. CASE Applied(c)
    BY <2>8 DEF Applied
  <2>9. CASE Publish(c)
    <3>1. ~up' => ~up /\ c \in Ctl
      BY <2>9 DEF Publish, Call
    <3> QED
      BY <2>9, <3>1 DEF Publish
  <2> QED
    BY <1>7, <2>1, <2>2, <2>3, <2>4, <2>5, <2>6, <2>7, <2>8, <2>9 DEF Step
<1>8. ASSUME NEW c \in Ctl, KillWsctl(c) PROVE Lifecycle'
  BY <1>8 DEF KillWsctl
<1>9. CASE UNCHANGED vars
  BY <1>9 DEF vars
<1> QED
  BY <1>1, <1>2, <1>3, <1>4, <1>5, <1>6, <1>7, <1>8, <1>9 DEF Next, Move, Kill, Finish

(* Every reachable state has the types of the Go variables, and requests and *)
(* the shutdown only run while the server is up.                             *)
THEOREM TypeCorrect == Spec => []TypeOK
<1>1. Init => TypeOK
  <2>1. Init => lost \subseteq Rule /\ misjudged \subseteq Rule /\ overlapped \in BOOLEAN
    BY DEF Init
  <2> QED
    BY <2>1, TypesInit, Rules DEF TypeOK, Lifecycle, Init, Running
<1>2. TypeOK /\ [Next]_vars => TypeOK'
  <2> SUFFICES ASSUME TypeOK, [Next]_vars PROVE TypeOK'
    OBVIOUS
  <2>1. manager.applied \in Seq(Rule)
    BY DEF TypeOK, Types, Manager
  <2>2. ASSUME NEW c \in Call, Step(c) PROVE lost' \subseteq Rule /\ misjudged' \subseteq Rule
    <3>1. CASE Remove(c)
      <4>1. manager.applied[frame[c].i] \in Rule
        BY <2>1, <3>1 DEF Remove
      <4> QED
        BY <3>1, <4>1 DEF Remove, TypeOK
    <3>2. CASE ~Remove(c)
      BY <2>2, <3>2 DEF Step, Enter, Panic, Exit, Cleaned, Forward, Check, Add, Applied, Publish, TypeOK
    <3> QED
      BY <3>1, <3>2
  <2>3. lost' \subseteq Rule /\ misjudged' \subseteq Rule
    BY <2>2 DEF Next, Move, Edit, Start, Shutdown, Begin, Finish, Kill, Exit, ApplyNATRules, WsctlApply,
       KillWsctl, TypeOK, vars
  <2>4. overlapped' \in BOOLEAN
    <3>1. overlapped' = overlapped \/ overlapped' = (overlapped \/ Overlap')
      BY DEF Next, vars
    <3> QED
      BY <3>1 DEF TypeOK
  <2> QED
    BY <2>3, <2>4, TypesStep, LifecycleStep DEF TypeOK
<1> QED
  BY <1>1, <1>2, PTL DEF Spec

------------------------------------------------------------------------------
(* Rules of others *)

(* Of the rules of others a list has only those a failing -C has added. *)
Untracked(s) == \A n \in 1..Len(s) : s[n] \in Foreign => s[n] \in misjudged

LEMMA AppendUntracked ==
  ASSUME NEW s \in Seq(Rule), Untracked(s), NEW r \in Rule, r \in Foreign => r \in misjudged
  PROVE  Untracked(Append(s, r))
BY DEF Untracked

(* A call about to add a rule of others has misjudged it.                    *)
Adding == \A c \in Call, r \in Foreign : pc[c] = "add" /\ Least(frame[c].todo, r) => r \in misjudged
Present == \A r \in Foreign \ misjudged : table[r] >= 1
ForeignUntouched ==
  /\ Present
  /\ Untracked(manager.applied)
  /\ \A c \in Call : Untracked(frame[c].mine)
  /\ Adding

LEMMA Nothing == Untracked(<<>>)
BY DEF Untracked

LEMMA ExitUntouched ==
  ASSUME Types, ForeignUntouched, Exit, table' = table, misjudged' = misjudged
  PROVE  ForeignUntouched'
<1>1. Untracked(manager.applied)'
  BY Nothing DEF Exit, NewManager, Untracked
<1>2. \A d \in Call : frame'[d] = IF d \in Ctl THEN frame[d] ELSE EmptyFrame
  BY ExitFrame DEF Types
<1>3. ASSUME NEW d \in Call PROVE Untracked(frame[d].mine)'
  <2>1. frame'[d].mine = frame[d].mine \/ frame'[d].mine = <<>>
    BY <1>2 DEF EmptyFrame
  <2> QED
    BY <2>1, Nothing DEF ForeignUntouched, Untracked
<1>4. Adding'
  BY <1>2 DEF ForeignUntouched, Adding, Exit, Types
<1> QED
  BY <1>1, <1>3, <1>4 DEF ForeignUntouched, Present

(* A call returns, and nothing else changes.                                 *)
LEMMA ReturnUntouched ==
  ASSUME Types, ForeignUntouched, NEW c \in Call, Return(c), table' = table, misjudged' = misjudged,
         Untracked(manager'.applied)
  PROVE  ForeignUntouched'
<1>1. frame'[c].mine = <<>> /\ \A d \in Call : d # c => frame'[d] = frame[d]
  BY ReturnFrame DEF Types
<1>2. \A d \in Call : Untracked(frame'[d].mine)
  BY <1>1, Nothing DEF ForeignUntouched
<1>3. Adding'
  BY <1>1 DEF ForeignUntouched, Adding, Types, Return, Goto
<1> QED
  BY <1>2, <1>3 DEF ForeignUntouched, Present, Untracked

LEMMA BeginUntouched ==
  ASSUME Types, ForeignUntouched, NEW c \in Call, NEW rules \in SUBSET Rule,
         NEW label \in {"enter", "forward", "publish"}, Begin(c, rules, label)
  PROVE  ForeignUntouched'
<1>1. frame'[c].mine = <<>> /\ \A d \in Call : d # c => frame'[d] = frame[d]
  BY BeginFrame DEF Types
<1>2. \A d \in Call : Untracked(frame'[d].mine)
  BY <1>1, Nothing DEF ForeignUntouched
<1>3. Adding'
  BY <1>1 DEF ForeignUntouched, Adding, Types, Begin, Goto
<1> QED
  BY <1>2, <1>3 DEF ForeignUntouched, Present, Untracked, Begin

LEMMA StepUntouched ==
  ASSUME Types, ForeignUntouched, NEW c \in Call, Step(c) PROVE ForeignUntouched'
<1>0. frame \in [Call -> Frame] /\ frame[c].todo \in SUBSET Rule /\ frame[c].mine \in Seq(Rule)
      /\ frame[c].i \in Nat /\ manager.applied \in Seq(Rule)
  BY DEF Types, Frame, Manager
<1>1. CASE Enter(c)
  <2>1. CASE UNCHANGED frame
    BY <1>1, <2>1 DEF Enter, ForeignUntouched, Present, Untracked, Adding, Types, Goto
  <2>2. CASE pc' = [pc EXCEPT ![c] = "cleanup"] /\ frame' = [frame EXCEPT ![c].i = Len(manager.applied)]
    <3>1. PICK n \in Nat : n = Len(manager.applied)
      BY <1>0
    <3>2. /\ frame'[c].todo = frame[c].todo /\ frame'[c].mine = frame[c].mine
          /\ \A d \in Call : d # c => frame'[d] = frame[d]
      BY <1>0, <2>2, <3>1, SetIndex
    <3>3. Adding'
      BY <1>1, <2>2, <3>2 DEF Enter, ForeignUntouched, Adding, Types
    <3> QED
      BY <1>1, <3>2, <3>3 DEF Enter, ForeignUntouched, Present, Untracked
  <2> QED
    BY <1>1, <2>1, <2>2 DEF Enter, Goto
<1>2. CASE Remove(c)
  <2>1. PICK n \in Nat : n = frame[c].i - 1
    BY <1>0, <1>2 DEF Remove
  <2>2. /\ frame'[c].todo = frame[c].todo /\ frame'[c].mine = frame[c].mine
        /\ \A d \in Call : d # c => frame'[d] = frame[d]
    BY <1>0, <1>2, <2>1, SetIndex DEF Remove
  <2>3. Adding'
    BY <1>2, <2>2 DEF ForeignUntouched, Adding, Remove
  <2>4. PICK r \in Rule : r = manager.applied[frame[c].i] /\ (r \in Foreign => r \in misjudged)
    BY <1>0, <1>2 DEF Remove, ForeignUntouched, Untracked
  <2>5. \A s \in Foreign \ misjudged : table'[s] = table[s]
    BY <1>2, <2>4 DEF Remove, Types
  <2> QED
    BY <1>2, <2>2, <2>3, <2>5 DEF Remove, ForeignUntouched, Present, Untracked
<1>3. CASE Panic(c)
  <2>1. CASE c = "shutdown"
    BY <1>3, <2>1, ExitUntouched DEF Panic
  <2>2. CASE c # "shutdown"
    <3>1. Untracked(manager'.applied)
      BY <1>3, <2>2 DEF Panic, ForeignUntouched
    <3> QED
      BY <1>3, <2>2, <3>1, ReturnUntouched DEF Panic
  <2> QED
    BY <2>1, <2>2
<1>4. CASE Cleaned(c)
  <2>1. manager'.applied = <<>>
    BY <1>4 DEF Cleaned, Types, Manager
  <2>2. Untracked(manager.applied)'
    BY <2>1, Nothing DEF Untracked
  <2>3. Adding'
    BY <1>4 DEF Cleaned, ForeignUntouched, Adding, Types, Goto
  <2> QED
    BY <1>4, <2>2, <2>3 DEF Cleaned, ForeignUntouched, Present, Untracked
<1>5. CASE Forward(c)
  <2>1. CASE Return(c)
    BY <1>5, <2>1, ReturnUntouched DEF Forward, ForeignUntouched
  <2>2. CASE ~Return(c)
    <3>1. /\ frame'[c].mine = frame[c].mine
          /\ \A d \in Call : d # c => frame'[d] = frame[d]
      BY <1>0, <1>5, <2>2, SetTodo DEF Forward
    <3>2. Adding'
      BY <1>5, <2>2, <3>1 DEF ForeignUntouched, Adding, Types, Forward, Goto
    <3> QED
      BY <1>5, <3>1, <3>2 DEF Forward, ForeignUntouched, Present, Untracked
  <2> QED
    BY <2>1, <2>2
<1>6. CASE Check(c)
  <2>1. PICK r \in Rule :
          /\ Least(frame[c].todo, r)
          /\ \/ table[r] = 0 /\ Goto(c, "add") /\ UNCHANGED <<frame, misjudged>>
             \/ /\ UNCHANGED <<pc, misjudged>>
                /\ frame' = [frame EXCEPT ![c].todo = frame[c].todo \ {r}]
             \/ Goto(c, "add") /\ misjudged' = misjudged \cup {r} /\ UNCHANGED frame
    BY <1>6 DEF Check
  <2>2. CASE Goto(c, "add") /\ UNCHANGED frame /\ misjudged \subseteq misjudged'
             /\ (table[r] = 0 \/ r \in misjudged')
    <3>1. \A s \in Foreign : Least(frame[c].todo, s) => s \in misjudged'
      BY <2>1, <2>2 DEF Least, ForeignUntouched, Present
    <3>2. Adding'
      BY <2>2, <3>1 DEF ForeignUntouched, Adding, Types, Goto
    <3> QED
      BY <1>6, <2>2, <3>2 DEF Check, ForeignUntouched, Present, Untracked
  <2>3. CASE UNCHANGED <<pc, misjudged>> /\ frame' = [frame EXCEPT ![c].todo = frame[c].todo \ {r}]
    <3>1. frame[c].todo \ {r} \in SUBSET Rule
      BY <1>0
    <3>2. /\ frame'[c].mine = frame[c].mine
          /\ \A d \in Call : d # c => frame'[d] = frame[d]
      BY <1>0, <2>3, <3>1, SetTodo
    <3>3. Adding'
      BY <1>6, <2>3, <3>2 DEF Check, ForeignUntouched, Adding
    <3> QED
      BY <1>6, <2>3, <3>2, <3>3 DEF Check, ForeignUntouched, Present, Untracked
  <2> QED
    BY <2>1, <2>2, <2>3
<1>7. CASE Add(c)
  <2>1. PICK r \in Rule :
          /\ Least(frame[c].todo, r)
          /\ \/ /\ table' = [table EXCEPT ![r] = table[r] + 1]
                /\ frame' = [frame EXCEPT ![c].todo = frame[c].todo \ {r},
                                          ![c].mine = Append(frame[c].mine, r)]
             \/ /\ frame' = [frame EXCEPT ![c].todo = frame[c].todo \ {r}]
                /\ UNCHANGED table
    BY <1>7 DEF Add
  <2>2. (r \in Foreign => r \in misjudged) /\ misjudged' = misjudged
    BY <1>7, <2>1 DEF Add, ForeignUntouched, Adding
  <2>3. Present'
    <3>1. ASSUME NEW q \in Foreign \ misjudged PROVE table'[q] = table[q]
      BY <2>1, <2>2, <3>1 DEF Types
    <3> QED
      BY <2>2, <3>1 DEF ForeignUntouched, Present
  <2>4. frame[c].todo \ {r} \in SUBSET Rule
    BY <1>0
  <2>5. /\ frame'[c].mine = frame[c].mine \/ frame'[c].mine = Append(frame[c].mine, r)
        /\ \A d \in Call : d # c => frame'[d] = frame[d]
    <3>1. CASE frame' = [frame EXCEPT ![c].todo = frame[c].todo \ {r}]
      BY <1>0, <2>4, <3>1, SetTodo
    <3>2. CASE frame' = [frame EXCEPT ![c].todo = frame[c].todo \ {r},
                                      ![c].mine = Append(frame[c].mine, r)]
      BY <1>0, <2>4, <3>2, SetTodoMine
    <3> QED
      BY <2>1, <3>1, <3>2
  <2>6. \A d \in Call : Untracked(frame'[d].mine)
    BY <1>0, <2>2, <2>5, AppendUntracked DEF ForeignUntouched
  <2>7. Adding'
    BY <1>7, <2>5 DEF Add, ForeignUntouched, Adding, Types, Goto
  <2> QED
    BY <1>7, <2>2, <2>3, <2>6, <2>7 DEF Add, ForeignUntouched, Untracked
<1>8. CASE Applied(c)
  BY <1>8 DEF Applied, ForeignUntouched, Present, Untracked, Adding, Types, Goto
<1>9. CASE Publish(c)
  <2>1. manager'.applied \in {manager.applied, frame[c].mine}
    BY <1>9 DEF Publish
  <2>2. Untracked(manager'.applied)
    BY <2>1 DEF ForeignUntouched
  <2> QED
    BY <1>9, <2>2, ReturnUntouched DEF Publish
<1> QED
  BY <1>1, <1>2, <1>3, <1>4, <1>5, <1>6, <1>7, <1>8, <1>9 DEF Step

LEMMA UntouchedInit == Init => ForeignUntouched
<1> SUFFICES ASSUME Init PROVE ForeignUntouched
  OBVIOUS
<1>1. Present
  <2>1. \A r \in Foreign : r \in Rule /\ table[r] = 1
    BY DEF Init
  <2>2. 1 >= 1
    OBVIOUS
  <2> QED
    BY <2>1, <2>2 DEF Present
<1>2. manager.applied = <<>> /\ \A c \in Call : frame[c].mine = <<>>
  BY DEF Init, NewManager, EmptyFrame
<1>3. Adding
  BY DEF Init, Adding
<1> QED
  BY <1>1, <1>2, <1>3, Nothing DEF ForeignUntouched

LEMMA UntouchedStep == TypeOK /\ ForeignUntouched /\ [Next]_vars => ForeignUntouched'
<1> SUFFICES ASSUME Types, ForeignUntouched, [Next]_vars PROVE ForeignUntouched'
  BY DEF TypeOK
<1>1. CASE Edit
  BY <1>1 DEF Edit, ForeignUntouched, Present, Untracked, Adding
<1>2. CASE Start
  BY <1>2, Rules, BeginUntouched DEF Start
<1>3. CASE Shutdown
  BY <1>3, Rules, BeginUntouched DEF Shutdown
<1>4. CASE Kill \/ Finish
  BY <1>4, ExitUntouched DEF Kill, Finish
<1>5. ASSUME NEW c \in Http, ApplyNATRules(c) PROVE ForeignUntouched'
  BY <1>5, Rules, BeginUntouched DEF ApplyNATRules
<1>6. ASSUME NEW c \in Ctl, WsctlApply(c) PROVE ForeignUntouched'
  BY <1>6, Rules, BeginUntouched DEF WsctlApply
<1>7. ASSUME NEW c \in Ctl, KillWsctl(c) PROVE ForeignUntouched'
  <2>1. Untracked(manager'.applied)
    BY <1>7 DEF KillWsctl, ForeignUntouched
  <2> QED
    BY <1>7, <2>1, Rules, ReturnUntouched DEF KillWsctl
<1>8. CASE UNCHANGED vars
  BY <1>8 DEF vars, ForeignUntouched, Present, Untracked, Adding
<1> QED
  BY <1>1, <1>2, <1>3, <1>4, <1>5, <1>6, <1>7, <1>8, StepUntouched DEF Next, Move

------------------------------------------------------------------------------
(* Copies of a rule *)

(* Calls that have not overlapped run one at a time. *)
Apart == ~overlapped => ~Overlap

(* A call that adds a rule found it missing a step before, and nothing else  *)
(* has run since; or its -C has failed.                                      *)
AddsMissing == \A c \in Call, r \in Rule :
  pc[c] = "add" /\ Least(frame[c].todo, r) => table[r] = 0 \/ r \in misjudged
OneCopy == \A r \in Rule \ misjudged : table[r] <= 1
Single == Apart /\ (~overlapped => OneCopy /\ AddsMissing)

LEMMA ApartStep == Apart /\ [Next]_vars => Apart'
<1>1. CASE UNCHANGED vars
  BY <1>1 DEF vars, Apart, Overlap, Running
<1>2. CASE Next
  BY <1>2 DEF Next, Apart
<1> QED
  BY <1>1, <1>2

LEMMA Alone ==
  ASSUME ~Overlap', NEW c \in Call, Running(c)', NEW d \in Call, d # c
  PROVE  ~Running(d)'
BY DEF Overlap

LEMMA StepAddsMissing ==
  ASSUME Types, OneCopy, AddsMissing, ~Overlap', NEW c \in Call, Step(c)
  PROVE  OneCopy' /\ AddsMissing'
<1>0. frame \in [Call -> Frame] /\ frame[c].todo \in SUBSET Rule /\ frame[c].mine \in Seq(Rule)
      /\ frame[c].i \in Nat /\ manager.applied \in Seq(Rule) /\ table \in [Rule -> Nat]
      /\ DOMAIN pc = Call
  BY DEF Types, Frame, Manager
<1>a. ASSUME Exit, table' = table, misjudged' = misjudged PROVE OneCopy' /\ AddsMissing'
  <2>1. \A d \in Call : frame'[d] = IF d \in Ctl THEN frame[d] ELSE EmptyFrame
    BY <1>0, <1>a, ExitFrame
  <2> QED
    BY <1>a, <2>1 DEF Exit, OneCopy, AddsMissing, Types
<1>b. ASSUME Return(c), table' = table, misjudged' = misjudged PROVE OneCopy' /\ AddsMissing'
  BY <1>0, <1>b, ReturnFrame DEF Return, Goto, OneCopy, AddsMissing
<1>1. CASE Enter(c)
  <2>1. CASE UNCHANGED frame
    BY <1>1, <2>1 DEF Enter, OneCopy, AddsMissing, Types, Goto
  <2>2. CASE pc' = [pc EXCEPT ![c] = "cleanup"] /\ frame' = [frame EXCEPT ![c].i = Len(manager.applied)]
    <3>1. PICK n \in Nat : n = Len(manager.applied)
      BY <1>0
    <3>2. \A d \in Call : d # c => frame'[d] = frame[d]
      BY <1>0, <2>2, <3>1, SetIndex
    <3> QED
      BY <1>1, <2>2, <3>2 DEF Enter, OneCopy, AddsMissing, Types
  <2> QED
    BY <1>1, <2>1, <2>2 DEF Enter, Goto
<1>2. CASE Remove(c)
  <2>1. PICK k \in Nat : k = frame[c].i - 1
    BY <1>0, <1>2 DEF Remove
  <2>2. /\ frame'[c].todo = frame[c].todo
        /\ \A d \in Call : d # c => frame'[d] = frame[d]
    BY <1>0, <1>2, <2>1, SetIndex DEF Remove
  <2>3. PICK r \in Rule : r = manager.applied[frame[c].i]
    BY <1>0, <1>2 DEF Remove
  <2>4. PICK n \in Nat : n <= table[r] /\ table' = [table EXCEPT ![r] = n]
    <3>1. PICK m \in Nat : m = table[r]
      BY <1>0
    <3>2. (IF m > 0 THEN m - 1 ELSE 0) \in Nat /\ (IF m > 0 THEN m - 1 ELSE 0) <= m
      OBVIOUS
    <3>3. table' = table \/ table' = [table EXCEPT ![r] = IF m > 0 THEN m - 1 ELSE 0]
      BY <1>2, <2>3, <3>1 DEF Remove
    <3>4. table = [table EXCEPT ![r] = m] /\ m <= m
      BY <1>0, <3>1
    <3> QED
      BY <3>1, <3>2, <3>3, <3>4
  <2>5. \A q \in Rule : table[q] \in Nat /\ table'[q] <= table[q] /\ table'[q] \in Nat
    BY <1>0, <2>4
  <2>6. OneCopy'
    BY <1>2, <2>5 DEF OneCopy, Remove
  <2>7. AddsMissing'
    BY <1>2, <2>2, <2>5 DEF AddsMissing, Remove
  <2> QED
    BY <2>6, <2>7
<1>3. CASE Panic(c)
  BY <1>a, <1>b, <1>3 DEF Panic
<1>4. CASE Cleaned(c)
  BY <1>4 DEF Cleaned, OneCopy, AddsMissing, Types, Goto
<1>5. CASE Forward(c)
  <2>1. CASE ~Return(c)
    <3>1. \A d \in Call : d # c => frame'[d] = frame[d]
      BY <1>0, <1>5, <2>1, SetTodo DEF Forward
    <3> QED
      BY <1>5, <2>1, <3>1 DEF Forward, OneCopy, AddsMissing, Types, Goto
  <2> QED
    BY <1>b, <1>5, <2>1 DEF Forward
<1>6. CASE Check(c)
  <2>1. PICK r \in Rule :
          /\ Least(frame[c].todo, r)
          /\ \/ table[r] = 0 /\ Goto(c, "add") /\ UNCHANGED <<frame, misjudged>>
             \/ /\ UNCHANGED <<pc, misjudged>>
                /\ frame' = [frame EXCEPT ![c].todo = frame[c].todo \ {r}]
             \/ Goto(c, "add") /\ misjudged' = misjudged \cup {r} /\ UNCHANGED frame
    BY <1>6 DEF Check
  <2>2. CASE Goto(c, "add") /\ UNCHANGED frame /\ misjudged \subseteq misjudged'
             /\ (table[r] = 0 \/ r \in misjudged')
    <3>1. \A q \in Rule : Least(frame[c].todo, q) => q = r
      BY <2>1 DEF Least
    <3> QED
      BY <1>6, <2>2, <3>1 DEF Check, OneCopy, AddsMissing, Types, Goto
  <2>3. CASE UNCHANGED <<pc, misjudged>> /\ frame' = [frame EXCEPT ![c].todo = frame[c].todo \ {r}]
    <3>1. frame[c].todo \ {r} \in SUBSET Rule
      BY <1>0
    <3>2. \A d \in Call : d # c => frame'[d] = frame[d]
      BY <1>0, <2>3, <3>1, SetTodo
    <3> QED
      BY <1>6, <2>3, <3>2 DEF Check, OneCopy, AddsMissing
  <2> QED
    BY <2>1, <2>2, <2>3
<1>7. CASE Add(c)
  <2>1. pc'[c] = "check" /\ Running(c)'
    BY <1>0, <1>7 DEF Add, Goto, Running
  <2>2. \A d \in Call : pc'[d] # "add"
    BY <2>1, Alone DEF Running
  <2>3. OneCopy'
    <3>1. PICK r \in Rule : Least(frame[c].todo, r)
                            /\ (table' = [table EXCEPT ![r] = table[r] + 1] \/ table' = table)
      BY <1>7 DEF Add
    <3>2. (table[r] = 0 \/ r \in misjudged) /\ misjudged' = misjudged
      BY <1>7, <3>1 DEF Add, AddsMissing
    <3> QED
      BY <1>0, <3>1, <3>2 DEF OneCopy
  <2> QED
    BY <2>2, <2>3 DEF AddsMissing
<1>8. CASE Applied(c)
  BY <1>8 DEF Applied, OneCopy, AddsMissing, Types, Goto
<1>9. CASE Publish(c)
  BY <1>b, <1>9 DEF Publish
<1> QED
  BY <1>1, <1>2, <1>3, <1>4, <1>5, <1>6, <1>7, <1>8, <1>9 DEF Step

LEMMA BeginAddsMissing ==
  ASSUME Types, OneCopy, AddsMissing, NEW c \in Call, NEW rules \in SUBSET Rule,
         NEW label \in {"enter", "forward", "publish"}, Begin(c, rules, label)
  PROVE  OneCopy' /\ AddsMissing'
<1>1. \A d \in Call : d # c => frame'[d] = frame[d]
  BY BeginFrame DEF Types
<1> QED
  BY <1>1 DEF OneCopy, AddsMissing, Types, Begin, Goto

LEMMA SingleStep == Types /\ Single /\ [Next]_vars => Single'
<1> SUFFICES ASSUME Types, Single, [Next]_vars, ~overlapped'
             PROVE  OneCopy' /\ AddsMissing'
  BY ApartStep DEF Single
<1>1. ~Overlap' /\ ~overlapped
  <2>1. Apart'
    BY ApartStep DEF Single
  <2>2. CASE UNCHANGED vars
    BY <2>1, <2>2 DEF Apart, vars
  <2>3. CASE Next
    BY <2>1, <2>3 DEF Apart, Next
  <2> QED
    BY <2>2, <2>3
<1>2. OneCopy /\ AddsMissing
  BY <1>1 DEF Single
<1>3. CASE Edit
  BY <1>2, <1>3 DEF Edit, OneCopy, AddsMissing
<1>4. CASE Start
  BY <1>2, <1>4, Rules, BeginAddsMissing DEF Start
<1>5. CASE Shutdown
  BY <1>2, <1>5, Rules, BeginAddsMissing DEF Shutdown
<1>6. CASE Kill \/ Finish
  <2>1. \A d \in Call : frame'[d] = IF d \in Ctl THEN frame[d] ELSE EmptyFrame
    BY <1>6, ExitFrame DEF Kill, Finish, Types
  <2> QED
    BY <1>2, <1>6, <2>1 DEF Kill, Finish, Exit, OneCopy, AddsMissing, Types
<1>7. ASSUME NEW c \in Http, ApplyNATRules(c) PROVE OneCopy' /\ AddsMissing'
  BY <1>2, <1>7, Rules, BeginAddsMissing DEF ApplyNATRules
<1>8. ASSUME NEW c \in Ctl, WsctlApply(c) PROVE OneCopy' /\ AddsMissing'
  BY <1>2, <1>8, Rules, BeginAddsMissing DEF WsctlApply
<1>9. ASSUME NEW c \in Ctl, KillWsctl(c) PROVE OneCopy' /\ AddsMissing'
  BY <1>2, <1>9, Rules, ReturnFrame DEF KillWsctl, Return, Goto, OneCopy, AddsMissing, Types
<1>10. CASE UNCHANGED vars
  BY <1>2, <1>10 DEF vars, OneCopy, AddsMissing
<1> QED
  BY <1>1, <1>2, <1>3, <1>4, <1>5, <1>6, <1>7, <1>8, <1>9, <1>10, StepAddsMissing DEF Next, Move

LEMMA SingleInit == Init => Single
<1> SUFFICES ASSUME Init PROVE Single
  OBVIOUS
<1>1. \A c \in Call : pc[c] = "idle"
  BY DEF Init
<1>2. \A r \in Rule : table[r] \in {0, 1}
  BY DEF Init
<1> QED
  BY <1>1, <1>2 DEF Single, Apart, Overlap, Running, OneCopy, AddsMissing

LEMMA SingleAlways == Spec => []Single
<1>1. TypeOK /\ Single /\ [Next]_vars => Single'
  BY SingleStep DEF TypeOK
<1> QED
  BY <1>1, SingleInit, TypeCorrect, PTL DEF Spec

(* While no two calls run at once, no rule is in iptables twice whose -C has *)
(* not failed, for any rules and calls: what an apply adds it has found      *)
(* missing, whoever tracks the other copies, whatever copies were left       *)
(* behind, and whatever was killed or failed before.                         *)
THEOREM NeverTwice == Spec => []NoDuplicate
<1>1. Single => NoDuplicate
  BY DEF Single, NoDuplicate, OneCopy
<1> QED
  BY <1>1, SingleAlways, PTL

------------------------------------------------------------------------------
(* Who tracks a copy *)

Distinct(s) == \A m, n \in 1..Len(s) : s[m] = s[n] => m = n
Among(s, k, r) == \E n \in 1..k : s[n] = r
Own(r) == IF r \in Foreign THEN 1 ELSE 0
Expected(s, k, r) == Own(r) + (IF Among(s, k, r) THEN 1 ELSE 0)

(* A table t has the copies of others and one of each of the first k rules   *)
(* of s, and beyond those only copies of the rules in l.                     *)
Copies(t, l, s, k) ==
  \A r \in Rule : t[r] >= Expected(s, k, r) /\ (r \notin l => t[r] = Expected(s, k, r))

LEMMA NoCopies ==
  /\ <<>> \in Seq(Rule) /\ Len(<<>>) = 0 /\ Distinct(<<>>) /\ \A r : ~In(<<>>, r)
  /\ \A t, l, s : Copies(t, l, s, 0) <=> Copies(t, l, <<>>, 0)
<1>1. <<>> \in Seq(Rule) /\ Len(<<>>) = 0
  OBVIOUS
<1>2. \A s, r : ~Among(s, 0, r)
  BY DEF Among
<1> QED
  BY <1>1, <1>2 DEF Distinct, Copies, Expected, In

LEMMA ExpectedNat == \A s, k, r : Expected(s, k, r) \in Nat /\ Own(r) \in Nat
BY DEF Expected, Own

(* A process that tracked the first k rules of s forgets them.               *)
LEMMA Forgotten ==
  ASSUME NEW t \in [Rule -> Nat], NEW l, NEW m, l \subseteq m, NEW s, NEW k, Copies(t, l, s, k),
         \A r \in Rule : Among(s, k, r) => r \in m
  PROVE  Copies(t, m, <<>>, 0)
<1>1. \A r : ~Among(<<>>, 0, r)
  BY DEF Among
<1>2. ASSUME NEW r \in Rule
      PROVE  t[r] >= Expected(<<>>, 0, r) /\ (r \notin m => t[r] = Expected(<<>>, 0, r))
  <2>1. Own(r) \in Nat /\ t[r] \in Nat
    BY DEF Own
  <2>2. Expected(<<>>, 0, r) = Own(r) /\ Expected(s, k, r) >= Own(r)
    BY <1>1, <2>1 DEF Expected
  <2>3. t[r] >= Expected(s, k, r) /\ Expected(s, k, r) \in Nat
    BY ExpectedNat DEF Copies
  <2>4. t[r] >= Own(r)
    BY <2>1, <2>2, <2>3
  <2>5. r \notin m => t[r] = Own(r)
    <3>1. r \notin m => r \notin l /\ ~Among(s, k, r)
      OBVIOUS
    <3> QED
      BY <2>1, <3>1 DEF Copies, Expected
  <2> QED
    BY <2>2, <2>4, <2>5
<1> QED
  BY <1>2 DEF Copies

(* iptables -D of the last rule that is left, and its failure.               *)
LEMMA RemoveLast ==
  ASSUME NEW t \in [Rule -> Nat], NEW l, NEW s \in Seq(Rule), Distinct(s), NEW i \in 1..Len(s),
         Copies(t, l, s, i)
  PROVE  /\ Copies([t EXCEPT ![s[i]] = IF t[s[i]] > 0 THEN t[s[i]] - 1 ELSE 0], l, s, i - 1)
         /\ Copies(t, l \cup {s[i]}, s, i - 1)
<1>1. PICK r \in Rule : r = s[i]
  <2>1. s[i] \in Rule
    OBVIOUS
  <2> QED
    BY <2>1, Zenon
<1>2. Among(s, i, r) /\ ~Among(s, i - 1, r)
  BY <1>1 DEF Among, Distinct
<1>3. \A q \in Rule : q # r => (Among(s, i, q) <=> Among(s, i - 1, q))
  BY <1>1 DEF Among
<1>4. \A q \in Rule : q # r => Expected(s, i, q) = Expected(s, i - 1, q)
  BY <1>3 DEF Expected
<1>5. PICK n \in Nat : n = t[r] - 1 /\ t[r] = n + 1
  <2>1. t[r] >= Own(r) + 1 /\ t[r] \in Nat /\ Own(r) \in Nat
    BY <1>2 DEF Copies, Expected, Own
  <2>2. t[r] - 1 \in Nat
    BY <2>1
  <2> QED
    BY <2>1, <2>2
<1>6. Expected(s, i - 1, r) = Own(r) /\ Expected(s, i, r) = Own(r) + 1 /\ Own(r) \in Nat
  BY <1>2 DEF Expected, Own
<1>7. n + 1 >= Own(r) + 1 /\ (r \notin l => n + 1 = Own(r) + 1)
  BY <1>5, <1>6 DEF Copies
<1>8. n >= Own(r) /\ n + 1 >= Own(r) /\ (r \notin l => n = Own(r))
  BY <1>6, <1>7
<1>9. PICK u : u = [t EXCEPT ![r] = IF t[r] > 0 THEN t[r] - 1 ELSE 0]
  OBVIOUS
<1>10. u[r] = n /\ \A q \in Rule : q # r => u[q] = t[q]
  BY <1>5, <1>9
<1>11. Copies(u, l, s, i - 1)
  <2>1. ASSUME NEW q \in Rule
        PROVE  u[q] >= Expected(s, i - 1, q) /\ (q \notin l => u[q] = Expected(s, i - 1, q))
    <3>1. CASE q = r
      BY <1>6, <1>8, <1>10, <3>1
    <3>2. CASE q # r
      BY <1>4, <1>10, <3>2 DEF Copies
    <3> QED
      BY <3>1, <3>2
  <2> QED
    BY <2>1 DEF Copies
<1>12. Copies(t, l \cup {r}, s, i - 1)
  <2>1. ASSUME NEW q \in Rule
        PROVE  t[q] >= Expected(s, i - 1, q) /\ (q \notin l \cup {r} => t[q] = Expected(s, i - 1, q))
    <3>1. CASE q = r
      BY <1>5, <1>6, <1>8, <3>1
    <3>2. CASE q # r
      BY <1>4, <3>2 DEF Copies
    <3> QED
      BY <3>1, <3>2
  <2> QED
    BY <2>1 DEF Copies
<1> QED
  BY <1>1, <1>9, <1>11, <1>12

(* iptables -A of a rule that is not tracked.                                *)
LEMMA AppendRule ==
  ASSUME NEW t \in [Rule -> Nat], NEW l, NEW s \in Seq(Rule), Distinct(s), Copies(t, l, s, Len(s)),
         NEW r \in Rule, ~In(s, r)
  PROVE  LET q == Append(s, r)
         IN  Distinct(q) /\ Copies([t EXCEPT ![r] = t[r] + 1], l, q, Len(q))
<1>1. PICK q \in Seq(Rule) : q = Append(s, r)
  <2>1. Append(s, r) \in Seq(Rule)
    OBVIOUS
  <2> QED
    BY <2>1
<1>2. /\ Len(s) \in Nat /\ Len(q) = Len(s) + 1 /\ q[Len(q)] = r
      /\ \A n \in 1..Len(s) : q[n] = s[n]
  BY <1>1
<1>3. ~Among(s, Len(s), r)
  BY DEF In, Among
<1>4. Distinct(q)
  BY <1>2, <1>3 DEF Among, Distinct
<1>5. Among(q, Len(q), r)
  BY <1>2 DEF Among
<1>6. \A p \in Rule : p # r => (Among(q, Len(q), p) <=> Among(s, Len(s), p))
  BY <1>2 DEF Among
<1>7. PICK u : u = [t EXCEPT ![r] = t[r] + 1]
  OBVIOUS
<1>8. u[r] = t[r] + 1 /\ \A p \in Rule : p # r => u[p] = t[p]
  BY <1>7
<1>9. Expected(q, Len(q), r) = Own(r) + 1 /\ Expected(s, Len(s), r) = Own(r)
      /\ Own(r) \in Nat /\ t[r] \in Nat
  BY <1>3, <1>5 DEF Expected, Own
<1>10. ASSUME NEW p \in Rule
       PROVE  u[p] >= Expected(q, Len(q), p) /\ (p \notin l => u[p] = Expected(q, Len(q), p))
  <2>1. CASE p = r
    <3>1. t[r] >= Own(r) /\ (r \notin l => t[r] = Own(r))
      BY <1>9 DEF Copies
    <3> QED
      BY <1>8, <1>9, <2>1, <3>1
  <2>2. CASE p # r
    <3>1. Expected(q, Len(q), p) = Expected(s, Len(s), p)
      BY <1>6, <2>2 DEF Expected
    <3> QED
      BY <1>8, <2>2, <3>1 DEF Copies
  <2> QED
    BY <2>1, <2>2
<1>11. Copies(u, l, q, Len(q))
  BY <1>10 DEF Copies
<1> QED
  BY <1>1, <1>4, <1>7, <1>11

(* iptables -A by a process that tracks nothing for longer than it runs.     *)
LEMMA AddLost ==
  ASSUME NEW t \in [Rule -> Nat], NEW l, NEW s, NEW k, Copies(t, l, s, k), NEW r \in Rule
  PROVE  Copies([t EXCEPT ![r] = t[r] + 1], l \cup {r}, s, k)
<1>1. PICK u : u = [t EXCEPT ![r] = t[r] + 1]
  OBVIOUS
<1>2. t[r] \in Nat /\ u[r] = t[r] + 1 /\ \A p \in Rule : p # r => u[p] = t[p]
  BY <1>1
<1>3. ASSUME NEW p \in Rule
      PROVE  u[p] >= Expected(s, k, p) /\ (p \notin l \cup {r} => u[p] = Expected(s, k, p))
  <2>1. CASE p = r
    <3>1. t[r] >= Expected(s, k, r) /\ Expected(s, k, r) \in Nat
      BY ExpectedNat DEF Copies
    <3> QED
      BY <1>2, <2>1, <3>1
  <2>2. CASE p # r
    BY <1>2, <2>2 DEF Copies
  <2> QED
    BY <2>1, <2>2
<1>4. Copies(u, l \cup {r}, s, k)
  BY <1>3 DEF Copies
<1> QED
  BY <1>1, <1>4

(* Where a call of the server is, in terms of the copies: Cleanup has removed *)
(* those after its index; Apply has added those it tracks, which are no       *)
(* longer to come, and the server's manager tracks nothing.                   *)
Working(c) ==
  /\ pc[c] \in {"enter", "cleanup", "exit", "forward"} => frame[c].mine = <<>>
  /\ pc[c] = "enter" => Copies(table, lost, manager.applied, Len(manager.applied))
  /\ pc[c] = "cleanup" => /\ frame[c].i <= Len(manager.applied)
                          /\ Copies(table, lost, manager.applied, frame[c].i)
  /\ pc[c] \in {"exit", "forward", "check", "add", "publish"} =>
       /\ manager.applied = <<>>
       /\ Distinct(frame[c].mine) /\ Copies(table, lost, frame[c].mine, Len(frame[c].mine))
       /\ \A r \in frame[c].todo : ~In(frame[c].mine, r)
  /\ c = "start" /\ ~enabled => pc[c] = "publish" /\ frame[c].mine = <<>>

(* When no call of the server runs, its manager tracks every copy that is not *)
(* another's or left behind; else the call that runs can tell.                *)
Managed ==
  /\ Distinct(manager.applied)
  /\ ~manager.on => manager.applied = <<>>
Resting == \A c \in Call \ Ctl : ~Running(c)
AllManaged == Copies(table, lost, manager.applied, Len(manager.applied))
Tracked ==
  /\ Managed
  /\ Resting => AllManaged
  /\ \A c \in Call \ Ctl : Running(c) => Working(c)
AllTracked == ~overlapped => Tracked

LEMMA RunningStep ==
  ASSUME Types, NEW c \in Call, Step(c), ~Overlap
  PROVE  Running(c) /\ \A d \in Call : d # c => ~Running(d) /\ ~Running(d)'
<1>1. Running(c)
  BY DEF Step, Enter, Remove, Panic, Cleaned, Forward, Check, Add, Applied, Publish, Running
<1>2. \A d \in Call : d # c => ~Running(d)
  BY <1>1 DEF Overlap
<1>3. Exit \/ UNCHANGED pc \/ \E label : Goto(c, label)
  BY DEF Step, Enter, Remove, Panic, Cleaned, Forward, Check, Add, Applied, Publish, Return
<1>4. ASSUME NEW d \in Call, d # c PROVE ~Running(d)'
  <2>1. CASE Exit
    BY <1>2, <1>4, <2>1 DEF Exit, Running
  <2>2. CASE UNCHANGED pc
    BY <1>2, <1>4, <2>2 DEF Running
  <2>3. ASSUME NEW label, Goto(c, label) PROVE ~Running(d)'
    BY <1>2, <1>4, <2>3 DEF Goto, Running, Types
  <2> QED
    BY <1>3, <2>1, <2>2, <2>3
<1> QED
  BY <1>1, <1>2, <1>4

(* It is enough to look at the call that has moved.                          *)
LEMMA TrackedOne ==
  ASSUME NEW c \in Call \ Ctl, \A d \in Call : d # c => ~Running(d)', Managed',
         Running(c)' => Working(c)', ~Running(c)' => AllManaged'
  PROVE  Tracked'
<1>1. (Resting => AllManaged)'
  BY DEF Resting
<1>2. \A d \in Call \ Ctl : Running(d)' => Working(d)'
  OBVIOUS
<1>3. (\A d \in Call \ Ctl : Running(d) => Working(d))'
  BY <1>2
<1> QED
  BY <1>1, <1>3 DEF Tracked

LEMMA RestingTracked ==
  ASSUME Resting', Managed', AllManaged' PROVE Tracked'
<1>1. (\A d \in Call \ Ctl : Running(d) => Working(d))'
  BY DEF Resting
<1> QED
  BY <1>1 DEF Tracked

(* The end of the server, wherever its calls are.                            *)
LEMMA ExitTracked ==
  ASSUME TypeOK, ~Overlap, Tracked, Exit, table' = table PROVE Tracked'
<1>1. manager'.applied = <<>> /\ Managed'
  BY NoCopies DEF Exit, NewManager, Managed
<1>2. Resting'
  <2>1. ASSUME NEW c \in Call \ Ctl PROVE pc'[c] = "idle"
    BY <2>1 DEF Exit
  <2> QED
    BY <2>1 DEF Resting, Running
<1>3. table \in [Rule -> Nat] /\ manager.applied \in Seq(Rule) /\ lost \subseteq lost'
  BY DEF TypeOK, Types, Manager, Exit
<1>4. \A r \in Rule : In(manager.applied, r) => r \in lost'
  BY DEF Exit
<1>5. Copies(table, lost', <<>>, 0)
  <2>1. ASSUME NEW k \in Nat, k <= Len(manager.applied), Copies(table, lost, manager.applied, k)
        PROVE  Copies(table, lost', <<>>, 0)
    <3>1. \A r \in Rule : Among(manager.applied, k, r) => r \in lost'
      BY <1>3, <1>4, <2>1 DEF Among, In
    <3> QED
      BY <1>3, <2>1, <3>1, Forgotten
  <2>2. CASE Resting
    <3>1. Len(manager.applied) \in Nat
      BY <1>3
    <3> QED
      BY <2>1, <2>2, <3>1 DEF Tracked, AllManaged
  <2>3. ASSUME NEW c \in Call \ Ctl, Running(c) PROVE Copies(table, lost', <<>>, 0)
    <3>1. Working(c) /\ frame[c].i \in Nat /\ frame[c].mine \in Seq(Rule) /\ Len(manager.applied) \in Nat
      BY <1>3, <2>3 DEF Tracked, TypeOK, Types, Frame
    <3>2. CASE pc[c] \in {"enter", "cleanup"}
      BY <2>1, <3>1, <3>2 DEF Working
    <3>3. CASE pc[c] \notin {"enter", "cleanup"}
      <4>1. pc[c] \in {"exit", "forward", "check", "add", "publish"}
        BY <2>3, <3>3 DEF Running, TypeOK, Types
      <4>2. Copies(table, lost, frame[c].mine, Len(frame[c].mine))
        BY <3>1, <4>1 DEF Working
      <4>3. \A r \in Rule : Among(frame[c].mine, Len(frame[c].mine), r) => r \in lost'
        BY <2>3 DEF Exit, In, Among
      <4> QED
        BY <1>3, <4>2, <4>3, Forgotten
    <3> QED
      BY <3>2, <3>3
  <2> QED
    BY <2>2, <2>3 DEF Resting
<1>6. AllManaged'
  BY <1>1, <1>5, NoCopies DEF AllManaged
<1> QED
  BY <1>1, <1>2, <1>6, RestingTracked

LEMMA BeginTracked ==
  ASSUME Types, Lifecycle, Tracked, ~Overlap', NEW c \in Call,
         NEW rules \in SUBSET Rule, NEW label \in {"enter", "forward", "publish"},
         Begin(c, rules, label),
         \/ c = "start" /\ ~up /\ label = (IF enabled THEN "forward" ELSE "publish")
         \/ c \notin Ctl /\ c # "start" /\ label = "enter"
         \/ c \in Ctl
  PROVE  Tracked'
<1>1. pc'[c] = label /\ Running(c)' /\ ~Running(c)
  BY DEF Begin, Goto, Types, Running
<1>2. \A d \in Call : d # c => ~Running(d)'
  BY <1>1, Alone
<1>3. \A d \in Call : d # c => pc'[d] = pc[d]
  BY DEF Begin, Goto, Types
<1>4. Resting
  BY <1>1, <1>2, <1>3 DEF Resting, Running
<1>5. AllManaged' /\ Managed'
  BY <1>4 DEF Tracked, AllManaged, Managed, Begin
<1>6. CASE c \in Ctl
  <2>1. Resting'
    BY <1>2, <1>6 DEF Resting
  <2> QED
    BY <1>5, <2>1, RestingTracked
<1>7. CASE c \notin Ctl
  <2>1. frame'[c].mine = <<>>
    BY BeginFrame DEF Types
  <2>2. label # "enter" => manager'.applied = <<>>
    BY <1>7 DEF Lifecycle, NewManager, Begin
  <2>3. label # "enter" => Copies(table', lost', <<>>, Len(<<>>))
    BY <1>5, <2>2 DEF AllManaged
  <2>4. c # "start" \/ enabled' \/ label = "publish"
    BY <1>7 DEF Begin
  <2>5. Working(c)'
    BY <1>1, <1>5, <2>1, <2>2, <2>3, <2>4, NoCopies DEF Working, AllManaged
  <2> QED
    BY <1>1, <1>2, <1>5, <1>7, <2>5, TrackedOne
<1> QED
  BY <1>6, <1>7

LEMMA EnterTracked ==
  ASSUME Types, Tracked, ~Overlap, NEW c \in Call \ Ctl, Enter(c) PROVE Tracked'
<1>0. Running(c) /\ \A d \in Call : d # c => ~Running(d) /\ ~Running(d)'
  BY RunningStep DEF Step
<1>1. Working(c) /\ Managed /\ manager' = manager /\ table' = table /\ lost' = lost /\ enabled' = enabled
  BY <1>0 DEF Tracked, Enter
<1>2. frame[c].mine = <<>> /\ Copies(table, lost, manager.applied, Len(manager.applied))
      /\ (c = "start" => enabled)
  BY <1>1 DEF Enter, Working
<1>3. Managed'
  BY <1>1 DEF Managed
<1>4. CASE ~manager.on /\ pc' = [pc EXCEPT ![c] = IF c = "shutdown" THEN "exit" ELSE "forward"]
           /\ UNCHANGED frame
  <2>1. pc'[c] \in {"exit", "forward"}
    BY <1>4 DEF Types
  <2>2. manager'.applied = <<>> /\ frame'[c].mine = <<>>
    BY <1>1, <1>2, <1>4 DEF Managed
  <2>3. Copies(table', lost', <<>>, Len(<<>>))
    BY <1>1, <1>2, <1>4, <2>2
  <2>4. Working(c)'
    BY <1>1, <1>2, <2>1, <2>2, <2>3, NoCopies DEF Working
  <2> QED
    BY <1>0, <1>3, <2>1, <2>4, TrackedOne DEF Running
<1>5. CASE manager.on /\ pc' = [pc EXCEPT ![c] = "cleanup"]
           /\ frame' = [frame EXCEPT ![c].i = Len(manager.applied)]
  <2>1. pc'[c] = "cleanup"
    BY <1>5 DEF Types
  <2>2. PICK n \in Nat : n = Len(manager.applied)
    BY DEF Types, Manager
  <2>3. frame'[c].i = n /\ frame'[c].mine = <<>>
    BY <1>2, <1>5, <2>2, SetIndex DEF Types
  <2>4. Copies(table', lost', manager'.applied, n) /\ n <= Len(manager'.applied)
    BY <1>1, <1>2, <1>5, <2>2
  <2>5. Working(c)'
    BY <1>1, <1>2, <2>1, <2>3, <2>4 DEF Working
  <2> QED
    BY <1>0, <1>3, <2>1, <2>5, TrackedOne DEF Running
<1> QED
  BY <1>4, <1>5 DEF Enter, Goto

LEMMA RemoveTracked ==
  ASSUME Types, Tracked, ~Overlap, NEW c \in Call \ Ctl, Remove(c) PROVE Tracked'
<1>0. Running(c) /\ \A d \in Call : d # c => ~Running(d) /\ ~Running(d)'
  BY RunningStep DEF Step
<1>1. Working(c) /\ Managed
  BY <1>0 DEF Tracked
<1>2. PICK s \in Seq(Rule) : s = manager.applied
  BY DEF Types, Manager
<1>3. PICK i \in 1..Len(s) : i = frame[c].i
  BY <1>2 DEF Remove
<1>4. frame[c].mine = <<>> /\ Copies(table, lost, s, i) /\ Distinct(s) /\ (c = "start" => enabled)
  BY <1>1, <1>2, <1>3 DEF Remove, Working, Managed
<1>5. \/ table' = [table EXCEPT ![s[i]] = IF table[s[i]] > 0 THEN table[s[i]] - 1 ELSE 0] /\ lost' = lost
      \/ table' = table /\ lost' = lost \cup {s[i]}
  BY <1>2, <1>3 DEF Remove
<1>6. Copies(table', lost', s, i - 1)
  <2>1. PICK t, l : t \in [Rule -> Nat] /\ t = table /\ l = lost
    BY DEF Types
  <2>2. /\ Copies([t EXCEPT ![s[i]] = IF t[s[i]] > 0 THEN t[s[i]] - 1 ELSE 0], l, s, i - 1)
        /\ Copies(t, l \cup {s[i]}, s, i - 1)
    BY <1>4, <2>1, RemoveLast
  <2> QED
    BY <1>5, <2>1, <2>2
<1>7. i - 1 \in Nat /\ i - 1 <= Len(s)
  OBVIOUS
<1>8. frame'[c].i = i - 1 /\ frame'[c].mine = <<>>
  BY <1>3, <1>4, <1>7, SetIndex DEF Remove, Types
<1>9. pc'[c] = "cleanup" /\ manager' = manager /\ manager'.applied = s /\ enabled' = enabled
  BY <1>2 DEF Remove
<1>10. Working(c)'
  BY <1>4, <1>6, <1>7, <1>8, <1>9 DEF Working
<1>11. Managed'
  BY <1>1, <1>9 DEF Managed
<1> QED
  BY <1>0, <1>9, <1>10, <1>11, TrackedOne DEF Running

LEMMA CleanedTracked ==
  ASSUME Types, Tracked, ~Overlap, NEW c \in Call \ Ctl, Cleaned(c) \/ Panic(c) PROVE Tracked'
<1>0. Running(c) /\ \A d \in Call : d # c => ~Running(d) /\ ~Running(d)'
  BY RunningStep DEF Step
<1>1. Working(c) /\ Managed
  BY <1>0 DEF Tracked
<1>2. manager.applied \in Seq(Rule) /\ frame[c].i \in Nat
  BY DEF Types, Manager, Frame
<1>3. Cleaned(c)
  <2>1. pc[c] = "cleanup" => frame[c].i <= Len(manager.applied)
    BY <1>1 DEF Working
  <2> QED
    BY <1>2, <2>1 DEF Panic
<1>4. frame[c].mine = <<>> /\ (c = "start" => enabled) /\ enabled' = enabled
  BY <1>1, <1>3 DEF Cleaned, Working
<1>5. Copies(table', lost', <<>>, Len(<<>>))
  <2>1. pc[c] = "cleanup" /\ frame[c].i = 0 /\ table' = table /\ lost' = lost
    BY <1>3 DEF Cleaned
  <2>2. Copies(table, lost, manager.applied, frame[c].i)
    BY <1>1, <2>1 DEF Working
  <2>3. Copies(table, lost, manager.applied, 0)
    BY <2>1, <2>2
  <2> QED
    BY <2>1, <2>3, NoCopies
<1>6. manager' = [manager EXCEPT !.applied = <<>>] /\ frame' = frame
      /\ pc' = [pc EXCEPT ![c] = IF c = "shutdown" THEN "exit" ELSE "forward"]
  BY <1>3 DEF Cleaned, Goto
<1>7. manager'.applied = <<>> /\ pc'[c] \in {"exit", "forward"} /\ frame'[c].mine = <<>>
  BY <1>4, <1>6 DEF Types, Manager
<1>8. Working(c)'
  BY <1>4, <1>5, <1>7, NoCopies DEF Working
<1>9. Managed'
  BY <1>7, NoCopies DEF Managed
<1> QED
  BY <1>0, <1>7, <1>8, <1>9, TrackedOne DEF Running

(* The steps of Apply other than iptables -A, which leave what is tracked.   *)
LEMMA ApplyTracked ==
  ASSUME Types, Tracked, ~Overlap, NEW c \in Call \ Ctl, Forward(c) \/ Check(c) \/ Applied(c)
  PROVE  Tracked'
<1>0. Running(c) /\ \A d \in Call : d # c => ~Running(d) /\ ~Running(d)'
  BY RunningStep DEF Step
<1>1. Working(c) /\ Managed /\ pc[c] \in {"forward", "check"}
  BY <1>0 DEF Tracked, Forward, Check, Applied
<1>2. /\ manager.applied = <<>>
      /\ Distinct(frame[c].mine) /\ Copies(table, lost, frame[c].mine, Len(frame[c].mine))
      /\ \A r \in frame[c].todo : ~In(frame[c].mine, r)
      /\ (c = "start" => enabled) /\ (pc[c] = "forward" => frame[c].mine = <<>>)
  BY <1>1 DEF Working
<1>3. table' = table /\ manager' = manager /\ enabled' = enabled /\ lost' = lost
  BY DEF Forward, Check, Applied
<1>4. Managed'
  BY <1>1, <1>3 DEF Managed
<1>5. CASE Return(c)
  <2>1. ~Running(c)' /\ frame[c].mine = <<>>
    BY <1>2, <1>5 DEF Return, Goto, Running, Types, Forward, Check, Applied
  <2>2. AllManaged'
    BY <1>2, <1>3, <2>1 DEF AllManaged
  <2> QED
    BY <1>0, <1>4, <2>1, <2>2, TrackedOne
<1>6. CASE ~Return(c)
  <2>1. frame'[c].mine = frame[c].mine /\ frame'[c].todo \subseteq frame[c].todo
    <3>1. CASE UNCHANGED frame
      BY <3>1
    <3>2. ASSUME NEW T \in SUBSET frame[c].todo, frame' = [frame EXCEPT ![c].todo = T]
          PROVE  frame'[c].mine = frame[c].mine /\ frame'[c].todo \subseteq frame[c].todo
      <4>1. T \in SUBSET Rule /\ frame \in [Call -> Frame]
        BY DEF Types, Frame
      <4> QED
        BY <3>2, <4>1, SetTodo
    <3>3. UNCHANGED frame \/ \E T \in SUBSET frame[c].todo : frame' = [frame EXCEPT ![c].todo = T]
      <4>1. CASE Forward(c)
        BY <1>6, <4>1 DEF Forward
      <4>2. CASE Check(c)
        BY <4>2 DEF Check
      <4>3. CASE Applied(c)
        BY <4>3 DEF Applied
      <4> QED
        BY <4>1, <4>2, <4>3
    <3> QED
      BY <3>1, <3>2, <3>3
  <2>2. pc'[c] \in {"check", "add", "publish"}
    BY <1>1, <1>6 DEF Forward, Check, Applied, Goto, Types
  <2>3. Working(c)'
    BY <1>2, <1>3, <2>1, <2>2 DEF Working
  <2> QED
    BY <1>0, <1>4, <2>2, <2>3, TrackedOne DEF Running
<1> QED
  BY <1>5, <1>6

LEMMA AddTracked ==
  ASSUME Types, Tracked, ~Overlap, NEW c \in Call \ Ctl, Add(c) PROVE Tracked'
<1>0. Running(c) /\ \A d \in Call : d # c => ~Running(d) /\ ~Running(d)'
  BY RunningStep DEF Step
<1>1. Working(c) /\ Managed /\ pc[c] = "add"
  BY <1>0 DEF Tracked, Add
<1>2. PICK s \in Seq(Rule) : s = frame[c].mine
  BY DEF Types, Frame
<1>3. /\ manager.applied = <<>> /\ Distinct(s) /\ Copies(table, lost, s, Len(s))
      /\ \A r \in frame[c].todo : ~In(s, r)
      /\ (c = "start" => enabled)
  BY <1>1, <1>2 DEF Working
<1>4. manager' = manager /\ enabled' = enabled /\ pc'[c] = "check" /\ lost' = lost
  BY DEF Add, Goto, Types
<1>5. PICK r \in Rule :
        /\ Least(frame[c].todo, r)
        /\ \/ /\ table' = [table EXCEPT ![r] = table[r] + 1]
              /\ frame' = [frame EXCEPT ![c].todo = frame[c].todo \ {r},
                                        ![c].mine = Append(frame[c].mine, r)]
           \/ /\ frame' = [frame EXCEPT ![c].todo = frame[c].todo \ {r}]
              /\ table' = table
  BY DEF Add
<1>6. ~In(s, r)
  BY <1>3, <1>5 DEF Least
<1>7. PICK T \in SUBSET Rule : T = frame[c].todo \ {r}
  BY DEF Types, Frame
<1>8. PICK q \in {s, Append(s, r)} :
        /\ frame'[c].mine = q /\ frame'[c].todo = T
        /\ Distinct(q) /\ Copies(table', lost', q, Len(q)) /\ \A p \in T : ~In(q, p)
  <2>1. CASE /\ table' = [table EXCEPT ![r] = table[r] + 1]
             /\ frame' = [frame EXCEPT ![c].todo = frame[c].todo \ {r},
                                       ![c].mine = Append(frame[c].mine, r)]
    <3>1. frame'[c].mine = Append(s, r) /\ frame'[c].todo = T
      <4>1. frame' = [frame EXCEPT ![c].todo = T, ![c].mine = Append(frame[c].mine, r)]
        BY <1>7, <2>1
      <4>2. frame \in [Call -> Frame]
        BY DEF Types
      <4>3. frame'[c].mine = Append(frame[c].mine, r) /\ frame'[c].todo = T
        BY <4>1, <4>2, SetTodoMine
      <4> QED
        BY <1>2, <4>3
    <3>2. Distinct(Append(s, r)) /\ Copies(table', lost', Append(s, r), Len(Append(s, r)))
      <4>1. PICK t, l : t \in [Rule -> Nat] /\ t = table /\ l = lost
        BY DEF Types
      <4>2. LET q == Append(s, r)
            IN  Distinct(q) /\ Copies([t EXCEPT ![r] = t[r] + 1], l, q, Len(q))
        BY <1>3, <1>6, <4>1, AppendRule
      <4> QED
        BY <1>4, <2>1, <4>1, <4>2
    <3>3. ASSUME NEW p \in T PROVE ~In(Append(s, r), p)
      <4>1. p # r /\ ~In(s, p)
        BY <1>3, <1>7
      <4>2. PICK q : q = Append(s, r)
        OBVIOUS
      <4>3. Len(q) = Len(s) + 1 /\ q[Len(s) + 1] = r /\ \A n \in 1..Len(s) : q[n] = s[n]
        BY <4>2
      <4>4. ~In(q, p)
        BY <4>1, <4>3 DEF In
      <4> QED
        BY <4>2, <4>4
    <3> QED
      BY <3>1, <3>2, <3>3
  <2>2. CASE frame' = [frame EXCEPT ![c].todo = frame[c].todo \ {r}] /\ table' = table
    <3>1. frame'[c].mine = s /\ frame'[c].todo = T
      BY <1>2, <1>7, <2>2, SetTodo DEF Types
    <3> QED
      BY <1>3, <1>4, <1>7, <2>2, <3>1
  <2> QED
    BY <1>5, <2>1, <2>2
<1>9. Managed'
  BY <1>1, <1>4 DEF Managed
<1>10. Working(c)'
  BY <1>3, <1>4, <1>8 DEF Working
<1> QED
  BY <1>0, <1>4, <1>9, <1>10, TrackedOne DEF Running

LEMMA PublishTracked ==
  ASSUME Types, Lifecycle, Tracked, ~Overlap, NEW c \in Call \ Ctl, Publish(c) PROVE Tracked'
<1>0. Running(c) /\ \A d \in Call : d # c => ~Running(d) /\ ~Running(d)'
  BY RunningStep DEF Step
<1>1. Working(c) /\ pc[c] = "publish"
  BY <1>0 DEF Tracked, Publish
<1>2. /\ Distinct(frame[c].mine) /\ Copies(table, lost, frame[c].mine, Len(frame[c].mine))
      /\ (c = "start" /\ ~enabled => frame[c].mine = <<>>)
  BY <1>1 DEF Working
<1>3. ~Running(c)' /\ table' = table /\ lost' = lost
  BY DEF Publish, Return, Goto, Types, Running
<1>4. manager'.applied = frame[c].mine /\ (~manager'.on => c \notin Http /\ ~enabled)
  BY <1>1 DEF Publish
<1>5. c = "start" \/ c \in Http
  <2>1. c # "shutdown"
    BY <1>1 DEF Lifecycle
  <2> QED
    BY <2>1 DEF Call
<1>6. Managed'
  BY <1>2, <1>4, <1>5 DEF Managed
<1>7. AllManaged'
  BY <1>2, <1>3, <1>4 DEF AllManaged
<1> QED
  BY <1>0, <1>3, <1>6, <1>7, TrackedOne

(* wsctl adds copies that nobody tracks, and leaves the server's manager.     *)
LEMMA WsctlTracked ==
  ASSUME Types, Lifecycle, Tracked, ~Overlap, NEW c \in Ctl, Step(c) \/ KillWsctl(c)
  PROVE  Tracked'
<1>0. c \in Call /\ pc[c] \notin {"enter", "cleanup", "exit"}
  BY Rules DEF Lifecycle
<1>1. Running(c) /\ \A d \in Call : d # c => ~Running(d) /\ ~Running(d)'
  <2>1. CASE Step(c)
    BY <1>0, <2>1, RunningStep
  <2>2. CASE KillWsctl(c)
    <3>1. \A d \in Call : d # c => ~Running(d)
      BY <1>0, <2>2 DEF KillWsctl, Overlap
    <3> QED
      BY <1>0, <2>2, <3>1 DEF KillWsctl, Return, Goto, Running, Types
  <2> QED
    BY <2>1, <2>2
<1>2. Resting /\ Resting' /\ AllManaged /\ Managed
  BY <1>1, Rules DEF Resting, Tracked
<1>3. manager' = manager
  BY <1>0 DEF Step, Enter, Remove, Panic, Cleaned, Forward, Check, Add, Applied, Publish, KillWsctl
<1>4. CASE table' = table /\ lost' = lost
  <2>1. AllManaged' /\ Managed'
    BY <1>2, <1>3, <1>4 DEF AllManaged, Managed
  <2> QED
    BY <1>2, <2>1, RestingTracked
<1>5. ASSUME NEW r \in Rule, table' = [table EXCEPT ![r] = table[r] + 1], lost' = lost \cup {r}
      PROVE  Tracked'
  <2>1. PICK t, l, s, k :
          t \in [Rule -> Nat] /\ t = table /\ l = lost /\ s = manager.applied /\ k = Len(s)
    BY DEF Types
  <2>2. Copies([t EXCEPT ![r] = t[r] + 1], l \cup {r}, s, k)
    BY <1>2, <2>1, AddLost DEF AllManaged
  <2>3. AllManaged' /\ Managed'
    BY <1>2, <1>3, <1>5, <2>1, <2>2 DEF AllManaged, Managed
  <2> QED
    BY <1>2, <2>3, RestingTracked
<1>6. \/ table' = table /\ lost' = lost
      \/ \E r \in Rule : table' = [table EXCEPT ![r] = table[r] + 1] /\ lost' = lost \cup {r}
  <2>1. CASE Add(c)
    BY <2>1 DEF Add
  <2>2. CASE ~Add(c)
    BY <1>0, <2>2 DEF Step, Enter, Remove, Panic, Cleaned, Forward, Check, Applied, Publish, KillWsctl
  <2> QED
    BY <2>1, <2>2
<1> QED
  BY <1>4, <1>5, <1>6

LEMMA TrackedInit == Init => AllTracked
<1> SUFFICES ASSUME Init PROVE Tracked
  BY DEF AllTracked
<1>1. \A c \in Call : ~Running(c)
  BY DEF Init, Running
<1>2. manager.applied = <<>>
  BY DEF Init, NewManager
<1>3. Copies(table, lost, <<>>, 0)
  <2>1. ASSUME NEW r \in Rule
        PROVE  table[r] >= Expected(<<>>, 0, r) /\ table[r] = Expected(<<>>, 0, r)
    <3>1. PICK n \in {0, 1} : n = Own(r) /\ n = table[r]
      BY DEF Init, Own
    <3>2. Expected(<<>>, 0, r) = n
      BY <3>1 DEF Expected, Among
    <3> QED
      BY <3>1, <3>2
  <2> QED
    BY <2>1 DEF Copies
<1> QED
  BY <1>1, <1>2, <1>3, NoCopies DEF Tracked, Managed, AllManaged

LEMMA TrackedStep == TypeOK /\ Single /\ Single' /\ AllTracked /\ [Next]_vars => AllTracked'
<1> SUFFICES ASSUME TypeOK, Single, Single', AllTracked, [Next]_vars, ~overlapped'
             PROVE  Tracked'
  BY DEF AllTracked
<1>1. ~overlapped
  BY DEF Next, vars
<1>2. ~Overlap /\ ~Overlap'
  BY <1>1 DEF Single, Apart
<1>3. Tracked /\ Types /\ Lifecycle
  BY <1>1 DEF AllTracked, TypeOK
<1>4. CASE Edit
  BY <1>3, <1>4 DEF Edit, Tracked, Managed, AllManaged, Working, Resting, Running
<1>5. CASE Start
  BY <1>2, <1>3, <1>5, Rules, CallsApart, BeginTracked DEF Start
<1>6. CASE Shutdown
  BY <1>2, <1>3, <1>6, Rules, CallsApart, BeginTracked DEF Shutdown
<1>7. CASE Kill \/ Finish
  BY <1>2, <1>3, <1>7, ExitTracked DEF Kill, Finish
<1>8. ASSUME NEW c \in Http, ApplyNATRules(c) PROVE Tracked'
  BY <1>2, <1>3, <1>8, Rules, CallsApart, BeginTracked DEF ApplyNATRules
<1>9. ASSUME NEW c \in Ctl, WsctlApply(c) PROVE Tracked'
  BY <1>2, <1>3, <1>9, Rules, BeginTracked DEF WsctlApply
<1>10. ASSUME NEW c \in Ctl, KillWsctl(c) PROVE Tracked'
  BY <1>2, <1>3, <1>10, WsctlTracked
<1>11. ASSUME NEW c \in Call, Step(c) PROVE Tracked'
  <2>1. CASE c \in Ctl
    BY <1>2, <1>3, <1>11, <2>1, WsctlTracked
  <2>2. CASE c \notin Ctl
    BY <1>2, <1>3, <1>11, <2>2, EnterTracked, RemoveTracked, CleanedTracked, ApplyTracked, AddTracked,
       PublishTracked DEF Step
  <2> QED
    BY <2>1, <2>2
<1>12. CASE UNCHANGED vars
  BY <1>3, <1>12 DEF vars, Tracked, Managed, AllManaged, Working, Resting, Running
<1> QED
  BY <1>4, <1>5, <1>6, <1>7, <1>8, <1>9, <1>10, <1>11, <1>12 DEF Next, Move

LEMMA TrackedAlways == Spec => []AllTracked
BY TrackedInit, TrackedStep, TypeCorrect, SingleAlways, PTL DEF Spec

(* Until two calls have run at once, every rule the server's nat.Manager     *)
(* tracks is in iptables, once more than others have put it there, whenever  *)
(* no apply or cleanup is under way: what the next Cleanup removes is the    *)
(* server's own, whichever rows were edited and whichever commands failed.   *)
(* A further copy is only ever of a rule whose -D failed, that wsctl added,  *)
(* or that a server tracked when it was killed.                              *)
THEOREM CopiesAreTracked == Spec => []CopiesTracked
<1>1. AllTracked => CopiesTracked
  <2> SUFFICES ASSUME Quiet, Tracked, NEW r \in Rule
               PROVE  LET tracked == {n \in 1..Len(manager.applied) : manager.applied[n] = r}
                          expected == (IF r \in Foreign THEN 1 ELSE 0) + (IF tracked = {} THEN 0 ELSE 1)
                      IN  /\ table[r] >= expected
                          /\ r \notin lost => table[r] = expected
                          /\ \A m, n \in tracked : m = n
    BY DEF AllTracked, CopiesTracked
  <2> DEFINE tracked == {n \in 1..Len(manager.applied) : manager.applied[n] = r}
  <2>1. Among(manager.applied, Len(manager.applied), r) <=> tracked # {}
    BY DEF Among
  <2>2. \A m, n \in tracked : m = n
    BY DEF Tracked, Managed, Distinct
  <2>3. Resting
    BY DEF Quiet, Resting
  <2>4. LET e == Expected(manager.applied, Len(manager.applied), r)
        IN  table[r] >= e /\ (r \notin lost => table[r] = e)
    BY <2>3 DEF Tracked, AllManaged, Copies
  <2>5. Expected(manager.applied, Len(manager.applied), r)
          = (IF r \in Foreign THEN 1 ELSE 0) + (IF tracked = {} THEN 0 ELSE 1)
    BY <2>1 DEF Expected, Own
  <2> HIDE DEF tracked
  <2>6. LET e == (IF r \in Foreign THEN 1 ELSE 0) + (IF tracked = {} THEN 0 ELSE 1)
        IN  table[r] >= e /\ (r \notin lost => table[r] = e)
    BY <2>4, <2>5
  <2> QED
    BY <2>2, <2>6 DEF tracked
<1> QED
  BY <1>1, TrackedAlways, PTL

------------------------------------------------------------------------------
(* Rules of others, again *)

(* A rule that a call of the server works on has at least the copies of      *)
(* others, while calls run one at a time.                                    *)
LEMMA OwnCopies == ASSUME TypeOK, Apart, AllTracked, ~overlapped, NEW r \in Rule PROVE table[r] >= Own(r)
<1>1. ASSUME NEW l, NEW s, NEW k, Copies(table, l, s, k) PROVE table[r] >= Own(r)
  <2>1. table[r] >= Expected(s, k, r) /\ table[r] \in Nat
    BY <1>1 DEF Copies, TypeOK, Types
  <2>2. Expected(s, k, r) >= Own(r) /\ Expected(s, k, r) \in Nat /\ Own(r) \in Nat
    BY DEF Expected, Own
  <2> QED
    BY <2>1, <2>2
<1>2. CASE Resting
  BY <1>1, <1>2 DEF AllTracked, Tracked, AllManaged
<1>3. ASSUME NEW c \in Call \ Ctl, Running(c) PROVE table[r] >= Own(r)
  <2>1. Working(c)
    BY <1>3 DEF AllTracked, Tracked
  <2>2. pc[c] \in {"enter", "cleanup", "exit", "forward", "check", "add", "publish"}
    BY <1>3 DEF Running, TypeOK, Types
  <2> QED
    BY <1>1, <2>1, <2>2 DEF Working
<1> QED
  BY <1>2, <1>3 DEF Resting

(* No apply, cleanup, failing command, death or run of wsctl ever removes    *)
(* the last copy of a rule of others from iptables, in any interleaving, but *)
(* for overlapping calls that follow a failing -C of the very rule.          *)
THEOREM ForeignRulesKept == Spec => []ForeignKept
<1>1. TypeOK /\ Single /\ AllTracked /\ ForeignUntouched => ForeignKept
  <2> SUFFICES ASSUME TypeOK, Apart, AllTracked, ForeignUntouched, NEW r \in Foreign, table[r] = 0
               PROVE  r \in misjudged /\ overlapped
    BY DEF Single, ForeignKept
  <2>1. r \in misjudged
    BY DEF ForeignUntouched, Present
  <2>2. ~overlapped => table[r] >= 1
    BY OwnCopies DEF Own
  <2>3. overlapped
    BY <2>2 DEF TypeOK
  <2> QED
    BY <2>1, <2>3
<1> QED
  BY <1>1, UntouchedInit, UntouchedStep, TypeCorrect, SingleAlways, TrackedAlways, PTL DEF Spec

------------------------------------------------------------------------------
(* What a fresh apply has handled *)

(* The call works on the rows as they are: each enabled row is still to come *)
(* or is in iptables, and it tracks the rules of enabled rows only.          *)
Handled(c) ==
  /\ c # "shutdown" /\ (fresh = "wsctl" <=> c \in Ctl)
  /\ frame[c].todo \subseteq EnabledRows
  /\ \A n \in 1..Len(frame[c].mine) : frame[c].mine[n] \in EnabledRows
  /\ pc[c] \in {"enter", "cleanup", "forward"} => frame[c].todo = EnabledRows
  /\ pc[c] \in {"check", "add", "publish"} =>
       \A r \in EnabledRows : r \in frame[c].todo \/ table[r] > 0
  /\ pc[c] = "publish" => frame[c].todo = {}

RowsApplied ==
  \A r \in Rule :
    /\ r \in EnabledRows => table[r] > 0
    /\ fresh = "server" /\ table[r] > 0 => r \in EnabledRows \cup Foreign \cup lost
UpToDate ==
  /\ Quiet => RowsApplied
  /\ \A c \in Call : Running(c) => Handled(c)
FreshUpToDate == ~overlapped /\ fresh # "no" => UpToDate

LEMMA UpToDateOne ==
  ASSUME NEW c \in Call, \A d \in Call : d # c => ~Running(d)',
         Running(c)' => Handled(c)', ~Running(c)' => RowsApplied'
  PROVE  UpToDate'
<1>1. (Quiet => RowsApplied)'
  BY DEF Quiet
<1>2. \A d \in Call : Running(d)' => Handled(d)'
  OBVIOUS
<1>3. (\A d \in Call : Running(d) => Handled(d))'
  BY <1>2
<1> QED
  BY <1>1, <1>3 DEF UpToDate

LEMMA BeginUpToDate ==
  ASSUME Types, ~Overlap', NEW c \in Call, c # "shutdown", NEW label \in {"enter", "forward"},
         Begin(c, EnabledRows, label), fresh' = "wsctl" <=> c \in Ctl
  PROVE  UpToDate'
<1>1. pc'[c] = label /\ Running(c)' /\ EnabledRows' = EnabledRows
  BY DEF Begin, Goto, Types, Running, EnabledRows
<1>2. \A d \in Call : d # c => ~Running(d)'
  BY <1>1, Alone
<1>3. frame'[c].mine = <<>> /\ frame'[c].todo = EnabledRows
  BY BeginFrame, Rules DEF Types
<1>4. Handled(c)'
  BY <1>1, <1>3 DEF Handled
<1> QED
  BY <1>1, <1>2, <1>4, UpToDateOne

(* Until the rules of the new manager are applied, the call still has all of *)
(* them to come.                                                             *)
LEMMA CleanupUpToDate ==
  ASSUME Types, Types', UpToDate, ~Overlap, NEW c \in Call, fresh' # "no",
         Enter(c) \/ Remove(c) \/ Panic(c) \/ Cleaned(c) \/ Forward(c)
  PROVE  UpToDate'
<1>0. Running(c) /\ \A d \in Call : d # c => ~Running(d) /\ ~Running(d)'
  BY RunningStep DEF Step
<1>1. Handled(c) /\ ~Exit /\ ~Panic(c) /\ fresh' = fresh
  BY <1>0 DEF UpToDate, Exit, Enter, Remove, Panic, Cleaned, Forward
<1>2. rows' = rows /\ EnabledRows' = EnabledRows
  BY DEF Enter, Remove, Panic, Cleaned, Forward, EnabledRows
<1>3. frame[c].todo = EnabledRows
  BY <1>1 DEF Handled, Enter, Remove, Panic, Cleaned, Forward
<1>4. frame'[c].todo = EnabledRows /\ frame'[c].mine = frame[c].mine
  <2>1. UNCHANGED frame \/ \E n \in Nat : frame' = [frame EXCEPT ![c].i = n]
    <3>1. CASE Enter(c)
      <4>1. Len(manager.applied) \in Nat
        BY DEF Types, Manager
      <4> QED
        BY <3>1, <4>1 DEF Enter
    <3>2. CASE Remove(c)
      <4>1. frame[c].i - 1 \in Nat
        BY <3>2 DEF Remove, Types, Frame, Manager
      <4> QED
        BY <3>2, <4>1 DEF Remove
    <3>3. CASE Cleaned(c)
      BY <3>3 DEF Cleaned
    <3>4. CASE Forward(c)
      BY <1>1, <3>4 DEF Forward
    <3> QED
      BY <1>1, <3>1, <3>2, <3>3, <3>4
  <2>2. ASSUME NEW n \in Nat, frame' = [frame EXCEPT ![c].i = n]
        PROVE  frame'[c].todo = frame[c].todo /\ frame'[c].mine = frame[c].mine
    BY <2>2, SetIndex DEF Types
  <2> QED
    BY <1>3, <2>1, <2>2
<1>5. pc'[c] \in {"cleanup", "forward", "check"}
  BY <1>1 DEF Handled, Enter, Remove, Cleaned, Forward, Goto, Types
<1>6. Handled(c)'
  BY <1>1, <1>2, <1>4, <1>5 DEF Handled
<1> QED
  BY <1>0, <1>5, <1>6, UpToDateOne DEF Running

LEMMA ApplyUpToDate ==
  ASSUME Types, Types', UpToDate, ~Overlap, NEW c \in Call, Check(c) \/ Applied(c)
  PROVE  UpToDate'
<1>0. Running(c) /\ \A d \in Call : d # c => ~Running(d) /\ ~Running(d)'
  BY RunningStep DEF Step
<1>1. Handled(c) /\ pc[c] = "check" /\ table' = table /\ fresh' = fresh
  BY <1>0 DEF UpToDate, Check, Applied
<1>2. EnabledRows' = EnabledRows
  BY DEF Check, Applied, EnabledRows
<1>3. CASE Applied(c)
  <2>1. pc'[c] = "publish" /\ frame' = frame /\ frame[c].todo = {}
    BY <1>3 DEF Applied, Goto, Types
  <2>2. Handled(c)'
    BY <1>1, <1>2, <2>1 DEF Handled
  <2> QED
    BY <1>0, <2>1, <2>2, UpToDateOne DEF Running
<1>4. CASE Check(c)
  <2>1. PICK r \in Rule :
          \/ Goto(c, "add") /\ UNCHANGED frame
          \/ /\ table[r] > 0 /\ UNCHANGED pc
             /\ frame' = [frame EXCEPT ![c].todo = frame[c].todo \ {r}]
    BY <1>4 DEF Check
  <2>2. CASE Goto(c, "add") /\ UNCHANGED frame
    <3>1. pc'[c] = "add"
      BY <2>2 DEF Goto, Types
    <3>2. Handled(c)'
      BY <1>1, <1>2, <2>2, <3>1 DEF Handled
    <3> QED
      BY <1>0, <3>1, <3>2, UpToDateOne DEF Running
  <2>3. CASE /\ table[r] > 0 /\ UNCHANGED pc
             /\ frame' = [frame EXCEPT ![c].todo = frame[c].todo \ {r}]
    <3>1. PICK T \in SUBSET Rule : T = frame[c].todo \ {r}
      BY DEF Types, Frame
    <3>2. frame' = [frame EXCEPT ![c].todo = T] /\ frame \in [Call -> Frame]
      BY <2>3, <3>1 DEF Types
    <3>3. frame'[c].todo = T /\ frame'[c].mine = frame[c].mine
      BY <3>2, SetTodo
    <3>4. Handled(c)'
      BY <1>1, <1>2, <2>3, <3>1, <3>3 DEF Handled
    <3> QED
      BY <1>0, <1>1, <2>3, <3>4, UpToDateOne DEF Running
  <2> QED
    BY <2>1, <2>2, <2>3
<1> QED
  BY <1>3, <1>4

LEMMA AddUpToDate ==
  ASSUME Types, Types', UpToDate, ~Overlap, NEW c \in Call, fresh' # "no", Add(c) PROVE UpToDate'
<1>0. Running(c) /\ \A d \in Call : d # c => ~Running(d) /\ ~Running(d)'
  BY RunningStep DEF Step
<1>1. Handled(c) /\ pc[c] = "add" /\ fresh' = fresh
  BY <1>0 DEF UpToDate, Add
<1>2. EnabledRows' = EnabledRows /\ pc'[c] = "check"
  BY DEF Add, EnabledRows, Goto, Types
<1>3. PICK r \in Rule :
        /\ Least(frame[c].todo, r)
        /\ table' = [table EXCEPT ![r] = table[r] + 1]
        /\ frame' = [frame EXCEPT ![c].todo = frame[c].todo \ {r},
                                  ![c].mine = Append(frame[c].mine, r)]
  BY DEF Add
<1>4. PICK T \in SUBSET Rule : T = frame[c].todo \ {r}
  BY DEF Types, Frame
<1>5. frame' = [frame EXCEPT ![c].todo = T, ![c].mine = Append(frame[c].mine, r)]
      /\ frame \in [Call -> Frame]
  BY <1>3, <1>4 DEF Types
<1>6. frame'[c].todo = T /\ frame'[c].mine = Append(frame[c].mine, r)
  BY <1>5, SetTodoMine
<1>7. r \in EnabledRows
  BY <1>1, <1>3 DEF Handled, Least
<1>8. \A n \in 1..Len(frame'[c].mine) : frame'[c].mine[n] \in EnabledRows
  <2>1. PICK s \in Seq(Rule) : s = frame[c].mine
    BY DEF Types, Frame
  <2>2. \A n \in 1..Len(s) : s[n] \in EnabledRows
    BY <1>1, <2>1 DEF Handled
  <2>3. PICK q : q = Append(s, r)
    OBVIOUS
  <2>4. Len(q) = Len(s) + 1 /\ q[Len(s) + 1] = r /\ \A n \in 1..Len(s) : q[n] = s[n]
    BY <2>3
  <2>5. \A n \in 1..Len(q) : q[n] \in EnabledRows
    BY <1>7, <2>2, <2>4
  <2> QED
    BY <1>6, <2>1, <2>3, <2>5
<1>9. \A s \in Rule : (s = r \/ table[s] > 0) => table'[s] > 0
  BY <1>3 DEF Types
<1>10. \A s \in EnabledRows : s \in frame'[c].todo \/ table'[s] > 0
  BY <1>1, <1>4, <1>6, <1>9, Rules DEF Handled
<1>11. Handled(c)'
  BY <1>1, <1>2, <1>4, <1>6, <1>8, <1>10 DEF Handled
<1> QED
  BY <1>0, <1>2, <1>11, UpToDateOne DEF Running

LEMMA PublishUpToDate ==
  ASSUME Types, Types', Lifecycle, UpToDate, Tracked, ~Overlap, NEW c \in Call, Publish(c) PROVE UpToDate'
<1>0. Running(c) /\ \A d \in Call : d # c => ~Running(d) /\ ~Running(d)'
  BY RunningStep DEF Step
<1>1. Handled(c) /\ pc[c] = "publish"
  BY <1>0 DEF UpToDate, Publish
<1>2. table' = table /\ lost' = lost /\ fresh' = fresh /\ EnabledRows' = EnabledRows /\ ~Running(c)'
  BY DEF Publish, EnabledRows, Return, Goto, Running, Types
<1>3. PICK s \in Seq(Rule) : s = frame[c].mine
  BY DEF Types, Frame
<1>4. \A n \in 1..Len(s) : s[n] \in EnabledRows
  BY <1>1, <1>3 DEF Handled
<1>5. \A r \in EnabledRows : table[r] > 0
  BY <1>1 DEF Handled
<1>6. ASSUME fresh = "server", NEW r \in Rule, table[r] > 0
      PROVE  r \in EnabledRows \cup Foreign \cup lost
  <2>1. Copies(table, lost, s, Len(s))
    BY <1>0, <1>1, <1>3, <1>6 DEF Tracked, Working, Handled
  <2>2. Among(s, Len(s), r) => r \in EnabledRows
    BY <1>4 DEF Among
  <2>3. r \notin lost => table[r] = Own(r) + (IF Among(s, Len(s), r) THEN 1 ELSE 0)
    BY <2>1 DEF Copies, Expected
  <2>4. Own(r) \in {0, 1} /\ (Own(r) = 1 <=> r \in Foreign)
    BY DEF Own
  <2>5. CASE r \notin lost /\ r \notin Foreign /\ ~Among(s, Len(s), r)
    <3>1. table[r] = 0
      BY <2>3, <2>4, <2>5
    <3> QED
      BY <1>6, <3>1
  <2> QED
    BY <2>2, <2>5
<1>7. RowsApplied'
  BY <1>2, <1>5, <1>6 DEF RowsApplied
<1> QED
  BY <1>0, <1>2, <1>7, UpToDateOne

LEMMA UpToDateStep ==
  TypeOK /\ TypeOK' /\ Single /\ Single' /\ AllTracked /\ FreshUpToDate /\ [Next]_vars => FreshUpToDate'
<1> SUFFICES ASSUME TypeOK, TypeOK', Single, Single', AllTracked, FreshUpToDate, [Next]_vars,
                    ~overlapped', fresh' # "no"
             PROVE  UpToDate'
  BY DEF FreshUpToDate
<1>1. ~overlapped
  BY DEF Next, vars
<1>2. ~Overlap /\ ~Overlap' /\ Tracked /\ Types /\ Types' /\ Lifecycle
  BY <1>1 DEF Single, Apart, AllTracked, TypeOK
<1>3. CASE Start
  <2>1. fresh' = "server" /\ Begin("start", EnabledRows, "forward")
    BY <1>3 DEF Start, StartRules
  <2> QED
    BY <1>2, <2>1, Rules, CallsApart, BeginUpToDate
<1>4. ASSUME NEW c \in Http, ApplyNATRules(c) PROVE UpToDate'
  BY <1>2, <1>4, Rules, CallsApart, BeginUpToDate DEF ApplyNATRules
<1>5. ASSUME NEW c \in Ctl, WsctlApply(c) PROVE UpToDate'
  BY <1>2, <1>5, Rules, CallsApart, BeginUpToDate DEF WsctlApply
<1>6. ASSUME NEW c \in Call, Step(c) PROVE UpToDate'
  <2>1. fresh # "no"
    BY <1>6 DEF Step, Enter, Exit, Remove, Panic, Cleaned, Forward, Check, Add, Applied, Publish
  <2>2. UpToDate
    BY <1>1, <2>1 DEF FreshUpToDate
  <2> QED
    BY <1>2, <1>6, <2>2, CleanupUpToDate, ApplyUpToDate, AddUpToDate, PublishUpToDate DEF Step
<1>7. CASE UNCHANGED vars
  <2>1. UpToDate
    BY <1>1, <1>7 DEF FreshUpToDate, vars
  <2> QED
    BY <1>7, <2>1 DEF vars, UpToDate, Handled, RowsApplied, EnabledRows, Quiet, Running
<1>8. ~Edit /\ ~Shutdown /\ ~Kill /\ ~Finish /\ \A c \in Ctl : ~KillWsctl(c)
  BY DEF Edit, Shutdown, Kill, Finish, Exit, KillWsctl
<1> QED
  BY <1>3, <1>4, <1>5, <1>6, <1>7, <1>8 DEF Next, Move

(* After an apply that succeeded, and until a row is edited, every enabled    *)
(* row is in iptables, each found or added; and after one of the server's,    *)
(* whose cleanup takes away what was tracked, nothing else is but the rules   *)
(* of others and those of which a copy was left behind.  It holds until two   *)
(* calls run at once.                                                         *)
THEOREM ApplyMatchesRows == Spec => []RulesApplied
<1>1. Init => FreshUpToDate
  BY DEF Init, FreshUpToDate
<1>2. FreshUpToDate => RulesApplied
  BY DEF FreshUpToDate, UpToDate, RowsApplied, RulesApplied
<1> QED
  BY <1>1, <1>2, UpToDateStep, TypeCorrect, SingleAlways, TrackedAlways, PTL DEF Spec

==============================================================================
