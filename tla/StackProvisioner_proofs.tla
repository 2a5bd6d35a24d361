---------------------- MODULE StackProvisioner_proofs ----------------------
(***************************************************************************)
(* Theorems about the stack provisioners: what they report is so, for any  *)
(* number of calls that raise and of interrupts, and a rollback undoes     *)
(* what its run did and nothing else.                                      *)
(*                                                                         *)
(* StackInv says what holds between two steps. Three of its parts carry    *)
(* the argument: what exists is rooted in what AWS needs for it (Rooted),  *)
(* so that the order of a table decides what can be refused; created_now   *)
(* has what the run has made, no less and no more (CreatedIsNew); and a    *)
(* group lacks its rules only while its run can still see to it            *)
(* (GroupsHaveRules).                                                      *)
(***************************************************************************)
EXTENDS StackProvisioner, TLAPS

-----------------------------------------------------------------------------
(* The tables                                                              *)

(* The tables have as many steps as create_stack, _rollback_create and     *)
(* delete_stack.                                                           *)
LEMMA Lengths ==
    /\ Len(VpcPlan) = 13 /\ Len(AlbPlan) = 7
    /\ Len(VpcRollback) = 10 /\ Len(AlbRollback) = 5
    /\ Len(VpcDelete) = 7 /\ Len(AlbDelete) = 5
  BY DEF VpcPlan, AlbPlan, VpcRollback, AlbRollback, VpcDelete, AlbDelete

(* What a creation makes, as sets.                                         *)
LEMMA PlanMembers ==
    /\ InTable(VpcPlan) = {"vpc", "dns", "igw", "attach", "rtb", "route", "subnetA", "subnetB",
                           "publicIp", "assocA", "assocB", "sg", "rules"}
    /\ InTable(AlbPlan) = {"albSg", "albRules", "tgtSg", "tgtRules", "lb", "tg", "listener"}
<1>1. 1..13 = {1, 2, 3, 4, 5, 6, 7, 8, 9, 10, 11, 12, 13} /\ 1..7 = {1, 2, 3, 4, 5, 6, 7}
  OBVIOUS
<1>2. InTable(VpcPlan) = {VpcPlan[n] : n \in 1..13} /\ InTable(AlbPlan) = {AlbPlan[n] : n \in 1..7}
  BY Lengths DEF InTable
<1>3. /\ VpcPlan[1] = "vpc" /\ VpcPlan[2] = "dns" /\ VpcPlan[3] = "igw" /\ VpcPlan[4] = "attach"
      /\ VpcPlan[5] = "rtb" /\ VpcPlan[6] = "route" /\ VpcPlan[7] = "subnetA"
      /\ VpcPlan[8] = "subnetB" /\ VpcPlan[9] = "publicIp" /\ VpcPlan[10] = "assocA"
      /\ VpcPlan[11] = "assocB" /\ VpcPlan[12] = "sg" /\ VpcPlan[13] = "rules"
  BY DEF VpcPlan
<1>4. /\ AlbPlan[1] = "albSg" /\ AlbPlan[2] = "albRules" /\ AlbPlan[3] = "tgtSg"
      /\ AlbPlan[4] = "tgtRules" /\ AlbPlan[5] = "lb" /\ AlbPlan[6] = "tg" /\ AlbPlan[7] = "listener"
  BY DEF AlbPlan
<1>. QED BY <1>1, <1>2, <1>3, <1>4

(* create_stack makes a thing after what it is inside of or holds up.      *)
LEMMA PlanOrder ==
    ASSUME stack \in {"vpc", "alb"}, NEW n \in 1..Len(Plan), NEW y,
           Plan[n] \in Inside(y) \cup HoldsUp(y)
    PROVE  \E k \in 1..(n - 1) : Plan[k] = y /\ y \notin DOMAIN OfNewGroup
<1>1. CASE stack = "vpc"
  BY <1>1, Lengths DEF Plan, VpcPlan, Inside, HoldsUp, OfNewGroup
<1>2. CASE stack = "alb"
  BY <1>2, Lengths DEF Plan, AlbPlan, Inside, HoldsUp, OfNewGroup
<1>. QED BY <1>1, <1>2

(* The rollback removes a thing after whatever holds it up, and the two    *)
(* groups in the order that the rule between them needs.                   *)
LEMMA RollbackOrder ==
    ASSUME stack \in {"vpc", "alb"}, NEW n \in 1..Len(Rollback), NEW m \in 1..Len(Rollback), n <= m
    PROVE  /\ Rollback[m] \notin HoldsUp(Rollback[n])
           /\ Rollback[m] = Rollback[n] => m = n
           /\ Rollback[n] = "albSg" => Rollback[m] # "tgtSg"
<1>1. CASE stack = "vpc"
  BY <1>1, Lengths DEF Rollback, VpcRollback, HoldsUp
<1>2. CASE stack = "alb"
  BY <1>2, Lengths DEF Rollback, AlbRollback, HoldsUp
<1>. QED BY <1>1, <1>2

(* What created_now may have entries for, as a set.                        *)
LEMMA RecordedIs ==
    Recorded = {"assocA", "assocB", "subnetB", "subnetA", "route", "sg", "rtb", "attach", "igw", "vpc",
                "listener", "tg", "lb", "tgtSg", "albSg"}
<1>1. 1..10 = {1, 2, 3, 4, 5, 6, 7, 8, 9, 10} /\ 1..5 = {1, 2, 3, 4, 5}
  OBVIOUS
<1>2. /\ InTable(VpcRollback) = {VpcRollback[n] : n \in 1..10}
      /\ InTable(AlbRollback) = {AlbRollback[n] : n \in 1..5}
  BY Lengths DEF InTable
<1>3. InTable(VpcRollback) = {"assocA", "assocB", "subnetB", "subnetA", "route", "sg", "rtb",
                              "attach", "igw", "vpc"}
  BY <1>1, <1>2 DEF VpcRollback
<1>4. InTable(AlbRollback) = {"listener", "tg", "lb", "tgtSg", "albSg"}
  BY <1>1, <1>2 DEF AlbRollback
<1>. QED BY <1>3, <1>4 DEF Recorded

(* The rollback has a step for each entry of created_now.                  *)
LEMMA NotedIsRolledBack ==
    ASSUME stack \in {"vpc", "alb"}
    PROVE  InTable(Plan) \cap Recorded \subseteq {Rollback[n] : n \in 1..Len(Rollback)}
<1>1. CASE stack = "vpc"
  BY <1>1, Lengths, PlanMembers, RecordedIs DEF Plan, Rollback, VpcRollback
<1>2. CASE stack = "alb"
  BY <1>2, Lengths, PlanMembers, RecordedIs DEF Plan, Rollback, AlbRollback
<1>. QED BY <1>1, <1>2

(* Rollback and deletion remove what created_now can name.                 *)
LEMMA RemovedIsRecorded ==
    ASSUME stack \in {"vpc", "alb"}
    PROVE  /\ \A n \in 1..Len(Rollback) : Rollback[n] \in Recorded
           /\ \A n \in 1..Len(Delete) : Delete[n] \in Recorded
<1>1. CASE stack = "vpc"
  BY <1>1, Lengths, RecordedIs DEF Rollback, VpcRollback, Delete, VpcDelete
<1>2. CASE stack = "alb"
  BY <1>2, Lengths, RecordedIs DEF Rollback, AlbRollback, Delete, AlbDelete
<1>. QED BY <1>1, <1>2

(* delete_stack has a step for everything that is not inside of something  *)
(* else.                                                                   *)
LEMMA DeleteMembers ==
    /\ stack = "vpc" => {"sg", "subnetA", "subnetB", "rtb", "attach", "igw", "vpc"}
                            \subseteq {Delete[n] : n \in 1..Len(Delete)}
    /\ stack = "alb" => {"listener", "tg", "lb", "albSg", "tgtSg"}
                            \subseteq {Delete[n] : n \in 1..Len(Delete)}
<1>1. CASE stack = "vpc"
  BY <1>1, Lengths DEF Delete, VpcDelete
<1>2. CASE stack = "alb"
  BY <1>2, Lengths DEF Delete, AlbDelete
<1>. QED BY <1>1, <1>2

(* What is inside of another thing has nothing inside and holds nothing    *)
(* up.                                                                     *)
LEMMA Leaves ==
    ASSUME NEW x, NEW z \in Inside(x)
    PROVE  Inside(z) = {} /\ HoldsUp(z) = {}
  BY DEF Inside, HoldsUp

(* The tables are those of one provisioner throughout.                     *)
LEMMA TablesStay ==
    ASSUME stack' = stack
    PROVE  Plan' = Plan /\ Rollback' = Rollback /\ Delete' = Delete
  BY DEF Plan, Rollback, Delete

(* No step changes which provisioner is meant.                             *)
LEMMA StackStays == ASSUME [Next]_vars PROVE stack' = stack
  BY DEF Next, CreateStack, DeleteStack, BeginCreate, Create, CreateDone, RollBack, RollBackDone,
         BeginDelete, DeleteStep, DeleteDone, CreateRaises, RollBackRaises, DeleteRaises, Interrupt,
         ChangeGoal, Begin, vars

-----------------------------------------------------------------------------
(* The invariant holds before the first command.                           *)
LEMMA InitStackInv == ASSUME Init PROVE StackInv
<1>. USE DEF Init
<1>1. TypeOK
  <2>1. faults \in 0..MaxFaults
    BY ProvisionerAssumption
  <2>2. /\ aws \subseteq InTable(Plan) /\ created \subseteq Recorded /\ found \subseteq before
        /\ before \subseteq InTable(Plan)
    OBVIOUS
  <2>3. step \in 1..(Len(VpcPlan) + 1)
    BY Lengths
  <2>4. errors \in BOOLEAN /\ lost \in BOOLEAN /\ hindered \in BOOLEAN /\ dirty \in BOOLEAN
    OBVIOUS
  <2>. QED BY <2>1, <2>2, <2>3, <2>4 DEF TypeOK
<1>2. Rooted(aws) /\ Rooted(before)
  BY DEF Rooted
<1>3. BuiltSoFar /\ CreatedIsNew /\ RolledBackSoFar /\ DeletedSoFar
  BY DEF BuiltSoFar, CreatedIsNew, Making, RolledBackSoFar, DeletedSoFar
<1>4. GroupsHaveRules
  BY DEF GroupsHaveRules
<1>5. OkMeansComplete /\ RollbackUndoes /\ CreationTakesNothing /\ DeletedMeansGone
  BY DEF OkMeansComplete, RollbackUndoes, CreationTakesNothing, DeletedMeansGone
<1>. QED BY <1>1, <1>2, <1>3, <1>4, <1>5 DEF StackInv

(* What a step may do to what exists.                                      *)
LEMMA AwsSteps ==
    ASSUME StackInv, [Next]_vars
    PROVE  \/ aws' = aws
           \/ /\ op = "create" /\ step \in 1..Len(Plan) /\ Needed(Plan[step])
              /\ aws' = aws \cup {Plan[step]}
           \/ /\ op = "rollback" /\ step \in 1..Len(Rollback) /\ Rollback[step] \in created
              /\ ~Refused(Rollback[step]) /\ aws' = Without(Rollback[step])
           \/ /\ op = "delete" /\ step \in 1..Len(Delete) /\ Found(Delete[step])
              /\ ~Refused(Delete[step]) /\ aws' = Without(Delete[step])
<1>. step \in 1..14
  BY Lengths DEF StackInv, TypeOK
<1>. Len(Plan) \in Nat /\ Len(Rollback) \in Nat /\ Len(Delete) \in Nat
  BY Lengths DEF Plan, Rollback, Delete
<1>1. CASE Create \/ CreateRaises
  BY <1>1 DEF Create, CreateRaises
<1>2. CASE RollBack \/ RollBackRaises
  BY <1>2 DEF RollBack, RollBackRaises
<1>3. CASE DeleteStep \/ DeleteRaises
  BY <1>3 DEF DeleteStep, DeleteRaises
<1>4. CASE \/ BeginCreate \/ CreateDone \/ RollBackDone \/ BeginDelete \/ DeleteDone
           \/ Interrupt \/ ChangeGoal \/ UNCHANGED vars
  BY <1>4 DEF BeginCreate, CreateDone, RollBackDone, BeginDelete, DeleteDone, Interrupt, ChangeGoal,
     Begin, vars
<1>. QED BY <1>1, <1>2, <1>3, <1>4 DEF Next, CreateStack, DeleteStack

(* Every step keeps the types.                                             *)
LEMMA NextTypeOK == ASSUME StackInv, [Next]_vars PROVE TypeOK'
<1>. /\ step \in 1..14 /\ Len(VpcPlan) = 13 /\ TypeOK
     /\ Len(Plan) \in 0..13 /\ Len(Rollback) \in 0..13 /\ Len(Delete) \in 0..13
  BY Lengths DEF StackInv, TypeOK, Plan, Rollback, Delete
<1>1. stack' \in {"vpc", "alb"} /\ Plan' = Plan
  BY StackStays, TablesStay DEF TypeOK
<1>2. aws' \subseteq InTable(Plan)
  BY AwsSteps DEF TypeOK, InTable, Without
<1>3. before' \subseteq InTable(Plan)
  BY DEF TypeOK, Next, CreateStack, DeleteStack, BeginCreate, Create, CreateDone, RollBack,
     RollBackDone, BeginDelete, DeleteStep, DeleteDone, CreateRaises, RollBackRaises, DeleteRaises,
     Interrupt, ChangeGoal, Begin, vars, historyVars
<1>4. created' \subseteq Recorded
  BY DEF TypeOK, Next, CreateStack, DeleteStack, BeginCreate, Create, CreateDone, RollBack,
     RollBackDone, BeginDelete, DeleteStep, DeleteDone, CreateRaises, RollBackRaises, DeleteRaises,
     Interrupt, ChangeGoal, Begin, vars, runVars, End, DeleteFails, Noted
<1>5. found' \subseteq before'
  <2>1. CASE UNCHANGED <<found, before>>
    BY <2>1 DEF TypeOK
  <2>2. CASE found' = {}
    BY <2>2
  <2>3. CASE BeginCreate
    BY <2>3 DEF BeginCreate, Begin, StackInv, DeletedSoFar
  <2>4. CASE BeginDelete
    BY <2>4 DEF BeginDelete, Begin, Described
  <2>. QED
    BY <2>1, <2>2, <2>3, <2>4
    DEF Next, CreateStack, DeleteStack, Create, CreateDone, RollBack, RollBackDone, DeleteStep,
        DeleteDone, CreateRaises, RollBackRaises, DeleteRaises, Interrupt, ChangeGoal, vars, runVars,
        historyVars, End, DeleteFails, Advance
<1>6. step' \in 1..14
  <2>1. CASE Create \/ CreateRaises
    <3>1. PICK n \in 0..13 : n = Len(Plan)
      OBVIOUS
    <3>2. step <= n /\ (step' = step + 1 \/ step' = 1)
      BY <2>1, <3>1 DEF Create, CreateRaises, Advance
    <3>. QED BY <3>2
  <2>2. CASE RollBack \/ RollBackRaises
    <3>1. PICK n \in 0..13 : n = Len(Rollback)
      OBVIOUS
    <3>2. step <= n /\ step' = step + 1
      <4>1. CASE RollBack
        BY <4>1, <3>1 DEF RollBack, Advance
      <4>2. CASE RollBackRaises
        BY <4>2, <3>1 DEF RollBackRaises, Advance
      <4>. QED BY <2>2, <4>1, <4>2
    <3>. QED BY <3>2
  <2>3. CASE DeleteStep \/ DeleteRaises
    <3>1. PICK n \in 0..13 : n = Len(Delete)
      OBVIOUS
    <3>2. step <= n /\ (step' = step + 1 \/ step' = 1)
      BY <2>3, <3>1 DEF DeleteStep, DeleteRaises, DeleteFails, Advance, End
    <3>. QED BY <3>2
  <2>4. CASE \/ BeginCreate \/ CreateDone \/ RollBackDone \/ BeginDelete \/ DeleteDone \/ Interrupt
    BY <2>4 DEF BeginCreate, CreateDone, RollBackDone, BeginDelete, DeleteDone, Interrupt, Begin, End
  <2>5. CASE ChangeGoal \/ UNCHANGED vars
    BY <2>5 DEF ChangeGoal, vars, runVars
  <2>. QED BY <2>1, <2>2, <2>3, <2>4, <2>5 DEF Next, CreateStack, DeleteStack
<1>10. op' \in {"idle", "create", "rollback", "delete"}
  BY DEF TypeOK, Next, CreateStack, DeleteStack, BeginCreate, Create, CreateDone, RollBack,
       RollBackDone, BeginDelete, DeleteStep, DeleteDone, CreateRaises, RollBackRaises, DeleteRaises,
       Interrupt, ChangeGoal, Begin, vars, runVars, End, DeleteFails, Advance
<1>7. /\ goal' \in {"create", "delete"}
      /\ errors' \in BOOLEAN
      /\ report' \in {"none", "created", "createFailed", "deleted", "deleteFailed", "interrupted"}
  BY DEF TypeOK, Next, CreateStack, DeleteStack, BeginCreate, Create, CreateDone, RollBack,
     RollBackDone, BeginDelete, DeleteStep, DeleteDone, CreateRaises, RollBackRaises, DeleteRaises,
     Interrupt, ChangeGoal, Begin, vars, runVars, End, DeleteFails, Advance
<1>8. faults' \in 0..MaxFaults
  <2>1. faults' = faults \/ Fault
    BY SMT DEF Next, CreateStack, DeleteStack, BeginCreate, Create, CreateDone, RollBack,
       RollBackDone, BeginDelete, DeleteStep, DeleteDone, CreateRaises, RollBackRaises, DeleteRaises,
       Interrupt, ChangeGoal, Begin, vars, historyVars
  <2>2. faults \in 0..MaxFaults
    BY DEF TypeOK
  <2>. QED BY <2>1, <2>2, ProvisionerAssumption DEF Fault
<1>9. lost' \in BOOLEAN /\ hindered' \in BOOLEAN /\ dirty' \in BOOLEAN
  BY Zenon
  DEF TypeOK, Next, CreateStack, DeleteStack, BeginCreate, Create, CreateDone, RollBack,
     RollBackDone, BeginDelete, DeleteStep, DeleteDone, CreateRaises, RollBackRaises, DeleteRaises,
     Interrupt, ChangeGoal, Begin, vars, historyVars
<1>. QED BY <1>1, <1>2, <1>3, <1>4, <1>5, <1>6, <1>7, <1>8, <1>9, <1>10 DEF TypeOK

-----------------------------------------------------------------------------
(* The order of the plan and of the removals keeps what exists rooted.     *)
LEMMA NextRooted == ASSUME StackInv, [Next]_vars PROVE Rooted(aws)'
<1>. stack \in {"vpc", "alb"} /\ Plan' = Plan /\ Rooted(aws)
  BY StackStays, TablesStay DEF StackInv, TypeOK
<1>. SUFFICES ASSUME NEW y \in InTable(Plan), aws' \cap (Inside(y) \cup HoldsUp(y)) # {}
              PROVE  y \in aws'
  BY DEF Rooted
<1>1. CASE aws' = aws
  BY <1>1 DEF Rooted
<1>2. CASE /\ op = "create" /\ step \in 1..Len(Plan) /\ aws' = aws \cup {Plan[step]}
  <2>1. CASE aws \cap (Inside(y) \cup HoldsUp(y)) # {}
    BY <1>2, <2>1 DEF Rooted
  <2>2. CASE Plan[step] \in Inside(y) \cup HoldsUp(y)
    <3>1. PICK k \in 1..(step - 1) : Plan[k] = y /\ y \notin DOMAIN OfNewGroup
      BY <1>2, <2>2, PlanOrder
    <3>. QED BY <1>2, <3>1 DEF StackInv, BuiltSoFar
  <2>. QED BY <1>2, <2>1, <2>2
<1>3. ASSUME NEW x, ~Refused(x), aws' = Without(x) PROVE y \in aws'
  <2>1. aws \cap (Inside(y) \cup HoldsUp(y)) # {} /\ aws' \subseteq aws
    BY <1>3 DEF Without
  <2>2. y \in aws
    BY <2>1 DEF Rooted
  <2>3. y # x
    BY <1>3 DEF Without, Refused
  <2>4. y \notin Inside(x)
    BY <2>1, Leaves
  <2>. QED BY <1>3, <2>2, <2>3, <2>4 DEF Without
<1>. QED BY <1>1, <1>2, <1>3, AwsSteps

(* A creation that reaches a step has everything before it, but for the    *)
(* rules of a group found without them.                                    *)
LEMMA NextBuilt == ASSUME StackInv, [Next]_vars PROVE BuiltSoFar'
<1>1. CASE Create
  <2>. DEFINE x == Plan[step]
  <2>1. PICK len \in 0..13 : len = Len(Plan)
    BY Lengths DEF StackInv, TypeOK, Plan
  <2>2. /\ op = "create" /\ step \in 1..len /\ step' = step + 1
        /\ aws' = IF Needed(x) THEN aws \cup {x} ELSE aws
        /\ UNCHANGED <<errors, lost, hindered, dirty, stack>>
    BY <1>1, <2>1, Lengths DEF Create, Advance, historyVars, StackInv, TypeOK
  <2>3. ~Needed(x) => x \in aws \/ (x \in DOMAIN OfNewGroup /\ dirty)
    <3>1. SUFFICES ASSUME x \in DOMAIN OfNewGroup, OfNewGroup[x] \notin created, x \notin aws
                   PROVE  dirty
      BY DEF Needed
    <3>2. x \in Inside(OfNewGroup[x])
      BY <3>1 DEF OfNewGroup, Inside
    <3>3. PICK k \in 1..(step - 1) : Plan[k] = OfNewGroup[x] /\ OfNewGroup[x] \notin DOMAIN OfNewGroup
      BY <2>1, <2>2, <3>2, PlanOrder DEF StackInv, TypeOK
    <3>4. OfNewGroup[x] \in aws
      BY <2>2, <3>3 DEF StackInv, BuiltSoFar
    <3>. QED BY <2>2, <3>1, <3>4 DEF StackInv, GroupsHaveRules
  <2>4. ASSUME NEW n \in 1..step
        PROVE  Plan[n] \in aws' \/ (Plan[n] \in DOMAIN OfNewGroup /\ dirty)
    <3>1. CASE n = step
      BY <2>2, <2>3, <3>1
    <3>2. CASE n \in 1..(step - 1)
      BY <2>2, <3>2 DEF StackInv, BuiltSoFar
    <3>. QED BY <2>2, <3>1, <3>2
  <2>. QED BY <2>2, <2>4, TablesStay DEF StackInv, BuiltSoFar
<1>2. CASE BeginCreate
  BY <1>2 DEF BeginCreate, Begin, BuiltSoFar
<1>3. CASE ChangeGoal \/ UNCHANGED vars
  BY <1>3, TablesStay DEF BuiltSoFar, StackInv, ChangeGoal, vars, runVars, historyVars
<1>4. CASE \/ CreateDone \/ RollBack \/ RollBackDone \/ BeginDelete \/ DeleteStep \/ DeleteDone
           \/ CreateRaises \/ RollBackRaises \/ DeleteRaises \/ Interrupt
  <2>1. op' # "create"
    BY <1>4 DEF CreateDone, RollBack, RollBackDone, BeginDelete, DeleteStep, DeleteDone, CreateRaises,
       RollBackRaises, DeleteRaises, Interrupt, Begin, End, Advance, DeleteFails
  <2>. QED BY <2>1 DEF BuiltSoFar
<1>. QED BY <1>1, <1>2, <1>3, <1>4 DEF Next, CreateStack, DeleteStack

(* A group without its rules is one of this run, or of a run that was      *)
(* dirty.                                                                  *)
LEMMA NextGroups == ASSUME StackInv, [Next]_vars PROVE GroupsHaveRules'
<1>. stack \in {"vpc", "alb"} /\ Rollback' = Rollback /\ GroupsHaveRules
  BY StackStays, TablesStay DEF StackInv, TypeOK
<1>. SUFFICES ASSUME NEW x \in DOMAIN OfNewGroup, OfNewGroup[x] \in aws', x \notin aws', ~dirty'
              PROVE  \/ op' = "create" /\ OfNewGroup[x] \in created'
                     \/ op' = "rollback" /\ OfNewGroup[x] \in created' \cap ToRollBack'
  BY DEF GroupsHaveRules
<1>1. x \in Inside(OfNewGroup[x]) /\ OfNewGroup[x] \in Recorded /\ OfNewGroup[x] \notin DOMAIN OfNewGroup
  BY RecordedIs DEF OfNewGroup, Inside
<1>2. OfNewGroup[x] \in aws => x \notin aws
  <2>1. ASSUME NEW z \in Recorded, aws' = Without(z), x \in aws PROVE FALSE
    <3>1. x \in Inside(z)
      BY <1>1, <2>1, RecordedIs DEF Without, OfNewGroup
    <3>2. z = OfNewGroup[x]
      BY <3>1 DEF Inside, OfNewGroup
    <3>. QED BY <2>1, <3>2 DEF Without
  <2>. QED BY <2>1, AwsSteps, RemovedIsRecorded
<1>3. PICK n \in 0..13, m \in 0..13 : n = Len(Plan) /\ m = Len(Rollback) /\ step \in 1..14
  BY Lengths DEF StackInv, TypeOK, Plan, Rollback
<1>4. CASE Create
  <2>1. CASE OfNewGroup[x] \in aws
    BY <1>2, <1>4, <2>1 DEF Create, Advance, Noted, GroupsHaveRules, historyVars
  <2>2. CASE OfNewGroup[x] \notin aws
    BY <1>1, <1>4, <2>2 DEF Create, Advance, Noted
  <2>. QED BY <2>1, <2>2
<1>5. CASE CreateRaises
  <2>1. UNCHANGED <<aws, dirty, created>> /\ op = "create" /\ op' = "rollback" /\ step' = 1
    BY <1>5 DEF CreateRaises
  <2>2. OfNewGroup[x] \in created /\ OfNewGroup[x] \in InTable(Plan) \cap Recorded
    BY <1>1, <2>1 DEF GroupsHaveRules, StackInv, TypeOK
  <2>3. OfNewGroup[x] \in ToRollBack'
    BY <1>3, <2>1, <2>2, NotedIsRolledBack DEF ToRollBack
  <2>. QED BY <2>1, <2>2, <2>3
<1>6. CASE RollBack
  <2>1. /\ op = "rollback" /\ op' = "rollback" /\ step \in 1..m /\ step' = step + 1
        /\ created' = created
    BY <1>3, <1>6 DEF RollBack, Advance
  <2>2. OfNewGroup[x] \in aws /\ ~dirty
    BY <1>6 DEF RollBack, Without
  <2>3. OfNewGroup[x] \in created \cap ToRollBack
    BY <1>2, <2>1, <2>2 DEF GroupsHaveRules
  <2>4. OfNewGroup[x] # Rollback[step]
    BY <1>6, <2>3 DEF RollBack, Without
  <2>5. PICK k \in 1..m : k >= step /\ Rollback[k] = OfNewGroup[x]
    BY <1>3, <2>3 DEF ToRollBack
  <2>6. k >= step' /\ k \in 1..Len(Rollback')
    BY <1>3, <2>1, <2>4, <2>5
  <2>7. OfNewGroup[x] \in ToRollBack'
    BY <2>5, <2>6 DEF ToRollBack
  <2>. QED BY <2>1, <2>3, <2>7
<1>7. CASE CreateDone
  <2>1. aws' = aws /\ dirty' = dirty /\ op = "create" /\ step > n
    BY <1>3, <1>7 DEF CreateDone, historyVars
  <2>2. OfNewGroup[x] \in InTable(Plan) /\ x \in InTable(Plan)
    BY <2>1, PlanMembers DEF StackInv, TypeOK, OfNewGroup, Plan
  <2>3. PICK k \in 1..n : Plan[k] = x
    BY <1>3, <2>2 DEF InTable
  <2>4. k \in 1..(step - 1)
    BY <1>3, <2>1
  <2>. QED BY <2>1, <2>3, <2>4 DEF StackInv, BuiltSoFar
<1>8. CASE RollBackDone
  <2>1. aws' = aws /\ dirty' = dirty /\ op = "rollback" /\ step > m
    BY <1>3, <1>8 DEF RollBackDone, historyVars
  <2>2. ToRollBack = {}
    BY <1>3, <2>1 DEF ToRollBack
  <2>. QED BY <2>1, <2>2 DEF GroupsHaveRules
<1>9. CASE BeginCreate \/ BeginDelete \/ DeleteStep \/ DeleteRaises \/ DeleteDone \/ ChangeGoal
  <2>1. op \in {"idle", "delete"} /\ (OfNewGroup[x] \in aws => ~dirty)
    BY <1>9 DEF BeginCreate, BeginDelete, DeleteStep, DeleteRaises, DeleteDone, ChangeGoal, Begin,
       historyVars
  <2>2. OfNewGroup[x] \in aws
    BY AwsSteps, <2>1 DEF Without
  <2>. QED BY <1>2, <2>1, <2>2 DEF GroupsHaveRules
<1>10. CASE UNCHANGED vars
  <2>1. UNCHANGED <<aws, dirty, op, created, step>>
    BY <1>10 DEF vars, runVars, historyVars
  <2>2. ToRollBack' = ToRollBack
    BY <2>1 DEF ToRollBack
  <2>. QED BY <2>1, <2>2 DEF GroupsHaveRules
<1>11. CASE RollBackRaises \/ Interrupt
  BY <1>11 DEF RollBackRaises, Interrupt
<1>. QED
  BY <1>4, <1>5, <1>6, <1>7, <1>8, <1>9, <1>10, <1>11 DEF Next, CreateStack, DeleteStack

(* A creation only adds, and its rollback removes only what is not of      *)
(* before.                                                                 *)
LEMMA NextTakesNothing == ASSUME StackInv, [Next]_vars PROVE CreationTakesNothing'
<1>. stack \in {"vpc", "alb"} /\ CreationTakesNothing
  BY DEF StackInv, TypeOK
<1>1. CASE Create \/ CreateRaises
  BY <1>1 DEF Create, CreateRaises, Advance, CreationTakesNothing, historyVars
<1>2. ASSUME NEW x, op = "rollback", x \in created, before' = before, aws' = Without(x)
      PROVE  CreationTakesNothing'
  <2>1. x \in before => x = "attach" /\ Inside(x) = {}
    BY <1>2 DEF StackInv, CreatedIsNew, Making, Inside
  <2>2. before \cap Inside(x) # {} => x \in before
    BY <1>2 DEF StackInv, Rooted, CreatedIsNew, Making
  <2>3. before \cap ({x} \cup Inside(x)) \subseteq {"attach"}
    BY <2>1, <2>2
  <2>4. before \ aws \subseteq {"attach"}
    BY <1>2 DEF CreationTakesNothing
  <2>. QED BY <1>2, <2>3, <2>4 DEF CreationTakesNothing, Without
<1>3. CASE RollBack \/ RollBackRaises
  <2>1. op = "rollback" /\ before' = before
    BY <1>3 DEF RollBack, RollBackRaises
  <2>2. CASE aws' = aws
    BY <2>1, <2>2 DEF CreationTakesNothing
  <2>3. CASE Rollback[step] \in created /\ aws' = Without(Rollback[step])
    BY <1>2, <2>1, <2>3
  <2>. QED BY <1>3, <2>2, <2>3 DEF RollBack, RollBackRaises
<1>4. CASE CreateDone \/ RollBackDone \/ ChangeGoal \/ UNCHANGED vars
  BY <1>4 DEF CreateDone, RollBackDone, ChangeGoal, End, CreationTakesNothing, vars, runVars, historyVars
<1>5. CASE BeginCreate \/ BeginDelete
  BY <1>5 DEF BeginCreate, BeginDelete, Begin, CreationTakesNothing
<1>6. CASE DeleteStep \/ DeleteDone \/ DeleteRaises \/ Interrupt
  <2>1. op' \in {"idle", "delete"} /\ report' \in {"none", "deleted", "deleteFailed", "interrupted"}
    BY <1>6 DEF DeleteStep, DeleteDone, DeleteRaises, Interrupt, DeleteFails, Advance, End, StackInv
  <2>. QED BY <2>1 DEF CreationTakesNothing
<1>. QED BY <1>1, <1>3, <1>4, <1>5, <1>6 DEF Next, CreateStack, DeleteStack

(* created_now has what this run has made, and nothing that was there      *)
(* before it.                                                              *)
LEMMA NextCreated == ASSUME StackInv, [Next]_vars PROVE CreatedIsNew'
<1>. stack \in {"vpc", "alb"} /\ Plan' = Plan /\ CreatedIsNew
  BY StackStays, TablesStay DEF StackInv, TypeOK
<1>1. ASSUME Making, before' = before, created' = created, aws' \subseteq aws, lost' = lost
      PROVE  CreatedIsNew'
  BY <1>1 DEF CreatedIsNew
<1>2. CASE Create \/ CreateRaises
  <2>. DEFINE x == Plan[step]
  <2>0. PICK n \in 0..13 : n = Len(Plan)
    BY Lengths DEF Plan
  <2>1. step \in 1..n
    BY <1>2, <2>0, Lengths DEF StackInv, TypeOK, Create, CreateRaises
  <2>2. /\ Making /\ before' = before
        /\ \/ aws' = aws /\ (created' = created \/ (~Needed(x) /\ created' = Noted(x))) /\ lost' = lost
           \/ aws' = aws \cup {x} /\ Needed(x) /\ created' = Noted(x) /\ lost' = lost
           \/ aws' = aws \cup {x} /\ Needed(x) /\ created' = created /\ lost'
    BY <1>2 DEF Create, CreateRaises, Making, historyVars
  <2>3. x \in InTable(Plan)
    BY <2>0, <2>1 DEF InTable
  <2>4. Needed(x) /\ x \in Recorded \cap before => x = "attach"
    BY <1>2, RecordedIs DEF Needed, AlwaysCalled, StackInv, CreationTakesNothing, Create, CreateRaises
  <2>5. Needed(x) /\ x = "tgtRules" => "tgtSg" \in created
    BY DEF Needed, OfNewGroup
  <2>. QED BY <2>2, <2>3, <2>4, <2>5 DEF CreatedIsNew, Noted
<1>3. CASE RollBack \/ RollBackRaises
  BY <1>1, <1>3 DEF RollBack, RollBackRaises, Making, Without
<1>4. CASE BeginCreate
  BY <1>4 DEF BeginCreate, Begin, CreatedIsNew
<1>5. CASE ChangeGoal \/ UNCHANGED vars
  BY <1>5 DEF ChangeGoal, CreatedIsNew, Making, vars, runVars, historyVars
<1>6. CASE \/ CreateDone \/ RollBackDone \/ BeginDelete \/ DeleteStep \/ DeleteDone
           \/ DeleteRaises \/ Interrupt
  <2>1. op' \in {"idle", "delete"}
    BY <1>6 DEF CreateDone, RollBackDone, BeginDelete, Begin, DeleteStep, DeleteDone, DeleteRaises,
       Interrupt, DeleteFails, Advance, End
  <2>. QED BY <2>1 DEF CreatedIsNew, Making
<1>. QED BY <1>2, <1>3, <1>4, <1>5, <1>6 DEF Next, CreateStack, DeleteStack

(* Nothing that holds up a removal of the rollback is left at its turn.    *)
LEMMA NeverRefused ==
    ASSUME StackInv, op = "rollback", ~lost, ~hindered, step \in 1..Len(Rollback),
           Rollback[step] \in created
    PROVE  ~Refused(Rollback[step])
<1>. DEFINE x == Rollback[step]
<1>. stack \in {"vpc", "alb"} /\ step \in 1..14
  BY Lengths DEF StackInv, TypeOK
<1>1. SUFFICES ASSUME NEW y \in aws \cap HoldsUp(x) PROVE FALSE
  BY DEF Refused
<1>2. \A z \in created \cap aws : z \notin before \/ z # "attach" => z \in ToRollBack
  BY DEF StackInv, CreatedIsNew, Making, RolledBackSoFar
<1>3. y \notin before
  <2>1. x \in InTable(Plan) /\ x \notin before
    BY <1>1 DEF StackInv, CreatedIsNew, Making, HoldsUp
  <2>. QED BY <1>1, <2>1 DEF StackInv, Rooted
<1>4. ASSUME NEW z \in ToRollBack
      PROVE  z \notin HoldsUp(x) /\ (x = "albSg" => z # "tgtSg")
  <2>1. PICK m \in 1..Len(Rollback) : m >= step /\ z = Rollback[m]
    BY DEF ToRollBack
  <2>. QED BY <2>1, RollbackOrder
<1>5. CASE y \in Recorded
  <2>1. y \in created
    BY <1>1, <1>3, <1>5 DEF StackInv, CreatedIsNew, Making
  <2>. QED BY <1>1, <1>2, <1>3, <1>4, <2>1
<1>6. CASE y \notin Recorded
  <2>1. x = "albSg" /\ y = "tgtRules"
    BY <1>1, <1>6, RecordedIs DEF HoldsUp
  <2>2. "tgtSg" \in created
    BY <1>1, <1>3, <2>1 DEF StackInv, CreatedIsNew, Making
  <2>3. "tgtSg" \in aws
    BY <1>1, <2>1, PlanMembers DEF StackInv, TypeOK, Rooted, Inside, Plan
  <2>. QED BY <1>2, <1>4, <2>1, <2>2, <2>3
<1>. QED BY <1>5, <1>6

(* The rollback gets through its table without an error, and leaves        *)
(* nothing behind it.                                                      *)
LEMMA NextRolledBack == ASSUME StackInv, [Next]_vars PROVE RolledBackSoFar'
<1>. stack \in {"vpc", "alb"} /\ Rollback' = Rollback /\ RolledBackSoFar
  BY StackStays, TablesStay DEF StackInv, TypeOK
<1>1. PICK m \in 0..13 : m = Len(Rollback) /\ step \in 1..14
  BY Lengths DEF StackInv, TypeOK, Rollback
<1>2. CASE CreateRaises
  <2>1. /\ op = "create" /\ step' = 1
        /\ UNCHANGED <<errors, created, before>>
    BY <1>2 DEF CreateRaises
  <2>2. ~errors /\ created \subseteq InTable(Plan) \cap Recorded
    BY <2>1 DEF StackInv, TypeOK, BuiltSoFar, CreatedIsNew, Making
  <2>3. created' \subseteq ToRollBack'
    BY <1>1, <2>1, <2>2, NotedIsRolledBack DEF ToRollBack
  <2>. QED BY <2>1, <2>2, <2>3 DEF RolledBackSoFar
<1>3. CASE RollBack
  <2>. SUFFICES ASSUME ~lost', ~hindered'
                PROVE  ~errors' /\ aws' \cap created' \subseteq before' \cup ToRollBack'
    BY DEF RolledBackSoFar
  <2>1. /\ op = "rollback" /\ step \in 1..m /\ step' = step + 1 /\ ~lost /\ ~hindered
        /\ created' = created /\ before' = before
    BY <1>1, <1>3 DEF RollBack, Advance
  <2>2. ~(Rollback[step] \in created /\ Refused(Rollback[step]))
    BY <1>1, <2>1, NeverRefused
  <2>3. aws' = (IF Rollback[step] \in created THEN Without(Rollback[step]) ELSE aws) /\ errors' = errors
    BY <1>3, <2>2 DEF RollBack
  <2>4. ASSUME NEW z \in aws' \cap created', z \notin before PROVE z \in ToRollBack'
    <3>1. z \in aws \cap created /\ z # Rollback[step]
      BY <2>1, <2>3, <2>4 DEF Without
    <3>2. PICK k \in 1..m : k >= step /\ Rollback[k] = z
      BY <1>1, <2>1, <2>4, <3>1 DEF RolledBackSoFar, ToRollBack
    <3>3. k >= step' /\ k \in 1..Len(Rollback')
      BY <1>1, <2>1, <3>1, <3>2
    <3>. QED BY <3>2, <3>3 DEF ToRollBack
  <2>. QED BY <2>1, <2>3, <2>4 DEF RolledBackSoFar
<1>4. CASE RollBackRaises
  BY <1>4 DEF RollBackRaises, RolledBackSoFar
<1>5. CASE UNCHANGED vars
  <2>1. UNCHANGED <<aws, op, step, created, errors, before, lost, hindered>>
    BY <1>5 DEF vars, runVars, historyVars
  <2>2. ToRollBack' = ToRollBack
    BY <2>1 DEF ToRollBack
  <2>. QED BY <2>1, <2>2 DEF RolledBackSoFar
<1>6. CASE \/ BeginCreate \/ Create \/ CreateDone \/ RollBackDone \/ BeginDelete \/ DeleteStep
           \/ DeleteDone \/ DeleteRaises \/ Interrupt \/ ChangeGoal
  <2>1. op' # "rollback"
    BY <1>6 DEF BeginCreate, Create, CreateDone, RollBackDone, BeginDelete, Begin, DeleteStep,
       DeleteDone, DeleteRaises, Interrupt, ChangeGoal, DeleteFails, Advance, End, runVars
  <2>. QED BY <2>1 DEF RolledBackSoFar
<1>. QED BY <1>2, <1>3, <1>4, <1>5, <1>6 DEF Next, CreateStack, DeleteStack

(* The end of the rollback finds everything of its run undone.             *)
LEMMA NextUndone == ASSUME StackInv, [Next]_vars PROVE RollbackUndoes'
<1>1. CASE RollBackDone
  <2>1. PICK m \in 0..13 : m = Len(Rollback) /\ step \in 1..14
    BY Lengths DEF StackInv, TypeOK, Rollback
  <2>2. /\ op = "rollback" /\ step > m
        /\ UNCHANGED <<aws, errors, lost, hindered, before>>
    BY <1>1, <2>1 DEF RollBackDone, historyVars
  <2>3. ToRollBack = {}
    BY <2>1, <2>2 DEF ToRollBack
  <2>. QED BY <2>2, <2>3 DEF RollbackUndoes, StackInv, RolledBackSoFar, CreatedIsNew, Making
<1>2. CASE ChangeGoal \/ UNCHANGED vars
  BY <1>2 DEF ChangeGoal, RollbackUndoes, StackInv, vars, runVars, historyVars
<1>3. CASE \/ BeginCreate \/ Create \/ CreateDone \/ BeginDelete \/ DeleteStep \/ DeleteDone
           \/ CreateRaises \/ RollBack \/ RollBackRaises \/ DeleteRaises \/ Interrupt
  <2>1. report' # "createFailed"
    BY <1>3 DEF BeginCreate, Create, CreateDone, BeginDelete, Begin, DeleteStep, DeleteDone,
       CreateRaises, RollBack, RollBackRaises, DeleteRaises, Interrupt, DeleteFails, Advance, End,
       StackInv
  <2>. QED BY <2>1 DEF RollbackUndoes
<1>. QED BY <1>1, <1>2, <1>3 DEF Next, CreateStack, DeleteStack

(* The end of the creation finds everything there.                         *)
LEMMA NextComplete == ASSUME StackInv, [Next]_vars PROVE OkMeansComplete'
<1>. stack' = stack /\ Plan' = Plan /\ stack \in {"vpc", "alb"}
  BY StackStays, TablesStay DEF StackInv, TypeOK
<1>1. CASE CreateDone
  <2>1. PICK n \in 0..13 : n = Len(Plan) /\ step \in 1..14
    BY Lengths DEF StackInv, TypeOK, Plan
  <2>2. op = "create" /\ step > n /\ UNCHANGED <<aws, dirty>>
    BY <1>1, <2>1 DEF CreateDone, historyVars
  <2>3. ASSUME NEW x \in InTable(Plan)
        PROVE  x \in aws' \/ (x \in DOMAIN OfNewGroup /\ dirty')
    <3>1. PICK k \in 1..n : Plan[k] = x
      BY <2>1 DEF InTable
    <3>2. k \in 1..(step - 1)
      BY <2>1, <2>2
    <3>. QED BY <2>2, <3>1, <3>2 DEF StackInv, BuiltSoFar
  <2>. QED BY <2>3 DEF OkMeansComplete
<1>2. CASE ChangeGoal \/ UNCHANGED vars
  BY <1>2 DEF ChangeGoal, OkMeansComplete, StackInv, vars, runVars, historyVars
<1>3. CASE \/ BeginCreate \/ Create \/ RollBack \/ RollBackDone \/ BeginDelete \/ DeleteStep
           \/ DeleteDone \/ CreateRaises \/ RollBackRaises \/ DeleteRaises \/ Interrupt
  <2>1. report' # "created"
    BY <1>3 DEF BeginCreate, Create, RollBackDone, BeginDelete, Begin, DeleteStep, DeleteDone,
       CreateRaises, RollBack, RollBackRaises, DeleteRaises, Interrupt, DeleteFails, Advance, End,
       StackInv
  <2>. QED BY <2>1 DEF OkMeansComplete
<1>. QED BY <1>1, <1>2, <1>3 DEF Next, CreateStack, DeleteStack

(* The deletion works down its table through what it has found.            *)
LEMMA NextDeleted == ASSUME StackInv, [Next]_vars PROVE DeletedSoFar'
<1>. /\ stack' = stack /\ Delete' = Delete /\ stack \in {"vpc", "alb"}
     /\ DeletedSoFar
  BY StackStays, TablesStay DEF StackInv, TypeOK
<1>1. CASE BeginDelete
  <2>1. op' = "delete" /\ before' = aws /\ aws' = aws /\ step' = 1 /\ ~errors'
    BY <1>1 DEF BeginDelete, Begin
  <2>2. stack = "vpc" => found' = FoundUpFront'
    BY <1>1, <2>1 DEF BeginDelete, FoundUpFront, Described
  <2>. QED BY <2>1, <2>2 DEF DeletedSoFar
<1>2. CASE DeleteStep \/ DeleteRaises
  <2>1. PICK n \in 0..13 : n = Len(Delete)
    BY Lengths DEF Delete
  <2>2. op = "delete" /\ step \in 1..n /\ before' = before
    BY <1>2, <2>1, Lengths DEF DeleteStep, DeleteRaises, StackInv, TypeOK, historyVars
  <2>3. aws' \subseteq aws
    BY <1>2 DEF DeleteStep, DeleteRaises, Without
  <2>4. CASE op' = "idle"
    <3>1. found' = {}
      BY <1>2, <2>2, <2>4 DEF DeleteStep, DeleteRaises, DeleteFails, Advance, End
    <3>. QED BY <2>4, <3>1 DEF DeletedSoFar
  <2>5. CASE op' # "idle" /\ DeleteFails
    <3>1. /\ stack # "vpc" /\ errors' /\ op' = "delete"
      BY <2>2, <2>5 DEF DeleteFails, Advance, End
    <3>. QED BY <2>2, <2>3, <3>1 DEF DeletedSoFar
  <2>6. CASE op' # "idle" /\ ~DeleteFails
    <3>1. /\ aws' = IF Found(Delete[step]) THEN Without(Delete[step]) ELSE aws
          /\ UNCHANGED <<op, found, errors>> /\ step' = step + 1
      BY <1>2, <2>6 DEF DeleteStep, DeleteRaises, Advance
    <3>2. FoundUpFront' = FoundUpFront
      BY <2>2 DEF FoundUpFront
    <3>3. Delete[step] \notin aws' \/ (stack = "vpc" /\ Delete[step] \notin found)
      BY <3>1 DEF Found, Without
    <3>4. ASSUME NEW k \in 1..step, ~errors
          PROVE  Delete[k] \notin aws' \/ (stack = "vpc" /\ Delete[k] \notin found)
      <4>1. CASE k = step
        BY <3>3, <4>1
      <4>2. CASE k \in 1..(step - 1)
        BY <2>2, <2>3, <3>4, <4>2 DEF DeletedSoFar
      <4>. QED BY <2>2, <4>1, <4>2
    <3>. QED BY <2>2, <2>3, <3>1, <3>2, <3>4 DEF DeletedSoFar
  <2>. QED BY <2>4, <2>5, <2>6
<1>3. CASE UNCHANGED vars
  <2>1. UNCHANGED <<aws, op, step, found, errors, before>>
    BY <1>3 DEF vars, runVars, historyVars
  <2>2. FoundUpFront' = FoundUpFront
    BY <2>1 DEF FoundUpFront
  <2>. QED BY <2>1, <2>2 DEF DeletedSoFar
<1>4. CASE \/ BeginCreate \/ Create \/ CreateDone \/ RollBack \/ RollBackDone \/ DeleteDone
           \/ CreateRaises \/ RollBackRaises \/ Interrupt \/ ChangeGoal
  <2>1. op' # "delete" /\ found' = {}
    BY <1>4 DEF BeginCreate, Begin, Create, CreateDone, RollBack, RollBackDone, DeleteDone,
       CreateRaises, RollBackRaises, Interrupt, ChangeGoal, Advance, End, DeletedSoFar, runVars
  <2>. QED BY <2>1 DEF DeletedSoFar
<1>. QED BY <1>1, <1>2, <1>3, <1>4 DEF Next, CreateStack, DeleteStack

(* Everything but the gateway is, in the end, inside the VPC or in its way,*)
(* and likewise with the load balancer's security groups.                  *)
LEMMA NothingUnrooted ==
    ASSUME stack \in {"vpc", "alb"}, NEW S, S \subseteq InTable(Plan), Rooted(S)
    PROVE  /\ stack = "vpc" /\ "vpc" \notin S => S \subseteq {"igw"}
           /\ stack = "vpc" /\ S \cap {"vpc", "attach", "rtb", "subnetA", "subnetB", "sg"} = {}
                 => S \subseteq {"igw"}
           /\ stack = "alb" /\ S \cap {"listener", "tg", "lb", "albSg", "tgtSg"} = {} => S = {}
<1>1. CASE stack = "vpc"
  <2>. InTable(Plan) = InTable(VpcPlan)
    BY <1>1 DEF Plan
  <2>1. "vpc" \notin S => S \cap {"dns", "attach", "rtb", "subnetA", "subnetB", "sg"} = {}
    BY PlanMembers DEF Rooted, Inside, HoldsUp
  <2>2. "rtb" \notin S => "route" \notin S
    BY PlanMembers DEF Rooted, Inside
  <2>3. "subnetA" \notin S => "assocA" \notin S /\ "publicIp" \notin S
    BY PlanMembers DEF Rooted, Inside
  <2>4. "subnetB" \notin S => "assocB" \notin S
    BY PlanMembers DEF Rooted, Inside
  <2>5. "sg" \notin S => "rules" \notin S
    BY PlanMembers DEF Rooted, Inside
  <2>. QED BY <1>1, <2>1, <2>2, <2>3, <2>4, <2>5, PlanMembers
<1>2. CASE stack = "alb"
  <2>. InTable(Plan) = InTable(AlbPlan)
    BY <1>2 DEF Plan
  <2>1. ("albSg" \notin S => "albRules" \notin S) /\ ("tgtSg" \notin S => "tgtRules" \notin S)
    BY PlanMembers DEF Rooted, Inside
  <2>. QED BY <1>2, <2>1, PlanMembers
<1>. QED BY <1>1, <1>2

(* The end of the deletion finds the stack gone.                           *)
LEMMA NextGone == ASSUME StackInv, [Next]_vars PROVE DeletedMeansGone'
<1>. stack \in {"vpc", "alb"} /\ DeletedSoFar /\ aws \subseteq InTable(Plan)
     /\ before \subseteq InTable(Plan) /\ Rooted(aws) /\ Rooted(before)
  BY DEF StackInv, TypeOK
<1>1. CASE DeleteDone
  <2>1. PICK n \in 0..13 : n = Len(Delete) /\ step \in 1..14
    BY Lengths DEF StackInv, TypeOK, Delete
  <2>2. op = "delete" /\ step > n /\ UNCHANGED <<aws, errors, before>>
    BY <1>1, <2>1 DEF DeleteDone, historyVars
  <2>. SUFFICES ASSUME ~errors
                PROVE  aws \subseteq {"igw"} /\ ("igw" \in aws => "attach" \notin before)
    BY <2>2 DEF DeletedMeansGone
  <2>3. ASSUME NEW k \in 1..n PROVE Delete[k] \notin aws \/ (stack = "vpc" /\ Delete[k] \notin found)
    <3>1. k \in 1..(step - 1)
      BY <2>1, <2>2
    <3>. QED BY <2>2, <3>1 DEF DeletedSoFar
  <2>4. CASE stack = "alb"
    <3>1. aws \cap {"listener", "tg", "lb", "albSg", "tgtSg"} = {}
      BY <2>1, <2>3, <2>4, DeleteMembers
    <3>. QED BY <2>4, <3>1, NothingUnrooted
  <2>5. CASE stack = "vpc"
    <3>1. aws \subseteq before /\ found = FoundUpFront
      BY <2>2, <2>5 DEF DeletedSoFar
    <3>2. \A x \in {"sg", "subnetA", "subnetB", "rtb", "attach", "igw", "vpc"} :
             x \notin aws \/ x \notin found
      BY <2>1, <2>3, <2>5, DeleteMembers
    <3>3. CASE "vpc" \notin before
      <4>1. before \subseteq {"igw"}
        BY <2>5, <3>3, NothingUnrooted
      <4>. QED BY <3>1, <4>1
    <3>4. CASE "vpc" \in before
      <4>1. aws \cap {"vpc", "attach", "rtb", "subnetA", "subnetB", "sg"} = {}
        BY <3>1, <3>2, <3>4 DEF FoundUpFront
      <4>2. aws \subseteq {"igw"}
        BY <2>5, <4>1, NothingUnrooted
      <4>3. "igw" \in aws => "attach" \notin before
        BY <3>1, <3>2, <3>4 DEF FoundUpFront
      <4>. QED BY <4>2, <4>3
    <3>. QED BY <3>3, <3>4
  <2>. QED BY <2>4, <2>5
<1>2. CASE ChangeGoal \/ UNCHANGED vars
  BY <1>2 DEF ChangeGoal, DeletedMeansGone, StackInv, vars, runVars, historyVars
<1>3. CASE \/ BeginCreate \/ Create \/ CreateDone \/ BeginDelete \/ DeleteStep \/ RollBack
           \/ RollBackDone \/ CreateRaises \/ RollBackRaises \/ DeleteRaises \/ Interrupt
  <2>1. report' # "deleted"
    BY <1>3 DEF BeginCreate, Create, CreateDone, BeginDelete, Begin, DeleteStep, RollBack,
       RollBackDone, CreateRaises, RollBackRaises, DeleteRaises, Interrupt, DeleteFails, Advance,
       End, StackInv
  <2>. QED BY <2>1 DEF DeletedMeansGone
<1>. QED BY <1>1, <1>2, <1>3 DEF Next, CreateStack, DeleteStack

-----------------------------------------------------------------------------
(* The strengthened invariant of both provisioners, for any number of      *)
(* calls that raise and of interrupts.                                     *)
THEOREM StackInvariance == Spec => []StackInv
<1>1. ASSUME StackInv, [Next]_vars PROVE StackInv'
  <2>1. Rooted(before)'
    <3>1. stack' = stack /\ Plan' = Plan
      BY StackStays, TablesStay, <1>1
    <3>2. before' = before \/ before' = aws
      BY <1>1 DEF Next, CreateStack, DeleteStack, BeginCreate, Create, CreateDone, RollBack,
         RollBackDone, BeginDelete, DeleteStep, DeleteDone, CreateRaises, RollBackRaises,
         DeleteRaises, Interrupt, ChangeGoal, Begin, vars, historyVars
    <3>. QED BY <1>1, <3>1, <3>2 DEF Rooted, StackInv
  <2>2. op' # "idle" => report' = "none"
    BY <1>1 DEF Next, CreateStack, DeleteStack, BeginCreate, Create, CreateDone, RollBack,
       RollBackDone, BeginDelete, DeleteStep, DeleteDone, CreateRaises, RollBackRaises,
       DeleteRaises, Interrupt, ChangeGoal, Begin, End, Advance, DeleteFails, vars, runVars, StackInv
  <2>. QED BY <1>1, <2>1, <2>2, NextTypeOK, NextRooted, NextBuilt, NextGroups, NextCreated,
              NextRolledBack, NextDeleted, NextComplete, NextUndone, NextTakesNothing, NextGone
           DEF StackInv
<1>. QED BY <1>1, InitStackInv, PTL DEF Spec

(* The types of a provisioner's state, whatever the number of faults.      *)
THEOREM StackTypeCorrect == Spec => []TypeOK
  BY StackInvariance, PTL DEF StackInv

(* create_stack of either provisioner reports ok only for a complete       *)
(* stack, for any number of faults in the runs before: the look-ups of a   *)
(* re-run find everything an earlier run left (the rules of the ALB's      *)
(* groups excepted).                                                       *)
THEOREM OkIsComplete == Spec => []OkMeansComplete
  BY StackInvariance, PTL DEF StackInv

(* _rollback_create undoes its run: unless a fault hits the rollback or an *)
(* answer was lost, nothing created is left and AWS refuses no removal.    *)
THEOREM RollbackTheorem == Spec => []RollbackUndoes
  BY StackInvariance, PTL DEF StackInv

(* Neither create_stack nor its rollback takes away what an earlier run    *)
(* has made, except that the VPC's rollback may detach the gateway.        *)
THEOREM FoundIsKept == Spec => []CreationTakesNothing
  BY StackInvariance, PTL DEF StackInv

(* A delete_stack that ends without an error has left nothing, but for a   *)
(* gateway it found detached.                                              *)
THEOREM DeletedIsGone == Spec => []DeletedMeansGone
  BY StackInvariance, PTL DEF StackInv
=============================================================================
