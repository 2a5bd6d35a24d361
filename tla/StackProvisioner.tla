------------------------- MODULE StackProvisioner -------------------------
(***************************************************************************)
(* VPC__Stack__Provisioner and ALB__Stack__Provisioner: a command line     *)
(* that builds a stack of AWS resources in order, finds again what an      *)
(* earlier run has left, rolls back what it created when a call raises,    *)
(* and takes a stack down. The two differ in their tables and in what they *)
(* do about an error; one variable says which of them is meant.            *)
(*                                                                         *)
(* One action is one step of a table: the look-up and the call that may    *)
(* follow it. A call raises with or without having had its effect (the     *)
(* answer is lost, or a second request of the client raises:               *)
(* create_target_group tags what it has created, create_security_group     *)
(* describes it), and the process may be interrupted anywhere.             *)
(***************************************************************************)
EXTENDS Naturals, Sequences

CONSTANT MaxFaults   \* bound of the faults of one history

ASSUME ProvisionerAssumption == MaxFaults \in Nat

VARIABLES
    stack,     \* which provisioner: "vpc" or "alb"
    aws,       \* the resources and settings of the stack that exist
    goal,      \* what the operator wants, and asks for again
    op,        \* the operation that runs, or "idle"
    step,      \* the step of its table
    created,   \* created_now: what this run has to roll back
    found,     \* the VPC deletion's detail: what it has found up front
    errors,    \* report.rollback_errors is not empty
    report,    \* the last operation and report.ok; "none" while one runs
    (* Observability.                                                      *)
    faults,    \* faults so far
    before,    \* aws when the operation began
    lost,      \* some call of this run raised and had its effect
    hindered,  \* a fault hit the rollback of this run
    dirty      \* some run did not undo what it had done

runVars == <<op, step, created, found, errors, report>>
historyVars == <<faults, before, lost, hindered, dirty>>
vars == <<stack, aws, goal, runVars, historyVars>>

-----------------------------------------------------------------------------
(* The tables                                                              *)

VpcPlan ==
    <<"vpc", "dns", "igw", "attach", "rtb", "route", "subnetA", "subnetB", "publicIp",
      "assocA", "assocB", "sg", "rules">>

AlbPlan == <<"albSg", "albRules", "tgtSg", "tgtRules", "lb", "tg", "listener">>

Plan == IF stack = "vpc" THEN VpcPlan ELSE AlbPlan

(* A gateway that is deleted before it is detached.                        *)
VpcRollback_Attached ==
    <<"assocA", "assocB", "subnetB", "subnetA", "route", "sg", "rtb", "igw", "attach", "vpc">>

VpcRollback ==
    <<"assocA", "assocB", "subnetB", "subnetA", "route", "sg", "rtb", "attach", "igw", "vpc">>

AlbRollback == <<"listener", "tg", "lb", "tgtSg", "albSg">>

Rollback == IF stack = "vpc" THEN VpcRollback ELSE AlbRollback

VpcDelete == <<"sg", "subnetA", "subnetB", "rtb", "attach", "igw", "vpc">>

AlbDelete == <<"listener", "tg", "lb", "albSg", "tgtSg">>

Delete == IF stack = "vpc" THEN VpcDelete ELSE AlbDelete

InTable(table) == {table[n] : n \in 1..Len(table)}

(* Calls that are made whether the thing is there or not.                  *)
AlwaysCalled == {"dns", "attach", "publicIp", "rules"}

(* What created_now has an entry for.                                      *)
Recorded == InTable(VpcRollback) \cup InTable(AlbRollback)

(* The rules of an ALB's security groups are only authorised in the run    *)
(* that creates the group.                                                 *)
OfNewGroup == [x \in {"albRules", "tgtRules"} |-> IF x = "albRules" THEN "albSg" ELSE "tgtSg"]

-----------------------------------------------------------------------------
(* AWS                                                                     *)

(* What exists only inside of something and goes with it.                  *)
Inside(x) ==
    CASE x = "vpc"                    -> {"dns"}
      [] x = "rtb"                    -> {"route"}
      [] x = "subnetA"                -> {"assocA", "publicIp"}
      [] x = "subnetB"                -> {"assocB", "publicIp"}
      [] x = "sg"                     -> {"rules"}
      [] x = "albSg"                  -> {"albRules"}
      [] x = "tgtSg"                  -> {"tgtRules"}
      [] x = "lb"                     -> {"listener"}
      [] OTHER                        -> {}

(* What has to go first: DependencyViolation, ResourceInUse.               *)
HoldsUp(x) ==
    CASE x = "vpc"   -> {"attach", "rtb", "subnetA", "subnetB", "sg"}
      [] x = "igw"   -> {"attach"}
      [] x = "rtb"   -> {"assocA", "assocB"}
      [] x = "tg"    -> {"listener"}
      [] x = "albSg" -> {"lb", "tgtRules"}
      [] OTHER       -> {}

Refused(x) == aws \cap HoldsUp(x) # {}

Without(x) == aws \ ({x} \cup Inside(x))

-----------------------------------------------------------------------------
Init ==
    /\ stack \in {"vpc", "alb"}
    /\ aws = {}
    /\ goal = "create"
    /\ op = "idle"
    /\ step = 1
    /\ created = {}
    /\ found = {}
    /\ errors = FALSE
    /\ report = "none"
    /\ faults = 0
    /\ before = {}
    /\ lost = FALSE
    /\ hindered = FALSE
    /\ dirty = FALSE

Fault == faults < MaxFaults /\ faults' = faults + 1

Begin(o) ==
    /\ op = "idle"
    /\ goal = o
    /\ op' = o
    /\ step' = 1
    /\ created' = {}
    /\ errors' = FALSE
    /\ report' = "none"
    /\ before' = aws
    /\ lost' = FALSE
    /\ hindered' = FALSE
    /\ UNCHANGED <<stack, aws, goal, faults, dirty>>

End(result) ==
    /\ op' = "idle"
    /\ step' = 1
    /\ created' = {}
    /\ found' = {}
    /\ report' = result

Advance == step' = step + 1 /\ UNCHANGED <<op, found, report>>

-----------------------------------------------------------------------------
(* create_stack                                                            *)

BeginCreate == Begin("create") /\ UNCHANGED found

(* A re-run that takes the rules of a group it has found for granted.      *)
Needed_Trusting(x) ==
    /\ x \notin aws \/ x \in AlwaysCalled
    /\ x \in DOMAIN OfNewGroup => OfNewGroup[x] \in created
    /\ x = "rules" => "sg" \in created

(* The call is needed: the look-up has not found the thing.                *)
Needed(x) ==
    /\ x \notin aws \/ x \in AlwaysCalled
    /\ x \in DOMAIN OfNewGroup => OfNewGroup[x] \in created

(* A run that rolls back what it has only found.                           *)
Noted_Reused(x) == created \cup ({x} \cap Recorded)

Noted(x) == IF Needed(x) THEN created \cup ({x} \cap Recorded) ELSE created

Create ==
    /\ op = "create"
    /\ step <= Len(Plan)
    /\ aws' = IF Needed(Plan[step]) THEN aws \cup {Plan[step]} ELSE aws
    /\ created' = Noted(Plan[step])
    /\ Advance
    /\ UNCHANGED <<stack, goal, errors, historyVars>>

CreateDone ==
    /\ op = "create"
    /\ step > Len(Plan)
    /\ End("created")
    /\ UNCHANGED <<stack, aws, goal, errors, historyVars>>

(* The look-up or the call raises; with an effect the thing is there and   *)
(* created_now does not know.                                              *)
CreateRaises ==
    /\ op = "create"
    /\ step <= Len(Plan)
    /\ Fault
    /\ \/ UNCHANGED <<aws, lost, dirty>>
       \/ /\ Needed(Plan[step])
          /\ aws' = aws \cup {Plan[step]}
          /\ lost' = TRUE
          /\ dirty' = TRUE
    /\ op' = "rollback"
    /\ step' = 1
    /\ UNCHANGED <<stack, goal, created, found, errors, report, before, hindered>>

(* _rollback_create, _rollback: what is not in created_now is passed over. *)
RollBack ==
    /\ op = "rollback"
    /\ step <= Len(Rollback)
    /\ IF Rollback[step] \in created /\ Refused(Rollback[step])
       THEN errors' = TRUE /\ dirty' = TRUE /\ UNCHANGED aws
       ELSE /\ aws' = IF Rollback[step] \in created THEN Without(Rollback[step]) ELSE aws
            /\ UNCHANGED <<errors, dirty>>
    /\ Advance
    /\ UNCHANGED <<stack, goal, created, faults, before, lost, hindered>>

RollBackRaises ==
    /\ op = "rollback"
    /\ step <= Len(Rollback)
    /\ Rollback[step] \in created
    /\ Fault
    /\ \/ UNCHANGED aws
       \/ aws' = Without(Rollback[step]) /\ ~Refused(Rollback[step])
    /\ errors' = TRUE
    /\ hindered' = TRUE
    /\ dirty' = TRUE
    /\ Advance
    /\ UNCHANGED <<stack, goal, created, before, lost>>

RollBackDone ==
    /\ op = "rollback"
    /\ step > Len(Rollback)
    /\ End("createFailed")
    /\ UNCHANGED <<stack, aws, goal, errors, historyVars>>

-----------------------------------------------------------------------------
(* delete_stack                                                            *)

(* describe_stack of the VPC: nothing without the VPC, and the gateway     *)
(* only while it is attached to it.                                        *)
Described ==
    IF "vpc" \in aws
    THEN IF "attach" \in aws THEN aws ELSE aws \ {"igw"}
    ELSE {}

BeginDelete == Begin("delete") /\ found' = IF stack = "vpc" THEN Described ELSE {}

(* The ALB's look-ups come with each step.                                 *)
Found(x) == IF stack = "vpc" THEN x \in found ELSE x \in aws

(* A deletion that reports every error and stops at the first, like the    *)
(* VPC's.                                                                  *)
DeleteFails_Stops == errors' = TRUE /\ End("deleteFailed")

(* What an error does: the VPC's deletion ends, the ALB's goes on.         *)
DeleteFails ==
    IF stack = "vpc"
    THEN End("deleteFailed") /\ UNCHANGED errors
    ELSE Advance /\ errors' = TRUE /\ UNCHANGED created

(* Errors that are neither counted nor stop the deletion.                  *)
DeleteStep_Swallows ==
    /\ op = "delete"
    /\ step <= Len(Delete)
    /\ aws' = IF Found(Delete[step]) /\ ~Refused(Delete[step]) THEN Without(Delete[step]) ELSE aws
    /\ Advance
    /\ UNCHANGED <<stack, goal, created, errors, historyVars>>

DeleteStep ==
    /\ op = "delete"
    /\ step <= Len(Delete)
    /\ IF Found(Delete[step]) /\ Refused(Delete[step])
       THEN DeleteFails /\ UNCHANGED aws
       ELSE /\ aws' = IF Found(Delete[step]) THEN Without(Delete[step]) ELSE aws
            /\ Advance
            /\ UNCHANGED <<created, errors>>
    /\ UNCHANGED <<stack, goal, historyVars>>

DeleteRaises ==
    /\ op = "delete"
    /\ step <= Len(Delete)
    /\ Found(Delete[step])
    /\ Fault
    /\ \/ UNCHANGED aws
       \/ aws' = Without(Delete[step]) /\ ~Refused(Delete[step])
    /\ DeleteFails
    /\ UNCHANGED <<stack, goal, before, lost, hindered, dirty>>

DeleteDone ==
    /\ op = "delete"
    /\ step > Len(Delete)
    /\ End("deleted")
    /\ UNCHANGED <<stack, aws, goal, errors, historyVars>>

-----------------------------------------------------------------------------
(* The process is interrupted: KeyboardInterrupt is no Exception, and      *)
(* nothing is rolled back.                                                 *)
Interrupt ==
    /\ op # "idle"
    /\ Fault
    /\ End("interrupted")
    /\ dirty' = TRUE
    /\ UNCHANGED <<stack, aws, goal, errors, before, lost, hindered>>

(* The operator changes their mind.                                        *)
ChangeGoal ==
    /\ op = "idle"
    /\ goal' = IF goal = "create" THEN "delete" ELSE "create"
    /\ UNCHANGED <<stack, aws, runVars, historyVars>>

CreateStack ==
    BeginCreate \/ Create \/ CreateDone \/ RollBack \/ RollBackDone

DeleteStack == BeginDelete \/ DeleteStep \/ DeleteDone

Next ==
    \/ CreateStack
    \/ DeleteStack
    \/ CreateRaises \/ RollBackRaises \/ DeleteRaises \/ Interrupt
    \/ ChangeGoal

(* The operator repeats what has not been done; a command runs to its end. *)
Fairness == WF_vars(CreateStack) /\ WF_vars(DeleteStack)

Spec == Init /\ [][Next]_vars /\ Fairness

-----------------------------------------------------------------------------
TypeOK ==
    /\ stack \in {"vpc", "alb"}
    /\ aws \subseteq InTable(Plan)
    /\ goal \in {"create", "delete"}
    /\ op \in {"idle", "create", "rollback", "delete"}
    /\ step \in 1..(Len(VpcPlan) + 1)
    /\ created \subseteq Recorded
    /\ found \subseteq before
    /\ errors \in BOOLEAN
    /\ report \in {"none", "created", "createFailed", "deleted", "deleteFailed", "interrupted"}
    /\ faults \in 0..MaxFaults
    /\ before \subseteq InTable(Plan)
    /\ lost \in BOOLEAN
    /\ hindered \in BOOLEAN
    /\ dirty \in BOOLEAN

(* "ok" of a creation means a complete stack, whatever earlier runs left   *)
(* behind: every resource, and every rule and setting, too, save the rules *)
(* of a load balancer's group that a run before has left without them.     *)
OkMeansComplete ==
    report = "created" =>
        \A x \in InTable(Plan) : x \in aws \/ (x \in DOMAIN OfNewGroup /\ dirty)

(* A creation that failed has undone exactly what it did: if no fault hits *)
(* the rollback and no call raised after its effect, nothing that was      *)
(* created in this run is left and nothing in the rollback was refused.    *)
RollbackUndoes ==
    report = "createFailed" /\ ~lost /\ ~hindered =>
        ~errors /\ aws \cap Recorded \subseteq before

(* A creation takes nothing away from what it has found, on any path; only *)
(* the gateway is detached by a rollback whoever attached it.              *)
CreationTakesNothing ==
    op \in {"create", "rollback"} \/ report \in {"created", "createFailed"} =>
        before \ aws \subseteq {"attach"}

(* A deletion that ends without a word of an error has left nothing of the *)
(* stack, but for a gateway it has found detached.                         *)
DeletedMeansGone ==
    report = "deleted" /\ ~errors =>
        /\ aws \subseteq {"igw"}
        /\ "igw" \in aws => "attach" \notin before

-----------------------------------------------------------------------------
(* What holds in the middle of an operation: the strengthening that makes  *)
(* the invariants above inductive.                                         *)

(* What exists has what it is inside of, and what it holds up.             *)
Rooted(S) ==
    \A x \in InTable(Plan) : S \cap (Inside(x) \cup HoldsUp(x)) # {} => x \in S

Making == op \in {"create", "rollback"}

BuiltSoFar ==
    op = "create" =>
        /\ ~errors /\ ~lost /\ ~hindered
        /\ \A n \in 1..(step - 1) : Plan[n] \in aws \/ (Plan[n] \in DOMAIN OfNewGroup /\ dirty)

(* Steps of the rollback that are still to come.                           *)
ToRollBack == {Rollback[n] : n \in {m \in 1..Len(Rollback) : m >= step}}

(* A group is without its rules only for as long as the run that made it   *)
(* can still authorise them or take it away.                               *)
GroupsHaveRules ==
    \A x \in DOMAIN OfNewGroup :
        OfNewGroup[x] \in aws /\ x \notin aws =>
            \/ dirty
            \/ op = "create" /\ OfNewGroup[x] \in created
            \/ op = "rollback" /\ OfNewGroup[x] \in created \cap ToRollBack

(* A run notes only what it has made, and what it notes all of that.       *)
CreatedIsNew ==
    Making =>
        /\ created \cap before \subseteq {"attach"}
        /\ created \subseteq InTable(Plan)
        /\ ~lost => aws \cap Recorded \subseteq before \cup created
        /\ "tgtRules" \in aws => "tgtRules" \in before \/ "tgtSg" \in created

RolledBackSoFar ==
    op = "rollback" /\ ~lost /\ ~hindered =>
        /\ ~errors
        /\ aws \cap created \subseteq before \cup ToRollBack

FoundUpFront ==
    IF "vpc" \in before
    THEN IF "attach" \in before THEN before ELSE before \ {"igw"}
    ELSE {}

(* The deletion's way down the table; the VPC's ends at its first error.   *)
DeletedSoFar ==
    IF op = "delete"
    THEN /\ stack = "vpc" => found = FoundUpFront /\ ~errors
         /\ aws \subseteq before
         /\ ~errors => \A n \in 1..(step - 1) :
                           Delete[n] \notin aws \/ (stack = "vpc" /\ Delete[n] \notin found)
    ELSE found = {}

StackInv ==
    /\ TypeOK
    /\ Rooted(aws) /\ Rooted(before)
    /\ op # "idle" => report = "none"
    /\ BuiltSoFar
    /\ GroupsHaveRules
    /\ CreatedIsNew
    /\ RolledBackSoFar
    /\ DeletedSoFar
    /\ OkMeansComplete
    /\ RollbackUndoes
    /\ CreationTakesNothing
    /\ DeletedMeansGone

-----------------------------------------------------------------------------
(* An operator who repeats a creation or a deletion gets it: nothing a     *)
(* failed run leaves behind is in the way for good.                        *)
RetriesConverge ==
    /\ <>[](goal = "create") => <>[](InTable(Plan) \ DOMAIN OfNewGroup \subseteq aws)
    /\ <>[](goal = "delete") => <>[](aws \subseteq {"igw"})
=============================================================================
