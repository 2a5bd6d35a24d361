-------------------------- MODULE FleetReconciler --------------------------
(***************************************************************************)
(* SG_Edge__Fleet__Reconciler: the edge waker's control loop over a fleet  *)
(* of proxies. The fleet's members are the addresses of one A record and   *)
(* the idle streak is a TXT record; every Lambda invocation reads, decides *)
(* and writes them back, without a lock:                                   *)
(*                                                                         *)
(*   a visitor's request     cold_cold, ensure_booting                     *)
(*   a scheduled scale check reconcile                                     *)
(*   a scheduled idle check  idle_check                                    *)
(*                                                                         *)
(* One action is one call to Route 53 or EC2, with what the code does      *)
(* before the next one. EC2 and Route 53 answer from their present state.  *)
(***************************************************************************)
EXTENDS Naturals, FiniteSets

CONSTANTS Proxies,         \* the addresses proxies can get
          Visitors,        \* invocations of cold_cold that overlap
          Reconcilers,     \* invocations of reconcile that overlap
          Checker,         \* the invocation of idle_check
          target_count,    \* EDGE_PROXY_TARGET_COUNT
          idle_threshold,  \* IDLE_TEARDOWN_THRESHOLD
          MaxDeaths,       \* bound of the invocations that die
          None

Invocations == Visitors \cup Reconcilers \cup {Checker}

ASSUME FleetAssumption ==
    /\ target_count \in Nat \ {0}
    /\ idle_threshold \in Nat \ {0}
    /\ MaxDeaths \in Nat
    /\ Visitors \cap Reconcilers = {}
    /\ Checker \notin Visitors \cup Reconcilers
    /\ None \notin Proxies
    /\ IsFiniteSet(Proxies)

VARIABLES
    active,       \* some vault has its routing record
    running,      \* the proxies that run
    record,       \* the values of proxies.<parent>; {} is no record
    zero_streak,  \* of _state.<parent>
    pc,           \* pc[i]: the next call of invocation i, or "idle"
    left,         \* left[i]: proxies it has still to launch
    ip,           \* ip[i]: the proxy it is registering or removing
    ips,          \* ips[i]: its latest reading of the record
    todo,         \* the proxies the idle check has still to drain
    (* Observability: what the properties need to remember.                *)
    quiet,        \* idle checks in a row that saw no active vault, capped
    torn,         \* an update of the fleet's record has been lost
    missed,       \* the last reset of the streak that was due is not written
    deaths        \* invocations that died

fleetVars == <<active, running, record, zero_streak>>
localVars == <<left, ip, ips, todo>>
historyVars == <<quiet, torn, missed, deaths>>
vars == <<fleetVars, pc, localVars, historyVars>>

Init ==
    /\ active \in BOOLEAN
    /\ running = {}
    /\ record = {}
    /\ zero_streak = 0
    /\ pc = [i \in Invocations |-> "idle"]
    /\ left = [i \in Invocations |-> 0]
    /\ ip = [i \in Invocations |-> None]
    /\ ips = [i \in Invocations |-> {}]
    /\ todo = {}
    /\ quiet = 0
    /\ torn = FALSE
    /\ missed = FALSE
    /\ deaths = 0

At(i, here) == pc[i] = here

GoTo(i, there) == pc' = [pc EXCEPT ![i] = there]

Done(i) ==
    /\ GoTo(i, "idle")
    /\ left' = [left EXCEPT ![i] = 0]
    /\ ip' = [ip EXCEPT ![i] = None]
    /\ ips' = [ips EXCEPT ![i] = {}]

(* A write over a value that is no longer what the writer read.            *)
Overwrites(i) == record # ips[i]

-----------------------------------------------------------------------------
(* Launching: ensure_booting, reconcile, _launch_and_register              *)

(* ensure_booting of a fleet that is not empty does nothing.               *)
EnsureBooting(v) ==
    /\ At(v, "idle")
    /\ record = {}
    /\ left' = [left EXCEPT ![v] = 1]
    /\ GoTo(v, "launch")
    /\ UNCHANGED <<fleetVars, ip, ips, todo, historyVars>>

Reconcile(r) ==
    /\ At(r, "idle")
    /\ ips' = [ips EXCEPT ![r] = record]
    /\ GoTo(r, "target")
    /\ UNCHANGED <<fleetVars, left, ip, todo, historyVars>>

desired_target == IF active THEN target_count ELSE 0

(* A scale check that only starts a fleet and never completes one.         *)
Shortfall_OnlyEmpty(r) == IF ips[r] = {} THEN desired_target ELSE 0

(* What reconcile launches: target - current, when it is positive.         *)
Shortfall(r) ==
    IF Cardinality(ips[r]) < desired_target THEN desired_target - Cardinality(ips[r]) ELSE 0

DesiredTarget(r) ==
    /\ At(r, "target")
    /\ IF Shortfall(r) = 0
       THEN Done(r)
       ELSE /\ left' = [left EXCEPT ![r] = Shortfall(r)]
            /\ ips' = [ips EXCEPT ![r] = {}]
            /\ GoTo(r, "launch")
            /\ UNCHANGED ip
    /\ UNCHANGED <<fleetVars, todo, historyVars>>

(* The launcher returns when the proxy is up.                              *)
Launch(i) ==
    /\ At(i, "launch")
    /\ \E p \in Proxies \ running :
          /\ running' = running \cup {p}
          /\ ip' = [ip EXCEPT ![i] = p]
    /\ GoTo(i, "add")
    /\ UNCHANGED <<active, record, zero_streak, left, ips, todo, historyVars>>

Registered(i) ==
    IF left[i] > 1
    THEN /\ left' = [left EXCEPT ![i] = @ - 1]
         /\ ip' = [ip EXCEPT ![i] = None]
         /\ ips' = [ips EXCEPT ![i] = {}]
         /\ GoTo(i, "launch")
    ELSE Done(i)

(* add_proxy_ip reads the record. It may have the address: EC2 gave it out *)
(* again before the drain of its former holder removed it.                 *)
AddRead(i) ==
    /\ At(i, "add")
    /\ IF ip[i] \in record
       THEN Registered(i) /\ torn' = TRUE
       ELSE /\ ips' = [ips EXCEPT ![i] = record]
            /\ GoTo(i, "addWrite")
            /\ UNCHANGED <<left, ip, torn>>
    /\ UNCHANGED <<fleetVars, todo, quiet, missed, deaths>>

(* An upsert of the one address, as if Route 53 appended it.               *)
AddWrite_Alone(i) ==
    /\ At(i, "addWrite")
    /\ record' = {ip[i]}
    /\ torn' = (torn \/ Overwrites(i))
    /\ Registered(i)
    /\ UNCHANGED <<active, running, zero_streak, todo, quiet, missed, deaths>>

AddWrite(i) ==
    /\ At(i, "addWrite")
    /\ record' = ips[i] \cup {ip[i]}
    /\ torn' = (torn \/ Overwrites(i))
    /\ Registered(i)
    /\ UNCHANGED <<active, running, zero_streak, todo, quiet, missed, deaths>>

-----------------------------------------------------------------------------
(* Tearing down: idle_check, _drain_all, remove_proxy_ip                   *)

IdleCheck ==
    /\ At(Checker, "idle")
    /\ GoTo(Checker, IF active THEN "reset" ELSE "count")
    /\ quiet' = IF active THEN 0
                ELSE IF quiet < idle_threshold THEN quiet + 1 ELSE quiet
    /\ UNCHANGED <<fleetVars, localVars, torn, missed, deaths>>

(* A check that sees traffic and leaves the streak as it is.               *)
WriteStreak_Keeps ==
    /\ At(Checker, "reset")
    /\ zero_streak' = IF quiet = 0 THEN zero_streak ELSE 0
    /\ missed' = FALSE
    /\ Done(Checker)
    /\ UNCHANGED <<active, running, record, todo, quiet, torn, deaths>>

(* _write_streak(0): traffic is present, or the fleet has been drained.    *)
WriteStreak ==
    /\ At(Checker, "reset")
    /\ zero_streak' = 0
    /\ missed' = FALSE
    /\ Done(Checker)
    /\ UNCHANGED <<active, running, record, todo, quiet, torn, deaths>>

(* read_state, and below the threshold the streak is written back: no      *)
(* other invocation writes it. At the threshold _drain_all lists the fleet.*)
CountStreak ==
    /\ At(Checker, "count")
    /\ IF zero_streak + 1 >= idle_threshold
       THEN /\ todo' = record
            /\ GoTo(Checker, IF record = {} THEN "reset" ELSE "drain")
            /\ UNCHANGED <<zero_streak, left, ip, ips>>
       ELSE /\ zero_streak' = zero_streak + 1
            /\ Done(Checker)
            /\ UNCHANGED todo
    /\ UNCHANGED <<active, running, record, historyVars>>

Terminate ==
    /\ At(Checker, "drain")
    /\ \E p \in todo :
          /\ running' = running \ {p}
          /\ ip' = [ip EXCEPT ![Checker] = p]
    /\ GoTo(Checker, "remove")
    /\ UNCHANGED <<active, record, zero_streak, left, ips, todo, historyVars>>

Drained ==
    /\ todo' = todo \ {ip[Checker]}
    /\ ip' = [ip EXCEPT ![Checker] = None]
    /\ ips' = [ips EXCEPT ![Checker] = {}]
    /\ GoTo(Checker, IF todo \subseteq {ip[Checker]} THEN "reset" ELSE "drain")
    /\ UNCHANGED left

(* An exception ends the idle check; the streak stays as it is.            *)
Raise == Done(Checker) /\ todo' = {}

(* remove_proxy_ip reads the record. It only has not the address when an   *)
(* update has been lost.                                                   *)
RemoveRead ==
    /\ At(Checker, "remove")
    /\ IF ip[Checker] \notin record
       THEN Drained
       ELSE /\ ips' = [ips EXCEPT ![Checker] = record]
            /\ GoTo(Checker, IF record = {ip[Checker]} THEN "deleteRead" ELSE "removeWrite")
            /\ UNCHANGED <<left, ip, todo>>
    /\ UNCHANGED <<fleetVars, historyVars>>

RemoveWrite ==
    /\ At(Checker, "removeWrite")
    /\ record' = ips[Checker] \ {ip[Checker]}
    /\ torn' = (torn \/ Overwrites(Checker))
    /\ Drained
    /\ UNCHANGED <<active, running, zero_streak, quiet, missed, deaths>>

(* The last address is removed with the record. delete_record reads the    *)
(* record again, and deletes whatever it has now.                          *)
DeleteRead ==
    /\ At(Checker, "deleteRead")
    /\ torn' = (torn \/ Overwrites(Checker))
    /\ IF record = {}
       THEN Raise
       ELSE /\ ips' = [ips EXCEPT ![Checker] = record]
            /\ GoTo(Checker, "deleteWrite")
            /\ UNCHANGED <<left, ip, todo>>
    /\ UNCHANGED <<fleetVars, quiet, missed, deaths>>

(* Route 53 refuses a DELETE whose values are not the record's.            *)
DeleteWrite ==
    /\ At(Checker, "deleteWrite")
    /\ torn' = (torn \/ Overwrites(Checker))
    /\ IF Overwrites(Checker)
       THEN Raise /\ UNCHANGED record
       ELSE Drained /\ record' = {}
    /\ UNCHANGED <<active, running, zero_streak, quiet, missed, deaths>>

-----------------------------------------------------------------------------
(* An invocation dies: a call raises, or the Lambda's time is up. A proxy  *)
(* that was launched and not yet registered, or terminated and not yet     *)
(* removed, stays so, and a reset that was due is not written.             *)
MidUpdate(i) ==
    pc[i] \in {"add", "addWrite", "remove", "removeWrite", "deleteRead", "deleteWrite"}

ResetIsDue(i) == pc[i] = "reset" /\ quiet = 0

Die(i) ==
    /\ ~At(i, "idle")
    /\ deaths < MaxDeaths
    /\ deaths' = deaths + 1
    /\ torn' = (torn \/ MidUpdate(i))
    /\ missed' = (missed \/ ResetIsDue(i))
    /\ Done(i)
    /\ todo' = IF i = Checker THEN {} ELSE todo
    /\ UNCHANGED <<fleetVars, quiet>>

(* Vaults come and go.                                                     *)
Traffic ==
    /\ active' = ~active
    /\ UNCHANGED <<running, record, zero_streak, pc, localVars, historyVars>>

Register(i) == Launch(i) \/ AddRead(i) \/ AddWrite(i)

Scale(r) == Reconcile(r) \/ DesiredTarget(r) \/ Register(r)

Drain ==
    \/ Terminate \/ RemoveRead \/ RemoveWrite
    \/ DeleteRead \/ DeleteWrite

Check == IdleCheck \/ WriteStreak \/ CountStreak \/ Drain

Next ==
    \/ \E v \in Visitors : EnsureBooting(v) \/ Register(v)
    \/ \E r \in Reconcilers : Scale(r)
    \/ Check
    \/ \E i \in Invocations : Die(i)
    \/ Traffic

(* The schedule keeps asking for scale and idle checks, and an invocation  *)
(* goes on once it has begun; nobody has to visit.                         *)
Fairness ==
    /\ \A v \in Visitors : WF_vars(Register(v))
    /\ \A r \in Reconcilers : WF_vars(Scale(r))
    /\ WF_vars(Check)

Spec == Init /\ [][Next]_vars /\ Fairness

-----------------------------------------------------------------------------
Places == {"idle", "launch", "target", "add", "addWrite"}

CheckerPlaces ==
    {"idle", "reset", "count", "drain", "remove", "removeWrite", "deleteRead", "deleteWrite"}

LocalTypes ==
    /\ pc \in [Invocations -> Places \cup CheckerPlaces]
    /\ \A i \in Invocations : pc[i] \in (IF i = Checker THEN CheckerPlaces ELSE Places)
    /\ left \in [Invocations -> 0..target_count]
    /\ ip \in [Invocations -> Proxies \cup {None}]
    /\ ips \in [Invocations -> SUBSET Proxies]
    /\ \A i \in Invocations : pc[i] \in {"add", "addWrite"} => ip[i] \in Proxies

TypeOK ==
    /\ active \in BOOLEAN
    /\ running \subseteq Proxies
    /\ record \subseteq Proxies
    /\ zero_streak \in 0..(idle_threshold - 1)
    /\ LocalTypes
    /\ todo \subseteq Proxies
    /\ quiet \in 0..idle_threshold
    /\ torn \in BOOLEAN
    /\ missed \in BOOLEAN
    /\ deaths \in 0..MaxDeaths

Adders == Visitors \cup Reconcilers

IsAdding(i) == pc[i] \in {"add", "addWrite"}

Adding(p) == \E i \in Adders : IsAdding(i) /\ ip[i] = p

IsRemoving == pc[Checker] \in {"remove", "removeWrite", "deleteRead", "deleteWrite"}

Removing(p) == IsRemoving /\ ip[Checker] = p

(* The record is the fleet: as long as no update has been lost, a proxy    *)
(* that runs is listed or about to be, by whoever launched it, and an      *)
(* address that is listed runs or is about to be removed, by whoever       *)
(* terminated it.                                                          *)
RecordIsTheFleet ==
    ~torn =>
        /\ \A p \in running \ record : Adding(p)
        /\ \A p \in record \ running : Removing(p)

Draining == pc[Checker] = "drain" \/ IsRemoving

(* Once every reset that was due has been written, a fleet is only drained *)
(* after idle_threshold idle checks in a row that have seen no active      *)
(* vault, also over drains that failed half way, and whatever the other    *)
(* invocations have lost of the record. The exception is an idle check     *)
(* that sees traffic and dies before it writes the reset: until the next   *)
(* reset the streak still counts the checks before it, and the fleet may   *)
(* be drained too early, where IDLE_TEARDOWN_THRESHOLD is documented as    *)
(* "consecutive zero-vault idle-checks before teardown".                   *)
TeardownEarned == Draining => quiet = idle_threshold \/ missed

(* RecordIsTheFleet and ConvergesUnlessTorn are about histories without a  *)
(* lost update: their run need not follow the others further.              *)
Untorn == ~torn

Serving == running \cap record

(* Convergence: as long as no update is lost, vaults that stay active get  *)
(* target_count proxies that run and are listed, and on an edge that stays *)
(* idle every proxy is reclaimed, each time a visitor has booted one.      *)
ConvergesUnlessTorn ==
    /\ <>[]active /\ []~torn => <>[](Cardinality(Serving) >= target_count)
    /\ <>[]~active /\ []~torn => []<>(running = {} /\ record = {})

(* "Two racing invocations cost one extra proxy for a few minutes, which   *)
(* idle-teardown reclaims": on an edge that stays idle every proxy is.     *)
IdleReclaims == <>[]~active => []<>(running = {})

-----------------------------------------------------------------------------
(* The inductive invariant of FleetReconciler_proofs.                      *)

(* Unless a reset is missing, the streak never runs ahead of the idle      *)
(* checks it stands for.                                                   *)
StreakIsEarned ==
    /\ pc[Checker] = "idle" => zero_streak <= quiet
    /\ pc[Checker] = "count" => zero_streak + 1 <= quiet
    /\ pc[Checker] = "reset" => quiet \in {0, idle_threshold}
    /\ Draining => quiet = idle_threshold

(* Whoever registers a proxy is alone with it, save for a drain that still *)
(* has to remove the proxy that had its address before.                    *)
AddersAreApart ==
    \A i \in Adders :
        IsAdding(i) =>
            /\ ip[i] \in running
            /\ ip[i] \in record => Removing(ip[i])
            /\ pc[i] = "addWrite" => ip[i] \notin ips[i]
            /\ \A j \in Adders : IsAdding(j) /\ ip[j] = ip[i] => j = i

(* A drain works through a part of the record, and only who is being       *)
(* registered can have the address it removes.                             *)
DrainIsListed ==
    /\ todo \subseteq record
    /\ IsRemoving => ip[Checker] \in todo /\ (ip[Checker] \in running => Adding(ip[Checker]))
    /\ pc[Checker] \in {"deleteRead", "deleteWrite"} => ips[Checker] = {ip[Checker]}

FleetInv ==
    /\ TypeOK
    /\ ~missed => StreakIsEarned
    /\ ~torn => AddersAreApart /\ DrainIsListed
    /\ RecordIsTheFleet
=============================================================================
