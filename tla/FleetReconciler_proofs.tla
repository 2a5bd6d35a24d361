---------------------- MODULE FleetReconciler_proofs ----------------------
(***************************************************************************)
(* The fleet for any number of overlapping invocations, any target and     *)
(* threshold, and any number of proxies: until an update is lost the       *)
(* record is the fleet, and a teardown has always been earned.             *)
(***************************************************************************)
EXTENDS FleetReconciler, FiniteSetTheorems, TLAPS

(* What reconcile launches is at most the target.                          *)
LEMMA ShortfallInRange ==
    ASSUME TypeOK, NEW r \in Reconcilers
    PROVE  Shortfall(r) \in 0..target_count
  <1>1. Cardinality(ips[r]) \in Nat
    <2>1. ips[r] \subseteq Proxies
      BY DEF TypeOK, LocalTypes, Invocations
    <2>2. IsFiniteSet(ips[r])
      BY <2>1, FS_Subset, FleetAssumption
    <2>3. QED
      BY <2>2, FS_CardinalityType
  <1>2. desired_target \in 0..target_count
    BY FleetAssumption DEF desired_target, TypeOK
  <1>3. QED
    BY <1>1, <1>2, FleetAssumption DEF Shortfall

(* An invocation that ends, and one that goes on after a registration or a *)
(* removal, keep the types of what is local to it.                         *)
LEMMA DoneTypes ==
    ASSUME LocalTypes, NEW i \in Invocations, Done(i)
    PROVE  LocalTypes'
  <1>1. pc'[i] = "idle" /\ \A j \in Invocations \ {i} : pc'[j] = pc[j] /\ ip'[j] = ip[j]
    BY DEF Done, GoTo, LocalTypes
  <1>2. QED
    BY <1>1, FleetAssumption DEF Done, GoTo, LocalTypes, Places, CheckerPlaces

(* A launch that is registered leaves one fewer to go.                     *)
LEMMA RegisteredTypes ==
    ASSUME LocalTypes, NEW i \in Invocations \ {Checker}, Registered(i)
    PROVE  LocalTypes'
  <1>1. CASE left[i] > 1
    <2>1. left[i] - 1 \in 0..target_count
      BY <1>1, FleetAssumption DEF LocalTypes
    <2>2. QED
      BY <1>1, <2>1 DEF Registered, GoTo, LocalTypes, Places
  <1>2. CASE ~(left[i] > 1)
    BY <1>2, DoneTypes DEF Registered
  <1>3. QED
    BY <1>1, <1>2

(* The end of a drain keeps the types of the locals.                       *)
LEMMA DrainedTypes ==
    ASSUME LocalTypes, Drained
    PROVE  LocalTypes'
  BY DEF Drained, GoTo, LocalTypes, Places, CheckerPlaces, Invocations

(* Every step keeps the types.                                             *)
LEMMA NextTypeOK == TypeOK /\ [Next]_vars => TypeOK'
  <1> SUFFICES ASSUME TypeOK, [Next]_vars PROVE TypeOK'
    OBVIOUS
  <1> USE FleetAssumption DEF TypeOK, fleetVars, historyVars
  <1>c. Checker \in Invocations
    BY DEF Invocations
  <1>1. ASSUME NEW v \in Visitors, EnsureBooting(v) PROVE TypeOK'
    <2>1. v \in Invocations \ {Checker} /\ 1 \in 0..target_count
      BY DEF Invocations
    <2>2. QED
      BY <1>1, <2>1 DEF EnsureBooting, GoTo, LocalTypes, Places
  <1>2. ASSUME NEW r \in Reconcilers, Reconcile(r) PROVE TypeOK'
    <2>1. r \in Invocations \ {Checker}
      BY DEF Invocations
    <2>2. QED
      BY <1>2, <2>1 DEF Reconcile, GoTo, LocalTypes, Places
  <1>3. ASSUME NEW r \in Reconcilers, DesiredTarget(r) PROVE TypeOK'
    <2>1. r \in Invocations \ {Checker}
      BY DEF Invocations
    <2>2. CASE Shortfall(r) = 0
      BY <1>3, <2>1, <2>2, DoneTypes DEF DesiredTarget
    <2>3. CASE Shortfall(r) # 0
      BY <1>3, <2>1, <2>3, ShortfallInRange DEF DesiredTarget, GoTo, LocalTypes, Places
    <2>4. QED
      BY <2>2, <2>3
  <1>4. ASSUME NEW i \in Visitors \cup Reconcilers, Register(i) PROVE TypeOK'
    <2>1. i \in Invocations \ {Checker}
      BY DEF Invocations
    <2>2. CASE Launch(i)
      BY <2>1, <2>2 DEF Launch, GoTo, LocalTypes, Places
    <2>3. CASE AddRead(i) /\ ip[i] \in record
      BY <2>1, <2>3, RegisteredTypes DEF AddRead
    <2>4. CASE AddRead(i) /\ ip[i] \notin record
      BY <2>1, <2>4 DEF AddRead, At, GoTo, LocalTypes, Places
    <2>5. CASE AddWrite(i)
      <3>1. ip[i] \in Proxies /\ ips[i] \subseteq Proxies
        BY <2>1, <2>5 DEF LocalTypes, AddWrite, At
      <3>2. QED
        BY <2>1, <2>5, <3>1, RegisteredTypes DEF AddWrite, Overwrites
    <2>6. QED
      BY <1>4, <2>2, <2>3, <2>4, <2>5 DEF Register
  <1>5. CASE IdleCheck
    <2>1. LocalTypes'
      BY <1>5, <1>c DEF IdleCheck, GoTo, localVars, LocalTypes, CheckerPlaces
    <2>2. QED
      BY <1>5, <2>1 DEF IdleCheck, localVars
  <1>6. CASE WriteStreak
    <2>1. zero_streak' \in 0..(idle_threshold - 1)
      BY <1>6 DEF WriteStreak
    <2>2. LocalTypes'
      BY <1>6, <1>c, DoneTypes DEF WriteStreak
    <2>3. QED
      BY <1>6, <2>1, <2>2 DEF WriteStreak
  <1>7. CASE CountStreak
    <2>1. CASE zero_streak + 1 >= idle_threshold
      <3>1. LocalTypes'
        BY <1>7, <1>c, <2>1 DEF CountStreak, GoTo, LocalTypes, CheckerPlaces
      <3>2. QED
        BY <1>7, <2>1, <3>1 DEF CountStreak
    <2>2. CASE ~(zero_streak + 1 >= idle_threshold)
      BY <1>7, <1>c, <2>2, DoneTypes DEF CountStreak
    <2>3. QED
      BY <2>1, <2>2
  <1>8. CASE Terminate
    <2>1. LocalTypes'
      BY <1>8, <1>c DEF Terminate, GoTo, LocalTypes, CheckerPlaces, Places
    <2>2. QED
      BY <1>8, <2>1 DEF Terminate
  <1>9. CASE RemoveRead
    <2>1. CASE ip[Checker] \notin record
      BY <1>9, <2>1, DrainedTypes DEF RemoveRead, Drained
    <2>2. CASE ip[Checker] \in record
      <3>1. LocalTypes'
        BY <1>9, <1>c, <2>2 DEF RemoveRead, GoTo, LocalTypes, CheckerPlaces, Places
      <3>2. QED
        BY <1>9, <2>2, <3>1 DEF RemoveRead
    <2>3. QED
      BY <2>1, <2>2
  <1>10. CASE RemoveWrite
    <2>1. ips[Checker] \subseteq Proxies
      BY <1>c DEF LocalTypes
    <2>2. QED
      BY <1>10, <2>1, DrainedTypes DEF RemoveWrite, Drained, Overwrites
  <1>11. CASE DeleteRead
    <2>1. CASE record = {}
      BY <1>11, <1>c, <2>1, DoneTypes DEF DeleteRead, Raise, Overwrites
    <2>2. CASE record # {}
      <3>1. LocalTypes'
        BY <1>11, <1>c, <2>2 DEF DeleteRead, GoTo, LocalTypes, CheckerPlaces, Places
      <3>2. QED
        BY <1>11, <2>2, <3>1 DEF DeleteRead, Overwrites
    <2>3. QED
      BY <2>1, <2>2
  <1>12. CASE DeleteWrite
    BY <1>12, <1>c, DoneTypes, DrainedTypes DEF DeleteWrite, Raise, Drained, Overwrites
  <1>13. ASSUME NEW i \in Invocations, Die(i) PROVE TypeOK'
    <2>1. deaths' \in 0..MaxDeaths /\ torn' \in BOOLEAN /\ missed' \in BOOLEAN
      BY <1>13 DEF Die, MidUpdate, ResetIsDue
    <2>2. QED
      BY <1>13, <2>1, DoneTypes DEF Die
  <1>14. CASE Traffic
    BY <1>14 DEF Traffic, localVars, LocalTypes
  <1>15. CASE UNCHANGED vars
    BY <1>15 DEF vars, localVars, LocalTypes
  <1>16. QED
    BY <1>1, <1>2, <1>3, <1>4, <1>5, <1>6, <1>7, <1>8, <1>9, <1>10, <1>11, <1>12, <1>13, <1>14,
       <1>15 DEF Next, Scale, Check, Drain

(* The steps of visitors and scale checks leave the checker where it is.   *)
LEMMA RegisteredElsewhere ==
    ASSUME TypeOK, NEW i \in Visitors \cup Reconcilers, Registered(i)
    PROVE  /\ pc'[i] \in {"idle", "launch"}
           /\ \A j \in Invocations \ {i} : pc'[j] = pc[j] /\ ip'[j] = ip[j] /\ ips'[j] = ips[j]
  BY DEF Registered, Done, GoTo, TypeOK, LocalTypes, Invocations

(* The streak is earned as long as no reset is missing.                    *)
LEMMA NextStreak ==
    FleetInv /\ [Next]_vars /\ ~missed' => StreakIsEarned'
  <1> SUFFICES ASSUME FleetInv, [Next]_vars, ~missed' PROVE StreakIsEarned'
    OBVIOUS
  <1> USE FleetAssumption DEF fleetVars, historyVars
  <1>c. Checker \in Invocations /\ \A i \in Visitors \cup Reconcilers : i \in Invocations \ {Checker}
    BY DEF Invocations
  <1>t. TypeOK
    BY DEF FleetInv
  <1>n. zero_streak \in Nat /\ quiet \in Nat /\ zero_streak < idle_threshold /\ quiet <= idle_threshold
    BY <1>t DEF TypeOK
  <1>k. ASSUME UNCHANGED <<zero_streak, quiet>>, pc'[Checker] = pc[Checker], ~missed
        PROVE  StreakIsEarned'
    BY <1>k DEF FleetInv, StreakIsEarned, Draining, IsRemoving
  <1>1. ASSUME NEW v \in Visitors, EnsureBooting(v) PROVE StreakIsEarned'
    BY <1>1, <1>c, <1>k, <1>t DEF EnsureBooting, GoTo, TypeOK, LocalTypes
  <1>2. ASSUME NEW r \in Reconcilers, Reconcile(r) \/ DesiredTarget(r) PROVE StreakIsEarned'
    BY <1>2, <1>c, <1>k, <1>t DEF Reconcile, DesiredTarget, Done, GoTo, TypeOK, LocalTypes
  <1>3. ASSUME NEW i \in Visitors \cup Reconcilers, Register(i) PROVE StreakIsEarned'
    <2>1. UNCHANGED <<zero_streak, quiet>> /\ ~missed
      <3>1. CASE Launch(i)
        BY <3>1 DEF Launch
      <3>2. CASE AddRead(i)
        BY <3>2 DEF AddRead
      <3>3. CASE AddWrite(i)
        BY <3>3 DEF AddWrite
      <3>4. QED
        BY <1>3, <3>1, <3>2, <3>3 DEF Register
    <2>2. pc'[Checker] = pc[Checker]
      BY <1>3, <1>c, <1>t, RegisteredElsewhere
         DEF Register, Launch, AddRead, AddWrite, GoTo, TypeOK, LocalTypes
    <2>3. QED
      BY <2>1, <2>2, <1>k
  <1>4. CASE IdleCheck
    <2>1. /\ zero_streak' = zero_streak
          /\ quiet' = IF active THEN 0 ELSE IF quiet < idle_threshold THEN quiet + 1 ELSE quiet
          /\ pc'[Checker] = IF active THEN "reset" ELSE "count"
      BY <1>4, <1>c, <1>t DEF IdleCheck, GoTo, TypeOK, LocalTypes
    <2>2. zero_streak <= quiet
      BY <1>4 DEF IdleCheck, At, FleetInv, StreakIsEarned
    <2>3. QED
      BY <2>1, <2>2, <1>n DEF StreakIsEarned, Draining, IsRemoving
  <1>5. CASE WriteStreak
    BY <1>5, <1>c, <1>n, <1>t DEF WriteStreak, Done, GoTo, FleetInv, TypeOK, LocalTypes, StreakIsEarned, Draining, IsRemoving
  <1>6. CASE CountStreak
    BY <1>6, <1>c, <1>n, <1>t DEF CountStreak, At, Done, GoTo, FleetInv, TypeOK, LocalTypes, StreakIsEarned, Draining, IsRemoving
  <1>7. CASE Drain
    <2>1. UNCHANGED <<zero_streak, quiet>> /\ ~missed /\ Draining
      <3>1. CASE Terminate
        BY <3>1 DEF Terminate, At, Draining, IsRemoving
      <3>2. CASE RemoveRead
        BY <3>2 DEF RemoveRead, At, Draining, IsRemoving
      <3>3. CASE RemoveWrite
        BY <3>3 DEF RemoveWrite, At, Draining, IsRemoving
      <3>4. CASE DeleteRead
        BY <3>4 DEF DeleteRead, At, Draining, IsRemoving
      <3>5. CASE DeleteWrite
        BY <3>5 DEF DeleteWrite, At, Draining, IsRemoving
      <3>6. QED
        BY <1>7, <3>1, <3>2, <3>3, <3>4, <3>5 DEF Drain
    <2>2. quiet = idle_threshold
      BY <2>1 DEF FleetInv, StreakIsEarned
    <2>3. pc'[Checker] # "count"
      <3>1. CASE Terminate \/ RemoveWrite
        BY <3>1, <1>c, <1>t DEF Terminate, RemoveWrite, Drained, GoTo, TypeOK, LocalTypes
      <3>2. CASE RemoveRead
        BY <3>2, <1>c, <1>t DEF RemoveRead, Drained, GoTo, TypeOK, LocalTypes
      <3>3. CASE DeleteRead \/ DeleteWrite
        BY <3>3, <1>c, <1>t DEF DeleteRead, DeleteWrite, Drained, Raise, Done, GoTo, TypeOK, LocalTypes
      <3>4. QED
        BY <1>7, <3>1, <3>2, <3>3 DEF Drain
    <2>4. QED
      BY <2>1, <2>2, <2>3, <1>n DEF StreakIsEarned, Draining, IsRemoving
  <1>8. ASSUME NEW i \in Invocations, Die(i) PROVE StreakIsEarned'
    <2>1. UNCHANGED <<zero_streak, quiet>> /\ ~missed /\ ~ResetIsDue(i)
      BY <1>8 DEF Die
    <2>2. CASE i = Checker
      <3>1. pc'[Checker] = "idle"
        BY <1>8, <2>2, <1>c, <1>t DEF Die, Done, GoTo, TypeOK, LocalTypes
      <3>2. pc[Checker] # "idle" /\ (pc[Checker] = "reset" => quiet # 0)
        BY <1>8, <2>1, <2>2, <1>c, <1>t DEF Die, ResetIsDue, At, TypeOK, LocalTypes, CheckerPlaces
      <3>3. zero_streak <= quiet
        <4>1. StreakIsEarned
          BY <2>1 DEF FleetInv
        <4>2. pc[Checker] \in CheckerPlaces \ {"idle"}
          BY <3>2, <1>c, <1>t DEF TypeOK, LocalTypes
        <4>3. QED
          BY <3>2, <4>1, <4>2, <1>n DEF StreakIsEarned, Draining, IsRemoving, CheckerPlaces
      <3>4. QED
        BY <2>1, <3>1, <3>3 DEF StreakIsEarned, Draining, IsRemoving
    <2>3. CASE i # Checker
      BY <1>8, <2>1, <2>3, <1>c, <1>k, <1>t DEF Die, Done, GoTo, TypeOK, LocalTypes
    <2>4. QED
      BY <2>2, <2>3
  <1>9. CASE Traffic \/ UNCHANGED vars
    BY <1>9, <1>k DEF Traffic, vars
  <1>10. QED
    BY <1>1, <1>2, <1>3, <1>4, <1>5, <1>6, <1>7, <1>8, <1>9 DEF Next, Scale, Check

-----------------------------------------------------------------------------
(* The record, the running proxies and who is at work on the difference.   *)

Apart == AddersAreApart /\ DrainIsListed /\ RecordIsTheFleet

(* Steps that touch neither the fleet nor a registration or a removal.     *)
LEMMA ElsewhereApart ==
    ASSUME FleetInv, ~torn, UNCHANGED <<running, record>>,
           \A i \in Adders : IsAdding(i) \/ IsAdding(i)' =>
               pc'[i] = pc[i] /\ ip'[i] = ip[i] /\ ips'[i] = ips[i],
           IsRemoving \/ IsRemoving' =>
               /\ pc'[Checker] = pc[Checker] /\ ip'[Checker] = ip[Checker]
               /\ ips'[Checker] = ips[Checker] /\ todo' = todo,
           todo' \subseteq record
    PROVE  Apart'
  <1>1. \A p : Removing(p)' <=> Removing(p)
    BY DEF Removing, IsRemoving
  <1>2. \A p : Adding(p)' <=> Adding(p)
    BY DEF Adding, IsAdding, Adders
  <1>3. running \subseteq Proxies /\ record \subseteq Proxies
    BY DEF FleetInv, TypeOK
  <1>4. \A i \in Adders : IsAdding(i) => ip[i] \in Proxies
    BY DEF FleetInv, TypeOK, LocalTypes, IsAdding, Adders, Invocations
  <1>5. AddersAreApart'
    BY <1>1, <1>4 DEF FleetInv, AddersAreApart, IsAdding, Adders
  <1>6. DrainIsListed'
    <2>1. \A p : Removing(p)' => p \in todo' /\ (p \in running' => Adding(p)')
      BY <1>1, <1>2 DEF FleetInv, DrainIsListed, Removing, IsRemoving
    <2>2. QED
      BY <2>1 DEF FleetInv, DrainIsListed, IsRemoving, Removing
  <1>7. RecordIsTheFleet'
    BY <1>1, <1>2, <1>3 DEF FleetInv, RecordIsTheFleet
  <1>8. QED
    BY <1>5, <1>6, <1>7 DEF Apart

(* add_proxy_ip is called for an address no other invocation is adding:    *)
(* EC2 gives a new proxy one that is free.                                 *)
LEMMA LaunchApart ==
    ASSUME FleetInv, ~torn, NEW i \in Adders, Launch(i)
    PROVE  Apart'
  <1> USE FleetAssumption DEF Adders
  <1>1. PICK p \in Proxies \ running :
            /\ running' = running \cup {p}
            /\ ip' = [ip EXCEPT ![i] = p]
    BY DEF Launch
  <1>2. /\ UNCHANGED <<record, ips, todo, torn>>
        /\ pc[i] = "launch" /\ pc' = [pc EXCEPT ![i] = "add"]
    BY DEF Launch, At, GoTo, historyVars
  <1>3. /\ i \in Invocations /\ Checker \in Invocations /\ i # Checker
        /\ pc \in [Invocations -> Places \cup CheckerPlaces]
        /\ ip \in [Invocations -> Proxies \cup {None}]
    BY DEF Invocations, FleetInv, TypeOK, LocalTypes
  <1>4. /\ pc'[i] = "add" /\ ip'[i] = p
        /\ \A j \in Invocations \ {i} : pc'[j] = pc[j] /\ ip'[j] = ip[j]
    BY <1>1, <1>2, <1>3
  <1>5. \A q : Removing(q)' <=> Removing(q)
    BY <1>3, <1>4 DEF Removing, IsRemoving
  <1>6. \A q : Adding(q)' <=> Adding(q) \/ q = p
    BY <1>2, <1>3, <1>4 DEF Adding, IsAdding, Adders, Invocations
  <1>7. p \in record => Removing(p)
    BY <1>1 DEF FleetInv, RecordIsTheFleet
  <1>8. AddersAreApart'
    <2>1. \A j \in Adders : IsAdding(j)' /\ j # i => IsAdding(j) /\ ip'[j] = ip[j] /\ pc'[j] = pc[j] /\ ip[j] \in running
      BY <1>3, <1>4 DEF IsAdding, FleetInv, AddersAreApart, Invocations
    <2>2. QED
      BY <1>1, <1>2, <1>4, <1>5, <1>7, <2>1 DEF FleetInv, AddersAreApart, IsAdding
  <1>9. DrainIsListed'
    <2>1. \A q : Removing(q)' => q \in todo' /\ (q \in running' => Adding(q)')
      BY <1>1, <1>2, <1>5, <1>6 DEF FleetInv, DrainIsListed, IsRemoving, Removing
    <2>2. pc'[Checker] = pc[Checker] /\ ip'[Checker] = ip[Checker]
      BY <1>3, <1>4
    <2>3. QED
      BY <1>2, <2>1, <2>2 DEF FleetInv, DrainIsListed, IsRemoving, Removing
  <1>10. RecordIsTheFleet'
    BY <1>1, <1>2, <1>5, <1>6 DEF FleetInv, RecordIsTheFleet
  <1>11. QED
    BY <1>8, <1>9, <1>10 DEF Apart

(* add_proxy_ip reads the record and does not find the address.            *)
LEMMA AddReadApart ==
    ASSUME FleetInv, ~torn, ~torn', NEW i \in Adders, AddRead(i)
    PROVE  Apart'
  <1> USE FleetAssumption DEF Adders
  <1>1. /\ UNCHANGED <<running, record, ip, todo>>
        /\ ip[i] \notin record
        /\ ips' = [ips EXCEPT ![i] = record]
        /\ pc[i] = "add" /\ pc' = [pc EXCEPT ![i] = "addWrite"]
    BY DEF AddRead, At, GoTo, fleetVars
  <1>2. /\ i \in Invocations /\ Checker \in Invocations /\ i # Checker
        /\ pc \in [Invocations -> Places \cup CheckerPlaces]
        /\ ips \in [Invocations -> SUBSET Proxies]
    BY DEF Invocations, FleetInv, TypeOK, LocalTypes
  <1>3. /\ pc'[i] = "addWrite" /\ ips'[i] = record
        /\ \A j \in Invocations \ {i} : pc'[j] = pc[j] /\ ips'[j] = ips[j]
    BY <1>1, <1>2
  <1>4. \A q : Removing(q)' <=> Removing(q)
    BY <1>1, <1>2, <1>3 DEF Removing, IsRemoving
  <1>5. \A q : Adding(q)' <=> Adding(q)
    BY <1>1, <1>2, <1>3 DEF Adding, IsAdding, Adders, Invocations
  <1>6. AddersAreApart'
    BY <1>1, <1>2, <1>3, <1>4 DEF FleetInv, AddersAreApart, Invocations, IsAdding
  <1>7. DrainIsListed'
    BY <1>1, <1>2, <1>3, <1>4, <1>5 DEF FleetInv, DrainIsListed, IsRemoving, Removing
  <1>8. RecordIsTheFleet'
    BY <1>1, <1>4, <1>5 DEF FleetInv, RecordIsTheFleet
  <1>9. QED
    BY <1>6, <1>7, <1>8 DEF Apart

(* The upsert over the very record that was read adds the one proxy.       *)
LEMMA AddWriteApart ==
    ASSUME FleetInv, ~torn, ~torn', NEW i \in Adders, AddWrite(i)
    PROVE  Apart'
  <1> USE FleetAssumption DEF Adders
  <1>1. /\ UNCHANGED <<running, todo>>
        /\ record' = record \cup {ip[i]}
        /\ pc[i] = "addWrite" /\ ips[i] = record
    BY DEF AddWrite, At, Overwrites
  <1>2. /\ i \in Invocations /\ Checker \in Invocations /\ i # Checker
        /\ ip[i] \in Proxies
    BY <1>1 DEF Invocations, FleetInv, TypeOK, LocalTypes
  <1>3. /\ pc'[i] \in {"idle", "launch"}
        /\ \A j \in Invocations \ {i} : pc'[j] = pc[j] /\ ip'[j] = ip[j] /\ ips'[j] = ips[j]
    BY RegisteredElsewhere DEF AddWrite, FleetInv
  <1>4. \A q : Removing(q)' <=> Removing(q)
    BY <1>2, <1>3 DEF Removing, IsRemoving
  <1>5. /\ ip[i] \in running /\ ip[i] \notin record
        /\ \A j \in Adders : IsAdding(j) /\ ip[j] = ip[i] => j = i
    BY <1>1 DEF FleetInv, AddersAreApart, IsAdding
  <1>6. \A q : Adding(q) => Adding(q)' \/ q = ip[i]
    BY <1>2, <1>3 DEF Adding, IsAdding, Adders, Invocations
  <1>7. AddersAreApart'
    <2>1. \A j \in Adders : IsAdding(j)' =>
              j # i /\ IsAdding(j) /\ pc'[j] = pc[j] /\ ip'[j] = ip[j] /\ ips'[j] = ips[j]
      BY <1>3 DEF IsAdding, Invocations
    <2>2. QED
      BY <1>1, <1>4, <1>5, <2>1 DEF FleetInv, AddersAreApart, IsAdding
  <1>8. DrainIsListed'
    <2>1. ASSUME NEW q, Removing(q)
          PROVE  q \in todo /\ (q \in running => Adding(q)')
      <3>1. q \in todo /\ q \in record /\ (q \in running => Adding(q))
        BY <2>1 DEF FleetInv, DrainIsListed, IsRemoving, Removing
      <3>2. QED
        BY <1>5, <1>6, <3>1
    <2>2. pc'[Checker] = pc[Checker] /\ ip'[Checker] = ip[Checker] /\ ips'[Checker] = ips[Checker]
      BY <1>2, <1>3
    <2>3. QED
      BY <1>1, <1>4, <2>1, <2>2 DEF FleetInv, DrainIsListed, IsRemoving, Removing
  <1>9. RecordIsTheFleet'
    BY <1>1, <1>4, <1>5, <1>6 DEF FleetInv, RecordIsTheFleet
  <1>10. QED
    BY <1>7, <1>8, <1>9 DEF Apart

(* The checker terminates a proxy nobody is registering.                   *)
LEMMA TerminateApart ==
    ASSUME FleetInv, ~torn, Terminate
    PROVE  Apart'
  <1> USE FleetAssumption DEF Adders
  <1>1. PICK p \in todo : running' = running \ {p} /\ ip' = [ip EXCEPT ![Checker] = p]
    BY DEF Terminate
  <1>2. /\ UNCHANGED <<record, ips, todo>>
        /\ pc[Checker] = "drain" /\ pc' = [pc EXCEPT ![Checker] = "remove"]
    BY DEF Terminate, At, GoTo
  <1>3. /\ Checker \in Invocations
        /\ pc \in [Invocations -> Places \cup CheckerPlaces]
        /\ ip \in [Invocations -> Proxies \cup {None}]
        /\ p \in Proxies
    BY DEF Invocations, FleetInv, TypeOK, LocalTypes
  <1>4. /\ pc'[Checker] = "remove" /\ ip'[Checker] = p
        /\ \A j \in Invocations \ {Checker} : pc'[j] = pc[j] /\ ip'[j] = ip[j]
    BY <1>1, <1>2, <1>3
  <1>5. /\ \A q : ~Removing(q)
        /\ \A q : Removing(q)' <=> q = p
    BY <1>2, <1>4 DEF Removing, IsRemoving
  <1>6. \A q : Adding(q)' <=> Adding(q)
    BY <1>4 DEF Adding, IsAdding, Adders, Invocations
  <1>7. p \in record
    BY DEF FleetInv, DrainIsListed
  <1>8. \A j \in Adders : IsAdding(j) => ip[j] \in running /\ ip[j] \notin record
    BY <1>5 DEF FleetInv, AddersAreApart, IsAdding
  <1>9. AddersAreApart'
    <2>1. \A j \in Adders : pc'[j] = pc[j] /\ ip'[j] = ip[j] /\ ips'[j] = ips[j]
      BY <1>2, <1>4 DEF Invocations
    <2>2. QED
      BY <1>1, <1>2, <1>7, <1>8, <2>1 DEF FleetInv, AddersAreApart, IsAdding
  <1>10. DrainIsListed'
    BY <1>1, <1>2, <1>4, <1>5 DEF FleetInv, DrainIsListed
  <1>11. RecordIsTheFleet'
    BY <1>1, <1>2, <1>5, <1>6, <1>7 DEF FleetInv, RecordIsTheFleet
  <1>12. QED
    BY <1>9, <1>10, <1>11 DEF Apart

(* remove_proxy_ip and delete_record read the record and find the address. *)
LEMMA RemoveReadApart ==
    ASSUME FleetInv, ~torn, ~torn', RemoveRead \/ DeleteRead
    PROVE  Apart'
  <1> USE FleetAssumption DEF Adders
  <1>1. /\ Checker \in Invocations
        /\ pc \in [Invocations -> Places \cup CheckerPlaces]
        /\ ips \in [Invocations -> SUBSET Proxies]
        /\ ip[Checker] \in Proxies \cup {None}
    BY DEF Invocations, FleetInv, TypeOK, LocalTypes
  <1>2. Removing(ip[Checker])
    BY DEF RemoveRead, DeleteRead, At, Removing, IsRemoving
  <1>3. ip[Checker] \in record
    <2>1. CASE RemoveRead
      BY <1>2, <2>1 DEF FleetInv, DrainIsListed, IsRemoving, Removing
    <2>2. CASE DeleteRead
      BY <2>2 DEF DeleteRead, At, Overwrites, FleetInv, DrainIsListed
    <2>3. QED
      BY <2>1, <2>2
  <1>4. /\ UNCHANGED <<running, record, ip, todo>>
        /\ ips' = [ips EXCEPT ![Checker] = record]
        /\ \E there \in {"removeWrite", "deleteRead", "deleteWrite"} :
              /\ pc' = [pc EXCEPT ![Checker] = there]
              /\ there # "removeWrite" => record = {ip[Checker]}
    <2>1. CASE RemoveRead
      BY <1>3, <2>1 DEF RemoveRead, GoTo, fleetVars
    <2>2. CASE DeleteRead
      <3>1. record = ips[Checker] /\ ips[Checker] = {ip[Checker]}
        BY <2>2 DEF DeleteRead, At, Overwrites, FleetInv, DrainIsListed
      <3>2. QED
        BY <1>3, <2>2, <3>1 DEF DeleteRead, GoTo, fleetVars
    <2>3. QED
      BY <2>1, <2>2
  <1>5. /\ pc'[Checker] \in {"removeWrite", "deleteRead", "deleteWrite"}
        /\ pc'[Checker] # "removeWrite" => record = {ip[Checker]}
        /\ ips'[Checker] = record
        /\ \A j \in Invocations \ {Checker} : pc'[j] = pc[j] /\ ips'[j] = ips[j]
    BY <1>1, <1>4
  <1>6. \A q : Removing(q)' <=> Removing(q)
    BY <1>2, <1>4, <1>5 DEF Removing, IsRemoving
  <1>7. \A q : Adding(q)' <=> Adding(q)
    BY <1>4, <1>5 DEF Adding, IsAdding, Adders, Invocations
  <1>8. AddersAreApart'
    BY <1>4, <1>5, <1>6 DEF FleetInv, AddersAreApart, Invocations, IsAdding
  <1>9. DrainIsListed'
    BY <1>4, <1>5, <1>6, <1>7 DEF FleetInv, DrainIsListed, IsRemoving, Removing
  <1>10. RecordIsTheFleet'
    BY <1>4, <1>6, <1>7 DEF FleetInv, RecordIsTheFleet
  <1>11. QED
    BY <1>8, <1>9, <1>10 DEF Apart

(* The write removes the one address that has been terminated.             *)
LEMMA RemovalApart ==
    ASSUME FleetInv, ~torn, ~torn', RemoveWrite \/ DeleteWrite
    PROVE  Apart'
  <1> USE FleetAssumption DEF Adders
  <1>1. /\ Checker \in Invocations
        /\ pc \in [Invocations -> Places \cup CheckerPlaces]
        /\ ips \in [Invocations -> SUBSET Proxies]
        /\ ip \in [Invocations -> Proxies \cup {None}]
    BY DEF Invocations, FleetInv, TypeOK, LocalTypes
  <1>2. Removing(ip[Checker]) /\ running' = running
    BY DEF RemoveWrite, DeleteWrite, At, Removing, IsRemoving
  <1>3. Drained /\ record' = record \ {ip[Checker]}
    <2>1. CASE RemoveWrite
      BY <2>1 DEF RemoveWrite, Overwrites
    <2>2. CASE DeleteWrite
      BY <2>2 DEF DeleteWrite, At, Overwrites, FleetInv, DrainIsListed
    <2>3. QED
      BY <2>1, <2>2
  <1>4. /\ pc'[Checker] \in {"reset", "drain"}
        /\ todo' = todo \ {ip[Checker]}
        /\ \A j \in Invocations \ {Checker} : pc'[j] = pc[j] /\ ip'[j] = ip[j] /\ ips'[j] = ips[j]
    BY <1>1, <1>3 DEF Drained, GoTo
  <1>5. /\ \A q : ~Removing(q)'
        /\ \A q : Removing(q) => q = ip[Checker]
    BY <1>4 DEF Removing, IsRemoving
  <1>6. \A q : Adding(q)' <=> Adding(q)
    BY <1>4 DEF Adding, IsAdding, Adders, Invocations
  <1>7. AddersAreApart'
    <2>1. \A j \in Adders : pc'[j] = pc[j] /\ ip'[j] = ip[j] /\ ips'[j] = ips[j]
      BY <1>4 DEF Invocations
    <2>2. \A j \in Adders : IsAdding(j) => ip[j] \notin record'
      BY <1>3, <1>5 DEF FleetInv, AddersAreApart, IsAdding
    <2>3. QED
      BY <1>2, <2>1, <2>2 DEF FleetInv, AddersAreApart, IsAdding
  <1>8. DrainIsListed'
    BY <1>3, <1>4, <1>5 DEF FleetInv, DrainIsListed, IsRemoving, Removing
  <1>9. RecordIsTheFleet'
    <2>1. ip[Checker] \in running => Adding(ip[Checker])
      BY <1>1, <1>2 DEF FleetInv, DrainIsListed, TypeOK, IsRemoving, Removing
    <2>2. QED
      BY <1>2, <1>3, <1>5, <1>6, <2>1 DEF FleetInv, RecordIsTheFleet
  <1>10. QED
    BY <1>7, <1>8, <1>9 DEF Apart

(* A lost update stays lost.                                               *)
LEMMA TornForGood ==
    ASSUME [Next]_vars, torn PROVE torn'
  <1>1. CASE Drain
    BY <1>1 DEF Drain, Terminate, RemoveRead, RemoveWrite, DeleteRead, DeleteWrite, historyVars
  <1>2. ASSUME NEW i \in Adders, Register(i) PROVE torn'
    BY <1>2 DEF Register, Launch, AddRead, AddWrite, historyVars
  <1>3. QED
    BY <1>1, <1>2 DEF Next, Scale, Check, EnsureBooting, Reconcile, DesiredTarget, IdleCheck, WriteStreak,
          CountStreak, Die, Traffic, vars, historyVars, Adders

(* Until an update is lost, the invocations that add an address add        *)
(* different ones.                                                         *)
LEMMA NextApart ==
    ASSUME FleetInv, [Next]_vars, ~torn'
    PROVE  Apart'
  <1> USE FleetAssumption
  <1>t. ~torn
    BY TornForGood
  <1>c. /\ Checker \in Invocations
        /\ \A i \in Adders : i \in Invocations \ {Checker}
        /\ pc \in [Invocations -> Places \cup CheckerPlaces]
        /\ ip \in [Invocations -> Proxies \cup {None}]
        /\ ips \in [Invocations -> SUBSET Proxies]
        /\ todo \subseteq record
    BY <1>t DEF Invocations, FleetInv, TypeOK, LocalTypes, DrainIsListed, Adders
  <1>1. ASSUME NEW v \in Visitors, EnsureBooting(v) PROVE Apart'
    BY <1>1, <1>t, <1>c, ElsewhereApart
       DEF EnsureBooting, At, GoTo, fleetVars, IsAdding, IsRemoving, Adders
  <1>2. ASSUME NEW r \in Reconcilers, Reconcile(r) PROVE Apart'
    BY <1>2, <1>t, <1>c, ElsewhereApart
       DEF Reconcile, At, GoTo, fleetVars, IsAdding, IsRemoving, Adders
  <1>3. ASSUME NEW r \in Reconcilers, DesiredTarget(r) PROVE Apart'
    <2>1. pc[r] = "target" /\ pc'[r] \in {"idle", "launch"}
      BY <1>3, <1>c DEF DesiredTarget, At, Done, GoTo, Adders
    <2>2. \A j \in Invocations \ {r} : pc'[j] = pc[j] /\ ip'[j] = ip[j] /\ ips'[j] = ips[j]
      BY <1>3, <1>c DEF DesiredTarget, Done, GoTo
    <2>3. UNCHANGED <<running, record, todo>>
      BY <1>3 DEF DesiredTarget, fleetVars
    <2>4. QED
      BY <2>1, <2>2, <2>3, <1>t, <1>c, ElsewhereApart DEF IsAdding, IsRemoving, Adders
  <1>4. ASSUME NEW i \in Adders, Register(i) PROVE Apart'
    BY <1>4, <1>t, LaunchApart, AddReadApart, AddWriteApart DEF Register
  <1>5. CASE IdleCheck \/ WriteStreak \/ CountStreak
    <2>1. /\ pc[Checker] \in {"idle", "reset", "count"}
          /\ pc'[Checker] \in {"idle", "reset", "count", "drain"}
      BY <1>5, <1>c DEF IdleCheck, WriteStreak, CountStreak, At, Done, GoTo
    <2>2. \A j \in Invocations \ {Checker} : pc'[j] = pc[j] /\ ip'[j] = ip[j] /\ ips'[j] = ips[j]
      BY <1>5, <1>c DEF IdleCheck, WriteStreak, CountStreak, Done, GoTo, localVars
    <2>3. UNCHANGED <<running, record>> /\ todo' \in {todo, record}
      BY <1>5 DEF IdleCheck, WriteStreak, CountStreak, fleetVars, localVars
    <2>4. QED
      BY <2>1, <2>2, <2>3, <1>t, <1>c, ElsewhereApart DEF IsAdding, IsRemoving, Adders
  <1>6. CASE Drain
    BY <1>6, <1>t, TerminateApart, RemoveReadApart, RemovalApart DEF Drain
  <1>7. ASSUME NEW i \in Invocations, Die(i) PROVE Apart'
    <2>1. pc'[i] = "idle" /\ pc[i] \notin {"add", "addWrite"} /\ ~(i = Checker /\ IsRemoving)
      BY <1>7, <1>c DEF Die, MidUpdate, Done, GoTo, IsRemoving
    <2>2. \A j \in Invocations \ {i} : pc'[j] = pc[j] /\ ip'[j] = ip[j] /\ ips'[j] = ips[j]
      BY <1>7, <1>c DEF Die, Done, GoTo
    <2>3. UNCHANGED <<running, record>> /\ todo' = IF i = Checker THEN {} ELSE todo
      BY <1>7 DEF Die, fleetVars
    <2>4. QED
      BY <2>1, <2>2, <2>3, <1>t, <1>c, ElsewhereApart DEF IsAdding, IsRemoving, Adders
  <1>8. CASE Traffic \/ UNCHANGED vars
    BY <1>8, <1>t, <1>c, ElsewhereApart DEF Traffic, vars, fleetVars, localVars
  <1>9. QED
    BY <1>1, <1>2, <1>3, <1>4, <1>5, <1>6, <1>7, <1>8 DEF Next, Scale, Check, Adders

-----------------------------------------------------------------------------
(* The invariant holds of an empty fleet.                                  *)
LEMMA InitFleetInv == Init => FleetInv
  <1> SUFFICES ASSUME Init PROVE FleetInv
    OBVIOUS
  <1>1. TypeOK
    <2>1. 0 \in 0..target_count /\ 0 \in 0..(idle_threshold - 1) /\ 0 \in 0..idle_threshold /\ 0 \in 0..MaxDeaths
      BY FleetAssumption
    <2>2. LocalTypes
      BY <2>1 DEF Init, LocalTypes, Places, CheckerPlaces
    <2>3. QED
      BY <2>1, <2>2 DEF Init, TypeOK
  <1>2. /\ \A i \in Adders : ~IsAdding(i)
        /\ pc[Checker] = "idle" /\ zero_streak = 0 /\ quiet = 0
        /\ running = {} /\ record = {} /\ todo = {}
    BY DEF Init, IsAdding, Adders, Invocations
  <1>3. QED
    BY <1>1, <1>2 DEF FleetInv, StreakIsEarned, Draining, IsRemoving, AddersAreApart, DrainIsListed,
          RecordIsTheFleet

(* Every step keeps the invariant.                                         *)
LEMMA NextFleetInv == FleetInv /\ [Next]_vars => FleetInv'
  <1> SUFFICES ASSUME FleetInv, [Next]_vars PROVE FleetInv'
    OBVIOUS
  <1>1. TypeOK'
    BY NextTypeOK DEF FleetInv
  <1>2. ~missed' => StreakIsEarned'
    BY NextStreak
  <1>3. CASE torn'
    BY <1>1, <1>2, <1>3 DEF FleetInv, RecordIsTheFleet
  <1>4. CASE ~torn'
    BY <1>1, <1>2, <1>4, NextApart DEF FleetInv, Apart
  <1>5. QED
    BY <1>3, <1>4

(* The strengthened invariant of the fleet, its records and the            *)
(* invocations that work on them.                                          *)
THEOREM FleetInvariant == Spec => []FleetInv
  BY InitFleetInv, NextFleetInv, PTL DEF Spec

(* The types of the reconciler's state, for every set of invocations and   *)
(* proxies, and a streak that stays below its threshold.                   *)
THEOREM FleetTypeCorrect == Spec => []TypeOK
  <1>1. FleetInv => TypeOK
    BY DEF FleetInv
  <1>2. QED
    BY <1>1, FleetInvariant, PTL

(* As long as no update has been lost, every proxy that runs is listed or  *)
(* being registered, and every address listed runs or is being removed.    *)
THEOREM RecordTellsTheFleet == Spec => []RecordIsTheFleet
  <1>1. FleetInv => RecordIsTheFleet
    BY DEF FleetInv
  <1>2. QED
    BY <1>1, FleetInvariant, PTL

(* The idle check never drains a fleet before its threshold of checks in a *)
(* row without an active vault, whatever else has been lost, unless the    *)
(* last reset that was due has not been written.                           *)
THEOREM TeardownIsEarned == Spec => []TeardownEarned
  <1>1. FleetInv => TeardownEarned
    BY DEF FleetInv, StreakIsEarned, TeardownEarned
  <1>2. QED
    BY <1>1, FleetInvariant, PTL
=============================================================================
