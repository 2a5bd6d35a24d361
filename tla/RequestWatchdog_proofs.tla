---------------------- MODULE RequestWatchdog_proofs ----------------------
(***************************************************************************)
(* The watchdog for any set of requests, any maximum and any poll interval:*)
(* no stuck request stays longer than the two together, and the process is *)
(* never ended without one that has taken longer than the maximum.         *)
(***************************************************************************)
EXTENDS RequestWatchdog, TLAPS

(* A fresh process has nothing in flight and looks one interval from now.  *)
LEMMA InitIInv == Init => IInv
  BY WatchdogAssumption
     DEF Init, IInv, TypeOK, Stamps, NoRequest, MapIsExact, WakesInTime, CheckIsCurrent, Served

(* Every step keeps the types.                                             *)
LEMMA NextTypeOK == IInv /\ [Next]_vars => TypeOK'
  <1> SUFFICES ASSUME IInv, [Next]_vars PROVE TypeOK'
    OBVIOUS
  <1> USE WatchdogAssumption DEF IInv, TypeOK, Stamps
  <1>1. ASSUME NEW r \in Requests, Register(r) PROVE TypeOK'
    BY <1>1 DEF Register, watchdogVars
  <1>2. ASSUME NEW r \in Requests, Unregister(r) PROVE TypeOK'
    BY <1>2 DEF Unregister, watchdogVars
  <1>3. CASE Wake
    BY <1>3 DEF Wake, requestVars
  <1>4. CASE TakeSnapshot
    BY <1>4 DEF TakeSnapshot, requestVars
  <1>5. CASE Kill
    BY <1>5 DEF Kill, requestVars, watchdogVars
  <1>6. CASE SleepAgain
    BY <1>6 DEF SleepAgain, requestVars, NoRequest
  <1>7. CASE Restart
    BY <1>7 DEF Restart, NoRequest
  <1>8. CASE Tick
    BY <1>8 DEF Tick, requestVars, watchdogVars
  <1>9. CASE UNCHANGED vars
    BY <1>9 DEF vars, requestVars, watchdogVars
  <1>10. QED
    BY <1>1, <1>2, <1>3, <1>4, <1>5, <1>6, <1>7, <1>8, <1>9 DEF Next

(* The map follows arrivals and departures, also over a restart.           *)
LEMMA NextMapIsExact == IInv /\ [Next]_vars => MapIsExact'
  <1> SUFFICES ASSUME IInv, [Next]_vars PROVE MapIsExact'
    OBVIOUS
  <1> USE WatchdogAssumption DEF IInv, TypeOK, Stamps, MapIsExact, Served
  <1>1. ASSUME NEW r \in Requests, Register(r) PROVE MapIsExact'
    BY <1>1 DEF Register
  <1>2. ASSUME NEW r \in Requests, Unregister(r) PROVE MapIsExact'
    BY <1>2 DEF Unregister
  <1>3. CASE Wake \/ TakeSnapshot \/ Kill \/ SleepAgain
    BY <1>3 DEF Wake, TakeSnapshot, Kill, SleepAgain, requestVars
  <1>4. CASE Restart
    BY <1>4 DEF Restart, NoRequest
  <1>5. CASE Tick
    BY <1>5 DEF Tick, requestVars
  <1>6. CASE UNCHANGED vars
    BY <1>6 DEF vars, requestVars
  <1>7. QED
    BY <1>1, <1>2, <1>3, <1>4, <1>5, <1>6 DEF Next

(* A check that lets the process live has found every request being served *)
(* within its maximum.                                                     *)
LEMMA SparedIsYoung ==
    ASSUME IInv, SleepAgain, NEW r \in Requests, Served(r)
    PROVE  now <= arrived[r] + max_request_ms
  <1>1. snapshot[r] = arrived[r] \/ arrived[r] = at
    BY DEF IInv, CheckIsCurrent, SleepAgain
  <1>2. at = now /\ arrived[r] \in Nat /\ now \in Nat
    BY DEF IInv, CheckIsCurrent, SleepAgain, TypeOK, Stamps, Served
  <1>3. CASE arrived[r] = at
    BY <1>2, <1>3, WatchdogAssumption
  <1>4. CASE snapshot[r] = arrived[r]
    <2>1. snapshot[r] # None /\ ~Breach(r)
      BY <1>4 DEF SleepAgain, Served
    <2>2. QED
      BY <1>2, <1>4, <2>1, WatchdogAssumption DEF Breach
  <1>5. QED
    BY <1>1, <1>3, <1>4

(* The next look never slips.                                              *)
LEMMA NextWakesInTime == IInv /\ [Next]_vars => WakesInTime'
  <1> SUFFICES ASSUME IInv, [Next]_vars PROVE WakesInTime'
    OBVIOUS
  <1> USE WatchdogAssumption DEF WakesInTime, Served
  <1>t. now \in Nat /\ wake \in Nat /\ WakesInTime
    BY DEF IInv, TypeOK
  <1>1. ASSUME NEW r \in Requests, Register(r) PROVE WakesInTime'
    <2>1. \A q \in Requests : Served(q)' => q = r \/ (Served(q) /\ arrived'[q] = arrived[q])
      BY <1>1 DEF Register, IInv, TypeOK
    <2>2. arrived'[r] = now /\ now' = now /\ wake' = wake
      BY <1>1 DEF Register, watchdogVars, IInv, TypeOK
    <2>3. now <= wake /\ wake <= now + poll_interval_ms
      BY <1>t
    <2>4. wake <= now + max_request_ms + poll_interval_ms
      BY <1>t, <2>3
    <2>5. QED
      BY <1>t, <2>1, <2>2, <2>3, <2>4
  <1>2. ASSUME NEW r \in Requests, Unregister(r) PROVE WakesInTime'
    BY <1>t, <1>2 DEF Unregister, watchdogVars, IInv, TypeOK
  <1>3. CASE Wake \/ TakeSnapshot \/ Kill
    BY <1>t, <1>3 DEF Wake, TakeSnapshot, Kill, requestVars, watchdogVars
  <1>4. CASE SleepAgain
    <2>1. wake' = now + poll_interval_ms /\ UNCHANGED <<now, arrived, left>>
      BY <1>4 DEF SleepAgain, requestVars
    <2>2. ASSUME NEW q \in Requests, Served(q)
          PROVE  wake' <= arrived[q] + max_request_ms + poll_interval_ms
      <3>1. now <= arrived[q] + max_request_ms
        BY <1>4, <2>2, SparedIsYoung
      <3>2. arrived[q] \in Nat
        BY <2>2 DEF IInv, TypeOK, Stamps
      <3>3. QED
        BY <1>t, <2>1, <3>1, <3>2
    <2>3. QED
      BY <1>t, <2>1, <2>2
  <1>5. CASE Restart
    <2>1. \A q \in Requests : ~Served(q)'
      BY <1>5 DEF Restart, IInv, TypeOK
    <2>2. QED
      BY <1>t, <1>5, <2>1 DEF Restart
  <1>6. CASE Tick
    BY <1>t, <1>6 DEF Tick, requestVars, watchdogVars
  <1>7. CASE UNCHANGED vars
    BY <1>t, <1>7 DEF vars, requestVars, watchdogVars
  <1>8. QED
    BY <1>1, <1>2, <1>3, <1>4, <1>5, <1>6, <1>7 DEF Next

(* What a check judges stays current until it has judged.                  *)
LEMMA NextCheckIsCurrent == IInv /\ [Next]_vars => CheckIsCurrent'
  <1> SUFFICES ASSUME IInv, [Next]_vars PROVE CheckIsCurrent'
    OBVIOUS
  <1> USE WatchdogAssumption DEF IInv, TypeOK, Stamps, CheckIsCurrent, Served
  <1>1. ASSUME NEW r \in Requests, Register(r) PROVE CheckIsCurrent'
    BY <1>1 DEF Register, watchdogVars
  <1>2. ASSUME NEW r \in Requests, Unregister(r) PROVE CheckIsCurrent'
    BY <1>2 DEF Unregister, watchdogVars
  <1>3. CASE Wake
    BY <1>3 DEF Wake, requestVars
  <1>4. CASE TakeSnapshot
    BY <1>4 DEF TakeSnapshot, requestVars, MapIsExact
  <1>5. CASE Kill
    BY <1>5 DEF Kill, requestVars, watchdogVars
  <1>6. CASE SleepAgain
    BY <1>6 DEF SleepAgain, requestVars, NoRequest
  <1>7. CASE Restart
    BY <1>7 DEF Restart, NoRequest
  <1>8. CASE Tick
    BY <1>8 DEF Tick, requestVars, watchdogVars
  <1>9. CASE UNCHANGED vars
    BY <1>9 DEF vars, requestVars, watchdogVars
  <1>10. QED
    BY <1>1, <1>2, <1>3, <1>4, <1>5, <1>6, <1>7, <1>8, <1>9 DEF Next

(* The inductive invariant holds in every reachable state.                 *)
THEOREM WatchdogInvariance == Spec => []IInv
  <1>1. Init => IInv
    BY InitIInv
  <1>2. IInv /\ [Next]_vars => IInv'
    BY NextTypeOK, NextMapIsExact, NextWakesInTime, NextCheckIsCurrent DEF IInv
  <1>3. QED
    BY <1>1, <1>2, PTL DEF Spec

(* Types are correct whatever the requests, the limits and the clock.      *)
THEOREM WatchdogTypeCorrect == Spec => []TypeOK
  <1>1. IInv => TypeOK
    BY DEF IInv
  <1>2. QED
    BY <1>1, WatchdogInvariance, PTL

(* No request is served by a running process for longer than the maximum   *)
(* and one poll interval, however many there are and whenever they arrive. *)
THEOREM NoRequestStuck == Spec => []StuckRequestsEnd
  <1>1. IInv => StuckRequestsEnd
    <2> SUFFICES ASSUME IInv, NEW r \in Requests, up, Served(r)
                 PROVE  Duration(r) <= max_request_ms + poll_interval_ms
      BY DEF StuckRequestsEnd
    <2>1. now \in Nat /\ wake \in Nat /\ arrived[r] \in Nat
      BY DEF IInv, TypeOK, Stamps, Served
    <2>2. now <= wake /\ wake <= arrived[r] + max_request_ms + poll_interval_ms
      BY DEF IInv, WakesInTime
    <2>3. Duration(r) = now - arrived[r]
      BY DEF Duration, Served
    <2>4. QED
      BY <2>1, <2>2, <2>3, WatchdogAssumption
  <1>2. QED
    BY <1>1, WatchdogInvariance, PTL

(* Whenever the process is ended, some request had taken longer than the   *)
(* maximum: one that is still served, or that ended during the check.      *)
THEOREM NeverKilledIdly == Spec => KilledForCause
  <1>1. IInv /\ [Next]_vars
          => [Kill => \E r \in Requests : arrived[r] # None /\ Duration(r) > max_request_ms]_vars
    <2> SUFFICES ASSUME IInv, Kill
                 PROVE  \E r \in Requests : arrived[r] # None /\ Duration(r) > max_request_ms
      OBVIOUS
    <2>1. PICK r \in Requests : Breach(r)
      BY DEF Kill
    <2>2. /\ snapshot[r] # None
          /\ at > snapshot[r] + max_request_ms
          /\ at = now
          /\ snapshot[r] = arrived[r]
          /\ left[r] # None => left[r] >= at
      BY <2>1 DEF Breach, IInv, CheckIsCurrent, Kill
    <2>3. now \in Nat /\ arrived[r] \in Nat /\ left[r] \in Nat \cup {None}
      BY <2>2 DEF IInv, TypeOK, Stamps
    <2>4. Duration(r) > max_request_ms
      BY <2>2, <2>3, WatchdogAssumption DEF Duration
    <2>5. QED
      BY <2>2, <2>4
  <1>2. QED
    BY <1>1, WatchdogInvariance, PTL DEF Spec, KilledForCause
=============================================================================
