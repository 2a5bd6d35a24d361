---------------------- MODULE SessionRegistry_proofs ----------------------
(***************************************************************************)
(* The registry for every set of request threads, every finite set of      *)
(* session ids, every time to live: type correctness, the safety           *)
(* invariants, and that every session keeps the promise of HeldSession.    *)
(***************************************************************************)
EXTENDS SessionRegistry, FiniteSetTheorems, TLAPS

(* Queue.put: the sequence grows by one, and its new last element is the   *)
(* one put; the others stay where they are.                                *)
LEMMA AppendFacts ==
    ASSUME NEW S, NEW s \in Seq(S), NEW e \in S
    PROVE  /\ Append(s, e) \in Seq(S)
           /\ Len(Append(s, e)) = Len(s) + 1
           /\ Len(s) \in Nat
           /\ \A i \in 1..Len(s) : Append(s, e)[i] = s[i]
           /\ Append(s, e)[Len(s) + 1] = e
  OBVIOUS

(* Queue.get: the head leaves and every other element moves up by one.     *)
LEMMA TailFacts ==
    ASSUME NEW S, NEW s \in Seq(S), s # <<>>
    PROVE  /\ Tail(s) \in Seq(S)
           /\ Len(s) \in Nat \ {0}
           /\ Len(Tail(s)) = Len(s) - 1
           /\ \A i \in 1..(Len(s) - 1) : Tail(s)[i] = s[i + 1]
           /\ Head(s) = s[1]
           /\ Head(s) \in S
  OBVIOUS

(* A pill at the head of a queue is a pill in it.                          *)
LEMMA PillQueued ==
    ASSUME NEW q \in Seq(Threads \cup {Pill}), q # <<>>, Head(q) = Pill
    PROVE  Pill \in ToSet(q)
  <1>1. Len(q) \in Nat \ {0} /\ q[1] = Pill
    BY TailFacts
  <1>2. DOMAIN q = 1..Len(q)
    OBVIOUS
  <1>3. QED
    BY <1>1, <1>2 DEF ToSet

(* The places of a thread that closes a session.                           *)
InClose == {"stop", "stopSet", "stopPut", "join", "stopDone"}

(* What a statement of Worker.stop() changes: where its thread is and, by  *)
(* the set and by the put, what the other threads can tell.                *)
LEMMA StopSteps ==
    ASSUME NEW t \in Threads, Stop(t)
    PROVE  /\ pc[t] \in InClose /\ Keeps(t)
           /\ \E to \in InClose : GoTo(t, to)
           /\ StopSet(t) \/ UNCHANGED stopped
           /\ StopPut(t) \/ UNCHANGED inbox
  BY DEF Stop, StopAgain, StopCheck, StopSet, StopPut, Join, InClose

(* The records of the requests' local state have their types.              *)
LEMMA RecordTypes ==
    /\ NoScan \in Scans
    /\ {Pending, Replied, SweepError} \subseteq Outcomes
    /\ \A s \in Ids : {Answered(s), Refused(s)} \subseteq Outcomes
  BY RegistryAssumption
     DEF NoScan, Scans, Pending, Replied, SweepError, Answered, Refused, Outcomes

(* An empty dictionary with idle request threads satisfies the invariant.  *)
LEMMA InitIInv == Init => IInv
  <1> SUFFICES ASSUME Init PROVE IInv
    OBVIOUS
  <1> USE RegistryAssumption DEF Init
  <1>1. TypeOK
    <2>1. \A s \in Ids : inbox[s] \in Seq(Threads \cup {Pill})
      OBVIOUS
    <2>2. QED
      BY <2>1, RecordTypes DEF TypeOK, Requests, Places
  <1>2. \A s \in Ids, t \in Threads : ~InCall(s, t)
    BY DEF InCall, ToSet
  <1>3. /\ RequestsHaveSessions /\ PendingTillReply /\ LaunchesApart
        /\ OpenedBefore /\ ClosersHaveVictims
    BY DEF RequestsHaveSessions, PendingTillReply, LaunchesApart, OpenedBefore,
           ClosersHaveVictims, NoScan
  <1>4. WorkersAtRest /\ CallsAwaited /\ CallsAhead
    BY <1>2 DEF WorkersAtRest, CallsAwaited, CallsAhead, Once, BehindPill, ToSet
  <1>5. ListedIsUsable /\ NoOrphanBrowser /\ PoppedOnce
    BY DEF ListedIsUsable, NoOrphanBrowser, PoppedOnce, Closing
  <1>6. QED
    BY <1>1, <1>3, <1>4, <1>5 DEF IInv

-----------------------------------------------------------------------------
(* Types                                                                   *)

(* Going to a place, replying and beginning a close keep the types of the  *)
(* local state they change.                                                *)
LEMMA GoToTypes ==
    ASSUME TypeOK, NEW t \in Threads, NEW to \in Places, GoTo(t, to)
    PROVE  pc' \in [Threads -> Places]
  BY DEF TypeOK, GoTo

(* A reply keeps the types of what it resets.                              *)
LEMMA ReplyTypes ==
    ASSUME TypeOK, NEW t \in Threads, NEW w \in Outcomes, Reply(t, w)
    PROVE  /\ pc' \in [Threads -> Places]
           /\ request' \in [Threads -> Requests]
           /\ sid' \in [Threads -> Ids \cup {None}]
           /\ outcome' \in [Threads -> Outcomes]
  BY DEF TypeOK, Reply, GoTo, Places, Requests

(* Closing a session, from wherever it is called, keeps the types.         *)
LEMMA CloseStateTypes ==
    ASSUME TypeOK, NEW t \in Threads, NEW s \in Ids,
           NEW next \in {"reap", "closed", "raise", "popExpired"}, CloseState(t, s, next)
    PROVE  /\ pc' \in [Threads -> Places]
           /\ victim' \in [Threads -> Ids \cup {None}]
           /\ after' \in [Threads -> {"idle", "reap", "closed", "raise", "popExpired"}]
  BY DEF TypeOK, CloseState, GoTo, Places

(* What a thread is closing, and what its request is about.                *)
LEMMA LocalFacts ==
    ASSUME IInv, NEW t \in Threads
    PROVE  /\ pc[t] \in InClose =>
                /\ victim[t] \in Ids
                /\ after[t] \in {"reap", "closed", "raise", "popExpired"}
           /\ pc[t] \in {"launch", "act", "found", "refresh", "submit", "submitPut",
                          "await", "close"} =>
                sid[t] \in Ids
           /\ request[t] \in Requests
  <1>1. after[t] \in {"idle", "reap", "closed", "raise", "popExpired"} /\ request[t] \in Requests
    BY DEF IInv, TypeOK
  <1>2. QED
    BY <1>1 DEF IInv, ClosersHaveVictims, RequestsHaveSessions, InClose

(* Every step keeps the types.                                             *)
LEMMA NextTypeOK == IInv /\ [Next]_vars => TypeOK'
  <1> SUFFICES ASSUME IInv, [Next]_vars PROVE TypeOK'
    OBVIOUS
  <1>1. TypeOK
    BY DEF IInv
  <1>2. Cardinality(sessions) \in Nat
    <2>1. sessions \subseteq Ids
      BY <1>1 DEF TypeOK
    <2>2. QED
      BY <2>1, RegistryAssumption, FS_Subset, FS_CardinalityType
  <1> USE DEF sessionVars, requestVars, sweepVars, closeVars
  <1>0. overtaken' \subseteq Threads
    BY <1>1 DEF Next, Proceed, Work, Recorded, vars, TypeOK
  <1>3. ASSUME NEW t \in Threads, Begin(t) PROVE TypeOK'
    <2>1. pc' \in [Threads -> Places] /\ outcome' \in [Threads -> Outcomes]
      BY <1>1, <1>3, GoToTypes, RecordTypes DEF Begin, Places, TypeOK
    <2>2. PICK r \in Requests :
              /\ request' = [request EXCEPT ![t] = r]
              /\ sweeps' = [sweeps EXCEPT ![t] = IF Opens(r) \/ r = "act" THEN 2 ELSE 1]
              /\ IF r \in {"act", "close"}
                 THEN \E s \in Ids : sid' = [sid EXCEPT ![t] = s]
                 ELSE UNCHANGED sid
      BY <1>3 DEF Begin
    <2>3. sid' \in [Threads -> Ids \cup {None}]
      BY <1>1, <2>2 DEF TypeOK
    <2>4. request' \in [Threads -> Requests] /\ sweeps' \in [Threads -> 0..2]
      BY <1>1, <2>2 DEF TypeOK
    <2>5. QED
      BY <1>1, <1>0, <1>3, <2>1, <2>3, <2>4 DEF TypeOK, Begin
  <1>4. ASSUME NEW t \in Threads, Sweep(t) PROVE TypeOK'
    <2>1. CASE SweepStart(t)
      <3>1. scan' \in [Threads -> Scans]
        BY <1>1, <1>2, <2>1 DEF SweepStart, NoScan, Scans, TypeOK
      <3>2. pc' \in [Threads -> Places]
        BY <1>1, <2>1, GoToTypes DEF SweepStart, Places
      <3>3. QED
        BY <1>1, <1>0, <2>1, <3>1, <3>2 DEF SweepStart, TypeOK
    <2>2. CASE ScanRaises(t)
      BY <1>1, <1>0, <2>2, ReplyTypes, RecordTypes DEF ScanRaises, TypeOK
    <2>3. CASE ScanVisit(t)
      <3>1. PICK s \in sessions : scan' = [scan EXCEPT ![t] = Seen(t, s)]
        BY <2>3 DEF ScanVisit
      <3>2. s \in Ids /\ scan \in [Threads -> Scans] /\ scan[t] \in Scans
        BY <1>1 DEF TypeOK
      <3>3. Seen(t, s) \in Scans
        BY <3>2 DEF Scans, Seen
      <3>4. scan' \in [Threads -> Scans]
        BY <3>1, <3>2, <3>3
      <3>5. QED
        BY <1>1, <1>0, <2>3, <3>4 DEF ScanVisit, TypeOK
    <2>4. CASE ScanEnd(t)
      <3>1. scan' \in [Threads -> Scans]
        <4>1. [NoScan EXCEPT !.expired = scan[t].expired] \in Scans
          BY <1>1, RecordTypes DEF Scans, TypeOK
        <4>2. QED
          BY <1>1, <1>0, <2>4, <4>1 DEF ScanEnd, TypeOK
      <3>2. pc' \in [Threads -> Places]
        BY <1>1, <2>4, GoToTypes DEF ScanEnd, Continue, Places
      <3>3. QED
        BY <1>1, <1>0, <2>4, <3>1, <3>2 DEF ScanEnd, Continue, TypeOK
    <2>5. CASE ReapPop(t)
      <3>1. PICK s \in scan[t].expired :
                /\ scan' = [scan EXCEPT ![t].expired = @ \ {s}]
                /\ IF s \in sessions
                   THEN sessions' = sessions \ {s} /\ CloseState(t, s, "reap")
                   ELSE UNCHANGED <<sessions, pc, closeVars>>
        BY <2>5 DEF ReapPop
      <3>2. s \in Ids /\ scan' \in [Threads -> Scans]
        <4>1. scan \in [Threads -> Scans] /\ scan[t] \in Scans
          BY <1>1 DEF TypeOK
        <4>2. s \in Ids /\ [scan[t] EXCEPT !.expired = @ \ {s}] \in Scans
          BY <4>1 DEF Scans
        <4>3. scan' = [scan EXCEPT ![t] = [scan[t] EXCEPT !.expired = @ \ {s}]]
          BY <3>1
        <4>. QED BY <4>1, <4>2, <4>3
      <3>3. /\ sessions' \subseteq Ids
            /\ pc' \in [Threads -> Places]
            /\ victim' \in [Threads -> Ids \cup {None}]
            /\ after' \in [Threads -> {"idle", "reap", "closed", "raise", "popExpired"}]
        BY <1>1, <3>1, <3>2, CloseStateTypes DEF TypeOK
      <3>4. QED
        BY <1>1, <1>0, <2>5, <3>2, <3>3 DEF ReapPop, TypeOK
    <2>6. CASE SweepEnd(t)
      <3>1. scan' \in [Threads -> Scans]
        BY <1>1, <2>6, RecordTypes DEF SweepEnd, TypeOK
      <3>2. \/ \E to \in Places : Continue(t, to)
            \/ Reply(t, Replied)
        BY <2>6, LocalFacts DEF SweepEnd, Opens, Requests, Places
      <3>3. /\ pc' \in [Threads -> Places]
            /\ request' \in [Threads -> Requests]
            /\ sid' \in [Threads -> Ids \cup {None}]
            /\ outcome' \in [Threads -> Outcomes]
        BY <1>1, <3>2, GoToTypes, ReplyTypes, RecordTypes DEF Continue, TypeOK
      <3>4. QED
        BY <1>1, <1>0, <2>6, <3>1, <3>3 DEF SweepEnd, TypeOK
    <2>7. QED
      BY <1>4, <2>1, <2>2, <2>3, <2>4, <2>5, <2>6 DEF Sweep
  <1>5. ASSUME NEW t \in Threads, CloseWorker(t) PROVE TypeOK'
    <2>1. CASE Stop(t)
      <3>1. \E to \in Places : GoTo(t, to)
        BY <2>1, StopSteps DEF InClose, Places
      <3>2. victim[t] \in Ids
        BY <2>1, StopSteps, LocalFacts
      <3>3. stopped' \subseteq Ids
        BY <1>1, <2>1, <3>2, StopSteps DEF StopSet, TypeOK
      <3>4. inbox' \in [Ids -> Seq(Threads \cup {Pill})]
        <4>1. CASE UNCHANGED inbox
          BY <1>1, <1>0, <4>1 DEF TypeOK
        <4>2. CASE StopPut(t)
          <5>1. inbox' = [inbox EXCEPT ![victim[t]] = Append(@, Pill)]
            BY <4>2 DEF StopPut
          <5>2. Append(inbox[victim[t]], Pill) \in Seq(Threads \cup {Pill})
            BY <1>1, <3>2, AppendFacts DEF TypeOK
          <5>3. QED
            BY <1>1, <1>0, <3>2, <5>1, <5>2 DEF TypeOK
        <4>3. QED
          BY <2>1, <4>1, <4>2, StopSteps
      <3>5. pc' \in [Threads -> Places]
        BY <1>1, <3>1, GoToTypes
      <3>6. QED
        BY <1>1, <1>0, <2>1, <3>3, <3>4, <3>5, StopSteps DEF Keeps, TypeOK
    <2>2. CASE CloseDone(t)
      <3>1. \/ GoTo(t, "reap") /\ UNCHANGED <<requestVars, sessions>>
            \/ Reply(t, Replied) /\ sessions' \subseteq sessions
        BY <2>2, LocalFacts DEF InClose, CloseDone, Continue
      <3>2. /\ pc' \in [Threads -> Places]
            /\ request' \in [Threads -> Requests]
            /\ sid' \in [Threads -> Ids \cup {None}]
            /\ outcome' \in [Threads -> Outcomes]
            /\ sessions' \subseteq Ids
        <4>1. "reap" \in Places /\ Replied \in Outcomes
          BY RecordTypes DEF Places
        <4>2. QED
          BY <1>1, <1>0, <3>1, <4>1, GoToTypes, ReplyTypes DEF TypeOK
      <3>3. QED
        BY <1>1, <1>0, <2>2, <3>2 DEF CloseDone, TypeOK
    <2>3. QED
      BY <1>5, <2>1, <2>2 DEF CloseWorker
  <1>6. ASSUME NEW t \in Threads, Operate(t) PROVE TypeOK'
    <2>1. {Replied} \cup {Refused(s) : s \in Ids} \subseteq Outcomes
      BY RecordTypes
    <2>2. {"launch", "found", "refresh", "submit", "submitPut", "await", "sweep"} \subseteq Places
      BY DEF Places
    <2>3. CASE Open(t)
      BY <1>1, <1>0, <2>2, <2>3, GoToTypes DEF Open, TypeOK
    <2>4. CASE OpenStore(t)
      <3>1. \/ StartUrl(t)
            \/ Reply(t, Replied) /\ UNCHANGED sweeps
        BY <2>4 DEF OpenStore
      <3>2. /\ pc' \in [Threads -> Places]
            /\ request' \in [Threads -> Requests]
            /\ sid' \in [Threads -> Ids \cup {None}]
            /\ outcome' \in [Threads -> Outcomes]
            /\ sweeps' \in [Threads -> 0..2]
        <4>1. CASE StartUrl(t)
          BY <1>1, <1>0, <2>2, <4>1, GoToTypes DEF StartUrl, Requests, TypeOK
        <4>2. CASE Reply(t, Replied) /\ UNCHANGED sweeps
          BY <1>1, <1>0, <2>1, <4>2, ReplyTypes DEF TypeOK
        <4>3. QED
          BY <3>1, <4>1, <4>2
      <3>3. /\ sessions' \subseteq Ids
            /\ expires' \in [Ids -> 0..(MaxTime + TTL)]
            /\ phase' \in [Ids -> {"unborn", "opening", "open", "closed", "failed"}]
        BY <1>1, <2>4, LocalFacts, RegistryAssumption DEF OpenStore, TypeOK
      <3>4. QED
        BY <1>1, <1>0, <2>4, <3>2, <3>3 DEF OpenStore, TypeOK
    <2>5. CASE OpenFails(t)
      <3>1. phase' \in [Ids -> {"unborn", "opening", "open", "closed", "failed"}]
        BY <1>1, <2>5 DEF OpenFails, TypeOK
      <3>2. QED
        BY <1>1, <1>0, <2>5, <3>1, LocalFacts, CloseStateTypes DEF OpenFails, TypeOK
    <2>6. CASE GetFound(t) \/ GetFresh(t) \/ SubmitCheck(t)
      BY <1>1, <1>0, <2>2, <2>6, GoToTypes DEF GetFound, GetFresh, SubmitCheck, TypeOK
    <2>7. CASE GetExpired(t)
      BY <1>1, <1>0, <2>7, LocalFacts, CloseStateTypes DEF GetExpired, TypeOK
    <2>8. CASE RefreshTTL(t)
      <3>1. expires' \in [Ids -> 0..(MaxTime + TTL)]
        <4>1. now + TTL \in 0..(MaxTime + TTL)
          BY <1>1, RegistryAssumption DEF TypeOK
        <4>2. expires' = [expires EXCEPT ![sid[t]] = now + TTL]
          BY <2>8 DEF RefreshTTL
        <4>3. QED
          BY <1>1, <1>0, <4>1, <4>2 DEF TypeOK
      <3>2. QED
        BY <1>1, <1>0, <2>2, <2>8, <3>1, GoToTypes DEF RefreshTTL, TypeOK
    <2>9. CASE SubmitPut(t)
      <3>1. inbox' \in [Ids -> Seq(Threads \cup {Pill})]
        <4>1. sid[t] \in Ids /\ inbox' = [inbox EXCEPT ![sid[t]] = Append(@, t)]
          BY <2>9, LocalFacts DEF SubmitPut
        <4>2. Append(inbox[sid[t]], t) \in Seq(Threads \cup {Pill})
          BY <1>1, <4>1, AppendFacts DEF TypeOK
        <4>3. QED
          BY <1>1, <1>0, <4>1, <4>2 DEF TypeOK
      <3>2. QED
        BY <1>1, <1>0, <2>2, <2>9, <3>1, GoToTypes DEF SubmitPut, TypeOK
    <2>10. CASE SubmitRaises(t)
      BY <1>1, <1>0, <2>1, <2>10, LocalFacts, ReplyTypes DEF SubmitRaises, TypeOK
    <2>11. CASE GetMissing(t) \/ CloseMissing(t)
      BY <1>1, <1>0, <2>1, <2>11, ReplyTypes DEF GetMissing, CloseMissing, TypeOK
    <2>12. CASE ClosePop(t)
      BY <1>1, <1>0, <2>12, LocalFacts, CloseStateTypes DEF ClosePop, TypeOK
    <2>13. QED
      BY <1>6, <2>3, <2>4, <2>5, <2>6, <2>7, <2>8, <2>9, <2>10, <2>11, <2>12 DEF Operate
  <1>7. ASSUME NEW s \in Ids, Work(s) PROVE TypeOK'
    <2>1. CASE Serve(s)
      <3>1. Head(inbox[s]) \in Threads /\ Tail(inbox[s]) \in Seq(Threads \cup {Pill})
        BY <1>1, <2>1, TailFacts DEF Serve, TypeOK
      <3>2. QED
        BY <1>1, <1>0, <2>1, <3>1 DEF Serve, TypeOK
    <2>2. CASE Answer(s)
      <3>1. serving[s] \in Threads /\ Answered(s) \in Outcomes
        BY <1>1, <2>2, RecordTypes DEF Answer, TypeOK
      <3>2. serving' \in [Ids -> Threads \cup {None}]
        BY <1>1, <2>2 DEF Answer, TypeOK
      <3>3. QED
        BY <1>1, <1>0, <2>2, <3>1, <3>2, ReplyTypes DEF Answer, TypeOK
    <2>3. CASE Teardown(s)
      <3>1. Tail(inbox[s]) \in Seq(Threads \cup {Pill})
        BY <1>1, <2>3, TailFacts DEF Teardown, TypeOK
      <3>2. QED
        BY <1>1, <1>0, <2>3, <3>1 DEF Teardown, TypeOK
    <2>4. QED
      BY <1>7, <2>1, <2>2, <2>3 DEF Work
  <1>8. CASE Tick
    BY <1>1, <1>0, <1>8, RegistryAssumption DEF Tick, TypeOK
  <1>9. CASE UNCHANGED vars
    BY <1>1, <1>0, <1>9 DEF vars, TypeOK
  <1>10. QED
    BY <1>3, <1>4, <1>5, <1>6, <1>7, <1>8, <1>9 DEF Next, Proceed

-----------------------------------------------------------------------------
(* What requests know of their sessions                                    *)

(* A session that was opened, or failed to, stays so.                      *)
LEMMA PhasesStay ==
    ASSUME IInv, [Next]_vars, NEW s \in Ids
    PROVE  /\ WasOpened(s) => WasOpened(s)'
           /\ phase[s] = "failed" => phase'[s] = "failed"
  <1>1. phase \in [Ids -> {"unborn", "opening", "open", "closed", "failed"}]
    BY DEF IInv, TypeOK
  <1>2. ASSUME UNCHANGED phase
        PROVE  /\ WasOpened(s) => WasOpened(s)'
               /\ phase[s] = "failed" => phase'[s] = "failed"
    BY <1>2 DEF WasOpened
  <1>3. ASSUME NEW t \in Threads, Begin(t) \/ Sweep(t) \/ CloseWorker(t) PROVE UNCHANGED phase
    BY <1>3, StopSteps
       DEF Begin, Sweep, SweepStart, ScanRaises, ScanVisit, ScanEnd, ReapPop, SweepEnd,
           CloseWorker, Keeps, CloseDone, sessionVars
  <1>4. ASSUME NEW t \in Threads, Operate(t)
        PROVE  /\ WasOpened(s) => WasOpened(s)'
               /\ phase[s] = "failed" => phase'[s] = "failed"
    <2>1. CASE Open(t)
      BY <1>1, <2>1 DEF Open, WasOpened
    <2>2. CASE OpenStore(t) \/ OpenFails(t)
      BY <1>1, <2>2 DEF OpenStore, OpenFails, WasOpened, IInv, RequestsHaveSessions
    <2>3. CASE ~(Open(t) \/ OpenStore(t) \/ OpenFails(t))
      BY <1>2, <1>4, <2>3
         DEF Operate, GetMissing, GetFound, GetExpired, GetFresh, RefreshTTL, SubmitRaises,
             SubmitCheck, SubmitPut, CloseMissing, ClosePop, sessionVars
    <2>4. QED
      BY <2>1, <2>2, <2>3
  <1>5. ASSUME NEW r \in Ids, Work(r)
        PROVE  /\ WasOpened(s) => WasOpened(s)'
               /\ phase[s] = "failed" => phase'[s] = "failed"
    BY <1>1, <1>5 DEF Work, Serve, Answer, Teardown, WasOpened
  <1>6. CASE Tick \/ UNCHANGED vars
    BY <1>2, <1>6 DEF Tick, vars, sessionVars
  <1>7. QED
    BY <1>2, <1>3, <1>4, <1>5, <1>6 DEF Next, Proceed

(* A request keeps the session it is about, and an open the one it drew.   *)
LEMMA NextRequests == IInv /\ [Next]_vars => RequestsHaveSessions' /\ LaunchesApart'
  <1> SUFFICES ASSUME IInv, [Next]_vars PROVE RequestsHaveSessions' /\ LaunchesApart'
    OBVIOUS
  <1>1. RequestsHaveSessions /\ LaunchesApart /\ TypeOK
    BY DEF IInv
  <1>2. \A s \in Ids : WasOpened(s) => WasOpened(s)'
    BY PhasesStay
  <1> USE DEF RequestsHaveSessions, LaunchesApart, GoTo, Reply, Continue, CloseState,
              Opens, sessionVars, requestVars
  <1>3. /\ pc \in [Threads -> Places]
        /\ request \in [Threads -> Requests]
        /\ sid \in [Threads -> Ids \cup {None}]
        /\ phase \in [Ids -> {"unborn", "opening", "open", "closed", "failed"}]
    BY <1>1 DEF TypeOK
  <1>4. ASSUME UNCHANGED <<request, sid, phase>>,
               \A u \in Threads : \/ pc'[u] = pc[u]
                                  \/ pc'[u] = "open" /\ Opens(request[u])
                                  \/ pc'[u] \notin {"open", "launch", "act", "found",
                                                    "refresh", "submit", "submitPut",
                                                    "await", "close"}
                                  \/ request[u] = "act" /\ pc'[u] \notin {"open", "launch", "close"}
                                  \/ request[u] = "close" /\ pc'[u] = "close"
        PROVE  RequestsHaveSessions' /\ LaunchesApart'
    <2>1. \A u \in Threads : pc'[u] = "launch" => pc[u] = "launch"
      BY <1>4
    <2>2. LaunchesApart'
      BY <1>1, <1>4, <2>1
    <2>3. ASSUME NEW u \in Threads
          PROVE  /\ pc'[u] = "launch" => sid[u] \in Ids /\ phase[sid[u]] = "opening"
                 /\ pc'[u] \in {"open", "launch"} => Opens(request[u])
                 /\ pc'[u] \in {"act", "found", "refresh", "submit", "submitPut", "await"} =>
                       request[u] = "act"
                 /\ pc'[u] = "close" => request[u] = "close"
      BY <1>1, <1>4, <2>1
    <2>4. QED
      BY <1>1, <1>4, <2>2, <2>3 DEF WasOpened
  <1>5. ASSUME NEW t \in Threads, NEW w, Reply(t, w), UNCHANGED phase
        PROVE  RequestsHaveSessions' /\ LaunchesApart'
    BY <1>1, <1>3, <1>5 DEF WasOpened
  <1>6. ASSUME NEW t \in Threads, Begin(t)
        PROVE  RequestsHaveSessions' /\ LaunchesApart'
    BY <1>1, <1>3, <1>6 DEF Begin, WasOpened, Requests
  <1>7. ASSUME NEW t \in Threads, Sweep(t)
        PROVE  RequestsHaveSessions' /\ LaunchesApart'
    <2>1. CASE SweepStart(t) \/ ScanVisit(t) \/ ScanEnd(t)
      BY <1>1, <1>3, <1>4, <2>1 DEF SweepStart, ScanVisit, ScanEnd
    <2>2. CASE ScanRaises(t)
      BY <1>5, <2>2 DEF ScanRaises
    <2>3. CASE ReapPop(t)
      <3>1. UNCHANGED <<request, sid, phase>> /\ (UNCHANGED pc \/ GoTo(t, "stop"))
        BY <2>3 DEF ReapPop, closeVars
      <3>2. QED
        BY <1>3, <1>4, <3>1
    <2>4. CASE SweepEnd(t)
      <3>1. \/ Reply(t, Replied)
            \/ GoTo(t, "sweep") /\ UNCHANGED requestVars
            \/ Opens(request[t]) /\ GoTo(t, "open") /\ UNCHANGED requestVars
            \/ request[t] \in {"act", "close"} /\ GoTo(t, request[t]) /\ UNCHANGED requestVars
        BY <1>3, <2>4 DEF SweepEnd, Requests
      <3>2. QED
        BY <1>3, <1>4, <1>5, <2>4, <3>1 DEF SweepEnd
    <2>5. QED
      BY <1>7, <2>1, <2>2, <2>3, <2>4 DEF Sweep
  <1>8. ASSUME NEW t \in Threads, CloseWorker(t)
        PROVE  RequestsHaveSessions' /\ LaunchesApart'
    <2>1. CASE Stop(t)
      BY <1>3, <1>4, <2>1, StopSteps DEF Keeps, InClose
    <2>2. CASE CloseDone(t)
      <3>1. \/ GoTo(t, "reap") /\ UNCHANGED requestVars
            \/ Reply(t, Replied)
        BY <2>2, LocalFacts DEF InClose, CloseDone
      <3>2. QED
        BY <1>3, <1>4, <1>5, <2>2, <3>1 DEF CloseDone
    <2>3. QED
      BY <1>8, <2>1, <2>2 DEF CloseWorker
  <1>9. ASSUME NEW t \in Threads, Operate(t)
        PROVE  RequestsHaveSessions' /\ LaunchesApart'
    <2>1. CASE Open(t)
      BY <1>1, <1>2, <1>3, <2>1 DEF Open, WasOpened
    <2>2. CASE OpenStore(t)
      BY <1>1, <1>2, <1>3, <2>2 DEF OpenStore, StartUrl, WasOpened
    <2>3. CASE OpenFails(t)
      BY <1>1, <1>2, <1>3, <2>3 DEF OpenFails, WasOpened
    <2>4. CASE GetFound(t) \/ GetExpired(t) \/ GetFresh(t) \/ RefreshTTL(t) \/ SubmitCheck(t) \/ SubmitPut(t)
      BY <1>1, <1>3, <1>4, <2>4 DEF GetFound, GetExpired, GetFresh, RefreshTTL, SubmitCheck, SubmitPut
    <2>5. CASE GetMissing(t) \/ SubmitRaises(t) \/ CloseMissing(t)
      BY <1>5, <2>5 DEF GetMissing, SubmitRaises, CloseMissing
    <2>6. CASE ClosePop(t)
      BY <1>3, <1>4, <2>6 DEF ClosePop
    <2>7. QED
      BY <1>9, <2>1, <2>2, <2>3, <2>4, <2>5, <2>6 DEF Operate
  <1>10. ASSUME NEW s \in Ids, Work(s)
         PROVE  RequestsHaveSessions' /\ LaunchesApart'
    <2>1. CASE Serve(s)
      BY <1>4, <2>1 DEF Serve
    <2>2. CASE Answer(s)
      <3>1. serving[s] \in Threads
        BY <1>1, <2>2 DEF Answer, TypeOK
      <3>2. QED
        BY <1>5, <2>2, <3>1 DEF Answer
    <2>3. CASE Teardown(s)
      BY <1>1, <1>2, <1>3, <2>3 DEF Teardown, WasOpened
    <2>4. QED
      BY <1>10, <2>1, <2>2, <2>3 DEF Work
  <1>11. CASE Tick \/ UNCHANGED vars
    BY <1>4, <1>11 DEF Tick, vars
  <1>12. QED
    BY <1>6, <1>7, <1>8, <1>9, <1>10, <1>11 DEF Next, Proceed

(* What a sweep has seen or found was listed.                              *)
LEMMA NextScan ==
    ASSUME IInv, [Next]_vars, NEW t \in Threads
    PROVE  scan'[t].visited \cup scan'[t].expired \subseteq
               scan[t].visited \cup scan[t].expired \cup sessions
  <1>1. scan \in [Threads -> Scans]
    BY DEF IInv, TypeOK
  <1>2. CASE UNCHANGED scan
    BY <1>2
  <1>3. ASSUME NEW u \in Threads, Sweep(u)
        PROVE  scan'[t].visited \cup scan'[t].expired \subseteq
                   scan[t].visited \cup scan[t].expired \cup sessions
    <2>1. CASE ScanVisit(u)
      <3>1. PICK s \in sessions : scan' = [scan EXCEPT ![u] = Seen(u, s)]
        BY <2>1 DEF ScanVisit
      <3>2. Seen(u, s).visited \cup Seen(u, s).expired \subseteq
                scan[u].visited \cup scan[u].expired \cup sessions
        <4>1. scan[u] \in Scans
          BY <1>1
        <4>2. QED
          BY <3>1, <4>1 DEF Seen, Scans
      <3>3. QED
        BY <1>1, <3>1, <3>2
    <2>2. CASE ReapPop(u)
      <3>1. PICK s \in scan[u].expired : scan' = [scan EXCEPT ![u].expired = @ \ {s}]
        BY <2>2 DEF ReapPop
      <3>2. QED
        BY <1>1, <3>1 DEF Scans
    <2>3. CASE SweepStart(u)
      BY <1>1, <2>3 DEF SweepStart, NoScan, Scans
    <2>4. CASE ScanEnd(u)
      BY <1>1, <2>4 DEF ScanEnd, NoScan, Scans
    <2>5. CASE ScanRaises(u) \/ SweepEnd(u)
      BY <1>1, <2>5 DEF ScanRaises, SweepEnd, NoScan, Scans
    <2>6. QED
      BY <1>3, <2>1, <2>2, <2>3, <2>4, <2>5 DEF Sweep
  <1>4. ASSUME NEW u \in Threads, Begin(u) \/ CloseWorker(u) \/ Operate(u)
        PROVE  UNCHANGED scan
    BY <1>4, StopSteps
       DEF Begin, CloseWorker, Keeps, CloseDone, Operate, Open, OpenStore, OpenFails,
                GetMissing, GetFound, GetExpired, GetFresh, RefreshTTL, SubmitRaises, SubmitCheck, SubmitPut,
                CloseMissing, ClosePop, sweepVars
  <1>5. (\E s \in Ids : Work(s)) \/ Tick \/ UNCHANGED vars => UNCHANGED scan
    BY DEF Work, Serve, Answer, Teardown, Tick, vars, sweepVars
  <1>6. QED
    BY <1>2, <1>3, <1>4, <1>5 DEF Next, Proceed

(* Only an open that has launched lists a session, and only who closes one *)
(* stops it.                                                               *)
LEMMA ListedOrStopped ==
    ASSUME IInv, [Next]_vars
    PROVE  /\ \A s \in sessions' : \/ s \in sessions
                                   \/ phase[s] = "opening" /\ phase'[s] = "open"
           /\ stopped \subseteq stopped'
           /\ \A s \in stopped' : s \in stopped \/ \E t \in Threads : StopSet(t) /\ s = victim[t]
  <1>1. CASE UNCHANGED <<sessions, stopped>>
    BY <1>1
  <1>2. ASSUME NEW t \in Threads, Begin(t) \/ (Sweep(t) /\ ~ReapPop(t))
        PROVE  UNCHANGED <<sessions, stopped>>
    BY <1>2 DEF Begin, Sweep, SweepStart, ScanRaises, ScanVisit, ScanEnd, SweepEnd, sessionVars
  <1>3. ASSUME NEW t \in Threads, CloseWorker(t)
        PROVE  /\ sessions' \subseteq sessions
               /\ UNCHANGED stopped \/ (StopSet(t) /\ stopped' = stopped \cup {victim[t]})
    <2>1. CASE Stop(t)
      BY <2>1, StopSteps DEF Keeps, StopSet
    <2>2. CASE CloseDone(t)
      BY <2>2, LocalFacts DEF InClose, CloseDone
    <2>3. QED
      BY <1>3, <2>1, <2>2 DEF CloseWorker
  <1>4. ASSUME NEW t \in Threads, ReapPop(t) \/ ClosePop(t)
        PROVE  sessions' \subseteq sessions /\ UNCHANGED stopped
    BY <1>4 DEF ReapPop, ClosePop
  <1>5. ASSUME NEW t \in Threads, OpenStore(t)
        PROVE  /\ sessions' = sessions \cup {sid[t]}
               /\ phase[sid[t]] = "opening" /\ phase'[sid[t]] = "open"
               /\ UNCHANGED stopped
    <2>1. sid[t] \in Ids /\ phase \in [Ids -> {"unborn", "opening", "open", "closed", "failed"}]
      BY <1>5, LocalFacts DEF OpenStore, IInv, TypeOK
    <2>2. phase[sid[t]] = "opening"
      BY <1>5 DEF OpenStore, IInv, RequestsHaveSessions
    <2>3. QED
      BY <1>5, <2>1, <2>2 DEF OpenStore
  <1>6. ASSUME NEW t \in Threads, Operate(t), ~OpenStore(t), ~ClosePop(t)
        PROVE  UNCHANGED <<sessions, stopped>>
    BY <1>6 DEF Operate, Open, OpenFails, GetMissing, GetFound, GetExpired, GetFresh, RefreshTTL,
                SubmitRaises, SubmitCheck, SubmitPut, CloseMissing, sessionVars
  <1>7. (\E s \in Ids : Work(s)) \/ Tick \/ UNCHANGED vars => UNCHANGED <<sessions, stopped>>
    BY DEF Work, Serve, Answer, Teardown, Tick, vars, sessionVars
  <1>8. QED
    BY <1>1, <1>2, <1>3, <1>4, <1>5, <1>6, <1>7 DEF Next, Proceed

(* What is listed, found or stopped has been opened.                       *)
LEMMA NextOpenedBefore == IInv /\ [Next]_vars => OpenedBefore'
  <1> SUFFICES ASSUME IInv, [Next]_vars PROVE OpenedBefore'
    OBVIOUS
  <1>1. TypeOK /\ TypeOK' /\ OpenedBefore
    BY NextTypeOK DEF IInv
  <1>2. sessions \subseteq Ids /\ stopped \subseteq Ids /\ sessions' \subseteq Ids
    BY <1>1 DEF TypeOK
  <1>3. \A s \in sessions' : WasOpened(s)'
    <2> SUFFICES ASSUME NEW s \in sessions' PROVE WasOpened(s)'
      OBVIOUS
    <2>1. s \in sessions \/ phase'[s] = "open"
      BY ListedOrStopped
    <2>2. QED
      BY <1>1, <1>2, <2>1, PhasesStay DEF OpenedBefore, WasOpened
  <1>4. ASSUME NEW t \in Threads, NEW s \in scan'[t].visited \cup scan'[t].expired
        PROVE  WasOpened(s)'
    <2>1. s \in scan[t].visited \cup scan[t].expired \cup sessions
      BY <1>4, NextScan
    <2>2. s \in Ids
      BY <1>1, <2>1 DEF TypeOK, Scans
    <2>3. QED
      BY <1>1, <2>1, <2>2, PhasesStay DEF OpenedBefore
  <1>5. ASSUME NEW s \in stopped' PROVE WasOpened(s)' \/ phase'[s] = "failed"
    <2>1. CASE s \in stopped
      BY <1>1, <1>2, <2>1, PhasesStay DEF OpenedBefore
    <2>2. CASE \E t \in Threads : StopSet(t) /\ s = victim[t]
      <3>1. s \in Ids /\ (WasOpened(s) \/ phase[s] = "failed")
        BY <2>2 DEF StopSet, IInv, ClosersHaveVictims
      <3>2. QED
        BY <3>1, PhasesStay
    <2>3. QED
      BY <1>5, <2>1, <2>2, ListedOrStopped
  <1>6. QED
    BY <1>3, <1>4, <1>5 DEF OpenedBefore

-----------------------------------------------------------------------------
(* Queues                                                                  *)

(* What is queued after a put: one more entry, and each call once if a     *)
(* call that is put was not in the queue.                                  *)
LEMMA PutQueued ==
    ASSUME NEW q \in Seq(Threads \cup {Pill}), NEW e \in Threads \cup {Pill},
           e = Pill \/ e \notin ToSet(q), Once(q)
    PROVE  /\ ToSet(Append(q, e)) = ToSet(q) \cup {e}
           /\ Once(Append(q, e))
  <1>1. /\ Append(q, e) \in Seq(Threads \cup {Pill})
        /\ Len(q) \in Nat /\ Len(Append(q, e)) = Len(q) + 1
        /\ \A i \in 1..Len(q) : Append(q, e)[i] = q[i]
        /\ Append(q, e)[Len(q) + 1] = e
    BY AppendFacts
  <1>2. DOMAIN q = 1..Len(q) /\ DOMAIN Append(q, e) = 1..(Len(q) + 1)
    BY <1>1
  <1>3. QED
    BY <1>1, <1>2 DEF ToSet, Once

(* A get takes the head out of the queue, and a call altogether.           *)
LEMMA GetDequeues ==
    ASSUME NEW q \in Seq(Threads \cup {Pill}), q # <<>>, Once(q)
    PROVE  /\ Head(q) \in Threads \cup {Pill}
           /\ ToSet(q) = ToSet(Tail(q)) \cup {Head(q)}
           /\ Head(q) # Pill => Head(q) \notin ToSet(Tail(q))
           /\ Once(Tail(q))
  <1>1. /\ Len(q) \in Nat \ {0} /\ Tail(q) \in Seq(Threads \cup {Pill})
        /\ Len(Tail(q)) = Len(q) - 1
        /\ \A i \in 1..(Len(q) - 1) : Tail(q)[i] = q[i + 1]
        /\ Head(q) = q[1] /\ Head(q) \in Threads \cup {Pill}
    BY TailFacts
  <1>2. DOMAIN q = 1..Len(q) /\ DOMAIN Tail(q) = 1..(Len(q) - 1)
    BY <1>1
  <1>3. ASSUME NEW x \in ToSet(q), x # Head(q) PROVE x \in ToSet(Tail(q))
    <2>1. PICK i \in 1..Len(q) : q[i] = x
      BY <1>2, <1>3 DEF ToSet
    <2>2. i - 1 \in 1..(Len(q) - 1) /\ Tail(q)[i - 1] = x
      BY <1>1, <1>3, <2>1
    <2>3. QED
      BY <1>2, <2>2 DEF ToSet
  <1>4. ASSUME NEW x \in ToSet(Tail(q)) PROVE x \in ToSet(q) /\ (x # Pill => x # Head(q))
    <2>1. PICK i \in 1..(Len(q) - 1) : Tail(q)[i] = x
      BY <1>2, <1>4 DEF ToSet
    <2>2. i + 1 \in 1..Len(q) /\ q[i + 1] = x /\ i + 1 # 1
      BY <1>1, <2>1
    <2>3. QED
      BY <1>1, <1>2, <2>2 DEF ToSet, Once
  <1>5. Head(q) \in ToSet(q)
    BY <1>1, <1>2 DEF ToSet
  <1>6. Once(Tail(q))
    BY <1>1, <1>2 DEF Once
  <1>7. QED
    BY <1>1, <1>3, <1>4, <1>5, <1>6

(* The calls behind a pill after a put: the one put is one of them if a    *)
(* pill was there before it.                                               *)
LEMMA PutBehind ==
    ASSUME NEW q \in Seq(Threads \cup {Pill}), NEW e \in Threads \cup {Pill}, NEW C, NEW D,
           BehindPill(q, C), \A x \in ToSet(q) : x \in C <=> x \in D,
           e # Pill => (e \in D <=> Pill \in ToSet(q))
    PROVE  BehindPill(Append(q, e), D)
  <1>1. /\ Len(q) \in Nat /\ Len(Append(q, e)) = Len(q) + 1
        /\ \A i \in 1..Len(q) : Append(q, e)[i] = q[i]
        /\ Append(q, e)[Len(q) + 1] = e
    BY AppendFacts
  <1>2. DOMAIN q = 1..Len(q) /\ DOMAIN Append(q, e) = 1..(Len(q) + 1)
    BY <1>1, AppendFacts
  <1> SUFFICES ASSUME NEW j \in 1..(Len(q) + 1), Append(q, e)[j] # Pill
               PROVE  Append(q, e)[j] \in D <=>
                          \E i \in 1..(Len(q) + 1) : i < j /\ Append(q, e)[i] = Pill
    BY <1>2 DEF BehindPill
  <1>3. CASE j \in 1..Len(q)
    <2>1. q[j] \in ToSet(q) /\ Append(q, e)[j] = q[j]
      BY <1>1, <1>2, <1>3 DEF ToSet
    <2>2. q[j] \in C <=> \E i \in 1..Len(q) : i < j /\ q[i] = Pill
      BY <1>2, <1>3, <2>1 DEF BehindPill
    <2>3. (\E i \in 1..Len(q) : i < j /\ q[i] = Pill) <=>
              \E i \in 1..(Len(q) + 1) : i < j /\ Append(q, e)[i] = Pill
      BY <1>1, <1>3
    <2>4. QED
      BY <2>1, <2>2, <2>3
  <1>4. CASE j = Len(q) + 1
    <2>1. Pill \in ToSet(q) <=> \E i \in 1..Len(q) : q[i] = Pill
      BY <1>2 DEF ToSet
    <2>2. (\E i \in 1..Len(q) : q[i] = Pill) <=>
              \E i \in 1..(Len(q) + 1) : i < j /\ Append(q, e)[i] = Pill
      BY <1>1, <1>4
    <2>3. QED
      BY <1>1, <1>4, <2>1, <2>2
  <1>5. QED
    BY <1>1, <1>3, <1>4

(* A call at the head is behind no pill, and the others stay as they were. *)
LEMMA GetBehind ==
    ASSUME NEW q \in Seq(Threads \cup {Pill}), q # <<>>, Head(q) # Pill,
           NEW C, BehindPill(q, C)
    PROVE  Head(q) \notin C /\ BehindPill(Tail(q), C)
  <1>1. /\ Len(q) \in Nat \ {0} /\ Tail(q) \in Seq(Threads \cup {Pill})
        /\ Len(Tail(q)) = Len(q) - 1
        /\ \A i \in 1..(Len(q) - 1) : Tail(q)[i] = q[i + 1]
        /\ Head(q) = q[1]
    BY TailFacts
  <1>2. DOMAIN q = 1..Len(q) /\ DOMAIN Tail(q) = 1..(Len(q) - 1)
    BY <1>1
  <1>3. Head(q) \notin C
    BY <1>1, <1>2 DEF BehindPill
  <1>4. ASSUME NEW j \in 1..(Len(q) - 1), Tail(q)[j] # Pill
        PROVE  Tail(q)[j] \in C <=> \E i \in 1..(Len(q) - 1) : i < j /\ Tail(q)[i] = Pill
    <2>1. j + 1 \in 1..Len(q) /\ Tail(q)[j] = q[j + 1]
      BY <1>1
    <2>2. q[j + 1] \in C <=> \E i \in 1..Len(q) : i < j + 1 /\ q[i] = Pill
      BY <1>2, <1>4, <2>1 DEF BehindPill
    <2>3. ASSUME NEW i \in 1..Len(q), i < j + 1, q[i] = Pill
          PROVE  \E k \in 1..(Len(q) - 1) : k < j /\ Tail(q)[k] = Pill
      <3>1. i # 1
        BY <1>1, <2>3
      <3>2. i - 1 \in 1..(Len(q) - 1) /\ i - 1 < j /\ Tail(q)[i - 1] = q[i]
        BY <1>1, <2>3, <3>1
      <3>3. QED
        BY <2>3, <3>2
    <2>4. ASSUME NEW k \in 1..(Len(q) - 1), k < j, Tail(q)[k] = Pill
          PROVE  \E i \in 1..Len(q) : i < j + 1 /\ q[i] = Pill
      <3>1. k + 1 \in 1..Len(q) /\ k + 1 < j + 1 /\ q[k + 1] = Pill
        BY <1>1, <2>4
      <3>2. QED
        BY <3>1
    <2>5. QED
      BY <2>1, <2>2, <2>3, <2>4
  <1>5. QED
    BY <1>2, <1>3, <1>4 DEF BehindPill

(* Behind a pill at the head is every call.                                *)
LEMMA AllBehind ==
    ASSUME NEW q \in Seq(Threads \cup {Pill}), q # <<>>, Head(q) = Pill,
           NEW C, BehindPill(q, C), NEW x \in ToSet(q), x # Pill
    PROVE  x \in C
  <1>1. Len(q) \in Nat \ {0} /\ q[1] = Pill
    BY TailFacts
  <1>2. DOMAIN q = 1..Len(q)
    OBVIOUS
  <1>3. PICK j \in 1..Len(q) : q[j] = x
    BY <1>2 DEF ToSet
  <1>4. 1 \in 1..Len(q) /\ 1 < j
    BY <1>1, <1>3
  <1>5. QED
    BY <1>1, <1>2, <1>3, <1>4 DEF BehindPill

(* A request does not move while it waits, and waits only once it has put. *)
LEMMA RequestSteps ==
    ASSUME IInv, NEW t \in Threads, Begin(t) \/ Proceed(t)
    PROVE  /\ pc[t] # "await"
           /\ \A v \in Threads \ {t} : pc'[v] = pc[v] /\ sid'[v] = sid[v]
           /\ UNCHANGED serving
           /\ SubmitPut(t) \/ pc'[t] # "await"
           /\ SubmitPut(t) \/ StopPut(t) \/ UNCHANGED inbox
           /\ \A s \in Ids : phase[s] = "open" => phase'[s] = "open"
  <1> DEFINE Goal == /\ pc[t] # "await"
                     /\ \A v \in Threads \ {t} : pc'[v] = pc[v] /\ sid'[v] = sid[v]
                     /\ UNCHANGED serving
                     /\ SubmitPut(t) \/ pc'[t] # "await"
                     /\ SubmitPut(t) \/ StopPut(t) \/ UNCHANGED inbox
                     /\ \A s \in Ids : phase[s] = "open" => phase'[s] = "open"
  <1>1. /\ pc \in [Threads -> Places]
        /\ sid \in [Threads -> Ids \cup {None}]
        /\ phase \in [Ids -> {"unborn", "opening", "open", "closed", "failed"}]
    BY DEF IInv, TypeOK
  <1> USE DEF GoTo, sessionVars
  <1>2. ASSUME NEW to, GoTo(t, to), to # "await", pc[t] # "await",
               UNCHANGED serving, StopPut(t) \/ UNCHANGED inbox,
               \/ UNCHANGED sid
               \/ \E s : sid' = [sid EXCEPT ![t] = s],
               \A s \in Ids : phase[s] = "open" => phase'[s] = "open"
        PROVE  Goal
    BY <1>1, <1>2
  <1>3. CASE Begin(t)
    <2>1. UNCHANGED sid \/ \E s : sid' = [sid EXCEPT ![t] = s]
      BY <1>3 DEF Begin
    <2>2. QED
      BY <1>2, <1>3, <2>1 DEF Begin
  <1>4. CASE Sweep(t)
    <2>1. CASE SweepStart(t) \/ ScanRaises(t) \/ ScanEnd(t)
      BY <1>2, <2>1 DEF SweepStart, ScanRaises, ScanEnd, Continue, Reply, requestVars
    <2>2. CASE ScanVisit(t)
      BY <2>2 DEF ScanVisit, requestVars
    <2>3. CASE ReapPop(t)
      <3>1. UNCHANGED pc \/ GoTo(t, "stop")
        BY <2>3 DEF ReapPop, CloseState
      <3>2. QED
        BY <1>2, <2>3, <3>1 DEF ReapPop, requestVars
    <2>4. CASE SweepEnd(t)
      <3>1. \/ Reply(t, Replied)
            \/ \E to \in {"sweep", "open", "act", "close"} : GoTo(t, to) /\ UNCHANGED sid
        BY <2>4, LocalFacts DEF SweepEnd, Requests, Opens, Continue, requestVars
      <3>2. QED
        BY <1>2, <2>4, <3>1 DEF SweepEnd, Reply
    <2>5. QED
      BY <1>4, <2>1, <2>2, <2>3, <2>4 DEF Sweep
  <1>5. CASE CloseWorker(t)
    <2>1. CASE Stop(t)
      <3>1. pc[t] \in InClose /\ Keeps(t) /\ (StopPut(t) \/ UNCHANGED inbox)
        BY <2>1, StopSteps
      <3>2. \E to \in InClose : GoTo(t, to)
        BY <2>1, StopSteps
      <3>3. QED
        BY <1>2, <3>1, <3>2 DEF Keeps, InClose, requestVars
    <2>2. CASE CloseDone(t)
      <3>1. Reply(t, Replied) \/ (GoTo(t, "reap") /\ UNCHANGED sid)
        BY <2>2, LocalFacts DEF InClose, CloseDone, Continue, requestVars
      <3>2. QED
        BY <1>2, <2>2, <3>1 DEF CloseDone, Reply
    <2>3. QED
      BY <1>5, <2>1, <2>2 DEF CloseWorker
  <1>6. CASE Operate(t)
    <2>1. pc[t] = "launch" => sid[t] \in Ids /\ phase[sid[t]] = "opening"
      BY DEF IInv, RequestsHaveSessions
    <2>2. CASE Open(t)
      <3>1. \A s \in Ids : phase[s] = "open" => phase'[s] = "open"
        BY <1>1, <2>2 DEF Open
      <3>2. \E s : sid' = [sid EXCEPT ![t] = s]
        BY <2>2 DEF Open
      <3>3. QED
        BY <1>2, <2>2, <3>1, <3>2 DEF Open
    <2>3. CASE OpenStore(t) \/ OpenFails(t)
      <3>1. \A s \in Ids : phase[s] = "open" => phase'[s] = "open"
        BY <1>1, <2>1, <2>3 DEF OpenStore, OpenFails
      <3>2. \E to \in {"idle", "sweep", "stop"} : GoTo(t, to)
        BY <2>3 DEF OpenStore, StartUrl, OpenFails, CloseState, Reply
      <3>3. UNCHANGED sid \/ \E s : sid' = [sid EXCEPT ![t] = s]
        BY <2>3 DEF OpenStore, StartUrl, OpenFails, Reply, requestVars
      <3>4. UNCHANGED <<inbox, serving>> /\ pc[t] = "launch"
        BY <2>3 DEF OpenStore, OpenFails
      <3>5. QED
        BY <1>2, <3>1, <3>2, <3>3, <3>4
    <2>4. CASE GetFound(t) \/ GetExpired(t) \/ GetFresh(t) \/ RefreshTTL(t)
               \/ SubmitCheck(t) \/ ClosePop(t)
      BY <1>2, <2>4 DEF GetFound, GetExpired, GetFresh, RefreshTTL, SubmitCheck, ClosePop,
                        CloseState, requestVars
    <2>5. CASE GetMissing(t) \/ SubmitRaises(t) \/ CloseMissing(t)
      BY <1>2, <2>5 DEF GetMissing, SubmitRaises, CloseMissing, Reply
    <2>6. CASE SubmitPut(t)
      BY <1>1, <2>6 DEF SubmitPut, requestVars
    <2>7. QED
      BY <1>6, <2>2, <2>3, <2>4, <2>5, <2>6 DEF Operate
  <1>7. QED
    BY <1>3, <1>4, <1>5, <1>6 DEF Proceed

(* The inboxes and pages of the workers, as the next five lemmas use them. *)
LEMMA CallFacts ==
    ASSUME IInv
    PROVE  /\ inbox \in [Ids -> Seq(Threads \cup {Pill})]
           /\ serving \in [Ids -> Threads \cup {None}]
           /\ Pill \notin Threads /\ None \notin Threads /\ None # Pill
           /\ \A s \in Ids : /\ inbox[s] \in Seq(Threads \cup {Pill})
                             /\ Once(inbox[s])
                             /\ serving[s] \notin ToSet(inbox[s])
                             /\ serving[s] # Pill
           /\ \A s \in Ids, u \in Threads : InCall(s, u) => pc[u] = "await" /\ sid[u] = s
  BY RegistryAssumption DEF IInv, TypeOK, CallsAwaited

(* submit() gives the session the caller's call, and nothing else.         *)
LEMMA SubmitCalls ==
    ASSUME IInv, NEW t \in Threads, SubmitPut(t)
    PROVE  /\ sid[t] \in Ids /\ WasOpened(sid[t])
           /\ \A s \in Ids : ~InCall(s, t)
           /\ \A s \in Ids, u \in Threads :
                 InCall(s, u)' <=> InCall(s, u) \/ (s = sid[t] /\ u = t)
           /\ \A s \in Ids : Once(inbox'[s]) /\ serving'[s] \notin ToSet(inbox'[s])
  <1> DEFINE h == sid[t]
  <1>1. h \in Ids /\ WasOpened(h) /\ pc[t] = "submitPut"
    BY LocalFacts DEF SubmitPut, IInv, RequestsHaveSessions
  <1>2. inbox' = [inbox EXCEPT ![h] = Append(@, t)] /\ UNCHANGED serving
    BY DEF SubmitPut
  <1>3. \A s \in Ids : ~InCall(s, t)
    BY <1>1, CallFacts
  <1> HIDE DEF h
  <1>4. inbox'[h] = Append(inbox[h], t) /\ \A s \in Ids \ {h} : inbox'[s] = inbox[s]
    BY <1>1, <1>2, CallFacts
  <1>5. t \notin ToSet(inbox[h]) /\ serving[h] # t
    BY <1>1, <1>3 DEF InCall
  <1>6. ToSet(inbox'[h]) = ToSet(inbox[h]) \cup {t} /\ Once(inbox'[h])
    BY <1>1, <1>4, <1>5, CallFacts, PutQueued
  <1>7. \A s \in Ids, u \in Threads : InCall(s, u)' <=> InCall(s, u) \/ (s = h /\ u = t)
    BY <1>1, <1>2, <1>4, <1>6 DEF InCall
  <1>8. \A s \in Ids : Once(inbox'[s]) /\ serving'[s] \notin ToSet(inbox'[s])
    BY <1>1, <1>2, <1>4, <1>5, <1>6, CallFacts
  <1>9. QED
    BY <1>1, <1>3, <1>7, <1>8 DEF h

(* A pill is nobody's call.                                                *)
LEMMA StopCalls ==
    ASSUME IInv, NEW t \in Threads, StopPut(t)
    PROVE  /\ victim[t] \in Ids
           /\ \A s \in Ids, u \in Threads : InCall(s, u)' <=> InCall(s, u)
           /\ \A s \in Ids : Once(inbox'[s]) /\ serving'[s] \notin ToSet(inbox'[s])
           /\ Pill \in ToSet(inbox'[victim[t]])
  <1> DEFINE h == victim[t]
  <1>1. h \in Ids
    BY LocalFacts DEF StopPut, InClose
  <1>2. inbox' = [inbox EXCEPT ![h] = Append(@, Pill)] /\ UNCHANGED serving
    BY DEF StopPut, Keeps
  <1> HIDE DEF h
  <1>3. inbox'[h] = Append(inbox[h], Pill) /\ \A s \in Ids \ {h} : inbox'[s] = inbox[s]
    BY <1>1, <1>2, CallFacts
  <1>4. ToSet(inbox'[h]) = ToSet(inbox[h]) \cup {Pill} /\ Once(inbox'[h])
    BY <1>1, <1>3, CallFacts, PutQueued
  <1>5. \A s \in Ids, u \in Threads : InCall(s, u)' <=> InCall(s, u)
    BY <1>1, <1>2, <1>3, <1>4, CallFacts DEF InCall
  <1>6. \A s \in Ids : Once(inbox'[s]) /\ serving'[s] \notin ToSet(inbox'[s])
    BY <1>1, <1>2, <1>3, <1>4, CallFacts
  <1>7. QED
    BY <1>1, <1>4, <1>5, <1>6 DEF h

(* A call goes from the inbox to the page, or a pill goes.                 *)
LEMMA GetCalls ==
    ASSUME IInv, NEW r \in Ids, Serve(r) \/ Teardown(r)
    PROVE  /\ inbox[r] # <<>> /\ inbox'[r] = Tail(inbox[r])
           /\ \A s \in Ids \ {r} : inbox'[s] = inbox[s] /\ serving'[s] = serving[s]
           /\ \A s \in Ids, u \in Threads : InCall(s, u)' <=> InCall(s, u)
           /\ \A s \in Ids : Once(inbox'[s]) /\ serving'[s] \notin ToSet(inbox'[s])
           /\ \A s \in Ids : Pill \in ToSet(inbox'[s]) => Pill \in ToSet(inbox[s])
           /\ Serve(r) => /\ serving'[r] = Head(inbox[r]) /\ serving'[r] \in Threads
                          /\ Pill \in ToSet(inbox[r]) => Pill \in ToSet(inbox'[r])
           /\ Teardown(r) => serving'[r] = None
  <1>1. /\ inbox[r] # <<>> /\ serving[r] = None
        /\ inbox' = [inbox EXCEPT ![r] = Tail(@)]
        /\ \/ Serve(r) /\ Head(inbox[r]) # Pill
              /\ serving' = [serving EXCEPT ![r] = Head(inbox[r])]
           \/ ~Serve(r) /\ Head(inbox[r]) = Pill /\ UNCHANGED serving
        /\ Teardown(r) => Head(inbox[r]) = Pill
    BY DEF Serve, Teardown
  <1>2. inbox'[r] = Tail(inbox[r]) /\ \A s \in Ids \ {r} : inbox'[s] = inbox[s]
    BY <1>1, CallFacts
  <1>3. \/ Serve(r) /\ Head(inbox[r]) # Pill /\ serving'[r] = Head(inbox[r])
        \/ ~Serve(r) /\ Head(inbox[r]) = Pill /\ serving'[r] = None
    BY <1>1, CallFacts
  <1>4. \A s \in Ids \ {r} : serving'[s] = serving[s]
    BY <1>1, CallFacts
  <1>5. /\ Head(inbox[r]) \in Threads \cup {Pill}
        /\ ToSet(inbox[r]) = ToSet(inbox'[r]) \cup {Head(inbox[r])}
        /\ Head(inbox[r]) # Pill => Head(inbox[r]) \notin ToSet(inbox'[r])
        /\ Once(inbox'[r])
    BY <1>1, <1>2, CallFacts, GetDequeues
  <1>6. \A s \in Ids, u \in Threads : InCall(s, u)' <=> InCall(s, u)
    <2> SUFFICES ASSUME NEW s \in Ids, NEW u \in Threads
                 PROVE  InCall(s, u)' <=> InCall(s, u)
      OBVIOUS
    <2>1. CASE s = r
      BY <1>1, <1>3, <1>5, <2>1, CallFacts DEF InCall
    <2>2. CASE s # r
      BY <1>2, <1>4, <2>2 DEF InCall
    <2>3. QED
      BY <2>1, <2>2
  <1>7. \A s \in Ids : Once(inbox'[s]) /\ serving'[s] \notin ToSet(inbox'[s])
    <2>1. serving'[r] \notin ToSet(inbox'[r])
      BY <1>1, <1>3, <1>5, CallFacts
    <2>2. QED
      BY <1>2, <1>4, <1>5, <2>1, CallFacts
  <1>8. \A s \in Ids : Pill \in ToSet(inbox'[s]) => Pill \in ToSet(inbox[s])
    BY <1>2, <1>5
  <1>9. QED
    BY <1>1, <1>2, <1>3, <1>4, <1>5, <1>6, <1>7, <1>8

(* An answer ends the call that is served.                                 *)
LEMMA AnswerCalls ==
    ASSUME IInv, NEW r \in Ids, Answer(r)
    PROVE  /\ serving[r] \in Threads /\ InCall(r, serving[r])
           /\ UNCHANGED inbox /\ serving' = [serving EXCEPT ![r] = None]
           /\ \A s \in Ids, u \in Threads : InCall(s, u)' <=> InCall(s, u) /\ u # serving[r]
           /\ \A s \in Ids : Once(inbox'[s]) /\ serving'[s] \notin ToSet(inbox'[s])
  <1> DEFINE v == serving[r]
  <1>1. /\ v \in Threads /\ v \notin ToSet(inbox[r])
        /\ UNCHANGED inbox /\ serving' = [serving EXCEPT ![r] = None]
    BY CallFacts DEF Answer
  <1>2. InCall(r, v)
    BY DEF InCall
  <1>3. \A s \in Ids : InCall(s, v) => s = r
    BY <1>1, <1>2, CallFacts
  <1>4. \A s \in Ids, u \in Threads : InCall(s, u)' <=> InCall(s, u) /\ u # v
    <2> SUFFICES ASSUME NEW s \in Ids, NEW u \in Threads
                 PROVE  InCall(s, u)' <=> InCall(s, u) /\ u # v
      OBVIOUS
    <2>1. CASE s = r
      BY <1>1, <2>1, CallFacts DEF InCall
    <2>2. CASE s # r
      BY <1>1, <1>3, <2>2 DEF InCall
    <2>3. QED
      BY <2>1, <2>2
  <1>5. None \notin ToSet(inbox[r])
    <2>1. DOMAIN inbox[r] = 1..Len(inbox[r]) /\ inbox[r] \in Seq(Threads \cup {Pill})
      BY CallFacts
    <2>2. QED
      BY <2>1, CallFacts DEF ToSet
  <1>6. \A s \in Ids : serving'[s] = IF s = r THEN None ELSE serving[s]
    BY <1>1, CallFacts
  <1>7. QED
    BY <1>1, <1>2, <1>4, <1>5, <1>6, CallFacts

-----------------------------------------------------------------------------
(* Who closes what                                                         *)

(* The places from which a thread may begin to close a session.            *)
Begins(t) ==
    /\ pc[t] \in {"reap", "launch", "found", "close"}
    /\ pc'[t] = "stop"
    /\ \A v \in Threads \ {t} : pc'[v] = pc[v]
    /\ victim'[t] \in Ids
    /\ \/ /\ after'[t] \in {"reap", "closed"}
          /\ victim'[t] \in sessions
          /\ sessions' = sessions \ {victim'[t]}
       \/ /\ after'[t] = "raise"
          /\ phase[victim'[t]] = "opening" /\ phase'[victim'[t]] = "failed"
          /\ UNCHANGED sessions
       \/ /\ after'[t] = "popExpired"
          /\ WasOpened(victim'[t])
          /\ UNCHANGED <<sessions, phase>>

(* A thread in a close has begun it in this step, or goes on with it.      *)
LEMMA ClosersMove ==
    ASSUME IInv, [Next]_vars, NEW u \in Threads, pc'[u] \in InClose
    PROVE  \/ Begins(u)
           \/ /\ pc[u] \in InClose
              /\ victim'[u] = victim[u] /\ after'[u] = after[u]
              /\ pc'[u] = pc[u] \/ Stop(u)
  <1> DEFINE Goal == \/ Begins(u)
                     \/ /\ pc[u] \in InClose
                        /\ victim'[u] = victim[u] /\ after'[u] = after[u]
                        /\ pc'[u] = pc[u] \/ Stop(u)
  <1>1. /\ pc \in [Threads -> Places]
        /\ victim \in [Threads -> Ids \cup {None}]
        /\ after \in [Threads -> {"idle", "reap", "closed", "raise", "popExpired"}]
    BY DEF IInv, TypeOK
  <1> USE DEF GoTo, Continue, InClose
  <1>2. ASSUME UNCHANGED closeVars, pc'[u] = pc[u] PROVE Goal
    BY <1>2 DEF closeVars
  <1>3. ASSUME NEW t \in Threads, NEW to, GoTo(t, to), to \notin InClose, UNCHANGED closeVars
        PROVE  Goal
    BY <1>1, <1>2, <1>3
  <1>4. ASSUME NEW t \in Threads, NEW w, Reply(t, w), UNCHANGED closeVars PROVE Goal
    BY <1>3, <1>4 DEF Reply
  <1>5. ASSUME NEW t \in Threads, NEW s \in Ids, NEW next, CloseState(t, s, next),
               pc[t] \in {"reap", "launch", "found", "close"},
               u = t => Begins(t)
        PROVE  Goal
    <2>1. /\ pc' = [pc EXCEPT ![t] = "stop"]
          /\ victim' = [victim EXCEPT ![t] = s]
          /\ after' = [after EXCEPT ![t] = next]
      BY <1>5 DEF CloseState
    <2>2. QED
      BY <1>1, <1>5, <2>1
  <1>6. ASSUME NEW t \in Threads, Begin(t) PROVE Goal
    BY <1>3, <1>6 DEF Begin
  <1>7. ASSUME NEW t \in Threads, Sweep(t) PROVE Goal
    <2>1. CASE SweepStart(t) \/ ScanEnd(t)
      BY <1>3, <2>1 DEF SweepStart, ScanEnd
    <2>2. CASE ScanRaises(t)
      BY <1>4, <2>2 DEF ScanRaises
    <2>3. CASE ScanVisit(t)
      BY <1>2, <2>3 DEF ScanVisit
    <2>4. CASE ReapPop(t)
      <3>1. PICK s \in scan[t].expired :
                IF s \in sessions
                THEN sessions' = sessions \ {s} /\ CloseState(t, s, "reap")
                ELSE UNCHANGED <<sessions, pc, closeVars>>
        BY <2>4 DEF ReapPop
      <3>2. CASE s \notin sessions
        BY <1>2, <3>1, <3>2 DEF closeVars
      <3>3. CASE s \in sessions
        <4>1. s \in Ids /\ pc[t] = "reap"
          BY <2>4, <3>3 DEF ReapPop, IInv, TypeOK
        <4>2. /\ pc' = [pc EXCEPT ![t] = "stop"]
              /\ victim' = [victim EXCEPT ![t] = s]
              /\ after' = [after EXCEPT ![t] = "reap"]
          BY <3>1, <3>3 DEF CloseState
        <4>3. Begins(t)
          BY <1>1, <3>1, <3>3, <4>1, <4>2 DEF Begins
        <4>4. QED
          BY <1>5, <3>1, <3>3, <4>1, <4>3
      <3>4. QED
        BY <3>2, <3>3
    <2>5. CASE SweepEnd(t)
      <3>1. \/ Reply(t, Replied)
            \/ \E to \in {"sweep", "open", "act", "close"} : GoTo(t, to)
        BY <2>5, LocalFacts DEF SweepEnd, Requests, Opens
      <3>2. QED
        BY <1>3, <1>4, <2>5, <3>1 DEF SweepEnd
    <2>6. QED
      BY <1>7, <2>1, <2>2, <2>3, <2>4, <2>5 DEF Sweep
  <1>8. ASSUME NEW t \in Threads, CloseWorker(t) PROVE Goal
    <2>1. CASE Stop(t)
      BY <1>1, <2>1, StopSteps DEF Keeps, closeVars
    <2>2. CASE CloseDone(t)
      <3>1. GoTo(t, "reap") \/ GoTo(t, "idle")
        BY <2>2, LocalFacts DEF CloseDone, Reply
      <3>2. QED
        BY <1>1, <2>2, <3>1 DEF CloseDone
    <2>3. QED
      BY <1>8, <2>1, <2>2 DEF CloseWorker
  <1>9. ASSUME NEW t \in Threads, Operate(t) PROVE Goal
    <2>1. CASE Open(t) \/ GetFound(t) \/ GetFresh(t) \/ RefreshTTL(t) \/ SubmitCheck(t) \/ SubmitPut(t)
      BY <1>3, <2>1 DEF Open, GetFound, GetFresh, RefreshTTL, SubmitCheck, SubmitPut
    <2>2. CASE GetMissing(t) \/ SubmitRaises(t) \/ CloseMissing(t)
      BY <1>4, <2>2 DEF GetMissing, SubmitRaises, CloseMissing
    <2>3. CASE OpenStore(t)
      BY <1>3, <1>4, <2>3 DEF OpenStore, StartUrl
    <2>4. CASE OpenFails(t) \/ GetExpired(t) \/ ClosePop(t)
      <3>1. PICK next \in {"raise", "popExpired", "closed"} : CloseState(t, sid[t], next)
        BY <2>4 DEF OpenFails, GetExpired, ClosePop
      <3>2. sid[t] \in Ids /\ pc[t] \in {"launch", "found", "close"}
        BY <2>4, LocalFacts DEF OpenFails, GetExpired, ClosePop
      <3>3. /\ pc' = [pc EXCEPT ![t] = "stop"]
            /\ victim' = [victim EXCEPT ![t] = sid[t]]
        BY <3>1 DEF CloseState
      <3>4. /\ phase \in [Ids -> {"unborn", "opening", "open", "closed", "failed"}]
            /\ pc[t] = "launch" => phase[sid[t]] = "opening"
            /\ pc[t] = "found" => WasOpened(sid[t])
        BY DEF IInv, TypeOK, RequestsHaveSessions
      <3>5. \/ /\ after' = [after EXCEPT ![t] = "closed"]
               /\ sid[t] \in sessions /\ sessions' = sessions \ {sid[t]}
            \/ /\ after' = [after EXCEPT ![t] = "raise"]
               /\ phase[sid[t]] = "opening" /\ phase' = [phase EXCEPT ![sid[t]] = "failed"]
               /\ UNCHANGED sessions
            \/ /\ after' = [after EXCEPT ![t] = "popExpired"]
               /\ WasOpened(sid[t]) /\ UNCHANGED <<sessions, phase>>
        BY <2>4, <3>4 DEF OpenFails, GetExpired, ClosePop, CloseState, sessionVars
      <3>6. Begins(t)
        BY <1>1, <3>2, <3>3, <3>4, <3>5 DEF Begins
      <3>7. QED
        BY <1>5, <3>1, <3>2, <3>6
    <2>5. QED
      BY <1>9, <2>1, <2>2, <2>3, <2>4 DEF Operate
  <1>10. ASSUME NEW s \in Ids, Work(s) PROVE Goal
    <2>1. CASE Serve(s) \/ Teardown(s)
      BY <1>2, <2>1 DEF Serve, Teardown
    <2>2. CASE Answer(s)
      <3>1. serving[s] \in Threads
        BY <2>2 DEF Answer, IInv, TypeOK
      <3>2. QED
        BY <1>4, <2>2, <3>1 DEF Answer
    <2>3. QED
      BY <1>10, <2>1, <2>2 DEF Work
  <1>11. CASE Tick \/ UNCHANGED vars
    BY <1>2, <1>11 DEF Tick, vars
  <1>12. QED
    BY <1>6, <1>7, <1>8, <1>9, <1>10, <1>11 DEF Next, Proceed

(* A thread in a close stays in it until it is done.                       *)
LEMMA ClosersStay ==
    ASSUME IInv, [Next]_vars, NEW u \in Threads, pc[u] \in InClose
    PROVE  \/ CloseDone(u)
           \/ /\ pc'[u] \in InClose
              /\ victim'[u] = victim[u] /\ after'[u] = after[u]
              /\ pc'[u] = pc[u] \/ Stop(u)
  <1> DEFINE Goal == \/ CloseDone(u)
                     \/ /\ pc'[u] \in InClose
                        /\ victim'[u] = victim[u] /\ after'[u] = after[u]
                        /\ pc'[u] = pc[u] \/ Stop(u)
  <1>1. /\ pc \in [Threads -> Places]
        /\ victim \in [Threads -> Ids \cup {None}]
        /\ after \in [Threads -> {"idle", "reap", "closed", "raise", "popExpired"}]
    BY DEF IInv, TypeOK
  <1> USE DEF GoTo, InClose
  <1>2. ASSUME pc'[u] = pc[u], victim'[u] = victim[u], after'[u] = after[u] PROVE Goal
    BY <1>2
  <1>3. ASSUME NEW t \in Threads, t # u, NEW to, pc' = [pc EXCEPT ![t] = to],
               \/ UNCHANGED closeVars
               \/ \E s, next : /\ victim' = [victim EXCEPT ![t] = s]
                               /\ after' = [after EXCEPT ![t] = next]
        PROVE  Goal
    BY <1>1, <1>2, <1>3 DEF closeVars
  <1>4. ASSUME NEW t \in Threads, Begin(t) \/ Sweep(t) \/ Operate(t) PROVE Goal
    <2>1. t # u
      BY <1>4 DEF Begin, Sweep, SweepStart, ScanRaises, ScanVisit, ScanEnd, ReapPop, SweepEnd,
                  Operate, Open, OpenStore, OpenFails, GetMissing, GetFound, GetExpired, GetFresh,
                  RefreshTTL, SubmitRaises, SubmitCheck, SubmitPut, CloseMissing, ClosePop
    <2>2. CASE Begin(t)
      BY <1>3, <2>1, <2>2 DEF Begin
    <2>3. CASE SweepStart(t) \/ ScanRaises(t) \/ ScanEnd(t)
      BY <1>3, <2>1, <2>3 DEF SweepStart, ScanRaises, ScanEnd, Reply, Continue
    <2>4. CASE ScanVisit(t)
      BY <1>2, <2>4 DEF ScanVisit, closeVars
    <2>5. CASE ReapPop(t)
      <3>1. \/ UNCHANGED <<pc, closeVars>>
            \/ \E s : CloseState(t, s, "reap")
        BY <2>5 DEF ReapPop
      <3>2. CASE UNCHANGED <<pc, closeVars>>
        BY <1>2, <3>2 DEF closeVars
      <3>3. CASE \E s : CloseState(t, s, "reap")
        BY <1>3, <2>1, <3>3 DEF CloseState
      <3>4. QED
        BY <3>1, <3>2, <3>3
    <2>6. CASE SweepEnd(t)
      <3>1. \E to : GoTo(t, to)
        BY <2>6, LocalFacts DEF SweepEnd, Requests, Opens, Continue, Reply
      <3>2. QED
        BY <1>3, <2>1, <2>6, <3>1 DEF SweepEnd
    <2>7. CASE Open(t) \/ GetFound(t) \/ GetFresh(t) \/ RefreshTTL(t) \/ SubmitCheck(t) \/ SubmitPut(t)
               \/ GetMissing(t) \/ SubmitRaises(t) \/ CloseMissing(t)
      BY <1>3, <2>1, <2>7 DEF Open, GetFound, GetFresh, RefreshTTL, SubmitCheck, SubmitPut, GetMissing,
                              SubmitRaises, CloseMissing, Reply
    <2>8. CASE OpenStore(t)
      BY <1>3, <2>1, <2>8 DEF OpenStore, StartUrl, Reply
    <2>9. CASE OpenFails(t) \/ GetExpired(t) \/ ClosePop(t)
      BY <1>3, <2>1, <2>9 DEF OpenFails, GetExpired, ClosePop, CloseState
    <2>10. QED
      BY <1>4, <2>2, <2>3, <2>4, <2>5, <2>6, <2>7, <2>8, <2>9 DEF Sweep, Operate
  <1>5. ASSUME NEW t \in Threads, CloseWorker(t) PROVE Goal
    <2>1. CASE Stop(t)
      BY <1>1, <2>1, StopSteps DEF Keeps, closeVars
    <2>2. CASE CloseDone(t) /\ t # u
      <3>1. GoTo(t, "reap") \/ GoTo(t, "idle")
        BY <2>2, LocalFacts DEF CloseDone, Reply, Continue
      <3>2. QED
        BY <1>3, <2>2, <3>1 DEF CloseDone
    <2>3. QED
      BY <1>5, <2>1, <2>2 DEF CloseWorker
  <1>6. ASSUME NEW s \in Ids, Work(s) PROVE Goal
    <2>1. CASE Serve(s) \/ Teardown(s)
      BY <1>2, <2>1 DEF Serve, Teardown, closeVars
    <2>2. CASE Answer(s)
      <3>1. serving[s] \in Threads
        BY <2>2 DEF Answer, IInv, TypeOK
      <3>2. InCall(s, serving[s])
        BY DEF InCall
      <3>3. serving[s] # u
        BY <3>1, <3>2 DEF IInv, CallsAwaited
      <3>4. QED
        BY <1>3, <2>2, <3>1, <3>3 DEF Answer, Reply
    <2>3. QED
      BY <1>6, <2>1, <2>2 DEF Work
  <1>7. CASE Tick \/ UNCHANGED vars
    BY <1>2, <1>7 DEF Tick, vars, closeVars
  <1>8. QED
    BY <1>4, <1>5, <1>6, <1>7 DEF Next, Proceed

(* A session comes out of the dictionary only to be closed, or after that. *)
LEMMA Unlisted ==
    ASSUME IInv, [Next]_vars, NEW s \in sessions, s \notin sessions'
    PROVE  \/ \E t \in Threads : pc'[t] = "stop" /\ victim'[t] = s
           \/ \E t \in Threads : CloseDone(t) /\ victim[t] = s
  <1>1. /\ pc \in [Threads -> Places]
        /\ victim \in [Threads -> Ids \cup {None}]
    BY DEF IInv, TypeOK
  <1>2. ASSUME NEW t \in Threads, ReapPop(t)
        PROVE  pc'[t] = "stop" /\ victim'[t] = s
    <2>1. PICK r \in scan[t].expired :
              IF r \in sessions
              THEN sessions' = sessions \ {r} /\ CloseState(t, r, "reap")
              ELSE UNCHANGED <<sessions, pc, closeVars>>
      BY <1>2 DEF ReapPop
    <2>2. QED
      BY <1>1, <2>1 DEF CloseState, GoTo
  <1>3. ASSUME NEW t \in Threads, ClosePop(t)
        PROVE  pc'[t] = "stop" /\ victim'[t] = s
    BY <1>1, <1>3 DEF ClosePop, CloseState, GoTo
  <1>4. ASSUME NEW t \in Threads, CloseDone(t) PROVE victim[t] = s
    BY <1>4, LocalFacts DEF InClose, CloseDone
  <1>5. ASSUME NEW t \in Threads,
               \/ Begin(t) \/ (Sweep(t) /\ ~ReapPop(t))
               \/ Stop(t)
               \/ (Operate(t) /\ ~ClosePop(t))
        PROVE  FALSE
    BY <1>5, StopSteps
       DEF Begin, Sweep, SweepStart, ScanRaises, ScanVisit, ScanEnd, SweepEnd, Keeps,
                Operate, Open, OpenStore, OpenFails, GetMissing, GetFound, GetExpired, GetFresh,
                RefreshTTL, SubmitRaises, SubmitCheck, SubmitPut, CloseMissing, sessionVars
  <1>6. ~((\E r \in Ids : Work(r)) \/ Tick \/ UNCHANGED vars)
    BY DEF Work, Serve, Answer, Teardown, Tick, vars, sessionVars
  <1>7. QED
    BY <1>2, <1>3, <1>4, <1>5, <1>6 DEF Next, Proceed, CloseWorker

(* A browser comes up only as a session is listed, and goes only stopped.  *)
LEMMA PhaseSteps ==
    ASSUME IInv, [Next]_vars, NEW s \in Ids
    PROVE  /\ phase'[s] = "open" =>
               phase[s] = "open" \/ (phase[s] = "opening" /\ s \in sessions')
           /\ phase[s] = "open" => phase'[s] = "open" \/ s \in stopped
           /\ phase'[s] = "closed" => phase[s] = "closed" \/ s \in stopped
  <1> DEFINE Goal == /\ phase'[s] = "open" =>
                         phase[s] = "open" \/ (phase[s] = "opening" /\ s \in sessions')
                     /\ phase[s] = "open" => phase'[s] = "open" \/ s \in stopped
                     /\ phase'[s] = "closed" => phase[s] = "closed" \/ s \in stopped
  <1>1. phase \in [Ids -> {"unborn", "opening", "open", "closed", "failed"}]
    BY DEF IInv, TypeOK
  <1>2. ASSUME UNCHANGED phase PROVE Goal
    BY <1>2
  <1>3. ASSUME NEW t \in Threads, Begin(t) \/ Sweep(t) \/ CloseWorker(t) PROVE UNCHANGED phase
    BY <1>3, StopSteps
       DEF Begin, Sweep, SweepStart, ScanRaises, ScanVisit, ScanEnd, ReapPop, SweepEnd,
           CloseWorker, Keeps, CloseDone, sessionVars
  <1>4. ASSUME NEW t \in Threads, Operate(t) PROVE Goal
    <2>1. pc[t] = "launch" => sid[t] \in Ids /\ phase[sid[t]] = "opening"
      BY DEF IInv, RequestsHaveSessions
    <2>2. CASE Open(t) \/ OpenStore(t) \/ OpenFails(t)
      BY <1>1, <2>1, <2>2 DEF Open, OpenStore, OpenFails
    <2>3. CASE ~(Open(t) \/ OpenStore(t) \/ OpenFails(t))
      BY <1>2, <1>4, <2>3
         DEF Operate, GetMissing, GetFound, GetExpired, GetFresh, RefreshTTL, SubmitRaises,
             SubmitCheck, SubmitPut, CloseMissing, ClosePop, sessionVars
    <2>4. QED
      BY <2>2, <2>3
  <1>5. ASSUME NEW r \in Ids, Work(r) PROVE Goal
    <2>1. CASE Serve(r) \/ Answer(r)
      BY <1>2, <2>1 DEF Serve, Answer
    <2>2. CASE Teardown(r)
      <3>1. Pill \in ToSet(inbox[r])
        BY <2>2, PillQueued DEF Teardown, IInv, TypeOK
      <3>2. r \in stopped
        BY <3>1 DEF IInv, WorkersAtRest
      <3>3. QED
        BY <1>1, <2>2, <3>2 DEF Teardown
    <2>3. QED
      BY <1>5, <2>1, <2>2 DEF Work
  <1>6. CASE Tick \/ UNCHANGED vars
    BY <1>2, <1>6 DEF Tick, vars, sessionVars
  <1>7. QED
    BY <1>2, <1>3, <1>4, <1>5, <1>6 DEF Next, Proceed

(* Who closes a session has it, and has it for good.                       *)
LEMMA NextClosers == IInv /\ [Next]_vars => ClosersHaveVictims'
  <1> SUFFICES ASSUME IInv, [Next]_vars, NEW t \in Threads, pc'[t] \in InClose
               PROVE  /\ victim'[t] \in Ids
                      /\ after'[t] # "idle"
                      /\ IF after'[t] = "raise"
                         THEN phase'[victim'[t]] = "failed"
                         ELSE phase'[victim'[t]] \in {"open", "closed"}
                      /\ after'[t] \in {"reap", "closed"} => victim'[t] \notin sessions'
                      /\ pc'[t] \notin {"stop", "stopSet"} => victim'[t] \in stopped'
    BY DEF ClosersHaveVictims, InClose, WasOpened
  <1>1. \A s \in Ids : /\ WasOpened(s) => phase'[s] \in {"open", "closed"}
                       /\ phase[s] = "failed" => phase'[s] = "failed"
    BY PhasesStay DEF WasOpened
  <1>2. CASE Begins(t)
    <2>1. ASSUME victim'[t] \in sessions PROVE WasOpened(victim'[t])
      BY <2>1 DEF IInv, OpenedBefore
    <2>2. QED
      BY <1>1, <1>2, <2>1 DEF Begins
  <1>3. CASE /\ pc[t] \in InClose
             /\ victim'[t] = victim[t] /\ after'[t] = after[t]
             /\ pc'[t] = pc[t] \/ Stop(t)
    <2>1. /\ victim[t] \in Ids
          /\ after[t] # "idle"
          /\ IF after[t] = "raise" THEN phase[victim[t]] = "failed" ELSE WasOpened(victim[t])
          /\ after[t] \in {"reap", "closed"} => victim[t] \notin sessions
          /\ pc[t] \notin {"stop", "stopSet"} => victim[t] \in stopped
      BY <1>3 DEF IInv, ClosersHaveVictims, InClose
    <2>2. after[t] \in {"reap", "closed"} => victim[t] \notin sessions'
      BY <2>1, ListedOrStopped DEF WasOpened
    <2>3. pc'[t] \notin {"stop", "stopSet"} => victim[t] \in stopped'
      <3>1. CASE pc'[t] = pc[t]
        BY <2>1, <3>1, ListedOrStopped
      <3>2. CASE Stop(t)
        <4>1. pc \in [Threads -> Places]
          BY DEF IInv, TypeOK
        <4>2. QED
          BY <2>1, <3>2, <4>1, ListedOrStopped
             DEF Stop, StopAgain, StopCheck, StopSet, StopPut, Join, GoTo
      <3>3. QED
        BY <1>3, <3>1, <3>2
    <2>4. QED
      BY <1>1, <1>3, <2>1, <2>2, <2>3
  <1>4. QED
    BY <1>2, <1>3, ClosersMove

(* A listed session stays usable.                                          *)
LEMMA NextListed == IInv /\ [Next]_vars => ListedIsUsable'
  <1> SUFFICES ASSUME IInv, [Next]_vars, NEW s \in sessions'
               PROVE  /\ phase'[s] = "open" \/ s \in stopped'
                      /\ s \in stopped' =>
                            \E t \in Threads : /\ pc'[t] \in InClose /\ victim'[t] = s
                                               /\ after'[t] = "popExpired"
    BY DEF ListedIsUsable, Closing, InClose
  <1>1. s \in Ids
    BY NextTypeOK DEF TypeOK
  <1>2. CASE s \in sessions
    <2>1. phase[s] = "open" \/ s \in stopped
      BY <1>2 DEF IInv, ListedIsUsable
    <2>2. phase'[s] = "open" \/ s \in stopped'
      BY <1>1, <2>1, PhaseSteps, ListedOrStopped
    <2>3. CASE s \in stopped
      <3>1. PICK t \in Threads : pc[t] \in InClose /\ victim[t] = s /\ after[t] = "popExpired"
        BY <1>2, <2>3 DEF IInv, ListedIsUsable, Closing, InClose
      <3>2. ~CloseDone(t)
        BY <3>1 DEF CloseDone
      <3>3. QED
        BY <2>2, <3>1, <3>2, ClosersStay
    <2>4. ASSUME NEW t \in Threads, StopSet(t), s = victim[t]
          PROVE  pc'[t] \in InClose /\ victim'[t] = s /\ after'[t] = "popExpired"
      <3>1. pc[t] \in InClose /\ ~CloseDone(t)
        BY <2>4 DEF StopSet, CloseDone, InClose
      <3>2. after[t] = "popExpired"
        <4>1. after[t] \in {"reap", "closed", "raise", "popExpired"}
          BY <3>1, LocalFacts DEF InClose
        <4>2. after[t] \notin {"reap", "closed"}
          BY <1>2, <2>4, <3>1 DEF IInv, ClosersHaveVictims, InClose
        <4>3. after[t] # "raise"
          BY <1>2, <2>4, <3>1 DEF IInv, ClosersHaveVictims, InClose, OpenedBefore, WasOpened
        <4>4. QED
          BY <4>1, <4>2, <4>3
      <3>3. QED
        BY <2>4, <3>1, <3>2, ClosersStay
    <2>5. QED
      BY <2>2, <2>3, <2>4, ListedOrStopped
  <1>3. CASE s \notin sessions
    <2>1. phase[s] = "opening" /\ phase'[s] = "open"
      BY <1>3, ListedOrStopped
    <2>2. s \notin stopped
      BY <2>1 DEF IInv, OpenedBefore, WasOpened
    <2>3. ASSUME NEW t \in Threads, StopSet(t), s = victim[t] PROVE FALSE
      BY <2>1, <2>3 DEF StopSet, IInv, ClosersHaveVictims, WasOpened
    <2>4. QED
      BY <2>1, <2>2, <2>3, ListedOrStopped
  <1>4. QED
    BY <1>2, <1>3

(* Only one request takes a session out.                                   *)
LEMMA NextPoppedOnce == IInv /\ [Next]_vars => PoppedOnce'
  <1> SUFFICES ASSUME IInv, [Next]_vars,
                      NEW t \in Threads, NEW u \in Threads, NEW s \in Ids, t # u,
                      pc'[t] \in InClose, victim'[t] = s, after'[t] \in {"closed", "reap"},
                      pc'[u] \in InClose, victim'[u] = s
               PROVE  after'[u] = "popExpired"
    BY DEF PoppedOnce, Closing, InClose
  <1>1. \A v \in Threads :
            pc[v] \in InClose =>
                /\ after[v] \in {"reap", "closed", "raise", "popExpired"}
                /\ after[v] = "raise" => phase[victim[v]] = "failed"
                /\ after[v] # "raise" => WasOpened(victim[v])
                /\ after[v] \in {"reap", "closed"} => victim[v] \notin sessions
    BY LocalFacts DEF IInv, ClosersHaveVictims, InClose
  <1>2. s \in sessions => WasOpened(s)
    BY DEF IInv, OpenedBefore
  <1>3. CASE Begins(t)
    <2>1. s \in sessions /\ pc'[u] = pc[u]
      BY <1>3 DEF Begins
    <2>2. pc[u] \in InClose /\ ~Begins(u)
      BY <2>1 DEF Begins, InClose
    <2>3. victim[u] = s /\ after'[u] = after[u]
      BY <2>2, ClosersMove
    <2>4. QED
      BY <1>1, <1>2, <2>1, <2>2, <2>3 DEF WasOpened
  <1>4. CASE ~Begins(t)
    <2>1. /\ pc[t] \in InClose /\ victim[t] = s /\ after[t] \in {"reap", "closed"}
          /\ s \notin sessions /\ WasOpened(s)
      BY <1>1, <1>4, ClosersMove
    <2>2. CASE Begins(u)
      BY <2>1, <2>2 DEF Begins, WasOpened
    <2>3. CASE ~Begins(u)
      <3>1. pc[u] \in InClose /\ victim[u] = s /\ after'[u] = after[u]
        BY <2>3, ClosersMove
      <3>2. QED
        BY <2>1, <3>1 DEF IInv, PoppedOnce, Closing, InClose
    <2>4. QED
      BY <2>2, <2>3
  <1>5. QED
    BY <1>3, <1>4

-----------------------------------------------------------------------------
(* Who waits for what                                                      *)

(* A pill stays in the inbox of a worker that is up, and a pill is put     *)
(* only for a session that is stopped.                                     *)
LEMMA PillsStay ==
    ASSUME IInv, [Next]_vars, NEW s \in Ids
    PROVE  /\ /\ Pill \in ToSet(inbox[s]) /\ phase'[s] = "open"
              => Pill \in ToSet(inbox'[s])
           /\ Pill \in ToSet(inbox'[s]) => Pill \in ToSet(inbox[s]) \/ s \in stopped
           /\ inbox[s] = <<>> /\ phase[s] \in {"unborn", "opening"} => inbox'[s] = <<>>
  <1> DEFINE Goal == /\ /\ Pill \in ToSet(inbox[s]) /\ phase'[s] = "open"
                        => Pill \in ToSet(inbox'[s])
                     /\ Pill \in ToSet(inbox'[s]) => Pill \in ToSet(inbox[s]) \/ s \in stopped
                     /\ inbox[s] = <<>> /\ phase[s] \in {"unborn", "opening"} =>
                           inbox'[s] = <<>>
  <1>1. CASE inbox'[s] = inbox[s]
    BY <1>1
  <1>2. ASSUME NEW t \in Threads, SubmitPut(t) PROVE Goal
    <2>1. /\ sid[t] \in Ids /\ WasOpened(sid[t])
          /\ inbox' = [inbox EXCEPT ![sid[t]] = Append(@, t)]
      BY <1>2, SubmitCalls DEF SubmitPut
    <2>2. CASE s = sid[t]
      <3>1. inbox'[s] = Append(inbox[s], t) /\ t \notin ToSet(inbox[s])
        BY <1>2, <2>1, <2>2, SubmitCalls, CallFacts DEF InCall
      <3>2. ToSet(inbox'[s]) = ToSet(inbox[s]) \cup {t}
        BY <3>1, CallFacts, PutQueued
      <3>3. QED
        BY <2>1, <2>2, <3>2, CallFacts DEF WasOpened
    <2>3. CASE s # sid[t]
      BY <1>1, <2>1, <2>3, CallFacts
    <2>4. QED
      BY <2>2, <2>3
  <1>3. ASSUME NEW t \in Threads, StopPut(t) PROVE Goal
    <2>1. /\ victim[t] \in Ids /\ Pill \in ToSet(inbox'[victim[t]])
          /\ inbox' = [inbox EXCEPT ![victim[t]] = Append(@, Pill)]
      BY <1>3, StopCalls DEF StopPut
    <2>2. victim[t] \in stopped /\ phase[victim[t]] \notin {"unborn", "opening"}
      BY <1>3 DEF StopPut, IInv, ClosersHaveVictims, WasOpened
    <2>3. CASE s = victim[t]
      BY <2>1, <2>2, <2>3
    <2>4. CASE s # victim[t]
      BY <1>1, <2>1, <2>4, CallFacts
    <2>5. QED
      BY <2>3, <2>4
  <1>4. ASSUME NEW r \in Ids, Work(r) PROVE Goal
    <2>1. CASE Serve(r)
      <3>1. CASE s = r
        BY <2>1, <3>1, GetCalls
      <3>2. CASE s # r
        BY <1>1, <2>1, <3>2, GetCalls
      <3>3. QED
        BY <3>1, <3>2
    <2>2. CASE Answer(r)
      BY <1>1, <2>2, AnswerCalls
    <2>3. CASE Teardown(r)
      <3>1. CASE s = r
        <4>1. phase'[s] = "closed" /\ phase[s] = "open"
          BY <2>3, <3>1 DEF Teardown, IInv, TypeOK
        <4>2. QED
          BY <2>3, <3>1, <4>1, GetCalls
      <3>2. CASE s # r
        BY <1>1, <2>3, <3>2, GetCalls
      <3>3. QED
        BY <3>1, <3>2
    <2>4. QED
      BY <1>4, <2>1, <2>2, <2>3 DEF Work
  <1>5. ASSUME NEW t \in Threads, Begin(t) \/ Proceed(t) PROVE Goal
    BY <1>1, <1>2, <1>3, <1>5, RequestSteps
  <1>6. CASE Tick \/ UNCHANGED vars
    BY <1>1, <1>6 DEF Tick, vars, sessionVars
  <1>7. QED
    BY <1>4, <1>5, <1>6 DEF Next

(* Nothing is served by a worker that is not up.                           *)
LEMMA ServingSteps ==
    ASSUME IInv, [Next]_vars, NEW s \in Ids, phase'[s] # "open"
    PROVE  serving'[s] = None
  <1>1. phase[s] # "open" => serving[s] = None
    BY DEF IInv, WorkersAtRest
  <1>2. ASSUME NEW t \in Threads, Begin(t) \/ Proceed(t) PROVE serving'[s] = None
    BY <1>1, <1>2, RequestSteps
  <1>3. ASSUME NEW r \in Ids, Work(r) PROVE serving'[s] = None
    <2>1. CASE Serve(r)
      BY <1>1, <2>1, GetCalls DEF Serve
    <2>2. CASE Answer(r)
      BY <1>1, <2>2, AnswerCalls, CallFacts DEF Answer
    <2>3. CASE Teardown(r)
      BY <1>1, <2>3, GetCalls DEF Teardown, IInv, TypeOK
    <2>4. QED
      BY <1>3, <2>1, <2>2, <2>3 DEF Work
  <1>4. CASE Tick \/ UNCHANGED vars
    BY <1>1, <1>4 DEF Tick, vars, sessionVars
  <1>5. QED
    BY <1>2, <1>3, <1>4 DEF Next

(* Workers rest as they should, and one that is stopped and still up has a *)
(* pill, or a thread that is about to put one.                             *)
LEMMA NextWorkers == IInv /\ [Next]_vars => WorkersAtRest'
  <1> SUFFICES ASSUME IInv, [Next]_vars, NEW s \in Ids
               PROVE  /\ phase'[s] \in {"unborn", "opening"} => inbox'[s] = <<>>
                      /\ phase'[s] # "open" => serving'[s] = None
                      /\ phase'[s] = "closed" => s \in stopped'
                      /\ Pill \in ToSet(inbox'[s]) => s \in stopped'
                      /\ phase'[s] = "open" /\ s \in stopped' =>
                            \/ Pill \in ToSet(inbox'[s])
                            \/ \E t \in Threads : pc'[t] = "stopPut" /\ victim'[t] = s
    BY DEF WorkersAtRest
  <1>1. phase \in [Ids -> {"unborn", "opening", "open", "closed", "failed"}]
        /\ pc \in [Threads -> Places]
    BY DEF IInv, TypeOK
  <1>2. WorkersAtRest /\ stopped \subseteq stopped'
    BY ListedOrStopped DEF IInv
  <1>3. ASSUME phase'[s] \in {"unborn", "opening"} PROVE inbox'[s] = <<>>
    <2>1. phase[s] \in {"unborn", "opening"}
      BY <1>1, <1>3, PhasesStay DEF WasOpened
    <2>2. QED
      BY <1>2, <2>1, PillsStay DEF WorkersAtRest
  <1>4. phase'[s] = "closed" => s \in stopped'
    BY <1>2, PhaseSteps DEF WorkersAtRest
  <1>5. Pill \in ToSet(inbox'[s]) => s \in stopped'
    BY <1>2, PillsStay DEF WorkersAtRest
  <1>6. ASSUME phase'[s] = "open", s \in stopped'
        PROVE  \/ Pill \in ToSet(inbox'[s])
               \/ \E t \in Threads : pc'[t] = "stopPut" /\ victim'[t] = s
    <2>1. CASE s \in stopped
      <3>1. phase[s] = "open"
        BY <1>6, <2>1, PhaseSteps DEF IInv, OpenedBefore, WasOpened
      <3>2. CASE Pill \in ToSet(inbox[s])
        BY <1>6, <3>2, PillsStay
      <3>3. ASSUME NEW t \in Threads, pc[t] = "stopPut", victim[t] = s
            PROVE  Pill \in ToSet(inbox'[s]) \/ (pc'[t] = "stopPut" /\ victim'[t] = s)
        <4>1. ~CloseDone(t)
          BY <3>3 DEF CloseDone
        <4>2. Stop(t) => StopPut(t)
          BY <3>3 DEF Stop, StopAgain, StopCheck, StopSet, Join
        <4>3. StopPut(t) => Pill \in ToSet(inbox'[s])
          BY <3>3, StopCalls
        <4>4. QED
          BY <3>3, <4>1, <4>2, <4>3, ClosersStay DEF InClose
      <3>4. QED
        BY <1>2, <2>1, <3>1, <3>2, <3>3 DEF WorkersAtRest
    <2>2. ASSUME NEW t \in Threads, StopSet(t), s = victim[t]
          PROVE  pc'[t] = "stopPut" /\ victim'[t] = s
      BY <1>1, <2>2 DEF StopSet, Keeps, GoTo, closeVars
    <2>3. QED
      BY <1>6, <2>1, <2>2, ListedOrStopped
  <1>7. QED
    BY <1>3, <1>4, <1>5, <1>6, ServingSteps

(* No browser is forgotten.                                                *)
LEMMA NextNoOrphan == IInv /\ [Next]_vars => NoOrphanBrowser'
  <1> SUFFICES ASSUME IInv, [Next]_vars, NEW s \in Ids, phase'[s] = "open", s \notin sessions'
               PROVE  \/ Pill \in ToSet(inbox'[s])
                      \/ \E t \in Threads : /\ pc'[t] \in {"stop", "stopSet", "stopPut"}
                                            /\ victim'[t] = s
    BY DEF NoOrphanBrowser, WillStop
  <1> DEFINE Goal == \/ Pill \in ToSet(inbox'[s])
                     \/ \E t \in Threads : /\ pc'[t] \in {"stop", "stopSet", "stopPut"}
                                           /\ victim'[t] = s
  <1>1. phase[s] = "open"
    BY PhaseSteps
  <1>2. CASE s \in stopped
    <2>1. s \in stopped'
      BY <1>2, ListedOrStopped
    <2>2. QED
      BY <2>1, NextWorkers DEF WorkersAtRest
  <1>3. CASE Pill \in ToSet(inbox[s])
    BY <1>3, PillsStay
  <1>4. ASSUME NEW t \in Threads, WillStop(t, s) PROVE Goal
    <2>1. pc[t] \in InClose /\ ~CloseDone(t) /\ victim[t] = s
      BY <1>4 DEF WillStop, CloseDone, InClose
    <2>2. CASE pc'[t] = pc[t]
      BY <1>4, <2>1, <2>2, ClosersStay DEF WillStop
    <2>3. CASE Stop(t)
      <3>1. StopAgain(t) => s \in stopped
        BY <2>1 DEF StopAgain
      <3>2. StopCheck(t) \/ StopSet(t) => pc'[t] \in {"stopSet", "stopPut"}
        BY DEF StopCheck, StopSet, GoTo, IInv, TypeOK
      <3>3. StopPut(t) => Pill \in ToSet(inbox'[s])
        BY <2>1, StopCalls
      <3>4. ~Join(t)
        BY <1>4 DEF WillStop, Join
      <3>5. QED
        BY <1>2, <2>1, <2>3, <3>1, <3>2, <3>3, <3>4, ClosersStay DEF Stop
    <2>4. QED
      BY <2>1, <2>2, <2>3, ClosersStay
  <1>5. CASE s \in sessions
    <2>1. ASSUME NEW t \in Threads, CloseDone(t), victim[t] = s PROVE s \in stopped
      BY <2>1 DEF CloseDone, IInv, ClosersHaveVictims
    <2>2. QED
      BY <1>2, <1>5, <2>1, Unlisted
  <1>6. QED
    BY <1>1, <1>3, <1>4, <1>5 DEF IInv, NoOrphanBrowser

(* Who steps in a step, as far as the calls can tell.                      *)
LEMMA CallMoves ==
    ASSUME IInv, [Next]_vars
    PROVE  \/ \E t \in Threads : SubmitPut(t) /\ Recorded(t)
           \/ UNCHANGED overtaken /\ \E t \in Threads : StopPut(t)
           \/ /\ UNCHANGED <<inbox, serving, overtaken>>
              /\ \A u \in Threads : \/ pc'[u] = pc[u] /\ sid'[u] = sid[u]
                                    \/ pc[u] # "await" /\ pc'[u] # "await"
              /\ \A s \in Ids : phase[s] = "open" => phase'[s] = "open"
           \/ UNCHANGED overtaken /\ \E r \in Ids : Serve(r) \/ Answer(r) \/ Teardown(r)
  <1>1. ASSUME NEW t \in Threads, Proceed(t), ~SubmitPut(t) PROVE UNCHANGED overtaken
    <2>1. pc[t] # "submitPut"
      BY <1>1, StopSteps
         DEF Proceed, Sweep, SweepStart, ScanRaises, ScanVisit, ScanEnd, ReapPop, SweepEnd,
             CloseWorker, InClose, CloseDone, Operate, Open, OpenStore, OpenFails, GetMissing,
             GetFound, GetExpired, GetFresh, RefreshTTL, SubmitRaises, SubmitCheck,
             CloseMissing, ClosePop
    <2>2. QED
      BY <1>1, <2>1 DEF Proceed, Recorded
  <1>2. ASSUME NEW t \in Threads, Begin(t) \/ Proceed(t), ~SubmitPut(t), ~StopPut(t)
        PROVE  /\ UNCHANGED <<inbox, serving>>
               /\ \A u \in Threads : \/ pc'[u] = pc[u] /\ sid'[u] = sid[u]
                                     \/ pc[u] # "await" /\ pc'[u] # "await"
               /\ \A s \in Ids : phase[s] = "open" => phase'[s] = "open"
    BY <1>2, RequestSteps
  <1>3. CASE Tick /\ UNCHANGED overtaken
    BY <1>3 DEF Tick, sessionVars, requestVars
  <1>4. CASE UNCHANGED vars
    BY <1>4 DEF vars, sessionVars, requestVars
  <1>5. CASE \E t \in Threads : Begin(t) /\ UNCHANGED overtaken
    <2>1. PICK t \in Threads : Begin(t) /\ UNCHANGED overtaken
      BY <1>5
    <2>2. ~SubmitPut(t) /\ ~StopPut(t)
      BY <2>1 DEF Begin, SubmitPut, StopPut
    <2>3. QED
      BY <1>2, <2>1, <2>2
  <1>6. CASE \E t \in Threads : Proceed(t)
    BY <1>1, <1>2, <1>6 DEF Proceed
  <1>7. CASE \E r \in Ids : Work(r)
    BY <1>7 DEF Work
  <1>8. QED
    BY <1>3, <1>4, <1>5, <1>6, <1>7 DEF Next

(* Calls wait as they should.                                              *)
LEMMA NextCalls == IInv /\ [Next]_vars => CallsAwaited'
  <1> SUFFICES ASSUME IInv, [Next]_vars PROVE CallsAwaited'
    OBVIOUS
  <1>1. /\ pc \in [Threads -> Places] /\ sid \in [Threads -> Ids \cup {None}]
        /\ \A u \in Threads : pc[u] = "await" => sid[u] \in Ids /\ InCall(sid[u], u)
    BY LocalFacts DEF IInv, TypeOK, CallsAwaited
  <1>2. ASSUME \A s \in Ids, u \in Threads : InCall(s, u)' => pc'[u] = "await" /\ sid'[u] = s,
               \A u \in Threads : pc'[u] = "await" => \E s \in Ids : s = sid'[u] /\ InCall(s, u)',
               \A s \in Ids : Once(inbox'[s]) /\ serving'[s] \notin ToSet(inbox'[s])
        PROVE  CallsAwaited'
    BY <1>2 DEF CallsAwaited, InCall
  <1>3. ASSUME \A u \in Threads : \/ pc'[u] = pc[u] /\ sid'[u] = sid[u]
                                  \/ pc[u] # "await" /\ pc'[u] # "await",
               \A s \in Ids, u \in Threads : InCall(s, u)' <=> InCall(s, u),
               \A s \in Ids : Once(inbox'[s]) /\ serving'[s] \notin ToSet(inbox'[s])
        PROVE  CallsAwaited'
    BY <1>1, <1>2, <1>3, CallFacts
  <1>4. ASSUME NEW t \in Threads, SubmitPut(t) PROVE CallsAwaited'
    <2>1. pc' = [pc EXCEPT ![t] = "await"] /\ UNCHANGED sid
      BY <1>4 DEF SubmitPut, GoTo, requestVars
    <2>2. \A s \in Ids, u \in Threads : InCall(s, u)' => pc'[u] = "await" /\ sid'[u] = s
      BY <1>1, <1>4, <2>1, SubmitCalls, CallFacts
    <2>3. \A u \in Threads : pc'[u] = "await" => \E s \in Ids : s = sid'[u] /\ InCall(s, u)'
      BY <1>1, <1>4, <2>1, SubmitCalls
    <2>4. QED
      BY <1>2, <1>4, <2>2, <2>3, SubmitCalls
  <1>5. ASSUME NEW t \in Threads, StopPut(t) PROVE CallsAwaited'
    <2>1. pc' = [pc EXCEPT ![t] = "join"] /\ pc[t] = "stopPut" /\ UNCHANGED sid
      BY <1>5 DEF StopPut, Keeps, GoTo, requestVars
    <2>2. QED
      BY <1>1, <1>3, <1>5, <2>1, StopCalls
  <1>6. ASSUME NEW r \in Ids, Serve(r) \/ Teardown(r) PROVE CallsAwaited'
    <2>1. UNCHANGED <<pc, sid>>
      BY <1>6 DEF Serve, Teardown, requestVars
    <2>2. QED
      BY <1>3, <1>6, <2>1, GetCalls
  <1>7. ASSUME NEW r \in Ids, Answer(r) PROVE CallsAwaited'
    <2> DEFINE v == serving[r]
    <2>1. /\ v \in Threads
          /\ pc' = [pc EXCEPT ![v] = "idle"] /\ sid' = [sid EXCEPT ![v] = None]
      BY <1>7, AnswerCalls DEF Answer, Reply, GoTo
    <2>2. \A s \in Ids, u \in Threads : InCall(s, u)' <=> InCall(s, u) /\ u # v
      BY <1>7, AnswerCalls
    <2> HIDE DEF v
    <2>3. \A s \in Ids, u \in Threads : InCall(s, u)' => pc'[u] = "await" /\ sid'[u] = s
      BY <1>1, <2>1, <2>2, CallFacts
    <2>4. \A u \in Threads : pc'[u] = "await" => \E s \in Ids : s = sid'[u] /\ InCall(s, u)'
      BY <1>1, <2>1, <2>2
    <2>5. QED
      BY <1>2, <1>7, <2>3, <2>4, AnswerCalls
  <1>8. ASSUME UNCHANGED <<inbox, serving>>,
               \A u \in Threads : \/ pc'[u] = pc[u] /\ sid'[u] = sid[u]
                                  \/ pc[u] # "await" /\ pc'[u] # "await"
        PROVE  CallsAwaited'
    <2>1. \A s \in Ids, u \in Threads : InCall(s, u)' <=> InCall(s, u)
      BY <1>8 DEF InCall
    <2>2. QED
      BY <1>3, <1>8, <2>1, CallFacts
  <1>9. QED
    BY <1>4, <1>5, <1>6, <1>7, <1>8, CallMoves

(* A call is overtaken only by a pill, and then for good.                  *)
LEMMA NextAhead == IInv /\ [Next]_vars => CallsAhead'
  <1> SUFFICES ASSUME IInv, [Next]_vars PROVE CallsAhead'
    OBVIOUS
  <1>1. /\ pc \in [Threads -> Places] /\ sid \in [Threads -> Ids \cup {None}]
        /\ phase \in [Ids -> {"unborn", "opening", "open", "closed", "failed"}]
        /\ overtaken \subseteq Threads
        /\ stopped \subseteq stopped'
        /\ \A u \in Threads : pc[u] = "await" => sid[u] \in Ids /\ InCall(sid[u], u)
    BY LocalFacts, ListedOrStopped DEF IInv, TypeOK, CallsAwaited
  <1>2. /\ \A u \in Threads, s \in Ids : InCall(s, u) /\ u \notin overtaken => phase[s] = "open"
        /\ \A s \in Ids : phase[s] = "open" => BehindPill(inbox[s], overtaken)
        /\ \A u \in overtaken : /\ pc[u] = "await" /\ sid[u] \in stopped
                                /\ serving[sid[u]] # u
    BY DEF IInv, CallsAhead
  <1>3. ASSUME NEW t \in Threads, SubmitPut(t), Recorded(t) PROVE CallsAhead'
    <2> DEFINE h == sid[t]
    <2>1. /\ pc[t] = "submitPut" /\ pc' = [pc EXCEPT ![t] = "await"]
          /\ inbox' = [inbox EXCEPT ![h] = Append(@, t)]
          /\ UNCHANGED <<sid, phase, stopped, serving>>
          /\ overtaken' = IF Ending(h) THEN overtaken \cup {t} ELSE overtaken
      BY <1>3 DEF SubmitPut, Recorded, GoTo, requestVars
    <2>2. /\ h \in Ids /\ WasOpened(h) /\ \A s \in Ids : ~InCall(s, t)
          /\ \A s \in Ids, u \in Threads : InCall(s, u)' <=> InCall(s, u) \/ (s = h /\ u = t)
      BY <1>3, SubmitCalls
    <2>3. t \notin overtaken /\ sid[t] = h
      BY <1>2, <2>1
    <2> HIDE DEF h
    <2>4. \A u \in Threads, s \in Ids :
              InCall(s, u)' /\ u \notin overtaken' => phase'[s] = "open"
      BY <1>2, <2>1, <2>2 DEF Ending
    <2>5. ASSUME NEW s \in Ids, phase'[s] = "open" PROVE BehindPill(inbox'[s], overtaken')
      <3>1. t \notin ToSet(inbox[s]) /\ BehindPill(inbox[s], overtaken)
        BY <1>2, <2>1, <2>2, <2>5 DEF InCall
      <3>2. \A x \in ToSet(inbox[s]) : x \in overtaken <=> x \in overtaken'
        BY <2>1, <3>1
      <3>3. CASE s = h
        <4>1. t \in overtaken' <=> Pill \in ToSet(inbox[s])
          BY <2>1, <2>3, <2>5, <3>3 DEF Ending
        <4>2. inbox'[s] = Append(inbox[s], t)
          BY <2>1, <2>2, <3>3, CallFacts
        <4>3. QED
          BY <3>1, <3>2, <4>1, <4>2, CallFacts, PutBehind
      <3>4. CASE s # h
        <4>1. inbox'[s] = inbox[s]
          BY <2>1, <2>2, <3>4, CallFacts
        <4>2. \A j \in DOMAIN inbox[s] : inbox[s][j] \in ToSet(inbox[s])
          BY DEF ToSet
        <4>3. QED
          BY <3>1, <3>2, <4>1, <4>2 DEF BehindPill
      <3>5. QED
        BY <3>3, <3>4
    <2>6. ASSUME NEW u \in overtaken'
          PROVE  pc'[u] = "await" /\ sid'[u] \in stopped' /\ serving'[sid'[u]] # u
      <3>1. CASE u \in overtaken
        BY <1>1, <1>2, <2>1, <3>1
      <3>2. CASE u = t /\ Ending(h)
        <4>1. h \in stopped
          BY <2>2, <3>2 DEF Ending, WasOpened, IInv, WorkersAtRest
        <4>2. serving[h] # t
          BY <2>2 DEF InCall
        <4>3. QED
          BY <1>1, <2>1, <2>3, <3>2, <4>1, <4>2
      <3>3. QED
        BY <2>1, <2>6, <3>1, <3>2
    <2>7. QED
      BY <2>4, <2>5, <2>6 DEF CallsAhead
  <1>4. ASSUME NEW t \in Threads, StopPut(t), UNCHANGED overtaken PROVE CallsAhead'
    <2> DEFINE h == victim[t]
    <2>1. /\ pc[t] = "stopPut" /\ pc' = [pc EXCEPT ![t] = "join"]
          /\ inbox' = [inbox EXCEPT ![h] = Append(@, Pill)]
          /\ UNCHANGED <<sid, phase, stopped, serving>>
      BY <1>4 DEF StopPut, Keeps, GoTo, requestVars
    <2>2. h \in Ids /\ \A s \in Ids, u \in Threads : InCall(s, u)' <=> InCall(s, u)
      BY <1>4, StopCalls
    <2> HIDE DEF h
    <2>3. \A u \in Threads, s \in Ids :
              InCall(s, u)' /\ u \notin overtaken' => phase'[s] = "open"
      BY <1>2, <1>4, <2>1, <2>2
    <2>4. ASSUME NEW s \in Ids, phase'[s] = "open" PROVE BehindPill(inbox'[s], overtaken')
      <3>1. BehindPill(inbox[s], overtaken)
        BY <1>2, <2>1, <2>4
      <3>2. CASE s = h
        <4>1. inbox'[s] = Append(inbox[s], Pill)
          BY <2>1, <2>2, <3>2, CallFacts
        <4>2. QED
          BY <1>4, <3>1, <4>1, CallFacts, PutBehind
      <3>3. CASE s # h
        <4>1. inbox'[s] = inbox[s]
          BY <2>1, <2>2, <3>3, CallFacts
        <4>2. QED
          BY <1>4, <3>1, <4>1
      <3>4. QED
        BY <3>2, <3>3
    <2>5. \A u \in overtaken' : /\ pc'[u] = "await" /\ sid'[u] \in stopped'
                                /\ serving'[sid'[u]] # u
      BY <1>1, <1>2, <1>4, <2>1
    <2>6. QED
      BY <2>3, <2>4, <2>5 DEF CallsAhead
  <1>5. ASSUME UNCHANGED <<inbox, serving, overtaken>>,
               \A u \in Threads : \/ pc'[u] = pc[u] /\ sid'[u] = sid[u]
                                  \/ pc[u] # "await" /\ pc'[u] # "await",
               \A s \in Ids : phase[s] = "open" => phase'[s] = "open"
        PROVE  CallsAhead'
    <2>1. \A u \in Threads, s \in Ids :
              InCall(s, u)' /\ u \notin overtaken' => phase'[s] = "open"
      BY <1>2, <1>5 DEF InCall
    <2>2. ASSUME NEW s \in Ids, phase'[s] = "open" PROVE BehindPill(inbox'[s], overtaken')
      <3>1. CASE phase[s] = "open"
        BY <1>2, <1>5, <3>1
      <3>2. CASE phase[s] # "open"
        <4>1. phase[s] = "opening"
          BY <2>2, <3>2, PhaseSteps
        <4>2. inbox'[s] = <<>>
          BY <1>5, <4>1 DEF IInv, WorkersAtRest
        <4>3. QED
          BY <4>2 DEF BehindPill
      <3>3. QED
        BY <3>1, <3>2
    <2>3. \A u \in overtaken' : /\ pc'[u] = "await" /\ sid'[u] \in stopped'
                                /\ serving'[sid'[u]] # u
      BY <1>1, <1>2, <1>5
    <2>4. QED
      BY <2>1, <2>2, <2>3 DEF CallsAhead
  <1>6. ASSUME NEW r \in Ids, Serve(r), UNCHANGED overtaken PROVE CallsAhead'
    <2>1. /\ phase[r] = "open" /\ Head(inbox[r]) # Pill
          /\ UNCHANGED <<pc, sid, phase, stopped>>
      BY <1>6 DEF Serve, requestVars
    <2>2. /\ inbox[r] # <<>> /\ inbox'[r] = Tail(inbox[r]) /\ serving'[r] = Head(inbox[r])
          /\ \A s \in Ids \ {r} : inbox'[s] = inbox[s] /\ serving'[s] = serving[s]
          /\ \A s \in Ids, u \in Threads : InCall(s, u)' <=> InCall(s, u)
      BY <1>6, GetCalls
    <2>3. Head(inbox[r]) \notin overtaken /\ BehindPill(inbox'[r], overtaken)
      BY <1>2, <2>1, <2>2, CallFacts, GetBehind
    <2>4. \A u \in overtaken' : /\ pc'[u] = "await" /\ sid'[u] \in stopped'
                                /\ serving'[sid'[u]] # u
      BY <1>1, <1>2, <1>6, <2>1, <2>2, <2>3
    <2>5. \A s \in Ids : phase'[s] = "open" => BehindPill(inbox'[s], overtaken')
      BY <1>2, <1>6, <2>1, <2>2, <2>3
    <2>6. \A u \in Threads, s \in Ids :
              InCall(s, u)' /\ u \notin overtaken' => phase'[s] = "open"
      BY <1>2, <1>6, <2>1, <2>2
    <2>7. QED
      BY <2>4, <2>5, <2>6 DEF CallsAhead
  <1>7. ASSUME NEW r \in Ids, Answer(r), UNCHANGED overtaken PROVE CallsAhead'
    <2> DEFINE v == serving[r]
    <2>1. /\ v \in Threads /\ InCall(r, v) /\ UNCHANGED inbox
          /\ serving' = [serving EXCEPT ![r] = None]
          /\ \A s \in Ids, u \in Threads : InCall(s, u)' <=> InCall(s, u) /\ u # v
      BY <1>7, AnswerCalls
    <2>2. /\ pc' = [pc EXCEPT ![v] = "idle"] /\ sid' = [sid EXCEPT ![v] = None]
          /\ UNCHANGED <<phase, stopped>>
      BY <1>7 DEF Answer, Reply, GoTo
    <2>3. sid[v] = r /\ v \notin overtaken
      BY <1>2, <2>1, CallFacts
    <2> HIDE DEF v
    <2>4. \A u \in overtaken' : /\ pc'[u] = "await" /\ sid'[u] \in stopped'
                                /\ serving'[sid'[u]] # u
      <3> SUFFICES ASSUME NEW u \in overtaken
                   PROVE  /\ pc'[u] = "await" /\ sid'[u] \in stopped'
                          /\ serving'[sid'[u]] # u
        BY <1>7
      <3>1. u \in Threads /\ u # v /\ pc'[u] = pc[u] /\ sid'[u] = sid[u]
        BY <1>1, <2>2, <2>3
      <3>2. serving'[sid[u]] = serving[sid[u]] \/ serving'[sid[u]] = None
        BY <1>1, <1>2, <2>1, <3>1, CallFacts
      <3>3. QED
        BY <1>1, <1>2, <3>1, <3>2, CallFacts
    <2>5. \A s \in Ids : phase'[s] = "open" => BehindPill(inbox'[s], overtaken')
      BY <1>2, <1>7, <2>1, <2>2
    <2>6. \A u \in Threads, s \in Ids :
              InCall(s, u)' /\ u \notin overtaken' => phase'[s] = "open"
      BY <1>2, <1>7, <2>1, <2>2
    <2>7. QED
      BY <2>4, <2>5, <2>6 DEF CallsAhead
  <1>8. ASSUME NEW r \in Ids, Teardown(r), UNCHANGED overtaken PROVE CallsAhead'
    <2>1. /\ phase[r] = "open" /\ serving[r] = None /\ Head(inbox[r]) = Pill
          /\ phase' = [phase EXCEPT ![r] = "closed"]
          /\ UNCHANGED <<pc, sid, stopped, serving>>
      BY <1>8 DEF Teardown, requestVars
    <2>2. /\ inbox[r] # <<>> /\ \A s \in Ids \ {r} : inbox'[s] = inbox[s]
          /\ \A s \in Ids, u \in Threads : InCall(s, u)' <=> InCall(s, u)
      BY <1>8, GetCalls
    <2>3. ASSUME NEW u \in Threads, InCall(r, u) PROVE u \in overtaken
      <3>1. u \in ToSet(inbox[r]) /\ u # Pill
        BY <2>1, <2>3, CallFacts DEF InCall
      <3>2. QED
        BY <1>2, <2>1, <2>2, <3>1, CallFacts, AllBehind
    <2>4. \A u \in Threads, s \in Ids :
              InCall(s, u)' /\ u \notin overtaken' => phase'[s] = "open"
      BY <1>1, <1>2, <1>8, <2>1, <2>2, <2>3
    <2>5. \A s \in Ids : phase'[s] = "open" => BehindPill(inbox'[s], overtaken')
      BY <1>1, <1>2, <1>8, <2>1, <2>2
    <2>6. \A u \in overtaken' : /\ pc'[u] = "await" /\ sid'[u] \in stopped'
                                /\ serving'[sid'[u]] # u
      BY <1>2, <1>8, <2>1
    <2>7. QED
      BY <2>4, <2>5, <2>6 DEF CallsAhead
  <1>9. QED
    BY <1>3, <1>4, <1>5, <1>6, <1>7, <1>8, CallMoves

(* How a step of a request changes where it is and what it came to: it     *)
(* begins, replies or goes on.                                             *)
LEMMA OutcomeSteps ==
    ASSUME IInv, NEW t \in Threads, Begin(t) \/ Proceed(t)
    PROVE  \/ Begin(t)
           \/ pc[t] # "idle" /\ Reply(t, Replied)
           \/ pc[t] # "idle" /\ Reply(t, SweepError)
           \/ SubmitRaises(t)
           \/ /\ pc[t] # "idle" /\ UNCHANGED outcome
              /\ \A v \in Threads \ {t} : pc'[v] = pc[v]
  <1> DEFINE Goal == \/ Begin(t)
                     \/ pc[t] # "idle" /\ Reply(t, Replied)
                     \/ pc[t] # "idle" /\ Reply(t, SweepError)
                     \/ SubmitRaises(t)
                     \/ /\ pc[t] # "idle" /\ UNCHANGED outcome
                        /\ \A v \in Threads \ {t} : pc'[v] = pc[v]
  <1>1. \A v \in Threads \ {t} : pc'[v] = pc[v]
    BY RequestSteps
  <1> USE DEF requestVars
  <1>2. CASE Sweep(t)
    <2>1. CASE SweepStart(t) \/ ScanRaises(t) \/ ScanVisit(t) \/ ScanEnd(t) \/ ReapPop(t)
      BY <1>1, <2>1 DEF SweepStart, ScanRaises, ScanVisit, ScanEnd, ReapPop, Continue
    <2>2. CASE SweepEnd(t)
      <3>1. Reply(t, Replied) \/ UNCHANGED outcome
        BY <2>2, LocalFacts DEF SweepEnd, Requests, Opens, Continue
      <3>2. QED
        BY <1>1, <2>2, <3>1 DEF SweepEnd
    <2>3. QED
      BY <1>2, <2>1, <2>2 DEF Sweep
  <1>3. CASE CloseWorker(t)
    <2>1. CASE Stop(t)
      BY <1>1, <2>1, StopSteps DEF Keeps, InClose
    <2>2. CASE CloseDone(t)
      <3>1. Reply(t, Replied) \/ UNCHANGED outcome
        BY <2>2, LocalFacts DEF InClose, CloseDone, Continue
      <3>2. QED
        BY <1>1, <2>2, <3>1 DEF CloseDone
    <2>3. QED
      BY <1>3, <2>1, <2>2 DEF CloseWorker
  <1>4. CASE Operate(t)
    BY <1>1, <1>4 DEF Operate, Open, OpenStore, StartUrl, OpenFails, GetMissing, GetFound,
                      GetExpired, GetFresh, RefreshTTL, SubmitCheck, SubmitPut, CloseMissing, ClosePop
  <1>5. QED
    BY <1>2, <1>3, <1>4 DEF Proceed

(* An outcome waits for the reply.                                         *)
LEMMA NextPending == IInv /\ [Next]_vars => PendingTillReply'
  <1> SUFFICES ASSUME IInv, [Next]_vars PROVE PendingTillReply'
    OBVIOUS
  <1>1. /\ PendingTillReply
        /\ pc \in [Threads -> Places] /\ outcome \in [Threads -> Outcomes]
    BY DEF IInv, TypeOK
  <1> USE DEF PendingTillReply
  <1>2. ASSUME NEW t \in Threads, NEW w, Reply(t, w) PROVE PendingTillReply'
    BY <1>1, <1>2 DEF Reply, GoTo
  <1>3. ASSUME NEW t \in Threads, Begin(t) \/ Proceed(t) PROVE PendingTillReply'
    <2>1. CASE Begin(t)
      BY <1>1, <2>1 DEF Begin, GoTo
    <2>2. CASE SubmitRaises(t)
      BY <1>2, <2>2 DEF SubmitRaises
    <2>3. CASE /\ pc[t] # "idle" /\ UNCHANGED outcome
               /\ \A v \in Threads \ {t} : pc'[v] = pc[v]
      BY <1>1, <2>3
    <2>4. QED
      BY <1>2, <1>3, <2>1, <2>2, <2>3, OutcomeSteps
  <1>4. ASSUME NEW s \in Ids, Work(s) PROVE PendingTillReply'
    <2>1. CASE Serve(s) \/ Teardown(s)
      BY <1>1, <2>1 DEF Serve, Teardown, requestVars
    <2>2. CASE Answer(s)
      <3>1. serving[s] \in Threads
        BY <2>2 DEF Answer, IInv, TypeOK
      <3>2. QED
        BY <1>2, <2>2, <3>1 DEF Answer
    <2>3. QED
      BY <1>4, <2>1, <2>2 DEF Work
  <1>5. CASE Tick \/ UNCHANGED vars
    BY <1>1, <1>5 DEF Tick, vars, requestVars
  <1>6. QED
    BY <1>3, <1>4, <1>5 DEF Next

-----------------------------------------------------------------------------
(* The theorems                                                            *)

(* The inductive invariant holds in every reachable state.                 *)
THEOREM RegistryInvariance == Spec => []IInv
  <1>1. Init => IInv
    BY InitIInv
  <1>2. IInv /\ [Next]_vars => IInv'
    BY NextTypeOK, NextRequests, NextPending, NextOpenedBefore, NextClosers, NextWorkers, NextCalls,
       NextAhead, NextListed, NextNoOrphan, NextPoppedOnce DEF IInv
  <1>3. QED
    BY <1>1, <1>2, PTL DEF Spec

(* The registry's state is well typed: any number of request threads, any  *)
(* ttl and any length of a session's queue.                                *)
THEOREM RegistryTypeCorrect == Spec => []TypeOK
  <1>1. IInv => TypeOK
    BY DEF IInv
  <1>2. QED
    BY RegistryInvariance, <1>1, PTL

(* Whatever requests race, a session that is listed can be used.           *)
THEOREM ListedSessionsUsable == Spec => []ListedIsUsable
  <1>1. IInv => ListedIsUsable
    BY DEF IInv
  <1>2. QED
    BY RegistryInvariance, <1>1, PTL

(* Sweeps, closes, failed opens and expired gets of any number of requests *)
(* leave no browser that nobody will close.                                *)
THEOREM NoBrowserOrphaned == Spec => []NoOrphanBrowser
  <1>1. IInv => NoOrphanBrowser
    BY DEF IInv
  <1>2. QED
    BY RegistryInvariance, <1>1, PTL

(* No request waits for a worker that has gone, but for a call that a stop *)
(* has overtaken between submit's check and its put.                       *)
THEOREM WaitersHaveWorkers == Spec => []WaiterHasWorker
  <1>1. IInv => WaiterHasWorker
    <2> SUFFICES ASSUME IInv PROVE WaiterHasWorker
      OBVIOUS
    <2>1. ASSUME NEW t \in Threads, pc[t] = "await", t \notin overtaken
          PROVE  \E s \in Ids : sid[t] = s /\ phase[s] = "open" /\ InCall(s, t)
      <3>1. sid[t] \in Ids /\ InCall(sid[t], t)
        BY <2>1, LocalFacts DEF IInv, CallsAwaited
      <3>2. phase[sid[t]] = "open"
        BY <2>1, <3>1 DEF IInv, CallsAhead
      <3>3. QED
        BY <3>1, <3>2
    <2>2. \A t \in Threads, s \in Ids : InCall(s, t) => pc[t] = "await" /\ sid[t] = s
      BY CallFacts
    <2>3. \A t \in overtaken : pc[t] = "await" /\ sid[t] \in stopped /\ serving[sid[t]] # t
      BY DEF IInv, CallsAhead
    <2>4. QED
      BY <2>1, <2>2, <2>3 DEF WaiterHasWorker
  <1>2. QED
    BY RegistryInvariance, <1>1, PTL

(* No two requests take the same session out.                              *)
THEOREM SessionsPoppedOnce == Spec => []PoppedOnce
  <1>1. IInv => PoppedOnce
    BY DEF IInv
  <1>2. QED
    BY RegistryInvariance, <1>1, PTL

-----------------------------------------------------------------------------
(* Each session refines HeldSession.                                       *)

PhaseOf(s) == IF phase[s] = "unborn" THEN "opening" ELSE phase[s]

CallsOf(s) == [t \in Threads |-> Call(s, t)]

(* An id that nobody has drawn is a session that has not opened.           *)
LEMMA InitRefines == Init => \A s \in Ids : Held(s)!Init
  <1> SUFFICES ASSUME Init, NEW s \in Ids PROVE Held(s)!Init
    OBVIOUS
  <1>1. \A t \in Threads : Call(s, t) = "none"
    BY RegistryAssumption
       DEF Init, Call, OutcomeFor, InCall, ToSet, Answered, Refused, Replied
  <1>2. QED
    BY <1>1 DEF Init, Held!Init

(* A call is the one in the inbox or on the page, or what it came to.      *)
LEMMA CallCases ==
    ASSUME NEW s \in Ids, NEW t \in Threads
    PROVE  /\ Call(s, t) = IF InCall(s, t) THEN "asked" ELSE OutcomeFor(s, outcome[t])
           /\ Call(s, t)' = IF InCall(s, t)' THEN "asked" ELSE OutcomeFor(s, outcome'[t])
           /\ CallsOf(s)[t] = Call(s, t)
  BY DEF Call, OutcomeFor, CallsOf

(* The outcomes a session tells apart.                                     *)
LEMMA OutcomesFor ==
    ASSUME NEW s \in Ids
    PROVE  /\ \A w \in {Pending, Replied, SweepError} : OutcomeFor(s, w) = "none"
           /\ OutcomeFor(s, Answered(s)) = "answered"
           /\ OutcomeFor(s, Refused(s)) = "refused"
           /\ \A r \in Ids \ {s} : /\ OutcomeFor(s, Answered(r)) = "none"
                                   /\ OutcomeFor(s, Refused(r)) = "none"
           /\ \A w : OutcomeFor(s, w) \in {"answered", "refused", "none"}
  BY DEF OutcomeFor, Pending, Replied, SweepError, Answered, Refused

(* One thread's call moves while the others stand still.                   *)
LEMMA CallOfOne ==
    ASSUME NEW s \in Ids, NEW t \in Threads,
           \A u \in Threads \ {t} : /\ InCall(s, u)' <=> InCall(s, u)
                                    /\ outcome'[u] = outcome[u]
    PROVE  CallsOf(s)' = [CallsOf(s) EXCEPT ![t] = Call(s, t)']
  <1>1. \A u \in Threads \ {t} : Call(s, u)' = Call(s, u)
    BY CallCases
  <1>2. QED
    BY <1>1 DEF CallsOf

(* A step no caller of this session can tell leaves its calls as they are. *)
LEMMA CallsStand ==
    ASSUME NEW s \in Ids,
           \A u \in Threads : /\ InCall(s, u)' <=> InCall(s, u)
                              /\ OutcomeFor(s, outcome'[u]) = OutcomeFor(s, outcome[u])
    PROVE  CallsOf(s)' = CallsOf(s)
  <1>1. \A u \in Threads : Call(s, u)' = Call(s, u)
    BY CallCases
  <1>2. QED
    BY <1>1 DEF CallsOf

(* Every step of a request is a step of the session, or it shows nothing.  *)
LEMMA RequestRefines ==
    ASSUME IInv, NEW s \in Ids, NEW t \in Threads, Begin(t) \/ Proceed(t)
    PROVE  Held(s)!Next \/ UNCHANGED Held(s)!vars
  <1>1. /\ phase \in [Ids -> {"unborn", "opening", "open", "closed", "failed"}]
        /\ outcome \in [Threads -> Outcomes]
        /\ pc[t] # "idle" => outcome[t] = Pending
        /\ \A r \in Ids : ~InCall(r, t)
    BY RequestSteps DEF IInv, TypeOK, PendingTillReply, CallsAwaited
  <1>2. ASSUME UNCHANGED <<PhaseOf(s), s \in stopped, serving[s], CallsOf(s)>>
        PROVE  UNCHANGED Held(s)!vars
    BY <1>2 DEF Held!vars, PhaseOf, CallsOf
  <1>3. ASSUME UNCHANGED <<inbox, serving>>
        PROVE  \A u \in Threads : InCall(s, u)' <=> InCall(s, u)
    BY <1>3 DEF InCall
  <1>4. ASSUME UNCHANGED <<inbox, serving>>,
               \/ UNCHANGED outcome
               \/ pc[t] # "idle" /\ Reply(t, Replied)
               \/ pc[t] # "idle" /\ Reply(t, SweepError)
        PROVE  UNCHANGED CallsOf(s)
    <2>1. \A u \in Threads : OutcomeFor(s, outcome'[u]) = OutcomeFor(s, outcome[u])
      BY <1>1, <1>4, OutcomesFor DEF Reply
    <2>2. QED
      BY <1>3, <1>4, <2>1, CallsStand
  <1>5. CASE Begin(t)
    <2>1. /\ UNCHANGED <<phase, stopped, inbox, serving>>
          /\ outcome' = [outcome EXCEPT ![t] = Pending]
      BY <1>5 DEF Begin, sessionVars
    <2>2. CallsOf(s)' = [CallsOf(s) EXCEPT ![t] = "none"]
      <3>1. Call(s, t)' = "none"
        BY <1>1, <1>3, <2>1, CallCases, OutcomesFor
      <3>2. QED
        BY <1>1, <1>3, <2>1, <3>1, CallOfOne
    <2>3. CallsOf(s)[t] \in {"none", "answered", "refused"}
      BY <1>1, CallCases, OutcomesFor
    <2>4. CASE CallsOf(s)[t] = "none"
      <3>1. UNCHANGED CallsOf(s)
        BY <2>2, <2>4 DEF CallsOf
      <3>2. QED
        BY <1>2, <2>1, <3>1 DEF PhaseOf
    <2>5. CASE CallsOf(s)[t] \in {"answered", "refused"}
      <3>1. Held(s)!Forget(t)
        BY <2>1, <2>2, <2>5 DEF Held!Forget, CallsOf
      <3>2. QED
        BY <3>1 DEF Held!Next
    <2>6. QED
      BY <2>3, <2>4, <2>5
  <1>6. CASE SubmitRaises(t)
    <2>1. /\ UNCHANGED <<phase, stopped, inbox, serving>>
          /\ outcome' = [outcome EXCEPT ![t] = Refused(sid[t])]
          /\ sid[t] \in stopped /\ sid[t] \in Ids /\ pc[t] # "idle"
      BY <1>6, LocalFacts DEF SubmitRaises, Reply, sessionVars
    <2>2. CallsOf(s)[t] = "none"
      BY <1>1, <2>1, CallCases, OutcomesFor
    <2>3. CASE sid[t] = s
      <3>1. Call(s, t)' = "refused"
        BY <1>1, <1>3, <2>1, <2>3, CallCases, OutcomesFor
      <3>2. CallsOf(s)' = [CallsOf(s) EXCEPT ![t] = "refused"]
        BY <1>1, <1>3, <2>1, <3>1, CallOfOne
      <3>3. Held(s)!Refuse(t)
        BY <2>1, <2>2, <2>3, <3>2 DEF Held!Refuse, CallsOf
      <3>4. QED
        BY <3>3 DEF Held!Next
    <2>4. CASE sid[t] # s
      <3>1. \A u \in Threads : OutcomeFor(s, outcome'[u]) = OutcomeFor(s, outcome[u])
        BY <1>1, <2>1, <2>4, OutcomesFor
      <3>2. UNCHANGED CallsOf(s)
        BY <1>3, <2>1, <3>1, CallsStand
      <3>3. QED
        BY <1>2, <2>1, <3>2 DEF PhaseOf
    <2>5. QED
      BY <2>3, <2>4
  <1>7. CASE SubmitPut(t)
    <2>1. UNCHANGED <<phase, stopped, serving, outcome>>
      BY <1>7 DEF SubmitPut, requestVars
    <2>2. /\ WasOpened(sid[t])
          /\ \A u \in Threads : InCall(s, u)' <=> InCall(s, u) \/ (s = sid[t] /\ u = t)
      BY <1>7, SubmitCalls
    <2>3. CASE sid[t] = s
      <3>1. CallsOf(s)' = [CallsOf(s) EXCEPT ![t] = "asked"]
        BY <2>1, <2>2, <2>3, CallCases, CallOfOne
      <3>2. CallsOf(s)[t] \in {"none", "answered", "refused"}
        BY <1>1, CallCases, OutcomesFor
      <3>3. Held(s)!Ask(t)
        BY <2>1, <2>2, <2>3, <3>1, <3>2 DEF Held!Ask, CallsOf, WasOpened
      <3>4. QED
        BY <3>3 DEF Held!Next
    <2>4. CASE sid[t] # s
      <3>1. UNCHANGED CallsOf(s)
        BY <2>1, <2>2, <2>4, CallsStand
      <3>2. QED
        BY <1>2, <2>1, <3>1 DEF PhaseOf
    <2>5. QED
      BY <2>3, <2>4
  <1>8. CASE OpenStore(t) \/ OpenFails(t) \/ Open(t)
    <2>1. UNCHANGED <<stopped, inbox, serving>>
      BY <1>8 DEF OpenStore, OpenFails, Open
    <2>2. UNCHANGED CallsOf(s)
      <3>1. UNCHANGED outcome \/ (pc[t] # "idle" /\ Reply(t, Replied))
        BY <1>8 DEF OpenStore, StartUrl, OpenFails, Open, requestVars
      <3>2. QED
        BY <1>4, <2>1, <3>1
    <2>3. pc[t] = "launch" => sid[t] \in Ids /\ phase[sid[t]] = "opening"
      BY DEF IInv, RequestsHaveSessions
    <2>4. CASE OpenStore(t) /\ sid[t] = s
      <3>1. phase[s] = "opening" /\ phase'[s] = "open"
        BY <1>1, <2>3, <2>4 DEF OpenStore
      <3>2. Held(s)!Opened
        BY <2>1, <2>2, <3>1 DEF Held!Opened, CallsOf
      <3>3. QED
        BY <3>2 DEF Held!Next
    <2>5. CASE OpenFails(t) /\ sid[t] = s
      <3>1. phase[s] = "opening" /\ phase'[s] = "failed"
        BY <1>1, <2>3, <2>5 DEF OpenFails
      <3>2. Held(s)!OpenFailed
        BY <2>1, <2>2, <3>1 DEF Held!OpenFailed, CallsOf
      <3>3. QED
        BY <3>2 DEF Held!Next
    <2>6. CASE Open(t) \/ sid[t] # s
      <3>1. PhaseOf(s)' = PhaseOf(s)
        BY <1>1, <1>8, <2>3, <2>6 DEF OpenStore, OpenFails, Open, PhaseOf
      <3>2. QED
        BY <1>2, <2>1, <2>2, <3>1
    <2>7. QED
      BY <1>8, <2>4, <2>5, <2>6
  <1>9. CASE StopSet(t)
    <2>1. UNCHANGED <<phase, inbox, serving, outcome>> /\ stopped' = stopped \cup {victim[t]}
      BY <1>9 DEF StopSet, Keeps, requestVars
    <2>2. UNCHANGED CallsOf(s)
      BY <1>4, <2>1
    <2>3. CASE victim[t] = s
      <3>1. Held(s)!RequestClose
        BY <2>1, <2>2, <2>3 DEF Held!RequestClose, CallsOf
      <3>2. QED
        BY <3>1 DEF Held!Next
    <2>4. CASE victim[t] # s
      <3>1. (s \in stopped') = (s \in stopped)
        BY <2>1, <2>4
      <3>2. QED
        BY <1>2, <2>1, <2>2, <3>1 DEF PhaseOf
    <2>5. QED
      BY <2>3, <2>4
  <1>10. CASE StopPut(t)
    <2>1. UNCHANGED <<phase, stopped, serving, outcome>>
      BY <1>10 DEF StopPut, Keeps, requestVars
    <2>2. UNCHANGED CallsOf(s)
      BY <1>10, <2>1, StopCalls, CallsStand
    <2>3. QED
      BY <1>2, <2>1, <2>2 DEF PhaseOf
  <1>11. ASSUME UNCHANGED <<phase, stopped>>, ~Begin(t), ~SubmitRaises(t), ~SubmitPut(t),
                ~StopPut(t)
         PROVE  UNCHANGED Held(s)!vars
    <2>1. UNCHANGED <<inbox, serving>>
      BY <1>11, RequestSteps
    <2>2. UNCHANGED CallsOf(s)
      BY <1>4, <1>11, <2>1, OutcomeSteps
    <2>3. QED
      BY <1>2, <1>11, <2>1, <2>2 DEF PhaseOf
  <1>12. \/ UNCHANGED <<phase, stopped>>
         \/ Begin(t) \/ OpenStore(t) \/ OpenFails(t) \/ Open(t) \/ StopSet(t)
    BY StopSteps
       DEF Proceed, Sweep, SweepStart, ScanRaises, ScanVisit, ScanEnd, ReapPop, SweepEnd,
           CloseWorker, Keeps, CloseDone, Operate, GetMissing, GetFound, GetExpired, GetFresh,
           RefreshTTL, SubmitRaises, SubmitCheck, SubmitPut, CloseMissing, ClosePop, sessionVars
  <1>13. QED
    BY <1>5, <1>6, <1>7, <1>8, <1>9, <1>10, <1>11, <1>12

(* Every step of a worker is a step of its session.                        *)
LEMMA WorkRefines ==
    ASSUME IInv, NEW s \in Ids, NEW r \in Ids, Work(r)
    PROVE  Held(s)!Next \/ UNCHANGED Held(s)!vars
  <1>1. /\ phase \in [Ids -> {"unborn", "opening", "open", "closed", "failed"}]
        /\ outcome \in [Threads -> Outcomes]
        /\ serving \in [Ids -> Threads \cup {None}]
    BY DEF IInv, TypeOK
  <1>2. ASSUME UNCHANGED <<PhaseOf(s), s \in stopped, serving[s], CallsOf(s)>>
        PROVE  UNCHANGED Held(s)!vars
    BY <1>2 DEF Held!vars, PhaseOf, CallsOf
  <1>3. CASE Serve(r)
    <2>1. phase[r] = "open" /\ serving[r] = None /\ UNCHANGED <<phase, stopped, outcome>>
      BY <1>3 DEF Serve, requestVars
    <2>2. /\ serving'[r] \in Threads
          /\ \A u \in Threads : InCall(s, u)' <=> InCall(s, u)
          /\ r # s => serving'[s] = serving[s]
      BY <1>3, GetCalls
    <2>3. UNCHANGED CallsOf(s)
      BY <2>1, <2>2, CallsStand
    <2>4. CASE r = s
      <3>1. InCall(s, serving'[s])
        BY <2>2, <2>4 DEF InCall
      <3>2. CallsOf(s)[serving'[s]] = "asked"
        BY <2>2, <2>4, <3>1, CallCases
      <3>3. Held(s)!Serve(serving'[s])
        BY <2>1, <2>3, <2>4, <3>2 DEF Held!Serve, CallsOf
      <3>4. QED
        BY <2>2, <2>4, <3>3 DEF Held!Next
    <2>5. CASE r # s
      BY <1>2, <2>1, <2>2, <2>3, <2>5 DEF PhaseOf
    <2>6. QED
      BY <2>4, <2>5
  <1>4. CASE Answer(r)
    <2>1. PICK u \in Threads :
              /\ serving[r] = u /\ InCall(r, u)
              /\ serving' = [serving EXCEPT ![r] = None]
              /\ outcome' = [outcome EXCEPT ![u] = Answered(r)]
              /\ UNCHANGED <<phase, stopped, inbox>>
      BY <1>1, <1>4 DEF Answer, Reply, InCall
    <2>2. pc[u] = "await" /\ sid[u] = r /\ outcome[u] = Pending
      BY <2>1 DEF IInv, CallsAwaited, PendingTillReply
    <2>3. phase[r] = "open" /\ u \notin ToSet(inbox[r])
      BY <1>4, <2>1 DEF IInv, WorkersAtRest, CallsAwaited, Answer
    <2>4. CASE r = s
      <3>1. \A v \in Threads : InCall(s, v)' <=> InCall(s, v) /\ v # u
        BY <1>1, <2>1, <2>3, <2>4, RegistryAssumption DEF InCall
      <3>2. Call(s, u)' = "answered"
        BY <1>1, <2>1, <2>4, <3>1, CallCases, OutcomesFor
      <3>3. CallsOf(s)' = [CallsOf(s) EXCEPT ![u] = "answered"]
        BY <1>1, <2>1, <3>1, <3>2, CallOfOne
      <3>4. serving[s] = u /\ serving'[s] = None
        BY <1>1, <2>1, <2>4
      <3>5. Held(s)!Answer(u)
        BY <2>1, <2>3, <2>4, <3>3, <3>4 DEF Held!Answer, CallsOf
      <3>6. QED
        BY <2>1, <3>5 DEF Held!Next
    <2>5. CASE r # s
      <3>1. inbox'[s] = inbox[s] /\ serving'[s] = serving[s]
        BY <1>1, <2>1, <2>5
      <3>2. \A v \in Threads : /\ InCall(s, v)' <=> InCall(s, v)
                               /\ OutcomeFor(s, outcome'[v]) = OutcomeFor(s, outcome[v])
        BY <1>1, <2>1, <2>2, <2>5, <3>1, OutcomesFor DEF InCall
      <3>3. QED
        BY <1>2, <2>1, <3>1, <3>2, CallsStand DEF PhaseOf
    <2>6. QED
      BY <2>4, <2>5
  <1>5. CASE Teardown(r)
    <2>1. /\ phase[r] = "open" /\ serving[r] = None
          /\ phase' = [phase EXCEPT ![r] = "closed"]
          /\ UNCHANGED <<stopped, serving, outcome>>
      BY <1>5 DEF Teardown, requestVars
    <2>0. r \in stopped
      <3>1. Pill \in ToSet(inbox[r])
        BY <1>5, CallFacts, PillQueued DEF Teardown
      <3>2. QED
        BY <3>1 DEF IInv, WorkersAtRest
    <2>2. UNCHANGED CallsOf(s)
      BY <1>5, <2>1, GetCalls, CallsStand
    <2>3. CASE r = s
      <3>1. phase'[s] = "closed"
        BY <1>1, <2>1, <2>3
      <3>2. Held(s)!Close
        BY <2>1, <2>2, <2>3, <2>0, <3>1 DEF Held!Close, CallsOf
      <3>3. QED
        BY <3>2 DEF Held!Next
    <2>4. CASE r # s
      <3>1. PhaseOf(s)' = PhaseOf(s)
        BY <1>1, <2>1, <2>4 DEF PhaseOf
      <3>2. QED
        BY <1>2, <2>1, <2>2, <3>1
    <2>5. QED
      BY <2>3, <2>4
  <1>6. QED
    BY <1>3, <1>4, <1>5 DEF Work

(* Every session of the registry keeps the promise of a held session,      *)
(* whatever the other sessions, the sweeps and the clock do.               *)
THEOREM EverySessionIsHeld == Spec => EverySessionHeld
  <1>1. Init => \A s \in Ids : Held(s)!Init
    BY InitRefines
  <1>2. IInv /\ [Next]_vars => [\A s \in Ids : [Held(s)!Next]_(Held(s)!vars)]_vars
    <2> SUFFICES ASSUME IInv, [Next]_vars, NEW s \in Ids
                 PROVE  Held(s)!Next \/ UNCHANGED Held(s)!vars
      OBVIOUS
    <2>1. CASE Tick \/ UNCHANGED vars
      <3>1. UNCHANGED <<phase, stopped, inbox, serving, outcome>>
        BY <2>1 DEF Tick, vars, sessionVars, requestVars
      <3>2. QED
        BY <3>1 DEF Held!vars, Call, InCall
    <2>2. QED
      BY <2>1, RequestRefines, WorkRefines DEF Next
  <1>3. QED
    BY <1>1, <1>2, RegistryInvariance, PTL DEF Spec, EverySessionHeld
=============================================================================
