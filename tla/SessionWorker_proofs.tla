----------------------- MODULE SessionWorker_proofs -----------------------
(***************************************************************************)
(* The session worker for every set of request threads: type correctness,  *)
(* the ownership of every unresolved call, its turn in the inbox, the      *)
(* arrival of every stop, and the promise of HeldSession.                  *)
(***************************************************************************)
EXTENDS SessionWorker, TLAPS

(* Queue.put: the sequence grows by one, and its new last element is the   *)
(* one put; the others stay where they are.                                *)
LEMMA AppendFacts ==
    ASSUME NEW S, NEW s \in Seq(S), NEW e \in S
    PROVE  /\ Append(s, e) \in Seq(S)
           /\ Len(Append(s, e)) = Len(s) + 1
           /\ Len(s) \in Nat
           /\ \A i \in 1..Len(s) : Append(s, e)[i] = s[i]
           /\ Append(s, e)[Len(s) + 1] = e
  OBVIOUS

(* Queue.get: the head leaves and every other element moves up by one.     *)
LEMMA TailFacts ==
    ASSUME NEW S, NEW s \in Seq(S), s # <<>>
    PROVE  /\ Tail(s) \in Seq(S)
           /\ Len(s) \in Nat \ {0}
           /\ Len(Tail(s)) = Len(s) - 1
           /\ \A i \in 1..(Len(s) - 1) : Tail(s)[i] = s[i + 1]
           /\ Head(s) = s[1]
           /\ Head(s) \in S
  OBVIOUS

(* The invariant holds when open has constructed the worker.               *)
LEMMA InitIInv == Init => IInv
  <1> SUFFICES ASSUME Init PROVE IInv
    OBVIOUS
  <1> USE ThreadsAssumption DEF Init
  <1>1. TypeOK
    <2>1. inbox \in Seq(Threads \cup {Pill})
      OBVIOUS
    <2>2. pc \in [Threads -> ThreadStates] /\ reply \in [Threads -> Replies]
      BY DEF ThreadStates, Replies
    <2>3. QED
      BY <2>1, <2>2 DEF TypeOK, WorkerStates, Runtimes
  <1>2. \A x : ~Queued(x)
    BY DEF Queued
  <1>3. PendingIsOwned
    BY <1>2 DEF PendingIsOwned
  <1>4. RunsOnLiveBrowser /\ KilledOnlyWhenStopped /\ PillsMeanStopped
    BY <1>2 DEF RunsOnLiveBrowser, KilledOnlyWhenStopped, PillsMeanStopped
  <1>5. SetupFollowsLaunch /\ SharedOnlyWhenUp
    BY DEF SetupFollowsLaunch, SharedOnlyWhenUp
  <1>6. QED
    BY <1>1, <1>3, <1>4, <1>5 DEF IInv

(* Every step keeps the types.                                             *)
LEMMA NextTypeOK == IInv /\ [Next]_vars => TypeOK'
  <1> SUFFICES ASSUME IInv, [Next]_vars PROVE TypeOK'
    OBVIOUS
  <1> USE ThreadsAssumption
        DEF IInv, TypeOK, GoTo, WorkerStates, Runtimes, ThreadStates, Replies
  <1>1. CASE Start
    BY <1>1 DEF Start, StartSpawn, StartReturn, StartRaise
  <1>2. ASSUME NEW t \in Threads, Submit(t) PROVE TypeOK'
    <2>1. CASE SubmitPut(t)
      BY <2>1, AppendFacts DEF SubmitPut
    <2>2. CASE SubmitRefused(t) \/ SubmitCheck(t) \/ SubmitReturn(t)
      BY <2>2 DEF SubmitRefused, SubmitCheck, SubmitReturn
    <2>3. QED
      BY <1>2, <2>1, <2>2 DEF Submit
  <1>3. ASSUME NEW t \in Threads, Stop(t) PROVE TypeOK'
    <2>1. CASE StopPut(t)
      BY <2>1, AppendFacts DEF StopPut
    <2>2. CASE StopAgain(t) \/ StopCheck(t) \/ StopSet(t) \/ StopJoin(t)
      BY <2>2 DEF StopAgain, StopCheck, StopSet, StopJoin
    <2>3. QED
      BY <1>3, <2>1, <2>2 DEF Stop
  <1>4. CASE Run
    <2>1. CASE Launch
      BY <2>1 DEF Launch, LaunchNode, LaunchBrowser, MakePage, LaunchRaises
    <2>2. CASE TakePill
      BY <2>2, TailFacts DEF TakePill
    <2>3. CASE TakeTask
      <3>1. Head(inbox) \in Threads /\ Tail(inbox) \in Seq(Threads \cup {Pill})
        BY <2>3, TailFacts DEF TakeTask
      <3>2. QED
        BY <2>3, <3>1 DEF TakeTask
    <2>4. CASE RunTask
      BY <2>4 DEF RunTask
    <2>5. CASE Teardown
      BY <2>5 DEF Teardown
    <2>6. QED
      BY <1>4, <2>1, <2>2, <2>3, <2>4, <2>5 DEF Run
  <1>5. CASE UNCHANGED vars
    BY <1>5 DEF vars
  <1>6. QED
    BY <1>1, <1>2, <1>3, <1>4, <1>5 DEF Next

(* How the four actions that touch the inbox change what is queued.        *)
LEMMA PutQueues ==
    ASSUME TypeOK, NEW x \in Threads \cup {Pill}, inbox' = Append(inbox, x)
    PROVE  \A y : Queued(y)' <=> (Queued(y) \/ y = x)
  <1> USE DEF TypeOK, Queued
  <1>1. /\ Len(inbox') = Len(inbox) + 1
        /\ Len(inbox) \in Nat
        /\ \A i \in 1..Len(inbox) : inbox'[i] = inbox[i]
        /\ inbox'[Len(inbox) + 1] = x
    BY AppendFacts
  <1>2. QED
    BY <1>1

(* The worker's get takes exactly the head out of what is queued.          *)
LEMMA TakeDequeues ==
    ASSUME TypeOK, inbox # <<>>, inbox' = Tail(inbox)
    PROVE  \A y : Queued(y) <=> (Queued(y)' \/ y = Head(inbox))
  <1> USE DEF TypeOK, Queued
  <1>1. /\ Len(inbox) \in Nat \ {0}
        /\ Len(inbox') = Len(inbox) - 1
        /\ \A i \in 1..(Len(inbox) - 1) : inbox'[i] = inbox[i + 1]
        /\ Head(inbox) = inbox[1]
    BY TailFacts
  <1>2. ASSUME NEW y, Queued(y), y # Head(inbox) PROVE Queued(y)'
    <2>1. PICK i \in 1..Len(inbox) : inbox[i] = y
      BY <1>2
    <2>2. i # 1 /\ i - 1 \in 1..(Len(inbox) - 1) /\ inbox'[i - 1] = y
      BY <1>1, <1>2, <2>1
    <2>3. QED
      BY <1>1, <2>2
  <1>3. ASSUME NEW y, Queued(y)' PROVE Queued(y)
    <2>1. PICK i \in 1..Len(inbox') : inbox'[i] = y
      BY <1>3
    <2>2. i + 1 \in 1..Len(inbox) /\ inbox[i + 1] = y
      BY <1>1, <2>1
    <2>3. QED
      BY <2>2
  <1>4. Queued(Head(inbox))
    BY <1>1
  <1>5. QED
    BY <1>2, <1>3, <1>4

(* No step loses a call or runs it twice.                                  *)
LEMMA NextPendingIsOwned == IInv /\ [Next]_vars => PendingIsOwned'
  <1> SUFFICES ASSUME IInv, [Next]_vars PROVE PendingIsOwned'
    OBVIOUS
  <1> USE ThreadsAssumption DEF IInv, TypeOK, PendingIsOwned, GoTo
  <1>1. ASSUME UNCHANGED <<inbox, current, reply>>,
               \A t \in Threads : pc[t] = "await" /\ reply[t] = "pending" => pc'[t] = "await"
        PROVE  PendingIsOwned'
    BY <1>1 DEF Queued
  <1>2. CASE Start
    BY <1>1, <1>2 DEF Start, StartSpawn, StartReturn, StartRaise, SharedOnlyWhenUp
  <1>3. ASSUME NEW t \in Threads, Submit(t) PROVE PendingIsOwned'
    <2>1. CASE SubmitRefused(t) \/ SubmitCheck(t)
      <3>1. reply[t] # "pending" /\ reply'[t] # "pending"
        BY <2>1 DEF SubmitRefused, SubmitCheck, Holds, Replies
      <3>2. \A u \in Threads : reply'[u] = "pending" <=> reply[u] = "pending"
        BY <2>1, <3>1 DEF SubmitRefused, SubmitCheck
      <3>3. QED
        BY <2>1, <3>1, <3>2 DEF SubmitRefused, SubmitCheck, Holds, Queued
    <2>2. CASE SubmitPut(t)
      <3>1. \A y : Queued(y)' <=> (Queued(y) \/ y = t)
        BY <2>2, PutQueues DEF SubmitPut
      <3>2. /\ Len(inbox') = Len(inbox) + 1
            /\ Len(inbox) \in Nat
            /\ \A i \in 1..Len(inbox) : inbox'[i] = inbox[i]
            /\ inbox'[Len(inbox) + 1] = t
        BY <2>2, AppendFacts DEF SubmitPut
      <3>3. ~Queued(t) /\ current # t
        BY <2>2 DEF SubmitPut, SharedOnlyWhenUp
      <3>4. \A i, j \in 1..Len(inbox') : inbox'[i] = inbox'[j] /\ inbox'[i] # Pill => i = j
        BY <3>2, <3>3 DEF Queued
      <3>5. /\ current' = current
            /\ reply' = [reply EXCEPT ![t] = "pending"]
            /\ pc' = [pc EXCEPT ![t] = "await"]
        BY <2>2 DEF SubmitPut
      <3>6. QED
        BY <3>1, <3>3, <3>4, <3>5
    <2>3. CASE SubmitReturn(t)
      BY <1>1, <2>3 DEF SubmitReturn
    <2>4. QED
      BY <1>3, <2>1, <2>2, <2>3 DEF Submit
  <1>4. ASSUME NEW t \in Threads, Stop(t) PROVE PendingIsOwned'
    <2>1. CASE StopPut(t)
      <3>1. \A y : Queued(y)' <=> (Queued(y) \/ y = Pill)
        BY <2>1, PutQueues DEF StopPut
      <3>2. /\ Len(inbox') = Len(inbox) + 1
            /\ Len(inbox) \in Nat
            /\ \A i \in 1..Len(inbox) : inbox'[i] = inbox[i]
            /\ inbox'[Len(inbox) + 1] = Pill
        BY <2>1, AppendFacts DEF StopPut
      <3>3. \A i, j \in 1..Len(inbox') : inbox'[i] = inbox'[j] /\ inbox'[i] # Pill => i = j
        BY <3>2
      <3>4. /\ UNCHANGED <<current, reply>>
            /\ pc[t] = "stopPut"
            /\ pc' = [pc EXCEPT ![t] = "stopJoin"]
        BY <2>1 DEF StopPut
      <3>5. QED
        BY <3>1, <3>3, <3>4
    <2>2. CASE StopAgain(t) \/ StopCheck(t) \/ StopSet(t) \/ StopJoin(t)
      BY <1>1, <2>2 DEF StopAgain, StopCheck, StopSet, StopJoin, CallsStop, Holds
    <2>3. QED
      BY <1>4, <2>1, <2>2 DEF Stop
  <1>5. CASE Run
    <2>1. CASE Launch
      BY <1>1, <2>1 DEF Launch, LaunchNode, LaunchBrowser, MakePage, LaunchRaises
    <2>2. ASSUME inbox # <<>>, inbox' = Tail(inbox)
          PROVE  \A i, j \in 1..Len(inbox') :
                    inbox'[i] = inbox'[j] /\ inbox'[i] # Pill => i = j
      BY <2>2, TailFacts
    <2>3. CASE TakePill
      <3>1. \A y : Queued(y) <=> (Queued(y)' \/ y = Pill)
        BY <2>3, TakeDequeues DEF TakePill
      <3>2. QED
        BY <2>2, <2>3, <3>1 DEF TakePill
    <2>4. CASE TakeTask
      <3>1. PICK u \in Threads : u = Head(inbox) /\ u = inbox[1]
        BY <2>4, TailFacts DEF TakeTask
      <3>2. \A y : Queued(y) <=> (Queued(y)' \/ y = u)
        BY <2>4, <3>1, TakeDequeues DEF TakeTask
      <3>3. ~Queued(u)'
        <4> SUFFICES ASSUME NEW i \in 1..Len(inbox'), inbox'[i] = u PROVE FALSE
          BY DEF Queued
        <4>1. /\ Len(inbox) \in Nat \ {0}
              /\ i + 1 \in 2..Len(inbox)
              /\ inbox[i + 1] = u
          BY <2>4, TailFacts DEF TakeTask
        <4>2. QED
          BY <3>1, <4>1
      <3>4. current = None
        BY <2>4 DEF TakeTask, RunsOnLiveBrowser
      <3>5. current' = u /\ UNCHANGED <<reply, pc>>
        BY <2>4, <3>1 DEF TakeTask
      <3>6. \A i, j \in 1..Len(inbox') : inbox'[i] = inbox'[j] /\ inbox'[i] # Pill => i = j
        BY <2>2, <2>4 DEF TakeTask
      <3>7. QED
        BY <3>1, <3>2, <3>3, <3>4, <3>5, <3>6
    <2>5. CASE RunTask
      <3>1. current \in Threads
        BY <2>5 DEF RunTask, RunsOnLiveBrowser
      <3>2. ~Queued(None)
        BY DEF Queued
      <3>3. PICK r \in {"result", "raised"} : reply' = [reply EXCEPT ![current] = r]
        BY <2>5 DEF RunTask
      <3>4. current' = None /\ UNCHANGED <<inbox, pc>>
        BY <2>5 DEF RunTask
      <3>5. QED
        BY <3>1, <3>2, <3>3, <3>4 DEF Queued
    <2>6. CASE Teardown
      BY <1>1, <2>6 DEF Teardown
    <2>7. QED
      BY <1>5, <2>1, <2>3, <2>4, <2>5, <2>6 DEF Run
  <1>6. CASE UNCHANGED vars
    BY <1>1, <1>6 DEF vars
  <1>7. QED
    BY <1>2, <1>3, <1>4, <1>5, <1>6 DEF Next

(* Browser, pills, setup and thread positions move together.               *)
LEMMA NextRest ==
    IInv /\ [Next]_vars =>
        /\ RunsOnLiveBrowser'
        /\ KilledOnlyWhenStopped'
        /\ PillsMeanStopped'
        /\ SetupFollowsLaunch'
        /\ SharedOnlyWhenUp'
  <1> DEFINE Goal == /\ RunsOnLiveBrowser
                     /\ KilledOnlyWhenStopped
                     /\ PillsMeanStopped
                     /\ SetupFollowsLaunch
                     /\ SharedOnlyWhenUp
  <1> SUFFICES ASSUME IInv, [Next]_vars PROVE Goal'
    OBVIOUS
  <1> USE ThreadsAssumption
        DEF IInv, TypeOK, GoTo, Holds, CallsStop, WorkerStates, Runtimes, ThreadStates,
            RunsOnLiveBrowser, KilledOnlyWhenStopped, PillsMeanStopped,
            SetupFollowsLaunch, SharedOnlyWhenUp
  <1>1. (UNCHANGED inbox) => \A y : Queued(y)' <=> Queued(y)
    BY DEF Queued
  <1>2. CASE StartSpawn
    BY <1>1, <1>2 DEF StartSpawn
  <1>3. CASE StartReturn
    BY <1>1, <1>3 DEF StartReturn
  <1>4. CASE StartRaise
    BY <1>1, <1>4 DEF StartRaise
  <1>5. ASSUME NEW t \in Threads, Submit(t) PROVE Goal'
    <2>1. CASE SubmitRefused(t)
      BY <1>1, <2>1 DEF SubmitRefused
    <2>2. CASE SubmitCheck(t)
      BY <1>1, <2>2 DEF SubmitCheck
    <2>3. CASE SubmitPut(t)
      <3>1. Queued(Pill)' <=> Queued(Pill)
        BY <2>3, PutQueues DEF SubmitPut
      <3>2. QED
        BY <2>3, <3>1 DEF SubmitPut
    <2>4. CASE SubmitReturn(t)
      BY <1>1, <2>4 DEF SubmitReturn
    <2>5. QED
      BY <1>5, <2>1, <2>2, <2>3, <2>4 DEF Submit
  <1>6. ASSUME NEW t \in Threads, Stop(t) PROVE Goal'
    <2>1. CASE StopAgain(t)
      BY <1>1, <2>1 DEF StopAgain
    <2>2. CASE StopCheck(t)
      BY <1>1, <2>2 DEF StopCheck
    <2>3. CASE StopSet(t)
      BY <1>1, <2>3 DEF StopSet
    <2>4. CASE StopPut(t)
      BY <2>4 DEF StopPut
    <2>5. CASE StopJoin(t)
      BY <1>1, <2>5 DEF StopJoin
    <2>6. QED
      BY <1>6, <2>1, <2>2, <2>3, <2>4, <2>5 DEF Stop
  <1>7. CASE Launch
    <2>1. CASE LaunchNode
      BY <1>1, <2>1 DEF LaunchNode
    <2>2. CASE LaunchBrowser
      BY <1>1, <2>2 DEF LaunchBrowser
    <2>3. CASE MakePage
      BY <1>1, <2>3 DEF MakePage
    <2>4. ASSUME NEW at \in {"launchNode", "launchBrowser", "makePage"}, LaunchRaises(at)
          PROVE  Goal'
      BY <1>1, <2>4 DEF LaunchRaises
    <2>5. QED
      BY <1>7, <2>1, <2>2, <2>3, <2>4 DEF Launch
  <1>8. CASE TakePill
    <2>1. Queued(Pill)
      BY <1>8, TakeDequeues DEF TakePill
    <2>2. Queued(Pill)' => Queued(Pill)
      BY <2>1
    <2>3. QED
      BY <1>8, <2>1, <2>2 DEF TakePill
  <1>9. CASE TakeTask
    <2>1. Head(inbox) \in Threads
      BY <1>9, TailFacts DEF TakeTask
    <2>2. Queued(Pill)' => Queued(Pill)
      BY <1>9, TakeDequeues DEF TakeTask
    <2>3. QED
      BY <1>9, <2>1, <2>2 DEF TakeTask
  <1>10. CASE RunTask
    <2>1. current \in Threads /\ reply[current] = "pending" /\ pc[current] = "await"
      BY <1>10 DEF RunTask, PendingIsOwned
    <2>2. PICK r \in {"result", "raised"} : reply' = [reply EXCEPT ![current] = r]
      BY <1>10 DEF RunTask
    <2>3. QED
      BY <1>1, <1>10, <2>1, <2>2 DEF RunTask
  <1>11. CASE Teardown
    BY <1>1, <1>11 DEF Teardown
  <1>12. CASE UNCHANGED vars
    BY <1>1, <1>12 DEF vars
  <1>13. QED
    BY <1>2, <1>3, <1>4, <1>5, <1>6, <1>7, <1>8, <1>9, <1>10, <1>11, <1>12
       DEF Next, Start, Run

(* The inductive invariant holds in every reachable state.                 *)
THEOREM Invariance == Spec => []IInv
  <1>1. Init => IInv
    BY InitIInv
  <1>2. IInv /\ [Next]_vars => IInv'
    BY NextTypeOK, NextPendingIsOwned, NextRest DEF IInv
  <1>3. QED
    BY <1>1, <1>2, PTL DEF Spec

(* Types are correct for every set of request threads.                     *)
THEOREM TypeCorrect == Spec => []TypeOK
  <1>1. IInv => TypeOK
    BY DEF IInv
  <1>2. QED
    BY Invariance, <1>1, PTL

(* No call that was submitted is lost or run twice: a future is unresolved *)
(* exactly while its task is in the inbox, once, or is the one running.    *)
THEOREM NoCallLost == Spec => []PendingIsOwned
  <1>1. IInv => PendingIsOwned
    BY DEF IInv
  <1>2. QED
    BY Invariance, <1>1, PTL

(* A call runs only on a live browser, and the browser is killed only      *)
(* after a stop and never under a running call.                            *)
THEOREM BrowserOutlivesCalls == Spec => [](RunsOnLiveBrowser /\ KilledOnlyWhenStopped)
  <1>1. IInv => RunsOnLiveBrowser /\ KilledOnlyWhenStopped
    BY DEF IInv
  <1>2. QED
    BY Invariance, <1>1, PTL

-----------------------------------------------------------------------------
(* What answers and stops rest on.                                         *)

(* No step loses a stop.                                                   *)
LEMMA NextStop == IInv /\ StopIsOnItsWay /\ [Next]_vars => StopIsOnItsWay'
  <1> SUFFICES ASSUME IInv, StopIsOnItsWay, [Next]_vars,
                      stopped', worker' \notin {"teardown", "exited"}
               PROVE  Queued(Pill)' \/ \E t \in Threads : pc'[t] = "stopPut"
    BY DEF StopIsOnItsWay
  <1> USE DEF IInv, TypeOK, StopIsOnItsWay, GoTo
  <1>1. ASSUME UNCHANGED <<inbox, stopped>>, worker \notin {"teardown", "exited"},
               \A t \in Threads : pc[t] = "stopPut" => pc'[t] = "stopPut"
        PROVE  Queued(Pill)' \/ \E t \in Threads : pc'[t] = "stopPut"
    BY <1>1 DEF Queued
  <1>2. CASE Start
    BY <1>1, <1>2, ThreadsAssumption DEF Start, StartSpawn, StartReturn, StartRaise, SharedOnlyWhenUp
  <1>3. ASSUME NEW u \in Threads, Submit(u)
        PROVE  Queued(Pill)' \/ \E t \in Threads : pc'[t] = "stopPut"
    <2>1. CASE SubmitPut(u)
      <3>1. Queued(Pill) => Queued(Pill)'
        BY <2>1, PutQueues DEF SubmitPut
      <3>2. \A t \in Threads : pc[t] = "stopPut" => pc'[t] = "stopPut"
        BY <2>1 DEF SubmitPut
      <3>3. UNCHANGED <<stopped, worker>>
        BY <2>1 DEF SubmitPut
      <3>4. QED
        BY <3>1, <3>2, <3>3
    <2>2. CASE SubmitRefused(u) \/ SubmitCheck(u) \/ SubmitReturn(u)
      BY <1>1, <2>2 DEF SubmitRefused, SubmitCheck, SubmitReturn, Holds
    <2>3. QED
      BY <1>3, <2>1, <2>2 DEF Submit
  <1>4. ASSUME NEW u \in Threads, Stop(u)
        PROVE  Queued(Pill)' \/ \E t \in Threads : pc'[t] = "stopPut"
    <2>1. CASE StopSet(u)
      BY <2>1 DEF StopSet
    <2>2. CASE StopPut(u)
      BY <2>2, PutQueues DEF StopPut
    <2>3. CASE StopAgain(u) \/ StopCheck(u) \/ StopJoin(u)
      BY <1>1, <2>3 DEF StopAgain, StopCheck, StopJoin, CallsStop, Holds
    <2>4. QED
      BY <1>4, <2>1, <2>2, <2>3 DEF Stop
  <1>5. CASE Run
    <2>1. CASE Launch \/ RunTask
      BY <1>1, <2>1 DEF Launch, LaunchNode, LaunchBrowser, MakePage, LaunchRaises, RunTask
    <2>2. CASE TakeTask
      <3>1. Queued(Pill) => Queued(Pill)'
        BY <2>2, TakeDequeues DEF TakeTask
      <3>2. UNCHANGED <<stopped, pc>> /\ worker = "idle"
        BY <2>2 DEF TakeTask
      <3>3. QED
        BY <3>1, <3>2
    <2>3. CASE TakePill \/ Teardown
      BY <2>3 DEF TakePill, Teardown
    <2>4. QED
      BY <1>5, <2>1, <2>2, <2>3 DEF Run
  <1>6. CASE UNCHANGED vars
    BY <1>1, <1>6 DEF vars
  <1>7. QED
    BY <1>2, <1>3, <1>4, <1>5, <1>6 DEF Next

(* A stop is never lost, for every set of request threads: the pill is in  *)
(* the inbox or about to be put until the worker has seen one.             *)
THEOREM StopsArrive == Spec => []StopIsOnItsWay
  <1>1. Init => StopIsOnItsWay
    BY DEF Init, StopIsOnItsWay
  <1>2. QED
    BY <1>1, Invariance, NextStop, PTL DEF Spec

(* A put, of a call or of a pill, leaves the places ahead of it as they    *)
(* are, and a get moves every call one place up.                           *)
LEMMA PutKeepsPlaces ==
    ASSUME IInv, NEW x \in Threads \cup {Pill}, inbox' = Append(inbox, x), worker' = worker,
           NEW t \in Threads, NEW i \in DOMAIN inbox, AheadAt(t, i)
    PROVE  i \in DOMAIN inbox' /\ AheadAt(t, i)' /\ StepsTo(i)' = StepsTo(i)
  <1>1. /\ inbox \in Seq(Threads \cup {Pill}) /\ inbox' \in Seq(Threads \cup {Pill})
        /\ Len(inbox') = Len(inbox) + 1 /\ Len(inbox) \in Nat
        /\ \A j \in 1..Len(inbox) : inbox'[j] = inbox[j]
    BY AppendFacts DEF IInv, TypeOK
  <1>2. DOMAIN inbox = 1..Len(inbox) /\ DOMAIN inbox' = 1..Len(inbox')
    BY <1>1
  <1>3. i \in DOMAIN inbox' /\ \A j \in 1..i : inbox'[j] = inbox[j]
    BY <1>1, <1>2
  <1>4. i \in 1..i
    BY <1>1, <1>2
  <1>5. QED
    BY <1>3, <1>4 DEF AheadAt, StepsTo

LEMMA TakeMovesUp ==
    ASSUME IInv, TakeTask, NEW t \in Threads, NEW i \in DOMAIN inbox, AheadAt(t, i)
    PROVE  \/ current' = t
           \/ /\ i - 1 \in DOMAIN inbox'
              /\ AheadAt(t, i - 1)'
              /\ StepsTo(i - 1)' < StepsTo(i) /\ StepsTo(i - 1)' <= StepsTo(i)
  <1>1. /\ inbox' = Tail(inbox) /\ inbox # <<>> /\ current' = Head(inbox)
        /\ worker = "idle" /\ worker' = "running"
    BY DEF TakeTask
  <1>2. /\ inbox \in Seq(Threads \cup {Pill}) /\ inbox' \in Seq(Threads \cup {Pill})
        /\ Len(inbox) \in Nat \ {0} /\ Len(inbox') = Len(inbox) - 1
        /\ \A j \in 1..(Len(inbox) - 1) : inbox'[j] = inbox[j + 1]
        /\ current' = inbox[1]
    BY <1>1, TailFacts DEF IInv, TypeOK
  <1>3. DOMAIN inbox = 1..Len(inbox) /\ DOMAIN inbox' = 1..Len(inbox')
    BY <1>2
  <1>4. CASE i = 1
    BY <1>2, <1>4 DEF AheadAt
  <1>5. CASE i # 1
    <2>1. i - 1 \in DOMAIN inbox' /\ i \in Nat /\ i >= 2
      BY <1>2, <1>3, <1>5
    <2>2. inbox'[i - 1] = t
      BY <1>2, <1>3, <2>1 DEF AheadAt
    <2>3. \A j \in 1..(i - 1) : inbox'[j] # Pill
      <3> SUFFICES ASSUME NEW j \in 1..(i - 1) PROVE inbox'[j] # Pill
        OBVIOUS
      <3>1. j + 1 \in 1..i /\ j \in 1..(Len(inbox) - 1)
        BY <1>2, <1>3, <2>1
      <3>2. QED
        BY <1>2, <3>1 DEF AheadAt
    <2>4. 2 * (i - 1) + 1 < 2 * i + 0 /\ 2 * (i - 1) + 1 <= 2 * i + 0
      BY <2>1
    <2>5. StepsTo(i - 1)' < StepsTo(i) /\ StepsTo(i - 1)' <= StepsTo(i)
      BY <1>1, <2>4 DEF StepsTo
    <2>6. QED
      BY <1>1, <2>1, <2>2, <2>3, <2>5 DEF AheadAt
  <1>6. QED
    BY <1>4, <1>5

(* For every set of request threads and an inbox of any length, a call     *)
(* ahead of the pills is neither overtaken nor dropped, and is answered    *)
(* after as many steps of the worker as StepsTo says, and one more.        *)
THEOREM CallsServedInTurn == Spec => ServedInTurn
  <1> DEFINE Closer(t, i) ==
                \/ current' = t
                \/ \E k \in DOMAIN inbox' :
                      /\ AheadAt(t, k)'
                      /\ StepsTo(k)' <= StepsTo(i)
                      /\ worker' # worker => StepsTo(k)' < StepsTo(i)
             Turn == \A t \in Threads :
                        /\ \A i \in DOMAIN inbox : AheadAt(t, i) => Closer(t, i)
                        /\ current = t /\ current' # t => reply'[t] \in {"result", "raised"}
  <1>1. IInv /\ [Next]_vars => [Turn]_vars
    <2> SUFFICES ASSUME IInv, Next PROVE Turn
      OBVIOUS
    <2>1. ASSUME NEW t \in Threads, NEW i \in DOMAIN inbox, AheadAt(t, i) PROVE Closer(t, i)
      <3>1. worker \in {"idle", "running"} /\ i \in Nat
        BY <2>1 DEF AheadAt, IInv, TypeOK
      <3>2. StepsTo(i) \in Nat
        BY <3>1 DEF StepsTo
      <3>3. ASSUME UNCHANGED <<inbox, worker>> PROVE Closer(t, i)
        <4>1. AheadAt(t, i)' /\ StepsTo(i)' = StepsTo(i)
          BY <2>1, <3>3 DEF AheadAt, StepsTo
        <4>2. QED
          BY <2>1, <3>2, <3>3, <4>1
      <3>4. ASSUME NEW x \in Threads \cup {Pill}, inbox' = Append(inbox, x), worker' = worker
            PROVE  Closer(t, i)
        BY <2>1, <3>2, <3>4, PutKeepsPlaces
      <3>5. CASE Start
        BY <3>1, <3>3, <3>5 DEF Start, StartSpawn, StartReturn, StartRaise, IInv, SharedOnlyWhenUp
      <3>6. ASSUME NEW u \in Threads, Submit(u) \/ Stop(u) PROVE Closer(t, i)
        <4>1. CASE SubmitPut(u) \/ StopPut(u)
          <5>1. \E x \in Threads \cup {Pill} : inbox' = Append(inbox, x)
            BY <4>1 DEF SubmitPut, StopPut
          <5>2. worker' = worker
            BY <4>1 DEF SubmitPut, StopPut
          <5>3. QED
            BY <3>4, <5>1, <5>2
        <4>2. CASE ~(SubmitPut(u) \/ StopPut(u))
          <5>1. UNCHANGED <<inbox, worker>>
            BY <3>6, <4>2 DEF Submit, SubmitRefused, SubmitCheck, SubmitReturn, Stop, StopAgain,
               StopCheck, StopSet, StopJoin
          <5>2. QED
            BY <3>3, <5>1
        <4>3. QED
          BY <4>1, <4>2
      <3>7. CASE Run
        <4>1. CASE TakeTask
          <5>1. \/ current' = t
                \/ /\ i - 1 \in DOMAIN inbox'
                   /\ AheadAt(t, i - 1)'
                   /\ StepsTo(i - 1)' < StepsTo(i) /\ StepsTo(i - 1)' <= StepsTo(i)
            BY <2>1, <4>1, TakeMovesUp
          <5>2. QED
            BY <5>1
        <4>2. CASE RunTask
          <5>1. worker = "running" /\ worker' = "idle" /\ inbox' = inbox
            BY <4>2 DEF RunTask
          <5>2. AheadAt(t, i)'
            BY <2>1, <5>1 DEF AheadAt
          <5>3. StepsTo(i)' < StepsTo(i) /\ StepsTo(i)' <= StepsTo(i)
            BY <3>1, <5>1 DEF StepsTo
          <5>4. i \in DOMAIN inbox'
            BY <2>1, <5>1
          <5>5. QED
            BY <5>2, <5>3, <5>4
        <4>3. ~TakePill
          <5>1. TakePill => inbox # <<>> /\ Head(inbox) = Pill
            BY DEF TakePill
          <5>2. inbox # <<>> => Head(inbox) = inbox[1]
            BY TailFacts DEF IInv, TypeOK
          <5>3. 1 \in 1..i
            BY <2>1 DEF IInv, TypeOK
          <5>4. QED
            BY <2>1, <5>1, <5>2, <5>3 DEF AheadAt
        <4>4. ~Launch /\ ~Teardown
          BY <3>1 DEF Launch, LaunchNode, LaunchBrowser, MakePage, LaunchRaises, Teardown
        <4>5. QED
          BY <3>7, <4>1, <4>2, <4>3, <4>4 DEF Run
      <3>8. QED
        BY <3>5, <3>6, <3>7 DEF Next
    <2>2. ASSUME NEW t \in Threads, current = t, current' # t
          PROVE  reply'[t] \in {"result", "raised"}
      <3>1. worker = "running"
        BY <2>2, ThreadsAssumption DEF IInv, RunsOnLiveBrowser
      <3>2. RunTask
        BY <2>2, <3>1 DEF Next, Start, StartSpawn, StartReturn, StartRaise, Submit, SubmitRefused,
           SubmitCheck, SubmitPut, SubmitReturn, Stop, StopAgain, StopCheck, StopSet, StopPut,
           StopJoin, Run, Launch, LaunchNode, LaunchBrowser, MakePage, LaunchRaises, TakePill,
           TakeTask, Teardown
      <3>3. QED
        BY <2>2, <3>2 DEF RunTask, IInv, TypeOK
    <2>3. QED
      BY <2>1, <2>2
  <1>2. QED
    <2>1. []IInv /\ [][Next]_vars => [][Turn]_vars
      BY <1>1, PTL
    <2>2. [][Turn]_vars <=> ServedInTurn
      BY DEF ServedInTurn
    <2>3. QED
      BY <2>1, <2>2, Invariance, PTL DEF Spec

-----------------------------------------------------------------------------
(* Refinement of HeldSession.                                              *)

Calls == [t \in Threads |-> Call(t)]

(* The abstract call of one thread changes with that thread's reply alone. *)
LEMMA CallsOfOne ==
    ASSUME TypeOK, NEW t \in Threads, NEW r \in Replies, NEW c,
           reply' = [reply EXCEPT ![t] = r],
           c = (CASE r = "pending" -> "asked"
                  [] r \in {"result", "raised"} -> "answered"
                  [] OTHER -> r)
    PROVE  Calls' = [Calls EXCEPT ![t] = c]
  BY DEF TypeOK, Calls, Call, Replies

(* A step that resolves or creates no future is invisible to the calls.    *)
LEMMA CallsUnchanged == (UNCHANGED reply) => UNCHANGED Calls
  BY DEF Calls, Call

(* A worker just constructed is a session that is opening.                 *)
LEMMA InitRefines == Init => Held!Init
  BY DEF Init, Held!Init, Phase, Call

(* Every step of a thread is a step of the held session or invisible to it.*)
LEMMA NextRefines == IInv /\ [Next]_vars => [Held!Next]_(Held!vars)
  <1> SUFFICES ASSUME IInv, [Next]_vars PROVE Held!Next \/ UNCHANGED Held!vars
    BY DEF Held!vars
  <1> USE ThreadsAssumption DEF IInv, TypeOK, GoTo
  <1>1. ASSUME UNCHANGED <<stopped, current, reply>>, Phase' = Phase
        PROVE  UNCHANGED Held!vars
    BY <1>1, CallsUnchanged DEF Held!vars, Calls
  <1>2. CASE Start
    <2>1. UNCHANGED <<stopped, current, reply>>
      BY <1>2 DEF Start, StartSpawn, StartReturn, StartRaise
    <2>2. Phase' = Phase
      BY <1>2 DEF Start, StartSpawn, StartReturn, StartRaise, Phase, SharedOnlyWhenUp
    <2>3. QED
      BY <1>1, <2>1, <2>2
  <1>3. ASSUME NEW t \in Threads, Submit(t)
        PROVE  Held!Next \/ UNCHANGED Held!vars
    <2>1. Phase' = Phase /\ UNCHANGED <<stopped, current>>
      BY <1>3 DEF Submit, SubmitRefused, SubmitCheck, SubmitPut, SubmitReturn, Phase
    <2>2. CASE SubmitRefused(t)
      <3>1. Calls' = [Calls EXCEPT ![t] = "refused"]
        BY <2>2, CallsOfOne DEF SubmitRefused, Replies
      <3>2. stopped /\ reply[t] # "pending"
        BY <2>2 DEF SubmitRefused, Holds, PendingIsOwned
      <3>3. CASE reply[t] = "refused"
        BY <1>1, <2>1, <2>2, <3>3 DEF SubmitRefused
      <3>4. CASE reply[t] # "refused"
        <4>1. Calls[t] \in {"none", "answered"}
          BY <3>2, <3>4 DEF Calls, Call, Replies
        <4>2. Held!Refuse(t)
          BY <2>1, <3>1, <3>2, <4>1 DEF Held!Refuse, Calls
        <4>3. QED
          BY <4>2 DEF Held!Next
      <3>5. QED
        BY <3>3, <3>4
    <2>3. CASE SubmitCheck(t)
      <3>1. Calls' = [Calls EXCEPT ![t] = "none"]
        BY <2>3, CallsOfOne DEF SubmitCheck, Replies
      <3>2. reply[t] # "pending"
        BY <2>3 DEF SubmitCheck, Holds, PendingIsOwned
      <3>3. CASE reply[t] = "none"
        BY <1>1, <2>1, <2>3, <3>3 DEF SubmitCheck
      <3>4. CASE reply[t] # "none"
        <4>1. Calls[t] \in {"answered", "refused"}
          BY <3>2, <3>4 DEF Calls, Call, Replies
        <4>2. Held!Forget(t)
          BY <2>1, <3>1, <4>1 DEF Held!Forget, Calls
        <4>3. QED
          BY <4>2 DEF Held!Next
      <3>5. QED
        BY <3>3, <3>4
    <2>4. CASE SubmitPut(t)
      <3>1. Calls' = [Calls EXCEPT ![t] = "asked"]
        BY <2>4, CallsOfOne DEF SubmitPut, Replies
      <3>2. reply[t] = "none" /\ setup = "ok"
        BY <2>4 DEF SubmitPut, SharedOnlyWhenUp
      <3>3. Calls[t] = "none" /\ Phase \in {"open", "closed"}
        BY <3>2 DEF Calls, Call, Phase, SetupFollowsLaunch, WorkerStates
      <3>4. Held!Ask(t)
        BY <2>1, <3>1, <3>3 DEF Held!Ask, Calls
      <3>5. QED
        BY <3>4 DEF Held!Next
    <2>5. CASE SubmitReturn(t)
      BY <1>1, <2>1, <2>5 DEF SubmitReturn
    <2>6. QED
      BY <1>3, <2>2, <2>3, <2>4, <2>5 DEF Submit
  <1>4. ASSUME NEW t \in Threads, Stop(t)
        PROVE  Held!Next \/ UNCHANGED Held!vars
    <2>1. Phase' = Phase /\ UNCHANGED <<current, reply>>
      BY <1>4 DEF Stop, StopAgain, StopCheck, StopSet, StopPut, StopJoin, Phase
    <2>2. CASE StopSet(t)
      <3>1. Held!RequestClose
        BY <2>1, <2>2, CallsUnchanged DEF StopSet, Held!RequestClose, Calls
      <3>2. QED
        BY <3>1 DEF Held!Next
    <2>3. CASE ~StopSet(t)
      BY <1>1, <1>4, <2>1, <2>3 DEF Stop, StopAgain, StopCheck, StopPut, StopJoin
    <2>4. QED
      BY <2>2, <2>3
  <1>5. CASE Launch
    <2>1. CASE LaunchNode \/ LaunchBrowser
      BY <1>1, <2>1 DEF LaunchNode, LaunchBrowser, Phase
    <2>2. CASE MakePage
      <3>1. Phase = "opening" /\ Phase' = "open"
        BY <2>2 DEF MakePage, Phase
      <3>2. Held!Opened
        BY <2>2, <3>1, CallsUnchanged DEF MakePage, Held!Opened, Calls
      <3>3. QED
        BY <3>2 DEF Held!Next
    <2>3. ASSUME NEW at \in {"launchNode", "launchBrowser", "makePage"}, LaunchRaises(at)
          PROVE  Held!Next
      <3>1. Phase = "opening" /\ Phase' = "failed"
        BY <2>3 DEF LaunchRaises, Phase
      <3>2. Held!OpenFailed
        BY <2>3, <3>1, CallsUnchanged DEF LaunchRaises, Held!OpenFailed, Calls
      <3>3. QED
        BY <3>2 DEF Held!Next
    <2>4. QED
      BY <1>5, <2>1, <2>2, <2>3 DEF Launch
  <1>6. CASE TakePill
    <2>1. stopped /\ current = None
      <3>1. Queued(Pill)
        BY <1>6, TakeDequeues DEF TakePill
      <3>2. QED
        BY <1>6, <3>1 DEF TakePill, PillsMeanStopped, RunsOnLiveBrowser
    <2>2. Phase = "open" /\ Phase' = "closed"
      BY <1>6 DEF TakePill, Phase
    <2>3. Held!Close
      BY <1>6, <2>1, <2>2, CallsUnchanged DEF TakePill, Held!Close, Calls
    <2>4. QED
      BY <2>3 DEF Held!Next
  <1>7. CASE TakeTask
    <2>1. PICK u \in Threads : u = Head(inbox)
      BY <1>7, TailFacts DEF TakeTask
    <2>2. reply[u] = "pending"
      BY <1>7, <2>1, TakeDequeues DEF TakeTask, PendingIsOwned
    <2>3. Calls[u] = "asked" /\ current = None
      BY <1>7, <2>2 DEF Calls, Call, TakeTask, RunsOnLiveBrowser
    <2>4. Phase = "open" /\ Phase' = "open"
      BY <1>7 DEF TakeTask, Phase
    <2>5. Held!Serve(u)
      BY <1>7, <2>1, <2>3, <2>4, CallsUnchanged DEF TakeTask, Held!Serve, Calls
    <2>6. QED
      BY <2>5 DEF Held!Next
  <1>8. CASE RunTask
    <2>1. current \in Threads
      BY <1>8 DEF RunTask, RunsOnLiveBrowser
    <2>2. PICK r \in {"result", "raised"} : reply' = [reply EXCEPT ![current] = r]
      BY <1>8 DEF RunTask
    <2>3. Calls' = [Calls EXCEPT ![current] = "answered"]
      BY <2>1, <2>2, CallsOfOne DEF Replies
    <2>4. Phase = "open" /\ Phase' = "open"
      BY <1>8 DEF RunTask, Phase
    <2>5. Held!Answer(current)
      BY <1>8, <2>3, <2>4 DEF RunTask, Held!Answer, Calls
    <2>6. QED
      BY <2>1, <2>5 DEF Held!Next
  <1>9. CASE Teardown
    <2>1. setup = "ok"
      BY <1>9 DEF Teardown, SetupFollowsLaunch
    <2>2. Phase' = Phase
      BY <1>9, <2>1 DEF Teardown, Phase
    <2>3. QED
      BY <1>1, <1>9, <2>2 DEF Teardown
  <1>10. CASE UNCHANGED vars
    BY <1>1, <1>10 DEF vars, Phase
  <1>11. QED
    BY <1>2, <1>3, <1>4, <1>5, <1>6, <1>7, <1>8, <1>9, <1>10 DEF Next, Run

(* The worker thread, its inbox and its futures keep the promise of a held *)
(* session: calls are served one at a time, answered at most once and only *)
(* while the session is open, refused only after a stop, and no close cuts *)
(* a call that is running.                                                 *)
THEOREM ImplementsHeldSession == Spec => HeldSessionSpec
  <1>1. Init => Held!Init
    BY InitRefines
  <1>2. IInv /\ [Next]_vars => [Held!Next]_(Held!vars)
    BY NextRefines
  <1>3. QED
    BY <1>1, <1>2, Invariance, PTL DEF Spec, HeldSessionSpec, Held!Spec
=============================================================================
