--------------------------- MODULE SessionWorker ---------------------------
(***************************************************************************)
(* Session__Worker: the one background thread that owns the Playwright     *)
(* runtime, the browser and the page of a held session, and the request    *)
(* threads that start it, submit calls to it and stop it.                  *)
(*                                                                         *)
(* The worker is created by Session__Registry.open, whose launch and       *)
(* teardown closures run on the worker thread; the steps of the launch     *)
(* closure (start the Node runtime, launch the browser and register it,    *)
(* create the page) are separate steps here because each of them can raise *)
(* and leaves something different behind.                                  *)
(*                                                                         *)
(* One action is one statement of a thread that another thread can see.    *)
(* A request thread has one call outstanding, so a task in the inbox is    *)
(* named by the thread that waits for it.                                  *)
(***************************************************************************)
EXTENDS Naturals, Sequences

CONSTANTS Threads,  \* the request threads that may hold the worker
          Opener,   \* the one that runs Session__Registry.open
          Pill,     \* _POISON_PILL
          None      \* the worker runs no task

ASSUME ThreadsAssumption ==
    /\ Opener \in Threads
    /\ Pill \notin Threads
    /\ None \notin Threads \cup {Pill}

VARIABLES
    inbox,     \* _inbox: the tasks and pills put and not yet taken
    stopped,   \* _stopped
    setup,     \* _setup_done and _setup_error: "pending", "ok" or "error"
    worker,    \* where the worker thread is in _run
    current,   \* the thread whose task the worker runs, or None
    runtime,   \* the Playwright processes: see Runtimes
    shared,    \* open has returned: other threads can hold the worker
    pc,        \* pc[t]: where request thread t is in start, submit or stop
    reply      \* reply[t]: the future of thread t's latest submit

vars == <<inbox, stopped, setup, worker, current, runtime, shared, pc, reply>>

WorkerStates == {"unstarted", "launchNode", "launchBrowser", "makePage",
                 "idle", "running", "teardown", "exited"}

(* "node": sync_playwright().start() has returned and no browser launched; *)
(* "registered": browser and runtime are in the launcher's table; "killed":*)
(* Browser__Launcher.stop has taken them out of it and killed them.        *)
Runtimes == {"none", "node", "registered", "killed"}

ThreadStates == {"start", "setupWait", "cleanup", "idle", "submitPut",
                 "await", "stopSet", "stopPut", "stopJoin"}

Replies == {"none", "pending", "result", "raised", "refused"}

Init ==
    /\ inbox = <<>>
    /\ stopped = FALSE
    /\ setup = "pending"
    /\ worker = "unstarted"
    /\ current = None
    /\ runtime = "none"
    /\ shared = FALSE
    /\ pc = [t \in Threads |-> IF t = Opener THEN "start" ELSE "idle"]
    /\ reply = [t \in Threads |-> "none"]

GoTo(t, to) == pc' = [pc EXCEPT ![t] = to]

-----------------------------------------------------------------------------
(* start(), run by the opener inside Session__Registry.open.               *)

StartSpawn ==
    /\ pc[Opener] = "start"
    /\ worker' = "launchNode"
    /\ GoTo(Opener, "setupWait")
    /\ UNCHANGED <<inbox, stopped, setup, current, runtime, shared, reply>>

(* start returns, and open stores the session where others find it.        *)
StartReturn ==
    /\ pc[Opener] = "setupWait"
    /\ setup = "ok"
    /\ shared' = TRUE
    /\ GoTo(Opener, "idle")
    /\ UNCHANGED <<inbox, stopped, setup, worker, current, runtime, reply>>

(* A start that raises past open's handler.                                *)
StartRaise_Escapes ==
    /\ pc[Opener] = "setupWait"
    /\ setup \in {"pending", "error"}
    /\ GoTo(Opener, "idle")
    /\ UNCHANGED <<inbox, stopped, setup, worker, current, runtime, shared, reply>>

(* start raises: the launch's own exception, or a TimeoutError while the   *)
(* launch is still going on. open's handler then calls stop().             *)
StartRaise ==
    /\ pc[Opener] = "setupWait"
    /\ setup \in {"pending", "error"}
    /\ GoTo(Opener, "cleanup")
    /\ UNCHANGED <<inbox, stopped, setup, worker, current, runtime, shared, reply>>

-----------------------------------------------------------------------------
(* submit()                                                                *)

Holds(t) == shared /\ pc[t] = "idle"

SubmitRefused(t) ==
    /\ Holds(t)
    /\ stopped
    /\ reply' = [reply EXCEPT ![t] = "refused"]
    /\ UNCHANGED <<inbox, stopped, setup, worker, current, runtime, shared, pc>>

SubmitCheck(t) ==
    /\ Holds(t)
    /\ ~stopped
    /\ reply' = [reply EXCEPT ![t] = "none"]
    /\ GoTo(t, "submitPut")
    /\ UNCHANGED <<inbox, stopped, setup, worker, current, runtime, shared>>

SubmitPut(t) ==
    /\ pc[t] = "submitPut"
    /\ inbox' = Append(inbox, t)
    /\ reply' = [reply EXCEPT ![t] = "pending"]
    /\ GoTo(t, "await")
    /\ UNCHANGED <<stopped, setup, worker, current, runtime, shared>>

(* fut.result() has no timeout: it returns when the future is resolved.    *)
SubmitReturn(t) ==
    /\ pc[t] = "await"
    /\ reply[t] \in {"result", "raised"}
    /\ GoTo(t, "idle")
    /\ UNCHANGED <<inbox, stopped, setup, worker, current, runtime, shared, reply>>

-----------------------------------------------------------------------------
(* stop(), called by any holder or by the opener's exception handler.      *)

CallsStop(t) == Holds(t) \/ pc[t] = "cleanup"

StopAgain(t) ==
    /\ CallsStop(t)
    /\ stopped
    /\ GoTo(t, "idle")
    /\ UNCHANGED <<inbox, stopped, setup, worker, current, runtime, shared, reply>>

StopCheck(t) ==
    /\ CallsStop(t)
    /\ ~stopped
    /\ GoTo(t, "stopSet")
    /\ UNCHANGED <<inbox, stopped, setup, worker, current, runtime, shared, reply>>

StopSet(t) ==
    /\ pc[t] = "stopSet"
    /\ stopped' = TRUE
    /\ GoTo(t, "stopPut")
    /\ UNCHANGED <<inbox, setup, worker, current, runtime, shared, reply>>

(* A stop that forgets the pill when calls are queued.                     *)
StopPut_OnlyIfEmpty(t) ==
    /\ pc[t] = "stopPut"
    /\ inbox' = IF inbox = <<>> THEN Append(inbox, Pill) ELSE inbox
    /\ GoTo(t, "stopJoin")
    /\ UNCHANGED <<stopped, setup, worker, current, runtime, shared, reply>>

(* A stop whose pill goes ahead of the calls that wait.                    *)
StopPut_First(t) ==
    /\ pc[t] = "stopPut"
    /\ inbox' = <<Pill>> \o inbox
    /\ GoTo(t, "stopJoin")
    /\ UNCHANGED <<stopped, setup, worker, current, runtime, shared, reply>>

StopPut(t) ==
    /\ pc[t] = "stopPut"
    /\ inbox' = Append(inbox, Pill)
    /\ GoTo(t, "stopJoin")
    /\ UNCHANGED <<stopped, setup, worker, current, runtime, shared, reply>>

(* A stop that kills the browser itself when the join times out.           *)
StopJoin_Kills(t) ==
    /\ pc[t] = "stopJoin"
    /\ GoTo(t, "idle")
    /\ runtime' = IF runtime = "registered" THEN "killed" ELSE runtime
    /\ UNCHANGED <<inbox, stopped, setup, worker, current, shared, reply>>

(* join(timeout) returns when the thread has ended or the timeout expires, *)
(* and stop() does not tell which.                                         *)
StopJoin(t) ==
    /\ pc[t] = "stopJoin"
    /\ GoTo(t, "idle")
    /\ UNCHANGED <<inbox, stopped, setup, worker, current, runtime, shared, reply>>

-----------------------------------------------------------------------------
(* _run(): the worker thread.                                              *)

(* The launch closure raises at the given place: _run records the error    *)
(* and returns, and the teardown closure is never called.                  *)
LaunchRaises(at) ==
    /\ worker = at
    /\ setup' = "error"
    /\ worker' = "exited"
    /\ UNCHANGED <<inbox, stopped, current, runtime, shared, pc, reply>>

LaunchNode ==
    /\ worker = "launchNode"
    /\ runtime' = "node"
    /\ worker' = "launchBrowser"
    /\ UNCHANGED <<inbox, stopped, setup, current, shared, pc, reply>>

LaunchBrowser ==
    /\ worker = "launchBrowser"
    /\ runtime' = "registered"
    /\ worker' = "makePage"
    /\ UNCHANGED <<inbox, stopped, setup, current, shared, pc, reply>>

MakePage ==
    /\ worker = "makePage"
    /\ setup' = "ok"
    /\ worker' = "idle"
    /\ UNCHANGED <<inbox, stopped, current, runtime, shared, pc, reply>>

Launch ==
    \/ LaunchNode
    \/ LaunchBrowser
    \/ MakePage
    \/ \E at \in {"launchNode", "launchBrowser", "makePage"} : LaunchRaises(at)

TakePill ==
    /\ worker = "idle"
    /\ inbox # <<>>
    /\ Head(inbox) = Pill
    /\ inbox' = Tail(inbox)
    /\ worker' = "teardown"
    /\ UNCHANGED <<stopped, setup, current, runtime, shared, pc, reply>>

(* A loop that discards what is still queued once it is told to stop.      *)
TakeTask_Discards ==
    /\ worker = "idle"
    /\ inbox # <<>>
    /\ Head(inbox) # Pill
    /\ current' = IF stopped THEN None ELSE Head(inbox)
    /\ inbox' = Tail(inbox)
    /\ worker' = IF stopped THEN "idle" ELSE "running"
    /\ UNCHANGED <<stopped, setup, runtime, shared, pc, reply>>

TakeTask ==
    /\ worker = "idle"
    /\ inbox # <<>>
    /\ Head(inbox) # Pill
    /\ current' = Head(inbox)
    /\ inbox' = Tail(inbox)
    /\ worker' = "running"
    /\ UNCHANGED <<stopped, setup, runtime, shared, pc, reply>>

(* A loop that does not pass an exception on to the future, and one that   *)
(* an exception ends.                                                      *)
RunTask_Swallows ==
    /\ worker = "running"
    /\ \E r \in {"result", "pending"} : reply' = [reply EXCEPT ![current] = r]
    /\ current' = None
    /\ worker' = "idle"
    /\ UNCHANGED <<inbox, stopped, setup, runtime, shared, pc>>

RunTask_Escapes ==
    /\ worker = "running"
    /\ \E r \in {"result", "raised"} :
          /\ reply' = [reply EXCEPT ![current] = r]
          /\ worker' = IF r = "result" THEN "idle" ELSE "teardown"
    /\ current' = None
    /\ UNCHANGED <<inbox, stopped, setup, runtime, shared, pc>>

(* fn returns or raises; either resolves the caller's future.              *)
RunTask ==
    /\ worker = "running"
    /\ \E r \in {"result", "raised"} : reply' = [reply EXCEPT ![current] = r]
    /\ current' = None
    /\ worker' = "idle"
    /\ UNCHANGED <<inbox, stopped, setup, runtime, shared, pc>>

(* The teardown closure: Browser__Launcher.stop(session_id).               *)
Teardown ==
    /\ worker = "teardown"
    /\ runtime' = "killed"
    /\ worker' = "exited"
    /\ UNCHANGED <<inbox, stopped, setup, current, shared, pc, reply>>

-----------------------------------------------------------------------------
Start == StartSpawn \/ StartReturn \/ StartRaise

Submit(t) == SubmitRefused(t) \/ SubmitCheck(t) \/ SubmitPut(t) \/ SubmitReturn(t)

Stop(t) == StopAgain(t) \/ StopCheck(t) \/ StopSet(t) \/ StopPut(t) \/ StopJoin(t)

Run == Launch \/ TakePill \/ TakeTask \/ RunTask \/ Teardown

Next ==
    \/ Start
    \/ \E t \in Threads : Submit(t) \/ Stop(t)
    \/ Run

Spec == Init /\ [][Next]_vars

(* The worker thread is scheduled by the interpreter and blocks only on an *)
(* empty inbox; a request thread inside start, submit or stop goes on. No  *)
(* thread has to make a call it has not begun.                             *)
Proceeds(t) ==
    \/ SubmitPut(t)
    \/ SubmitReturn(t)
    \/ pc[t] = "cleanup" /\ (StopAgain(t) \/ StopCheck(t))
    \/ StopSet(t)
    \/ StopPut(t)
    \/ StopJoin(t)

FairSpec ==
    /\ Spec
    /\ WF_vars(Start)
    /\ WF_vars(Run)
    /\ \A t \in Threads : WF_vars(Proceeds(t))

-----------------------------------------------------------------------------
(* Type correctness of the worker's and the request threads' state.        *)
TypeOK ==
    /\ inbox \in Seq(Threads \cup {Pill})
    /\ stopped \in BOOLEAN
    /\ setup \in {"pending", "ok", "error"}
    /\ worker \in WorkerStates
    /\ current \in Threads \cup {None}
    /\ runtime \in Runtimes
    /\ shared \in BOOLEAN
    /\ pc \in [Threads -> ThreadStates]
    /\ reply \in [Threads -> Replies]

Queued(t) == \E i \in 1..Len(inbox) : inbox[i] = t

(* No call is lost and none is run twice: the calls whose future is        *)
(* unresolved are exactly those in the inbox, once each, and the one that  *)
(* runs, and their callers are exactly the threads blocked on a future     *)
(* nobody has resolved. (submit's put, _run's get and set_result.)         *)
PendingIsOwned ==
    /\ \A t \in Threads : reply[t] = "pending" <=> (Queued(t) \/ current = t)
    /\ \A t \in Threads : reply[t] = "pending" => pc[t] = "await"
    /\ \A i, j \in 1..Len(inbox) : inbox[i] = inbox[j] /\ inbox[i] # Pill => i = j
    /\ ~Queued(current)

(* A call runs only on a page whose browser is alive, although stops, late *)
(* launches and several pills may all be under way.                        *)
RunsOnLiveBrowser ==
    /\ worker = "running" <=> current # None
    /\ worker \in {"idle", "running", "teardown"} => runtime = "registered"

(* The browser is killed only because somebody stopped the worker, and     *)
(* never under a call that is still running.                               *)
KilledOnlyWhenStopped ==
    runtime = "killed" => stopped /\ current = None /\ worker = "exited"

(* A stop is not lost: until the worker has left its loop for the teardown *)
(* (or has ended, its launch having failed) a pill is in the inbox, or a   *)
(* thread is about to put one, also while the browser is being launched.   *)
StopIsOnItsWay ==
    stopped /\ worker \notin {"teardown", "exited"} =>
        Queued(Pill) \/ \E t \in Threads : pc[t] = "stopPut"

(* What ties the rest of the state together: where the launch and the      *)
(* teardown are, what exists by then, and who can be inside stop().        *)
PillsMeanStopped ==
    /\ Queued(Pill) => stopped
    /\ worker = "teardown" => stopped
    /\ \A t \in Threads : pc[t] \in {"stopPut", "stopJoin"} => stopped

SetupFollowsLaunch ==
    /\ setup = "pending" <=>
          worker \in {"unstarted", "launchNode", "launchBrowser", "makePage"}
    /\ worker \in {"idle", "running", "teardown"} => setup = "ok"
    /\ worker = "exited" /\ setup = "ok" => runtime = "killed"
    /\ worker \in {"unstarted", "launchNode"} => runtime = "none"
    /\ worker = "launchBrowser" => runtime = "node"
    /\ worker = "makePage" => runtime = "registered"

(* Only the opener touches the worker before open has returned; after that *)
(* the worker has been launched.                                           *)
SharedOnlyWhenUp ==
    /\ shared => setup = "ok"
    /\ \A t \in Threads : pc[t] \in {"submitPut", "await"} => shared
    /\ \A t \in Threads : pc[t] = "submitPut" => reply[t] = "none"
    /\ pc[Opener] = "start" <=> worker = "unstarted"
    /\ \A t \in Threads : pc[t] \in {"start", "setupWait", "cleanup"} => t = Opener /\ ~shared

IInv ==
    /\ TypeOK
    /\ PendingIsOwned
    /\ RunsOnLiveBrowser
    /\ KilledOnlyWhenStopped
    /\ PillsMeanStopped
    /\ SetupFollowsLaunch
    /\ SharedOnlyWhenUp

(* The worker keeps the promise of a held session.                         *)
Phase ==
    CASE worker \in {"idle", "running"}                    -> "open"
      [] worker = "teardown"                               -> "closed"
      [] worker = "exited"                                 ->
            IF setup = "ok" THEN "closed" ELSE "failed"
      [] OTHER                                             -> "opening"

Call(t) ==
    CASE reply[t] = "pending"              -> "asked"
      [] reply[t] \in {"result", "raised"} -> "answered"
      [] OTHER                             -> reply[t]

Held == INSTANCE HeldSession
            WITH phase   <- Phase,
                 closing <- stopped,
                 serving <- current,
                 call    <- [t \in Threads |-> Call(t)]

HeldSessionSpec == Held!Spec

(* The i-th entry of the inbox is t's call, and no pill is ahead of it.    *)
AheadAt(t, i) ==
    /\ worker \in {"idle", "running"}
    /\ inbox[i] = t
    /\ \A j \in 1..i : inbox[j] # Pill

AheadOfPills(t) == \E i \in DOMAIN inbox : AheadAt(t, i)

(* The worker's steps until it has taken the i-th entry: get and fn of     *)
(* those before, and the fn that it is in.                                 *)
StepsTo(i) == 2 * i + (IF worker = "running" THEN 1 ELSE 0)

(* Once a call is ahead of every pill, whatever the other threads do it is *)
(* neither overtaken nor dropped: each step of the worker brings it closer *)
(* until it is the one that runs, and it runs until its future is resolved.*)
ServedInTurn ==
    [][\A t \in Threads :
          /\ \A i \in DOMAIN inbox :
                AheadAt(t, i) =>
                    \/ current' = t
                    \/ \E k \in DOMAIN inbox' :
                          /\ AheadAt(t, k)'
                          /\ StepsTo(k)' <= StepsTo(i)
                          /\ worker' # worker => StepsTo(k)' < StepsTo(i)
          /\ current = t /\ current' # t => reply'[t] \in {"result", "raised"}]_vars

(* A call that reaches the inbox of a worker still in its loop, ahead of   *)
(* every pill, is answered, even if the worker is stopped while it waits.  *)
AcceptedCallAnswered ==
    \A t \in Threads : AheadOfPills(t) ~> reply[t] \in {"result", "raised"}

(* Once stop() has put its pill, a worker whose launch succeeds kills the  *)
(* browser and ends: also when the launch outlives start()'s timeout.      *)
StopReleasesBrowser ==
    (stopped /\ runtime = "registered" /\ setup # "error")
        ~> (runtime = "killed" \/ setup = "error")

(* An open that fails does not leave the worker thread behind: once start  *)
(* has raised and the handler is done, the thread ends, also when it was   *)
(* the wait that timed out and the launch goes on.                         *)
FailedOpenEndsThread ==
    (pc[Opener] = "idle" /\ ~shared) ~> (worker = "exited")

(* submit "blocks the caller until the worker returns" and post-stop       *)
(* submits are no-ops: every call of submit comes back.                    *)
EverySubmitReturns ==
    \A t \in Threads : (pc[t] = "await") ~> (pc[t] = "idle")
=============================================================================
