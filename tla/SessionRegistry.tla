-------------------------- MODULE SessionRegistry --------------------------
(***************************************************************************)
(* Session__Registry and the session surface of Playwright__Service: the   *)
(* requests that open, act on (or probe) and close held sessions, the      *)
(* desktop endpoint, which opens one and acts on it, every other endpoint  *)
(* (whose setup() also sweeps), the TTL and the lazy sweep.                *)
(*                                                                         *)
(* Requests run in the server's thread pool and share the registry's       *)
(* dictionary and the inboxes of the workers without a lock; one action is *)
(* one statement that another thread can see or be seen by. Of a worker's  *)
(* own thread there is what the requests can tell: it serves its inbox in  *)
(* order and ends at the first pill (SessionWorker has its launch, its     *)
(* browser and its teardown).                                              *)
(***************************************************************************)
EXTENDS Naturals, FiniteSets, SequencesExt

CONSTANTS Threads,  \* the request threads of the server's pool
          Ids,      \* the session ids that can be drawn; each is drawn once
          TTL,      \* ttl_ms of every session, in clock ticks
          MaxTime,  \* bound of the clock
          Pill,     \* _POISON_PILL
          None

ASSUME RegistryAssumption ==
    /\ TTL \in Nat \ {0}
    /\ MaxTime \in Nat
    /\ IsFiniteSet(Ids)
    /\ Pill \notin Threads
    /\ None \notin Threads \cup Ids \cup {Pill}

Requests == {"open", "desktop", "act", "close", "other"}

VARIABLES
    now,       \* _now_ms()
    sessions,  \* the keys of _sessions
    expires,   \* expires[s]: expires_at_ms of the session's state
    phase,     \* phase[s]: the worker's life: see HeldSession, or "unborn"
    stopped,   \* the sessions whose worker's _stopped is set
    inbox,     \* inbox[s]: the worker's _inbox: the threads whose calls wait, and pills
    serving,   \* serving[s]: the thread whose call runs on the page, or None
    pc,        \* pc[t]: where thread t is
    request,   \* request[t]: what it was asked
    sid,       \* sid[t]: the session it was asked about or opens
    sweeps,    \* sweeps[t]: sweeps still to do before its operation
    scan,      \* scan[t]: its pass over the dictionary
    victim,    \* victim[t]: the session it is closing
    after,     \* after[t]: where it goes when the close is done
    outcome,   \* outcome[t]: what its latest request came to
    (* Observability: the threads whose calls were put behind a pill, or    *)
    (* into the inbox of a worker that has ended.                           *)
    overtaken

sessionVars == <<sessions, expires, phase, stopped, inbox, serving>>
requestVars == <<request, sid, outcome>>
sweepVars == <<sweeps, scan>>
closeVars == <<victim, after>>
vars == <<now, sessionVars, pc, sweepVars, closeVars, requestVars, overtaken>>

NoScan == [size |-> 0, visited |-> {}, at |-> 0, expired |-> {}]

(* What a request came to, as far as the properties tell replies apart: a  *)
(* call that session s answered or refused, an exception of the sweep, or  *)
(* any other reply (200, 404, a failed launch).                            *)
Pending     == [what |-> "pending", of |-> None]
Replied     == [what |-> "replied", of |-> None]
SweepError  == [what |-> "error", of |-> None]
Answered(s) == [what |-> "answered", of |-> s]
Refused(s)  == [what |-> "refused", of |-> s]

Init ==
    /\ now = 0
    /\ sessions = {}
    /\ expires = [s \in Ids |-> 0]
    /\ phase = [s \in Ids |-> "unborn"]
    /\ stopped = {}
    /\ inbox = [s \in Ids |-> <<>>]
    /\ serving = [s \in Ids |-> None]
    /\ pc = [t \in Threads |-> "idle"]
    /\ request = [t \in Threads |-> "other"]
    /\ sid = [t \in Threads |-> None]
    /\ sweeps = [t \in Threads |-> 0]
    /\ scan = [t \in Threads |-> NoScan]
    /\ victim = [t \in Threads |-> None]
    /\ after = [t \in Threads |-> "idle"]
    /\ outcome = [t \in Threads |-> Replied]
    /\ overtaken = {}

GoTo(t, to) == pc' = [pc EXCEPT ![t] = to]

Continue(t, to) == GoTo(t, to) /\ UNCHANGED requestVars

Reply(t, what) ==
    /\ GoTo(t, "idle")
    /\ outcome' = [outcome EXCEPT ![t] = what]
    /\ request' = [request EXCEPT ![t] = "other"]
    /\ sid' = [sid EXCEPT ![t] = None]

-----------------------------------------------------------------------------
Opens(r) == r \in {"open", "desktop"}

(* Ids bounds the number of opens: one may begin only if an id is left for *)
(* it and for every open that has not drawn its id yet.                    *)
IdsLeft ==
    Cardinality({s \in Ids : phase[s] = "unborn"}) >
        Cardinality({t \in Threads : Opens(request[t]) /\ pc[t] \notin {"idle", "launch"}})

(* A request arrives. Every method starts with setup(), which sweeps; open *)
(* and get sweep again, close does not. A caller names an id that some     *)
(* open has returned.                                                      *)
Begin(t) ==
    /\ pc[t] = "idle"
    /\ \E r \in Requests :
          /\ Opens(r) => IdsLeft
          /\ request' = [request EXCEPT ![t] = r]
          /\ sweeps' = [sweeps EXCEPT ![t] = IF Opens(r) \/ r = "act" THEN 2 ELSE 1]
          /\ IF r \in {"act", "close"}
             THEN \E s \in Ids : /\ phase[s] \in {"open", "closed"}
                                 /\ sid' = [sid EXCEPT ![t] = s]
             ELSE UNCHANGED sid
    /\ outcome' = [outcome EXCEPT ![t] = Pending]
    /\ GoTo(t, "sweep")
    /\ UNCHANGED <<now, sessionVars, scan, closeVars>>

-----------------------------------------------------------------------------
(* sweep_expired: read the clock, walk the dictionary for expired ids,     *)
(* then pop and close them one by one.                                     *)

SweepStart(t) ==
    /\ pc[t] = "sweep"
    /\ sweeps[t] > 0
    /\ sweeps' = [sweeps EXCEPT ![t] = @ - 1]
    /\ scan' = [scan EXCEPT ![t] = [NoScan EXCEPT !.size = Cardinality(sessions), !.at = now]]
    /\ GoTo(t, "scan")
    /\ UNCHANGED <<now, sessionVars, closeVars, requestVars>>

SizeChanged(t) == Cardinality(sessions) # scan[t].size

(* The iterator notices that the dictionary has grown or shrunk and raises *)
(* RuntimeError, which nothing on the way to the route handler catches.    *)
ScanRaises(t) ==
    /\ pc[t] = "scan"
    /\ SizeChanged(t)
    /\ scan' = [scan EXCEPT ![t] = NoScan]
    /\ sweeps' = [sweeps EXCEPT ![t] = 0]
    /\ Reply(t, SweepError)
    /\ UNCHANGED <<now, sessionVars, closeVars>>

(* The pass of t after it has looked at session s.                         *)
Seen(t, s) ==
    [scan[t] EXCEPT !.visited = @ \cup {s},
                    !.expired = IF scan[t].at >= expires[s] THEN @ \cup {s} ELSE @]

ScanVisit(t) ==
    /\ pc[t] = "scan"
    /\ ~SizeChanged(t)
    /\ \E s \in sessions \ scan[t].visited :
          scan' = [scan EXCEPT ![t] = Seen(t, s)]
    /\ UNCHANGED <<now, sessionVars, pc, sweeps, closeVars, requestVars>>

ScanEnd(t) ==
    /\ pc[t] = "scan"
    /\ ~SizeChanged(t)
    /\ sessions \subseteq scan[t].visited
    /\ scan' = [scan EXCEPT ![t] = [NoScan EXCEPT !.expired = scan[t].expired]]
    /\ Continue(t, "reap")
    /\ UNCHANGED <<now, sessionVars, sweeps, closeVars>>

(* state.worker.stop() for the session s, then on to the place given.      *)
CloseState(t, s, next) ==
    /\ victim' = [victim EXCEPT ![t] = s]
    /\ after' = [after EXCEPT ![t] = next]
    /\ GoTo(t, "stop")

(* Two mistakes ReapPop avoids: closing without looking whether it was the *)
(* one to pop the session, and popping every expired session at once.      *)
ReapPop_Unchecked(t) ==
    /\ pc[t] = "reap"
    /\ \E s \in scan[t].expired :
          /\ scan' = [scan EXCEPT ![t].expired = @ \ {s}]
          /\ sessions' = sessions \ {s}
          /\ CloseState(t, s, "reap")
    /\ UNCHANGED <<now, expires, phase, stopped, inbox, serving, sweeps, requestVars>>

ReapPop_AllAtOnce(t) ==
    /\ pc[t] = "reap"
    /\ \E s \in scan[t].expired \cap sessions :
          /\ scan' = [scan EXCEPT ![t].expired = {}]
          /\ sessions' = sessions \ scan[t].expired
          /\ CloseState(t, s, "reap")
    /\ UNCHANGED <<now, expires, phase, stopped, inbox, serving, sweeps, requestVars>>

ReapPop(t) ==
    /\ pc[t] = "reap"
    /\ \E s \in scan[t].expired :
          /\ scan' = [scan EXCEPT ![t].expired = @ \ {s}]
          /\ IF s \in sessions
             THEN /\ sessions' = sessions \ {s}
                  /\ CloseState(t, s, "reap")
             ELSE UNCHANGED <<sessions, pc, closeVars>>
    /\ UNCHANGED <<now, expires, phase, stopped, inbox, serving, sweeps, requestVars>>

SweepEnd(t) ==
    /\ pc[t] = "reap"
    /\ scan[t].expired = {}
    /\ scan' = [scan EXCEPT ![t] = NoScan]
    /\ IF sweeps[t] > 0
       THEN Continue(t, "sweep")
       ELSE CASE request[t] = "other" -> Reply(t, Replied)
              [] Opens(request[t])    -> Continue(t, "open")
              [] OTHER                -> Continue(t, request[t])
    /\ UNCHANGED <<now, sessionVars, sweeps, closeVars>>

-----------------------------------------------------------------------------
(* Worker.stop(): returns at once if the worker was stopped before, else   *)
(* sets _stopped, puts the pill and waits for the thread to end, at most   *)
(* its join timeout. Between the check and the set another stop may pass   *)
(* the same check.                                                         *)

Keeps(t) == UNCHANGED <<now, sessions, expires, phase, serving, sweepVars, closeVars, requestVars>>

StopAgain(t) ==
    /\ pc[t] = "stop"
    /\ victim[t] \in stopped
    /\ GoTo(t, "stopDone")
    /\ UNCHANGED <<stopped, inbox>> /\ Keeps(t)

StopCheck(t) ==
    /\ pc[t] = "stop"
    /\ victim[t] \notin stopped
    /\ GoTo(t, "stopSet")
    /\ UNCHANGED <<stopped, inbox>> /\ Keeps(t)

StopSet(t) ==
    /\ pc[t] = "stopSet"
    /\ stopped' = stopped \cup {victim[t]}
    /\ GoTo(t, "stopPut")
    /\ UNCHANGED inbox /\ Keeps(t)

(* A stop that gives up on a busy worker.                                  *)
StopPut_SkipsBusy(t) ==
    /\ pc[t] = "stopPut"
    /\ inbox' = IF serving[victim[t]] = None
                THEN [inbox EXCEPT ![victim[t]] = Append(@, Pill)] ELSE inbox
    /\ GoTo(t, "join")
    /\ UNCHANGED stopped /\ Keeps(t)

StopPut(t) ==
    /\ pc[t] = "stopPut"
    /\ inbox' = [inbox EXCEPT ![victim[t]] = Append(@, Pill)]
    /\ GoTo(t, "join")
    /\ UNCHANGED stopped /\ Keeps(t)

Join(t) ==
    /\ pc[t] = "join"
    /\ GoTo(t, "stopDone")
    /\ UNCHANGED <<stopped, inbox>> /\ Keeps(t)

Stop(t) == StopAgain(t) \/ StopCheck(t) \/ StopSet(t) \/ StopPut(t) \/ Join(t)

CloseDone(t) ==
    /\ pc[t] = "stopDone"
    /\ victim' = [victim EXCEPT ![t] = None]
    /\ after' = [after EXCEPT ![t] = "idle"]
    /\ CASE after[t] = "reap"                -> Continue(t, "reap") /\ UNCHANGED sessions
         [] after[t] \in {"closed", "raise"} -> Reply(t, Replied) /\ UNCHANGED sessions
         [] after[t] = "popExpired"          -> Reply(t, Replied) /\ sessions' = sessions \ {victim[t]}
    /\ UNCHANGED <<now, expires, phase, stopped, inbox, serving, sweepVars>>

-----------------------------------------------------------------------------
(* session_open: registry.open                                             *)

Open(t) ==
    /\ pc[t] = "open"
    /\ \E s \in Ids :
          /\ phase[s] = "unborn"
          /\ phase' = [phase EXCEPT ![s] = "opening"]
          /\ sid' = [sid EXCEPT ![t] = s]
    /\ GoTo(t, "launch")
    /\ UNCHANGED <<now, sessions, expires, stopped, inbox, serving, request,
                   sweepVars, closeVars, outcome>>

(* open_browser with a start_url goes on with session_act on the session   *)
(* it has opened, whose id the caller does not have before the reply; it   *)
(* is then a request like any other act, with its sweeps.                  *)
StartUrl(t) ==
    /\ request' = [request EXCEPT ![t] = "act"]
    /\ sweeps' = [sweeps EXCEPT ![t] = 2]
    /\ GoTo(t, "sweep")
    /\ UNCHANGED <<sid, outcome>>

OpenStore(t) ==
    /\ pc[t] = "launch"
    /\ phase' = [phase EXCEPT ![sid[t]] = "open"]
    /\ sessions' = sessions \cup {sid[t]}
    /\ expires' = [expires EXCEPT ![sid[t]] = now + TTL]
    /\ IF request[t] = "desktop" THEN StartUrl(t) ELSE Reply(t, Replied) /\ UNCHANGED sweeps
    /\ UNCHANGED <<now, stopped, inbox, serving, scan, closeVars>>

OpenFails(t) ==
    /\ pc[t] = "launch"
    /\ phase' = [phase EXCEPT ![sid[t]] = "failed"]
    /\ CloseState(t, sid[t], "raise")
    /\ UNCHANGED <<now, sessions, expires, stopped, inbox, serving, sweepVars, requestVars>>

-----------------------------------------------------------------------------
(* session_act and session_probe: registry.get, then worker.submit         *)

GetMissing(t) ==
    /\ pc[t] = "act"
    /\ sid[t] \notin sessions
    /\ Reply(t, Replied)
    /\ UNCHANGED <<now, sessionVars, sweepVars, closeVars>>

GetFound(t) ==
    /\ pc[t] = "act"
    /\ sid[t] \in sessions
    /\ GoTo(t, "found")
    /\ UNCHANGED <<now, sessionVars, sweepVars, closeVars, requestVars>>

GetExpired(t) ==
    /\ pc[t] = "found"
    /\ now >= expires[sid[t]]
    /\ CloseState(t, sid[t], "popExpired")
    /\ UNCHANGED <<now, sessionVars, sweepVars, requestVars>>

GetFresh(t) ==
    /\ pc[t] = "found"
    /\ now < expires[sid[t]]
    /\ GoTo(t, "refresh")
    /\ UNCHANGED <<now, sessionVars, sweepVars, closeVars, requestVars>>

(* A refresh that adds to the old deadline.                                *)
RefreshTTL_Accumulates(t) ==
    /\ pc[t] = "refresh"
    /\ expires' = [expires EXCEPT ![sid[t]] = @ + TTL]
    /\ GoTo(t, "submit")
    /\ UNCHANGED <<now, sessions, phase, stopped, inbox, serving, sweepVars, closeVars, requestVars>>

RefreshTTL(t) ==
    /\ pc[t] = "refresh"
    /\ expires' = [expires EXCEPT ![sid[t]] = now + TTL]
    /\ GoTo(t, "submit")
    /\ UNCHANGED <<now, sessions, phase, stopped, inbox, serving, sweepVars, closeVars, requestVars>>

SubmitRaises(t) ==
    /\ pc[t] = "submit"
    /\ sid[t] \in stopped
    /\ Reply(t, Refused(sid[t]))
    /\ UNCHANGED <<now, sessionVars, sweepVars, closeVars>>

SubmitCheck(t) ==
    /\ pc[t] = "submit"
    /\ sid[t] \notin stopped
    /\ GoTo(t, "submitPut")
    /\ UNCHANGED <<now, sessionVars, sweepVars, closeVars, requestVars>>

(* The inbox takes the call also when a stop has come after the check.     *)
SubmitPut(t) ==
    /\ pc[t] = "submitPut"
    /\ inbox' = [inbox EXCEPT ![sid[t]] = Append(@, t)]
    /\ GoTo(t, "await")
    /\ UNCHANGED <<now, sessions, expires, phase, stopped, serving, sweepVars, closeVars, requestVars>>

-----------------------------------------------------------------------------
(* session_close: registry.close                                           *)

CloseMissing(t) ==
    /\ pc[t] = "close"
    /\ sid[t] \notin sessions
    /\ Reply(t, Replied)
    /\ UNCHANGED <<now, sessionVars, sweepVars, closeVars>>

(* A close that stops the worker before it takes the session out.          *)
ClosePop_Late(t) ==
    /\ pc[t] = "close"
    /\ sid[t] \in sessions
    /\ CloseState(t, sid[t], "closed")
    /\ UNCHANGED <<now, sessionVars, sweepVars, requestVars>>

ClosePop(t) ==
    /\ pc[t] = "close"
    /\ sid[t] \in sessions
    /\ sessions' = sessions \ {sid[t]}
    /\ CloseState(t, sid[t], "closed")
    /\ UNCHANGED <<now, expires, phase, stopped, inbox, serving, sweepVars, requestVars>>

-----------------------------------------------------------------------------
(* The session's worker: calls that reached the inbox run one at a time,   *)
(* in order, and the first pill ends it.                                   *)

Serve(s) ==
    /\ phase[s] = "open"
    /\ serving[s] = None
    /\ inbox[s] # <<>>
    /\ Head(inbox[s]) # Pill
    /\ serving' = [serving EXCEPT ![s] = Head(inbox[s])]
    /\ inbox' = [inbox EXCEPT ![s] = Tail(@)]
    /\ UNCHANGED <<now, sessions, expires, phase, stopped, pc, sweepVars, closeVars, requestVars>>

Answer(s) ==
    /\ serving[s] # None
    /\ Reply(serving[s], Answered(s))
    /\ serving' = [serving EXCEPT ![s] = None]
    /\ UNCHANGED <<now, sessions, expires, phase, stopped, inbox, sweepVars, closeVars>>

(* A teardown that drops the calls ahead of the pill, and one that does    *)
(* not wait for the call being served.                                     *)
Teardown_Drops(s) ==
    /\ phase[s] = "open"
    /\ serving[s] = None
    /\ Pill \in ToSet(inbox[s])
    /\ phase' = [phase EXCEPT ![s] = "closed"]
    /\ inbox' = [inbox EXCEPT ![s] = <<>>]
    /\ UNCHANGED <<now, sessions, expires, stopped, serving, pc, sweepVars, closeVars, requestVars>>

Teardown_Interrupts(s) ==
    /\ phase[s] = "open"
    /\ inbox[s] # <<>>
    /\ Head(inbox[s]) = Pill
    /\ phase' = [phase EXCEPT ![s] = "closed"]
    /\ inbox' = [inbox EXCEPT ![s] = Tail(@)]
    /\ UNCHANGED <<now, sessions, expires, stopped, serving, pc, sweepVars, closeVars, requestVars>>

Teardown(s) ==
    /\ phase[s] = "open"
    /\ serving[s] = None
    /\ inbox[s] # <<>>
    /\ Head(inbox[s]) = Pill
    /\ phase' = [phase EXCEPT ![s] = "closed"]
    /\ inbox' = [inbox EXCEPT ![s] = Tail(@)]
    /\ UNCHANGED <<now, sessions, expires, stopped, serving, pc, sweepVars, closeVars, requestVars>>

Tick ==
    /\ now < MaxTime
    /\ now' = now + 1
    /\ UNCHANGED <<sessionVars, pc, sweepVars, closeVars, requestVars>>

-----------------------------------------------------------------------------
Sweep(t) ==
    \/ SweepStart(t)
    \/ ScanRaises(t)
    \/ ScanVisit(t)
    \/ ScanEnd(t)
    \/ ReapPop(t)
    \/ SweepEnd(t)

CloseWorker(t) == Stop(t) \/ CloseDone(t)

Operate(t) ==
    \/ Open(t) \/ OpenStore(t) \/ OpenFails(t)
    \/ GetMissing(t) \/ GetFound(t) \/ GetExpired(t) \/ GetFresh(t) \/ RefreshTTL(t)
    \/ SubmitRaises(t) \/ SubmitCheck(t) \/ SubmitPut(t)
    \/ CloseMissing(t) \/ ClosePop(t)

(* The worker will not come to a call that is put now.                     *)
Ending(s) == phase[s] # "open" \/ Pill \in ToSet(inbox[s])

Recorded(t) ==
    overtaken' = IF pc[t] = "submitPut" /\ Ending(sid[t])
                 THEN overtaken \cup {t} ELSE overtaken

Proceed(t) == (Sweep(t) \/ CloseWorker(t) \/ Operate(t)) /\ Recorded(t)

Work(s) == (Serve(s) \/ Answer(s) \/ Teardown(s)) /\ UNCHANGED overtaken

Next ==
    \/ \E t \in Threads : (Begin(t) /\ UNCHANGED overtaken) \/ Proceed(t)
    \/ \E s \in Ids : Work(s)
    \/ Tick /\ UNCHANGED overtaken

Spec == Init /\ [][Next]_vars

(* Threads that are inside a request and workers with something to do are  *)
(* scheduled; requests need not arrive and the clock need not advance.     *)
FairSpec ==
    /\ Spec
    /\ \A t \in Threads : WF_vars(Proceed(t))
    /\ \A s \in Ids : WF_vars(Work(s))

-----------------------------------------------------------------------------
Scans == [size : Nat, visited : SUBSET Ids, at : 0..MaxTime, expired : SUBSET Ids]

Outcomes == [what : {"pending", "replied", "error", "answered", "refused"},
             of   : Ids \cup {None}]

Places == {"idle", "sweep", "scan", "reap", "stop", "stopSet", "stopPut", "join", "stopDone",
           "open", "launch", "act", "found", "refresh", "submit", "submitPut", "await", "close"}

(* Type correctness of the dictionary, the workers and the requests.       *)
TypeOK ==
    /\ now \in 0..MaxTime
    /\ sessions \subseteq Ids
    /\ expires \in [Ids -> 0..(MaxTime + TTL)]
    /\ phase \in [Ids -> {"unborn", "opening", "open", "closed", "failed"}]
    /\ stopped \subseteq Ids
    /\ inbox \in [Ids -> Seq(Threads \cup {Pill})]
    /\ serving \in [Ids -> Threads \cup {None}]
    /\ pc \in [Threads -> Places]
    /\ request \in [Threads -> Requests]
    /\ sid \in [Threads -> Ids \cup {None}]
    /\ sweeps \in [Threads -> 0..2]
    /\ scan \in [Threads -> Scans]
    /\ victim \in [Threads -> Ids \cup {None}]
    /\ after \in [Threads -> {"idle", "reap", "closed", "raise", "popExpired"}]
    /\ outcome \in [Threads -> Outcomes]
    /\ overtaken \subseteq Threads

(* A thread in stop(), and one that will still put its pill.               *)
Closing(t, s) == pc[t] \in {"stop", "stopSet", "stopPut", "join", "stopDone"} /\ victim[t] = s

WillStop(t, s) == pc[t] \in {"stop", "stopSet", "stopPut"} /\ victim[t] = s

(* A session that is in the dictionary can be used: its worker is up and   *)
(* not stopped, except while a get that found it expired is still between  *)
(* closing it and popping it (registry.get does it in that order).         *)
ListedIsUsable ==
    \A s \in sessions :
        /\ phase[s] = "open" \/ s \in stopped
        /\ s \in stopped => \E t \in Threads : Closing(t, s) /\ after[t] = "popExpired"

(* A session whose browser is up belongs to somebody who will close it:    *)
(* it is in the dictionary, or its worker has a pill in its inbox, or a    *)
(* thread that has popped it, or is about to, is on its way to put one.    *)
NoOrphanBrowser ==
    \A s \in Ids :
        phase[s] = "open" =>
            \/ s \in sessions
            \/ Pill \in ToSet(inbox[s])
            \/ \E t \in Threads : WillStop(t, s)

InCall(s, t) == t \in ToSet(inbox[s]) \/ serving[s] = t

(* A request that waits for an answer waits for a worker that still runs   *)
(* and has its call, ahead of every pill: in that session's inbox, or as   *)
(* the call being served. The exception is a call that a stop has          *)
(* overtaken between submit's check and its put; it waits for ever (run    *)
(* worker_hang), and no worker has it but that of its stopped session.     *)
WaiterHasWorker ==
    /\ \A t \in Threads :
          pc[t] = "await" /\ t \notin overtaken =>
              \E s \in Ids : sid[t] = s /\ phase[s] = "open" /\ InCall(s, t)
    /\ \A t \in Threads, s \in Ids : InCall(s, t) => pc[t] = "await" /\ sid[t] = s
    /\ \A t \in overtaken : pc[t] = "await" /\ sid[t] \in stopped /\ serving[sid[t]] # t

(* Two closes of one session are never both told closed = True, whatever   *)
(* sweeps, expired gets and other closes do meanwhile: a session that one  *)
(* request has popped in order to close it is not popped by another.       *)
PoppedOnce ==
    \A t, u \in Threads, s \in Ids :
        /\ t # u
        /\ Closing(t, s) /\ after[t] \in {"closed", "reap"}
        /\ Closing(u, s)
        => after[u] = "popExpired"

-----------------------------------------------------------------------------
(* What ties the state together between the statements of the requests:    *)
(* the strengthening that makes the invariants above inductive.            *)

(* A session that some open has returned, whatever became of it since.     *)
WasOpened(s) == phase[s] \in {"open", "closed"}

RequestsHaveSessions ==
    \A t \in Threads :
        /\ request[t] \in {"act", "close"} => sid[t] \in Ids /\ WasOpened(sid[t])
        /\ pc[t] = "launch" => sid[t] \in Ids /\ phase[sid[t]] = "opening"
        /\ pc[t] \in {"open", "launch"} => Opens(request[t])
        /\ pc[t] \in {"act", "found", "refresh", "submit", "submitPut", "await"} =>
              request[t] = "act"
        /\ pc[t] = "close" => request[t] = "close"

(* A request under way has no outcome yet.                                 *)
PendingTillReply == \A t \in Threads : pc[t] # "idle" => outcome[t] = Pending

LaunchesApart ==
    \A t, u \in Threads :
        pc[t] = "launch" /\ pc[u] = "launch" /\ sid[t] = sid[u] => t = u

(* A session is listed, and found by a sweep, only after its launch; it is *)
(* stopped only then or after the launch has failed.                       *)
OpenedBefore ==
    /\ \A s \in sessions : WasOpened(s)
    /\ \A t \in Threads : \A s \in scan[t].visited \cup scan[t].expired : WasOpened(s)
    /\ \A s \in stopped : WasOpened(s) \/ phase[s] = "failed"

(* Who closes a session has it, and has taken it out of the dictionary     *)
(* unless it is an expired get or a failed open.                           *)
ClosersHaveVictims ==
    \A t \in Threads :
        pc[t] \in {"stop", "stopSet", "stopPut", "join", "stopDone"} =>
            /\ victim[t] \in Ids
            /\ after[t] # "idle"
            /\ IF after[t] = "raise" THEN phase[victim[t]] = "failed" ELSE WasOpened(victim[t])
            /\ after[t] \in {"reap", "closed"} => victim[t] \notin sessions
            /\ pc[t] \in {"stopPut", "join", "stopDone"} => victim[t] \in stopped

(* A worker that does not exist has no calls, one that is not up serves    *)
(* none, and it closes only when stopped; a pill is put, or about to be,   *)
(* once it is.                                                             *)
WorkersAtRest ==
    \A s \in Ids :
        /\ phase[s] \in {"unborn", "opening"} => inbox[s] = <<>>
        /\ phase[s] # "open" => serving[s] = None
        /\ phase[s] = "closed" => s \in stopped
        /\ Pill \in ToSet(inbox[s]) => s \in stopped
        /\ phase[s] = "open" /\ s \in stopped =>
              \/ Pill \in ToSet(inbox[s])
              \/ \E t \in Threads : pc[t] = "stopPut" /\ victim[t] = s

(* A queue has each call once; pills may repeat.                           *)
Once(queue) ==
    \A i, j \in DOMAIN queue : queue[i] = queue[j] /\ queue[i] # Pill => i = j

(* The calls of a queue that belong to calls are those behind a pill.      *)
BehindPill(queue, calls) ==
    \A j \in DOMAIN queue :
        queue[j] # Pill =>
            (queue[j] \in calls <=> \E i \in DOMAIN queue : i < j /\ queue[i] = Pill)

(* Each waiting request is in its session's inbox, once, or being served.  *)
CallsAwaited ==
    /\ \A t \in Threads, s \in Ids : InCall(s, t) => pc[t] = "await" /\ sid[t] = s
    /\ \A t \in Threads : pc[t] = "await" => InCall(sid[t], t)
    /\ \A s \in Ids :
          /\ serving[s] \notin ToSet(inbox[s])
          /\ Once(inbox[s])

(* A call that is not overtaken has a worker that is up; one that is, is   *)
(* at a session that has been stopped, and is never served.                *)
CallsAhead ==
    /\ \A t \in Threads, s \in Ids : InCall(s, t) /\ t \notin overtaken => phase[s] = "open"
    /\ \A s \in Ids : phase[s] = "open" => BehindPill(inbox[s], overtaken)
    /\ \A t \in overtaken : pc[t] = "await" /\ sid[t] \in stopped /\ serving[sid[t]] # t

IInv ==
    /\ TypeOK
    /\ RequestsHaveSessions
    /\ PendingTillReply
    /\ LaunchesApart
    /\ OpenedBefore
    /\ ClosersHaveVictims
    /\ WorkersAtRest
    /\ CallsAwaited
    /\ CallsAhead
    /\ ListedIsUsable
    /\ NoOrphanBrowser
    /\ PoppedOnce

-----------------------------------------------------------------------------
(* Every request gets its reply, also while other requests sweep, close    *)
(* and wait for busy workers, but for a call that a stop has overtaken     *)
(* between submit's check and its put.                                     *)
EveryRequestReturns ==
    \A t \in Threads : (pc[t] # "idle") ~> (pc[t] = "idle" \/ t \in overtaken)

(* A session's browser "goes away on close": once the session has left the *)
(* dictionary its worker ends.                                             *)
ClosedSessionEnds ==
    \A s \in Ids : (phase[s] = "open" /\ s \notin sessions) ~> (phase[s] = "closed")

(* Each session keeps the promise of HeldSession.                          *)

OutcomeFor(s, o) ==
    CASE o = Answered(s) -> "answered"
      [] o = Refused(s)  -> "refused"
      [] OTHER           -> "none"

Call(s, t) == IF InCall(s, t) THEN "asked" ELSE OutcomeFor(s, outcome[t])

Held(s) == INSTANCE HeldSession
               WITH phase   <- IF phase[s] = "unborn" THEN "opening" ELSE phase[s],
                    closing <- s \in stopped,
                    serving <- serving[s],
                    call    <- [t \in Threads |-> Call(s, t)]

EverySessionHeld ==
    /\ \A s \in Ids : Held(s)!Init
    /\ [][\A s \in Ids : [Held(s)!Next]_(Held(s)!vars)]_vars
=============================================================================
