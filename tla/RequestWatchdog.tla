--------------------------- MODULE RequestWatchdog ---------------------------
(***************************************************************************)
(* Request__Watchdog and the middleware of Fast_API__Playwright__Service   *)
(* that feeds it: a daemon thread that looks at the requests in flight     *)
(* every poll interval and ends the process when one has taken too long.   *)
(* The process then starts again, with nothing in flight.                  *)
(***************************************************************************)
EXTENDS Naturals, FiniteSets

CONSTANTS Requests,          \* the HTTP requests
          max_request_ms,    \* duration a request may have
          poll_interval_ms,  \* duration between two looks
          MaxTime,           \* bound of the clock
          None

ASSUME WatchdogAssumption ==
    /\ max_request_ms \in Nat
    /\ poll_interval_ms \in Nat \ {0}
    /\ MaxTime \in Nat
    /\ None \notin Nat

VARIABLES
    now,        \* now_ms()
    arrived,    \* arrived[r]: when request r arrived, or None
    left,       \* left[r]: when it was over, or None
    in_flight,  \* in_flight[r]: its start stamp, or None
    watchdog,   \* where the watchdog thread is in loop
    wake,       \* when its sleep ends
    at,         \* the check's reading of the clock
    snapshot,   \* the check's copy of in_flight
    up          \* the process runs

requestVars == <<arrived, left, in_flight>>
watchdogVars == <<watchdog, wake, at, snapshot>>
vars == <<now, requestVars, watchdogVars, up>>

NoRequest == [r \in Requests |-> None]

Init ==
    /\ now = 0
    /\ arrived = NoRequest
    /\ left = NoRequest
    /\ in_flight = NoRequest
    /\ watchdog = "asleep"
    /\ wake = poll_interval_ms
    /\ at = 0
    /\ snapshot = NoRequest
    /\ up = TRUE

Served(r) == arrived[r] # None /\ left[r] = None

-----------------------------------------------------------------------------
(* The middleware: register, call_next, and unregister in a finally.       *)
Register(r) ==
    /\ up
    /\ arrived[r] = None
    /\ arrived' = [arrived EXCEPT ![r] = now]
    /\ in_flight' = [in_flight EXCEPT ![r] = now]
    /\ UNCHANGED <<now, left, watchdogVars, up>>

(* A middleware without the finally: an exception leaves the entry behind. *)
Unregister_NoFinally(r) ==
    /\ up
    /\ Served(r)
    /\ left' = [left EXCEPT ![r] = now]
    /\ in_flight' \in {in_flight, [in_flight EXCEPT ![r] = None]}
    /\ UNCHANGED <<now, arrived, watchdogVars, up>>

Unregister(r) ==
    /\ up
    /\ Served(r)
    /\ left' = [left EXCEPT ![r] = now]
    /\ in_flight' = [in_flight EXCEPT ![r] = None]
    /\ UNCHANGED <<now, arrived, watchdogVars, up>>

-----------------------------------------------------------------------------
(* loop and check_once                                                     *)
Wake ==
    /\ up
    /\ watchdog = "asleep"
    /\ now >= wake
    /\ at' = now
    /\ watchdog' = "awake"
    /\ UNCHANGED <<now, requestVars, wake, snapshot, up>>

TakeSnapshot ==
    /\ up
    /\ watchdog = "awake"
    /\ snapshot' = in_flight
    /\ watchdog' = "checking"
    /\ UNCHANGED <<now, requestVars, wake, at, up>>

(* A request that registered after the clock was read starts after at.     *)
Breach(r) ==
    /\ snapshot[r] # None
    /\ at > snapshot[r] + max_request_ms

Kill ==
    /\ up
    /\ watchdog = "checking"
    /\ \E r \in Requests : Breach(r)
    /\ up' = FALSE
    /\ UNCHANGED <<now, requestVars, watchdogVars>>

(* A loop that sleeps for the maximum duration between two looks.          *)
SleepAgain_ForMaximum ==
    /\ up
    /\ watchdog = "checking"
    /\ \A r \in Requests : ~Breach(r)
    /\ wake' = now + max_request_ms
    /\ watchdog' = "asleep"
    /\ snapshot' = NoRequest
    /\ UNCHANGED <<now, requestVars, at, up>>

SleepAgain ==
    /\ up
    /\ watchdog = "checking"
    /\ \A r \in Requests : ~Breach(r)
    /\ wake' = now + poll_interval_ms
    /\ watchdog' = "asleep"
    /\ snapshot' = NoRequest
    /\ UNCHANGED <<now, requestVars, at, up>>

(* os._exit has ended every request; a fresh process takes over.           *)
Restart ==
    /\ ~up
    /\ up' = TRUE
    /\ left' = [r \in Requests |-> IF Served(r) THEN now ELSE left[r]]
    /\ in_flight' = NoRequest
    /\ watchdog' = "asleep"
    /\ wake' = now + poll_interval_ms
    /\ at' = 0
    /\ snapshot' = NoRequest
    /\ UNCHANGED <<now, arrived>>

(* The clock: the watchdog thread is scheduled as soon as its sleep ends,  *)
(* whatever the other threads do, as its header says; between two ticks    *)
(* it is done with its check.                                              *)
Tick ==
    /\ now < MaxTime
    /\ up
    /\ watchdog = "asleep"
    /\ now < wake
    /\ now' = now + 1
    /\ UNCHANGED <<requestVars, watchdogVars, up>>

Next ==
    \/ \E r \in Requests : Register(r) \/ Unregister(r)
    \/ Wake
    \/ TakeSnapshot
    \/ Kill
    \/ SleepAgain
    \/ Restart
    \/ Tick

Spec == Init /\ [][Next]_vars

-----------------------------------------------------------------------------
Stamps == 0..MaxTime \cup {None}

TypeOK ==
    /\ now \in 0..MaxTime
    /\ arrived \in [Requests -> Stamps]
    /\ left \in [Requests -> Stamps]
    /\ in_flight \in [Requests -> Stamps]
    /\ watchdog \in {"asleep", "awake", "checking"}
    /\ wake \in Nat
    /\ at \in 0..MaxTime
    /\ snapshot \in [Requests -> Stamps]
    /\ up \in BOOLEAN

Duration(r) == (IF left[r] = None THEN now ELSE left[r]) - arrived[r]

(* A stuck request does not stay: none is served by a running process for  *)
(* longer than the maximum and one poll interval.                          *)
StuckRequestsEnd ==
    \A r \in Requests : up /\ Served(r) => Duration(r) <= max_request_ms + poll_interval_ms

(* The process is ended only on account of a request that has taken longer *)
(* than the maximum, be it still served or over since the check's snapshot.*)
KilledForCause ==
    [][Kill => \E r \in Requests : arrived[r] # None /\ Duration(r) > max_request_ms]_vars

(* Why they hold. The map has exactly the requests being served, under the *)
(* stamp of their arrival.                                                 *)
MapIsExact ==
    \A r \in Requests :
        /\ Served(r) /\ up => in_flight[r] = arrived[r]
        /\ in_flight[r] # None => in_flight[r] = arrived[r] /\ left[r] = None
        /\ arrived[r] # None => arrived[r] <= now
        /\ left[r] # None => arrived[r] # None /\ left[r] <= now

(* The next look is at most one interval away, and early enough for every  *)
(* request being served.                                                   *)
WakesInTime ==
    /\ now <= wake
    /\ wake <= now + poll_interval_ms
    /\ \A r \in Requests :
          Served(r) => wake <= arrived[r] + max_request_ms + poll_interval_ms

(* A check judges requests by their arrival, misses only those of this     *)
(* moment, and what it judges was being served at its reading of the clock.*)
CheckIsCurrent ==
    /\ watchdog # "asleep" => at = now
    /\ \A r \in Requests :
          /\ up /\ watchdog = "checking" /\ Served(r) => snapshot[r] = arrived[r] \/ arrived[r] = at
          /\ snapshot[r] # None =>
                /\ watchdog = "checking"
                /\ snapshot[r] = arrived[r]
                /\ left[r] # None => left[r] >= at

IInv ==
    /\ TypeOK
    /\ MapIsExact
    /\ WakesInTime
    /\ CheckIsCurrent
=============================================================================
