---------------------------- MODULE HeldSession ----------------------------
(***************************************************************************)
(* What one held browser session promises to the request threads that      *)
(* share it, whatever queue, thread or future is used to keep the promise: *)
(*                                                                         *)
(*   - the page serves one call at a time, and only calls that were asked; *)
(*   - a call is answered at most once, and only while the session is open;*)
(*   - a close never interrupts the call that is being served;             *)
(*   - a call is refused only once somebody has asked for the close;       *)
(*   - a session that failed to open never serves anything.                *)
(*                                                                         *)
(* SessionWorker is shown to implement this module.                        *)
(***************************************************************************)
CONSTANTS Threads,  \* the request threads
          None      \* no thread

VARIABLES phase,    \* "opening", "open", "closed" or "failed"
          closing,  \* somebody has asked for the close
          serving,  \* the thread whose call runs on the page, or None
          call      \* call[t]: what thread t's latest call has come to

vars == <<phase, closing, serving, call>>

Init ==
    /\ phase = "opening"
    /\ closing = FALSE
    /\ serving = None
    /\ call = [t \in Threads |-> "none"]

Opened ==
    /\ phase = "opening"
    /\ phase' = "open"
    /\ UNCHANGED <<closing, serving, call>>

OpenFailed ==
    /\ phase = "opening"
    /\ phase' = "failed"
    /\ UNCHANGED <<closing, serving, call>>

(* A call may still be asked after the close: nothing forbids the caller   *)
(* from arriving late, it is only never served then.                       *)
Ask(t) ==
    /\ phase \in {"open", "closed"}
    /\ call[t] \in {"none", "answered", "refused"}
    /\ call' = [call EXCEPT ![t] = "asked"]
    /\ UNCHANGED <<phase, closing, serving>>

Forget(t) ==
    /\ call[t] \in {"answered", "refused"}
    /\ call' = [call EXCEPT ![t] = "none"]
    /\ UNCHANGED <<phase, closing, serving>>

(* Also a call that arrived too late to be served.                         *)
Refuse(t) ==
    /\ closing
    /\ \/ call[t] \in {"none", "answered"}
       \/ call[t] = "asked" /\ phase = "closed"
    /\ call' = [call EXCEPT ![t] = "refused"]
    /\ UNCHANGED <<phase, closing, serving>>

Serve(t) ==
    /\ phase = "open"
    /\ serving = None
    /\ call[t] = "asked"
    /\ serving' = t
    /\ UNCHANGED <<phase, closing, call>>

Answer(t) ==
    /\ phase = "open"
    /\ serving = t
    /\ serving' = None
    /\ call' = [call EXCEPT ![t] = "answered"]
    /\ UNCHANGED <<phase, closing>>

RequestClose ==
    /\ closing' = TRUE
    /\ UNCHANGED <<phase, serving, call>>

Close ==
    /\ phase = "open"
    /\ closing
    /\ serving = None
    /\ phase' = "closed"
    /\ UNCHANGED <<closing, serving, call>>

Next ==
    \/ Opened
    \/ OpenFailed
    \/ RequestClose
    \/ Close
    \/ \E t \in Threads :
          \/ Ask(t)
          \/ Forget(t)
          \/ Refuse(t)
          \/ Serve(t)
          \/ Answer(t)

Spec == Init /\ [][Next]_vars
=============================================================================
