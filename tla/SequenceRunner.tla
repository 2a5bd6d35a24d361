--------------------------- MODULE SequenceRunner ---------------------------
(***************************************************************************)
(* Sequence__Runner: one request's list of steps, run on a browser that is *)
(* launched for it and stopped after it (execute) or on the page of a held *)
(* session (execute_on_held_page), and the way Playwright__Service gets    *)
(* there (_run_sequence_via), which may call the runner a second time.     *)
(*                                                                         *)
(* A step is known by its position; of its result only the status is kept. *)
(* Time is one bit: whether the run is past its deadline.                  *)
(***************************************************************************)
EXTENDS Naturals, Sequences, FiniteSets

CONSTANT MaxSteps  \* bound of the length of a sequence

ASSUME MaxStepsAssumption == MaxSteps \in Nat

(* How the runner is reached: on a held session's worker thread; directly, *)
(* no event loop running; or through a pool thread, out of a running loop. *)
Modes == {"held", "direct", "pooled"}

Requests(lengths) ==
    [mode : Modes, halt_on_error : BOOLEAN, credentials : BOOLEAN, steps : lengths]

StepStatus == {"PASSED", "FAILED", "SKIPPED"}

(* Exceptions: NotImplementedError is a RuntimeError in Python.            *)
Errors == {"RuntimeError", "other"}

VARIABLES
    request,  \* the request
    runs,     \* how many times the runner has been called for it
    pc,       \* where the latest run is
    late,     \* the clock is past the run's deadline_ms
    results,  \* step_results: a status per step
    halted,   \* halted
    browser,  \* of the latest launch: "none", "registered" or "stopped"
    error,    \* the exception under way in the latest run, or "none"
    executed  \* how many steps the Step__Executor was given, in all runs

vars == <<request, runs, pc, late, results, halted, browser, error, executed>>

Held == request.mode = "held"

InitRun ==
    /\ runs = 1
    /\ pc = "validate"
    /\ late = FALSE
    /\ results = <<>>
    /\ halted = FALSE
    /\ browser = "none"
    /\ error = "none"
    /\ executed = 0

Init == request \in Requests(0..MaxSteps) /\ InitRun

GoTo(to) == pc' = to

DeadlinePasses ==
    /\ pc \notin {"responded", "failed"}
    /\ ~late
    /\ late' = TRUE
    /\ UNCHANGED <<request, runs, pc, results, halted, browser, error, executed>>

-----------------------------------------------------------------------------
(* parse_steps, validate_step_ids_unique and validate_browser_config       *)
Validate ==
    /\ pc = "validate"
    /\ GoTo(IF Held THEN "iterate" ELSE "launch")
    /\ UNCHANGED <<request, runs, late, results, halted, browser, error, executed>>

Invalid ==
    /\ pc = "validate"
    /\ error' = "other"
    /\ GoTo("raised")
    /\ UNCHANGED <<request, runs, late, results, halted, browser, executed>>

(* The sync API raises in a thread that runs an event loop, which is where *)
(* the second run is.                                                      *)
InLoop == runs > 1

Launch ==
    /\ pc = "launch"
    /\ ~InLoop
    /\ browser' = "registered"
    /\ GoTo("makePage")
    /\ UNCHANGED <<request, runs, late, results, halted, error, executed>>

(* The launch is outside the try block: an unsupported provider or a       *)
(* browser that does not come up.                                          *)
LaunchRaises ==
    /\ pc = "launch"
    /\ error' \in Errors
    /\ GoTo("raised")
    /\ UNCHANGED <<request, runs, late, results, halted, browser, executed>>

MakePage ==
    /\ pc = "makePage"
    /\ GoTo(IF request.credentials THEN "credentials" ELSE "iterate")
    /\ UNCHANGED <<request, runs, late, results, halted, browser, error, executed>>

ApplyCredentials ==
    /\ pc = "credentials"
    /\ GoTo("iterate")
    /\ UNCHANGED <<request, runs, late, results, halted, browser, error, executed>>

(* A preparation outside the try block, whose exception skips the finally. *)
PrepareRaises_Outside ==
    /\ \/ pc = "makePage" /\ error' = "other"
       \/ pc = "credentials" /\ error' \in Errors
    /\ GoTo("raised")
    /\ UNCHANGED <<request, runs, late, results, halted, browser, executed>>

(* Inside the try block: page creation fails with a Playwright error,      *)
(* credentials also with a NotImplementedError when no vault is wired.     *)
PrepareRaises ==
    /\ \/ pc = "makePage" /\ error' = "other"
       \/ pc = "credentials" /\ error' \in Errors
    /\ GoTo("stop")
    /\ UNCHANGED <<request, runs, late, results, halted, browser, executed>>

-----------------------------------------------------------------------------
(* _iterate_steps                                                          *)

MoreSteps == pc = "iterate" /\ Len(results) < request.steps

(* A loop that looks at the deadline again at every step instead of        *)
(* remembering that it halted.                                             *)
SkipStep_Forgets ==
    /\ MoreSteps
    /\ halted \/ late
    /\ halted' = FALSE
    /\ results' = Append(results, "SKIPPED")
    /\ UNCHANGED <<request, runs, pc, late, browser, error, executed>>

SkipStep ==
    /\ MoreSteps
    /\ halted \/ late
    /\ halted' = TRUE
    /\ results' = Append(results, "SKIPPED")
    /\ UNCHANGED <<request, runs, pc, late, browser, error, executed>>

(* A RuntimeError of a step that is not made a FAILED result.              *)
RunStep_Escapes ==
    /\ MoreSteps
    /\ ~halted
    /\ ~late
    /\ error' = "RuntimeError"
    /\ GoTo(IF Held THEN "raised" ELSE "stop")
    /\ executed' = executed + 1
    /\ UNCHANGED <<request, runs, late, results, halted, browser>>

(* The step is refused by the validator, fails or passes: an exception on  *)
(* the way becomes a FAILED result.                                        *)
RunStep ==
    /\ MoreSteps
    /\ ~halted
    /\ ~late
    /\ \E status \in {"PASSED", "FAILED"} :
          /\ results' = Append(results, status)
          /\ halted' = (status = "FAILED" /\ request.halt_on_error)
    /\ executed' = executed + 1
    /\ UNCHANGED <<request, runs, pc, late, browser, error>>

EndSteps ==
    /\ pc = "iterate"
    /\ Len(results) = request.steps
    /\ GoTo(IF Held THEN "respond" ELSE "stop")
    /\ UNCHANGED <<request, runs, late, results, halted, browser, error, executed>>

-----------------------------------------------------------------------------
(* The finally block, then the response or the exception.                  *)
StopBrowser ==
    /\ pc = "stop"
    /\ browser' = "stopped"
    /\ GoTo(IF error = "none" THEN "respond" ELSE "raised")
    /\ UNCHANGED <<request, runs, late, results, halted, error, executed>>

Respond ==
    /\ pc = "respond"
    /\ GoTo("responded")
    /\ UNCHANGED <<request, runs, late, results, halted, browser, error, executed>>

(* _run_sequence_via meets the pool's RuntimeError in the handler that is  *)
(* there for "no running event loop", and calls the runner itself: another *)
(* run, with a deadline of its own, whose exception nothing catches.       *)
Retries == request.mode = "pooled" /\ error = "RuntimeError" /\ runs = 1

RunAgain ==
    /\ pc = "raised"
    /\ Retries
    /\ runs' = runs + 1
    /\ pc' = "validate"
    /\ late' = FALSE
    /\ results' = <<>>
    /\ halted' = FALSE
    /\ browser' = "none"
    /\ error' = "none"
    /\ UNCHANGED <<request, executed>>

Raise ==
    /\ pc = "raised"
    /\ ~Retries
    /\ GoTo("failed")
    /\ UNCHANGED <<request, runs, late, results, halted, browser, error, executed>>

Next ==
    \/ DeadlinePasses
    \/ Validate
    \/ Invalid
    \/ Launch
    \/ LaunchRaises
    \/ MakePage
    \/ ApplyCredentials
    \/ PrepareRaises
    \/ SkipStep
    \/ RunStep
    \/ EndSteps
    \/ StopBrowser
    \/ Respond
    \/ RunAgain
    \/ Raise

Spec == Init /\ [][Next]_vars

-----------------------------------------------------------------------------
Count(status) == Cardinality({i \in DOMAIN results : results[i] = status})

(* The elements of a set of positions in the order of the positions, as a  *)
(* filter over the results or the artefacts keeps them.                    *)
InOrder(positions) ==
    [k \in 1..Cardinality(positions) |->
        CHOOSE i \in positions : Cardinality({j \in positions : j < i}) = k - 1]

(* sequence_status                                                         *)
SequenceStatus ==
    CASE Count("FAILED") = 0 -> "COMPLETED"
      [] Count("FAILED") > 0 /\ halted -> "FAILED"
      [] Count("FAILED") > 0 /\ ~halted -> "PARTIAL"

TypeOK ==
    /\ request \in Requests(Nat)
    /\ runs \in {1, 2}
    /\ pc \in {"validate", "launch", "makePage", "credentials", "iterate", "stop",
               "respond", "responded", "raised", "failed"}
    /\ late \in BOOLEAN
    /\ results \in Seq(StepStatus)
    /\ halted \in BOOLEAN
    /\ browser \in {"none", "registered", "stopped"}
    /\ error \in Errors \cup {"none"}
    /\ executed \in Nat

(* However the run ends, and whatever raised on the way, the launcher's    *)
(* table has no browser of this request left, and no step runs on a        *)
(* browser that is not up.                                                 *)
NoBrowserLeft ==
    /\ pc \in {"responded", "raised", "failed"} => browser # "registered"
    /\ pc = "iterate" => (browser = "registered" <=> ~Held)

(* A response accounts for every step once, and nothing runs after the     *)
(* sequence has halted: the skipped steps are the last ones, and they are  *)
(* skipped because of the deadline or of a failure with halt_on_error.     *)
HaltedForGood ==
    /\ pc \in {"respond", "responded"} => Len(results) = request.steps
    /\ \A i, j \in DOMAIN results :
          i < j /\ results[i] = "SKIPPED" => results[j] = "SKIPPED"
    /\ \A i, j \in DOMAIN results :
          i < j /\ results[i] = "FAILED" /\ request.halt_on_error => results[j] = "SKIPPED"
    /\ Count("SKIPPED") > 0 => late \/ (request.halt_on_error /\ Count("FAILED") = 1)

(* Calling the runner again never repeats a step: by the time a step has   *)
(* been executed, nothing can make _run_sequence_via start over.           *)
NoStepRunsTwice ==
    /\ executed <= request.steps
    /\ executed = Count("PASSED") + Count("FAILED")

(* Why they hold. The browser is up from the launch to the finally block.  *)
BrowserFollowsRun ==
    /\ pc \in {"validate", "launch"} => browser = "none"
    /\ pc \in {"makePage", "credentials", "stop"} => browser = "registered"
    /\ pc \in {"launch", "makePage", "credentials", "stop"} => ~Held
    /\ pc = "respond" => browser # "registered"
    /\ NoBrowserLeft

(* A run has no results before its steps, nor once it has raised, so that  *)
(* a run that starts over has executed nothing.                            *)
NothingDoneYet ==
    /\ pc \in {"validate", "launch", "makePage", "credentials"} => results = <<>> /\ error = "none"
    /\ pc \in {"iterate", "respond", "responded"} => error = "none"
    /\ error # "none" => results = <<>>

(* Every step has one result; a skipped one, or a failed one under         *)
(* halt_on_error, means that the run has halted, and a halt has its cause. *)
HaltIsExplained ==
    /\ Len(results) <= request.steps
    /\ executed + Count("SKIPPED") = Len(results)
    /\ pc \in {"respond", "responded"} \/ (pc = "stop" /\ error = "none")
          => Len(results) = request.steps
    /\ \A i \in DOMAIN results :
          results[i] = "SKIPPED" \/ (results[i] = "FAILED" /\ request.halt_on_error) => halted
    /\ halted => late \/ (request.halt_on_error /\ Count("FAILED") = 1)

IInv ==
    /\ TypeOK
    /\ BrowserFollowsRun
    /\ NothingDoneYet
    /\ HaltIsExplained
    /\ HaltedForGood
    /\ NoStepRunsTwice
=============================================================================
