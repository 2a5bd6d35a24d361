---------------------------- MODULE ProbeExecutor ----------------------------
(***************************************************************************)
(* Probe__Executor: an inspect request (navigate, settle steps, probes) or *)
(* a session probe request (no navigate) becomes one sequence, which       *)
(* Sequence__Runner executes; its step results are then cut into the parts *)
(* of the inspect response.                                                *)
(***************************************************************************)
EXTENDS SequenceRunner

CONSTANTS MaxSettle,  \* bound of the settle steps
          MaxProbes   \* bound of the probes

Inspects == [on_held_page : BOOLEAN, settle : 0..MaxSettle, probes : 0..MaxProbes,
             diagnostics_on_fail : BOOLEAN, mutating_probe : BOOLEAN]

VARIABLE inspect

probeVars == <<inspect, vars>>

(* The steps, by the part they play.                                       *)
Repeat(role, n) == [i \in 1..n |-> role]

Steps ==
    (IF inspect.on_held_page THEN <<>> ELSE <<"navigate">>)
        \o Repeat("settle", inspect.settle)
        \o Repeat("probe", inspect.probes)
        \o (IF inspect.diagnostics_on_fail THEN <<"consoleTail", "networkFailures">> ELSE <<>>)

(* Schema__Sequence__Config() is passed as it is by default.               *)
DefaultHaltOnError == TRUE

ProbeInit ==
    /\ inspect \in Inspects
    /\ inspect.mutating_probe => inspect.probes > 0
    /\ request \in [mode          : IF inspect.on_held_page THEN {"held"} ELSE Modes \ {"held"},
                    halt_on_error : {DefaultHaltOnError},
                    credentials   : IF inspect.on_held_page THEN {FALSE} ELSE BOOLEAN,
                    steps         : {Len(Steps)}]
    /\ InitRun

(* A probe that is not a read-only verb raises before there is a sequence. *)
RejectProbe ==
    /\ inspect.mutating_probe
    /\ pc = "validate"
    /\ runs = 1
    /\ error' = "other"
    /\ GoTo("failed")
    /\ UNCHANGED <<inspect, request, runs, late, results, halted, browser, executed>>

RunSequence ==
    /\ ~inspect.mutating_probe
    /\ Next
    /\ UNCHANGED inspect

ProbeNext == RejectProbe \/ RunSequence

ProbeSpec == ProbeInit /\ [][ProbeNext]_probeVars

-----------------------------------------------------------------------------
(* The response                                                            *)

(* results[from : from + n], which stops at the end of the results.        *)
Slice(from, n) ==
    SubSeq(results, from + 1, IF from + n <= Len(results) THEN from + n ELSE Len(results))

(* An offset that forgets that a held page has no navigate step.           *)
NavigateOffset_Fixed == 1

NavigateOffset == IF inspect.on_held_page THEN 0 ELSE 1

NavigateResults == Slice(0, NavigateOffset)

SettleResults == Slice(NavigateOffset, inspect.settle)

ProbeResults == Slice(NavigateOffset + inspect.settle, inspect.probes)

Failed(part) == \E i \in DOMAIN part : part[i] = "FAILED"

HadFailure == Failed(NavigateResults) \/ Failed(SettleResults) \/ Failed(ProbeResults)

(* The last two results; which of the two buffers the response carries: a  *)
(* step that was skipped or failed has not read its buffer.                *)
DiagnosticResults ==
    Slice(NavigateOffset + inspect.settle + inspect.probes,
          IF inspect.diagnostics_on_fail THEN 2 ELSE 0)

Diagnostics ==
    IF HadFailure
    THEN {<<"consoleTail", "networkFailures">>[i] :
              i \in {j \in DOMAIN DiagnosticResults : DiagnosticResults[j] = "PASSED"}}
    ELSE {}

Answered == pc = "responded"

-----------------------------------------------------------------------------
(* The results of the steps that play a part, in order.                    *)
ResultsOf(role) ==
    LET positions == InOrder({i \in DOMAIN Steps : Steps[i] = role})
    IN  [k \in DOMAIN positions |-> results[positions[k]]]

(* Every result is returned under the step it belongs to: the navigation,  *)
(* each settle step and each named probe get the result of their own step, *)
(* with or without a navigation in front and diagnostics behind.           *)
ResultsUnderTheirNames ==
    Answered =>
        /\ NavigateResults = ResultsOf("navigate")
        /\ SettleResults = ResultsOf("settle")
        /\ ProbeResults = ResultsOf("probe")
=============================================================================
