------------------------------ MODULE MC_Replies ------------------------------
(***************************************************************************)
(* Every endpoint that runs a sequence, over one runner: its own of        *)
(* /sequence/execute, the calls of Endpoints and those of ProbeExecutor.   *)
(***************************************************************************)
EXTENDS SequenceRunner

CONSTANTS MaxShots, MaxActs, MaxSettle, MaxProbes,
          MaxOwn  \* bound of the steps of a sequence that the caller gives

ASSUME BoundsAssumption == {MaxShots, MaxActs, MaxSettle, MaxProbes, MaxOwn} \subseteq Nat

VARIABLES call, item, taken, inspect

Shot == INSTANCE Endpoints

Probe == INSTANCE ProbeExecutor

replyVars == <<call, item, taken, inspect, vars>>

ProbeCall == [endpoint |-> "probe", shots |-> <<>>, every |-> FALSE]

OwnCall == [ProbeCall EXCEPT !.endpoint = "sequence"]

NoInspect ==
    [on_held_page |-> FALSE, settle |-> 0, probes |-> 0,
     diagnostics_on_fail |-> FALSE, mutating_probe |-> FALSE]

ReplyInit ==
    \/ Init /\ request.steps <= MaxOwn /\ call = OwnCall /\ item = 1 /\ taken = <<>> /\ inspect = NoInspect
    \/ Shot!EndpointInit /\ inspect = NoInspect
    \/ Probe!ProbeInit /\ call = ProbeCall /\ item = 1 /\ taken = <<>>

OwnStep == call = OwnCall /\ Next /\ UNCHANGED <<call, item, taken, inspect>>

ShotCall == call \notin {OwnCall, ProbeCall}

ShotStep == ShotCall /\ Shot!EndpointNext /\ UNCHANGED inspect

ProbeStep == call = ProbeCall /\ Probe!ProbeNext /\ UNCHANGED <<call, item, taken>>

ReplyNext == OwnStep \/ ShotStep \/ ProbeStep

ReplySpec == ReplyInit /\ [][ReplyNext]_replyVars

-----------------------------------------------------------------------------
(* The properties of Endpoints: each capture of a reply is in the place of *)
(* its own shot.                                                           *)
CapturesInPlace == ShotCall => Shot!CapturesInPlace

(* A reply that is not an error is complete, but for the deadline.         *)
CompleteUnlessLate == ShotCall => Shot!CompleteUnlessLate

(* A capture shows the page as its own shot left it.                       *)
CapturedAfterItsSteps == ShotCall => Shot!CapturedAfterItsSteps

(* The property of ProbeExecutor: every result of an inspect or a session  *)
(* probe is returned under the step it belongs to.                         *)
ResultsUnderTheirNames == call = ProbeCall => Probe!ResultsUnderTheirNames
=============================================================================
