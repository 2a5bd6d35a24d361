------------------------------ MODULE Endpoints ------------------------------
(***************************************************************************)
(* The endpoints of Playwright__Service that make a sequence of their own, *)
(* run it (SequenceRunner) and read the reply out of its results:          *)
(*                                                                         *)
(*   items    /screenshot, /browser/screenshot and the items of            *)
(*            /screenshot/batch: one capture each, a browser for each;     *)
(*   steps    the steps of /screenshot/batch: one browser, a capture after *)
(*            every step or after the last;                                *)
(*   oneShot  /browser/navigate, click, fill, get-url and get-content.     *)
(*                                                                         *)
(* A shot is one of the screenshot requests of the call; a capture is      *)
(* known by the shot after which it was taken.                             *)
(***************************************************************************)
EXTENDS SequenceRunner, SequencesExt

CONSTANTS MaxShots,  \* bound of the shots of a call
          MaxActs    \* bound of the scripts, clicks and fills of a shot

Shots == [navigates : BOOLEAN, acts : 0..MaxActs, html : BOOLEAN]

(* every: screenshot_per_step. A one-shot call always navigates.           *)
Calls ==
    LET lists == UNION {[1..n -> Shots] : n \in 1..MaxShots}
    IN       [endpoint : {"items"}, shots : lists, every : {FALSE}]
        \cup [endpoint : {"steps"}, shots : lists, every : BOOLEAN]
        \cup [endpoint : {"oneShot"}, shots : {<<s>> : s \in {x \in Shots : x.navigates}}, every : {FALSE}]

VARIABLES
    call,   \* the call
    item,   \* the item whose sequence is run, of an items call
    taken   \* the captures of the items before it

endpointVars == <<call, item, taken, vars>>

(* The shots of the sequence being run.                                    *)
Current ==
    IF call.endpoint = "items" THEN {item} ELSE DOMAIN call.shots

-----------------------------------------------------------------------------
(* The sequence                                                            *)
Step(does, shot) == <<[does |-> does, shot |-> shot]>>

Navigate(i) == IF call.shots[i].navigates THEN Step("navigate", i) ELSE <<>>

Acts(i) == [n \in 1..call.shots[i].acts |-> [does |-> "act", shot |-> i]]

Captures(i) ==
    \/ call.endpoint = "items"
    \/ call.endpoint = "steps" /\ (call.every \/ i = Len(call.shots))

Capture(i) ==
    IF Captures(i) THEN Step(IF call.shots[i].html THEN "html" ELSE "png", i) ELSE <<>>

GetUrl(i) ==
    IF call.endpoint = "oneShot"
    THEN Step("url", i) \o (IF call.shots[i].html THEN Step("html", i) ELSE <<>>)
    ELSE <<>>

(* A capture that does not wait for the clicks of its shot.                *)
ShotSteps_Early(i) == Navigate(i) \o Capture(i) \o Acts(i) \o GetUrl(i)

ShotSteps(i) == Navigate(i) \o Acts(i) \o Capture(i) \o GetUrl(i)

Steps ==
    FlattenSeq([i \in DOMAIN call.shots |-> IF i \in Current THEN ShotSteps(i) ELSE <<>>])

-----------------------------------------------------------------------------
(* The reply                                                               *)
Passed(p) == results[p] = "PASSED"

(* The steps of a kind that have a result to show, in order.               *)
Found(does) ==
    LET steps == Steps
    IN  InOrder({p \in DOMAIN results : steps[p].does = does /\ Passed(p)})

ResultMap ==
    LET steps    == Steps
        captures == InOrder({p \in DOMAIN steps : steps[p].does \in {"png", "html"}})
    IN  [k \in DOMAIN captures |-> steps[captures[k]].does]

(* A pairing with one index for both kinds.                                *)
IndexAmongKind_Shared(map, k) == k

IndexAmongKind(map, k) == Cardinality({j \in 1..k : map[j] = map[k]})

(* A kind that has run out of results leaves its place out.                *)
Paired ==
    LET map   == ResultMap
        found == [does \in {"png", "html"} |-> Found(does)]
        has   == InOrder({k \in DOMAIN map : IndexAmongKind(map, k) <= Len(found[map[k]])})
    IN  [n \in DOMAIN has |-> found[map[has[n]]][IndexAmongKind(map, has[n])]]

(* Of an item the only capture; the page is empty when it was not read.    *)
Empty == 0

OfItem ==
    LET kind == IF call.shots[item].html THEN "html" ELSE "png"
    IN  CASE Found(kind) # <<>> -> <<Found(kind)[1]>>
          [] Found(kind) = <<>> /\ kind = "html" -> <<Empty>>
          [] Found(kind) = <<>> /\ kind = "png" -> <<>>

Taken == IF call.endpoint = "items" THEN OfItem ELSE Paired

(* The shots whose captures the reply has, in its order.                   *)
Shown ==
    LET now == Taken
    IN  taken \o [n \in DOMAIN now |-> IF now[n] = Empty THEN Empty ELSE Steps[now[n]].shot]

(* final_url is the requested url unless the page was asked.               *)
FinalUrlRead == Found("url") # <<>>

(* raise_on_sequence_failure that looks at what it got.                    *)
RaisesOnFailure_IfEmpty == SequenceStatus # "COMPLETED" /\ Found("png") = <<>> /\ Found("html") = <<>>

RaisesOnFailure == SequenceStatus # "COMPLETED"

(* "Screenshot artefact missing from sequence response"                    *)
ArtefactMissing == call.endpoint = "items" /\ Taken = <<>>

(* The sequence being run has given its part of a reply with status 2xx.   *)
Succeeds == pc = "responded" /\ ~RaisesOnFailure /\ ~ArtefactMissing

-----------------------------------------------------------------------------
EndpointInit ==
    /\ call \in Calls
    /\ item = 1
    /\ taken = <<>>
    /\ request \in [mode : {"direct", "pooled"}, halt_on_error : {TRUE},
                    credentials : {FALSE}, steps : {Len(Steps)}]
    /\ InitRun

(* "url is required"                                                       *)
RejectItem ==
    /\ call.endpoint = "items"
    /\ ~call.shots[item].navigates
    /\ pc = "validate"
    /\ error' = "other"
    /\ GoTo("failed")
    /\ UNCHANGED <<call, item, taken, request, runs, late, results, halted, browser, executed>>

RunSequence ==
    /\ call.endpoint = "items" => call.shots[item].navigates
    /\ Next
    /\ UNCHANGED <<call, item, taken>>

(* Any exception on the way is the reply of the whole batch.               *)
NextItem ==
    /\ call.endpoint = "items"
    /\ Succeeds
    /\ item < Len(call.shots)
    /\ item' = item + 1
    /\ taken' = Shown
    /\ UNCHANGED call
    /\ request' = [request EXCEPT !.steps = Len(Steps')]
    /\ runs' = 1
    /\ pc' = "validate"
    /\ late' = FALSE
    /\ results' = <<>>
    /\ halted' = FALSE
    /\ browser' = "none"
    /\ error' = "none"
    /\ executed' = 0

EndpointNext == RejectItem \/ RunSequence \/ NextItem

EndpointSpec == EndpointInit /\ [][EndpointNext]_endpointVars

-----------------------------------------------------------------------------
(* What the caller pairs the captures of the reply with, by position.      *)
Wanted ==
    InOrder({i \in DOMAIN call.shots :
                /\ call.endpoint = "items" => i <= item
                /\ Captures(i) \/ (call.endpoint = "oneShot" /\ call.shots[i].html)})

(* The reply has no field that says which shot a capture belongs to: the   *)
(* n-th is the n-th wanted one, for any mix of formats and wherever the    *)
(* run was cut, or an empty page; none has another one's place.            *)
CapturesInPlace ==
    Succeeds =>
        LET shown  == Shown
            wanted == Wanted
        IN  /\ Len(shown) <= Len(wanted)
            /\ \A n \in DOMAIN shown : shown[n] \in {wanted[n], Empty}

(* A reply that is not an error is complete, as long as the deadline has   *)
(* not passed: every wanted capture is there, the final url was read off   *)
(* the page, and no step failed behind a good reply.                       *)
CompleteUnlessLate ==
    Succeeds /\ ~late =>
        /\ Len(Shown) = Len(Wanted)
        /\ \A n \in DOMAIN Taken : Taken[n] # Empty
        /\ call.endpoint = "oneShot" => FinalUrlRead
        /\ Count("FAILED") = 0

(* A capture shows the page as its shot left it: everything asked for up   *)
(* to that shot has passed before it, and nothing of a later shot has run. *)
CapturedAfterItsSteps ==
    Succeeds =>
        LET steps == Steps
            asks  == {q \in DOMAIN steps : steps[q].does \in {"navigate", "act"}}
            shown == {Taken[n] : n \in DOMAIN Taken} \ {Empty}
        IN  \A p \in shown, q \in asks :
                IF steps[q].shot <= steps[p].shot THEN q < p /\ Passed(q) ELSE q > p
=============================================================================
