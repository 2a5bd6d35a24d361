---------------------------- MODULE VaultWaker ----------------------------
(***************************************************************************)
(* Vault-publish: a vault is an EC2 instance that is tagged with a slug    *)
(* and stopped while nobody uses it. The waker Lambda gets the visitor's   *)
(* request: it resolves the slug, starts the instance, shows a page that   *)
(* polls, or proxies. The page polls the admin Lambda, which resolves and  *)
(* probes alike and starts nothing, and goes back to the waker when the    *)
(* vault is up.                                                            *)
(*                                                                         *)
(* Each Lambda keeps what describe_instances has told it, the state and    *)
(* the address too, for a TTL. An instance that stops gives its address    *)
(* back, and another machine may get it.                                   *)
(***************************************************************************)
EXTENDS Naturals

CONSTANTS
    Addresses,   \* public addresses
    TTL,         \* _CACHE_TTL, in ticks
    MaxChanges,  \* bound of the times the vault is stopped or unpublished
    MaxErrors,   \* bound of the calls of AWS that raise
    None

ASSUME WakerAssumption ==
    /\ TTL \in Nat \ {0}
    /\ MaxChanges \in Nat
    /\ MaxErrors \in Nat
    /\ None \notin Addresses

Lambdas == {"waker", "admin"}

VARIABLES
    inst,      \* the instance of the slug: its state and public address
    serving,   \* the vault answers on its address
    cache,     \* _SLUG_CACHE of each Lambda: the instance and its age
    req,       \* the request each Lambda is at
    page,      \* the visitor's page
    changes,   \* times the vault was stopped or unpublished
    errors     \* calls that have raised

ec2Vars == <<inst, serving>>
vars == <<ec2Vars, cache, req, page, changes, errors>>

States == {"gone", "pending", "running", "stopping", "stopped"}

Unknown == [state |-> "gone", ip |-> None]

(* An entry: what was found, its age and, for observation, the ticks since *)
(* it was so. One as old as the TTL is as good as none.                    *)
NoEntry == [of |-> Unknown, age |-> TTL, was |-> TTL]

Fresh(l) == cache[l].age < TTL

(* A request: what it was resolved to, the ticks its look-up has taken and *)
(* since that was so, and whether the slug was seen without an instance.   *)
Idle == [at |-> "idle", mine |-> FALSE, res |-> Unknown, elapsed |-> 0, was |-> 0, blind |-> FALSE]

Later(n) == IF n < TTL THEN n + 1 ELSE TTL

-----------------------------------------------------------------------------
Init ==
    /\ inst = Unknown
    /\ serving = FALSE
    /\ cache = [l \in Lambdas |-> NoEntry]
    /\ req = [l \in Lambdas |-> Idle]
    /\ page = "closed"
    /\ changes = 0
    /\ errors = 0

-----------------------------------------------------------------------------
(* The instance                                                            *)

(* register: the stack has the slug for its name from the first.           *)
Register ==
    /\ inst = Unknown
    /\ inst' = [state |-> "pending", ip |-> None]
    /\ UNCHANGED <<serving, cache, req, page, changes, errors>>

(* unpublish: the instance is terminated, and what is asked from then on   *)
(* may find it gone.                                                       *)
Unpublish ==
    /\ inst # Unknown
    /\ changes < MaxChanges
    /\ changes' = changes + 1
    /\ inst' = Unknown
    /\ serving' = FALSE
    /\ req' = [l \in Lambdas |-> [req[l] EXCEPT !.blind = req[l].at # "idle"]]
    /\ UNCHANGED <<cache, page, errors>>

StopStack ==
    /\ inst.state = "running"
    /\ changes < MaxChanges
    /\ changes' = changes + 1
    /\ inst' = [state |-> "stopping", ip |-> None]
    /\ serving' = FALSE
    /\ UNCHANGED <<cache, req, page, errors>>

(* What the instance does of itself; an address comes after the state.     *)
Boots ==
    /\ \/ /\ inst.state = "pending"
          /\ inst' = [inst EXCEPT !.state = "running"]
       \/ /\ inst.state = "stopping"
          /\ inst' = [inst EXCEPT !.state = "stopped"]
    /\ UNCHANGED <<serving, cache, req, page, changes, errors>>

GetsAddress ==
    /\ inst.state = "running"
    /\ inst.ip = None
    /\ \E a \in Addresses : inst' = [inst EXCEPT !.ip = a]
    /\ UNCHANGED <<serving, cache, req, page, changes, errors>>

Serves ==
    /\ inst.ip # None
    /\ ~serving
    /\ serving' = TRUE
    /\ UNCHANGED <<inst, cache, req, page, changes, errors>>

-----------------------------------------------------------------------------
(* resolve, of the waker and of the admin Lambda                           *)

(* A cache that keeps an entry fresh by reading it.                        *)
Hit_Slides(l) ==
    cache' = IF Fresh(l) THEN [cache EXCEPT ![l].age = 0] ELSE cache

Hit(l) == UNCHANGED cache

(* _cached_get reads the clock and the entry.                              *)
Arrive(l, mine) ==
    /\ req[l] = Idle
    /\ req' = [req EXCEPT ![l] =
                   [at      |-> IF Fresh(l) THEN "act" ELSE "describe",
                    mine    |-> mine,
                    res     |-> IF Fresh(l) THEN cache[l].of ELSE Unknown,
                    elapsed |-> 0,
                    was     |-> 0,
                    blind   |-> inst = Unknown]]
    /\ Hit(l)

(* The request is over; the visitor's page shows what it was answered.     *)
Answer(l, shown) ==
    /\ req' = [req EXCEPT ![l] = Idle]
    /\ page' = IF req[l].mine THEN shown ELSE page

(* describe_instances; a ClientError is taken for nothing found.           *)
Describe(l) ==
    /\ req[l].at = "describe"
    /\ \/ /\ req' = [req EXCEPT ![l].at = "described", ![l].res = inst]
          /\ UNCHANGED errors
       \/ /\ errors < MaxErrors
          /\ errors' = errors + 1
          /\ req' = [req EXCEPT ![l].at = "described", ![l].blind = TRUE]
    /\ UNCHANGED <<ec2Vars, cache, page, changes>>

(* Any other exception is the answer, an internal error; a page that polls *)
(* tries again.                                                            *)
LookUpRaises(l) ==
    /\ req[l].at = "describe"
    /\ errors < MaxErrors
    /\ errors' = errors + 1
    /\ Answer(l, IF l = "waker" THEN "failed" ELSE "warming")
    /\ UNCHANGED <<ec2Vars, cache, changes>>

(* An entry that is as old as its writing.                                 *)
Entry_AtReturn(l) == [of |-> req[l].res, age |-> 0, was |-> req[l].was]

(* The time was read before the look-up.                                   *)
Entry(l) == [of |-> req[l].res, age |-> req[l].elapsed, was |-> req[l].was]

(* A cache that remembers that nothing was found, too.                     *)
Remembers_All(l) == TRUE

Remembers(l) == req[l].res # Unknown

IfFresh(e) == IF e.age < TTL THEN e ELSE NoEntry

Described(l) ==
    /\ req[l].at = "described"
    /\ cache' = IF Remembers(l) THEN [cache EXCEPT ![l] = IfFresh(Entry(l))] ELSE cache
    /\ req' = [req EXCEPT ![l].at = "act", ![l].elapsed = 0, ![l].was = 0]
    /\ UNCHANGED <<ec2Vars, page, changes, errors>>

-----------------------------------------------------------------------------
(* The answers                                                             *)

Running(l) == req[l].res.state = "running" /\ req[l].res.ip # None

(* On an address that is not the vault's, or is no longer, another machine *)
(* may or may not answer.                                                  *)
Vaults(l) == req[l].res.ip = inst.ip

Up(l) == Running(l) /\ (Vaults(l) => serving)

Down(l) == Running(l) => ~(Vaults(l) /\ serving)

NotFound(l) ==
    /\ req[l].at = "act"
    /\ req[l].res = Unknown
    /\ Answer(l, "failed")
    /\ UNCHANGED <<ec2Vars, cache, changes, errors>>

(* start swallows what raises, a start of what is not stopped among it.    *)
StartInstance ==
    /\ req["waker"].at = "act"
    /\ req["waker"].res.state = "stopped"
    /\ \/ /\ inst' = IF inst.state = "stopped" THEN [inst EXCEPT !.state = "pending"] ELSE inst
          /\ UNCHANGED errors
       \/ /\ errors < MaxErrors
          /\ errors' = errors + 1
          /\ UNCHANGED inst
    /\ Answer("waker", "warming")
    /\ UNCHANGED <<serving, cache, changes>>

Warming(l) ==
    /\ req[l].at = "act"
    /\ req[l].res # Unknown
    /\ l = "waker" => req[l].res.state # "stopped"
    /\ Down(l)
    /\ Answer(l, "warming")
    /\ UNCHANGED <<ec2Vars, cache, changes, errors>>

Healthy ==
    /\ req["waker"].at = "act"
    /\ Up("waker")
    /\ req' = [req EXCEPT !["waker"].at = "proxy"]
    /\ UNCHANGED <<ec2Vars, cache, page, changes, errors>>

(* A 502, when the machine has gone since it was probed, or a page of      *)
(* another machine's, is not what the visitor has asked for.               *)
Proxy ==
    /\ req["waker"].at = "proxy"
    /\ Answer("waker", IF Vaults("waker") /\ serving THEN "open" ELSE "stray")
    /\ UNCHANGED <<ec2Vars, cache, changes, errors>>

(* The admin Lambda's: the page goes back to the waker.                    *)
Ready ==
    /\ req["admin"].at = "act"
    /\ Up("admin")
    /\ Answer("admin", "ready")
    /\ UNCHANGED <<ec2Vars, cache, changes, errors>>

-----------------------------------------------------------------------------
(* The visitor: a request for the vault ends in the vault, in a page of    *)
(* the waker's that says it has failed, or somewhere else.                 *)
Ends == {"open", "failed", "stray"}

Ask ==
    /\ Arrive("waker", TRUE)
    /\ page' = "asked"
    /\ UNCHANGED <<ec2Vars, changes, errors>>

Visit == page \in {"closed", "warming"} \cup Ends /\ Ask

Redirect == page = "ready" /\ Ask

(* bootTick                                                                *)
Poll ==
    /\ page = "warming"
    /\ Arrive("admin", TRUE)
    /\ page' = "polling"
    /\ UNCHANGED <<ec2Vars, changes, errors>>

(* Other visitors of the slug.                                             *)
Others ==
    /\ Arrive("waker", FALSE)
    /\ UNCHANGED <<ec2Vars, page, changes, errors>>

(* A new sandbox of the Lambda, with an empty cache.                       *)
Recycle(l) ==
    /\ req[l] = Idle
    /\ cache' = [cache EXCEPT ![l] = NoEntry]
    /\ UNCHANGED <<ec2Vars, req, page, changes, errors>>

(* What was found is still so, as to the instance and its address.         *)
StillSo(found) == inst # Unknown /\ (found.ip # None => found.ip = inst.ip)

WasSo(found, was) == IF StillSo(found) THEN 0 ELSE Later(was)

Tick ==
    /\ cache' = [l \in Lambdas |->
                     IfFresh([cache[l] EXCEPT !.age = Later(cache[l].age),
                                              !.was = WasSo(cache[l].of, cache[l].was)])]
    /\ req' = [l \in Lambdas |->
                   IF req[l].at \in {"describe", "described"}
                   THEN [req[l] EXCEPT !.elapsed = Later(req[l].elapsed),
                                       !.was = IF req[l].at = "described"
                                               THEN WasSo(req[l].res, req[l].was) ELSE 0]
                   ELSE req[l]]
    /\ UNCHANGED <<ec2Vars, page, changes, errors>>

-----------------------------------------------------------------------------
Ec2 == Boots \/ GetsAddress \/ Serves

Handle(l) ==
    \/ Describe(l) \/ LookUpRaises(l) \/ Described(l) \/ NotFound(l) \/ Warming(l)
    \/ l = "waker" /\ (StartInstance \/ Healthy \/ Proxy)
    \/ l = "admin" /\ Ready

Operator == Register \/ Unpublish \/ StopStack

Next ==
    \/ Operator
    \/ Ec2
    \/ \E l \in Lambdas : Handle(l) \/ Recycle(l)
    \/ Visit \/ Poll \/ Redirect \/ Others
    \/ Tick

(* A request is never starved: a Lambda that is busy gets another sandbox. *)
Fairness ==
    /\ WF_vars(Ec2)
    /\ \A l \in Lambdas : WF_vars(Handle(l))
    /\ SF_vars(Poll \/ Redirect)
    /\ WF_vars(Tick)

Spec == Init /\ [][Next]_vars

FairSpec == Spec /\ Fairness

-----------------------------------------------------------------------------
Instances ==
         [state : States \ {"running", "gone"}, ip : {None}]
    \cup [state : {"running"}, ip : Addresses \cup {None}]

Entries == [of : Instances, age : 0..(TTL - 1), was : 0..TTL]

Requests ==
    [at : {"idle", "describe", "described", "act", "proxy"}, mine : BOOLEAN,
     res : Instances \cup {Unknown}, elapsed : 0..TTL, was : 0..TTL, blind : BOOLEAN]

TypeOK ==
    /\ inst \in Instances \cup {Unknown}
    /\ serving \in BOOLEAN
    /\ cache \in [Lambdas -> Entries \cup {NoEntry}]
    /\ req \in [Lambdas -> Requests]
    /\ page \in {"closed", "asked", "warming", "polling", "ready"} \cup Ends
    /\ changes \in 0..MaxChanges
    /\ errors \in 0..MaxErrors

(* "still recognising unpublish within 60s": what is answered out of the   *)
(* cache was so less than the TTL ago, however slow the look-up was and    *)
(* however often the entry is read: the slug had an instance, and the      *)
(* address, where a stranger may be by now, was the instance's.            *)
RecognisedWithinTTL ==
    [][\A l \in Lambdas :
          req[l] = Idle /\ req'[l].at = "act" => cache[l].was < TTL]_vars

(* A visitor is told that there is no such slug only if there was none at  *)
(* some time since the request came in, or a call of AWS has raised: the   *)
(* answer to an earlier request is never repeated.                         *)
NotFoundWasSo ==
    \A l \in Lambdas : req[l].at = "act" /\ req[l].res = Unknown => req[l].blind

(* No Lambda takes an address for the vault's that is not. It may for up   *)
(* to a TTL after the vault has stopped.                                   *)
Believed ==
    \A l \in Lambdas :
        /\ cache[l].of.ip \in {None, inst.ip}
        /\ req[l].res.ip \in {None, inst.ip}

(* A vault that is up and stays up is reached from a warming page, however *)
(* often a cache still said that it was not, if no cache has an address of *)
(* before its stop, unless a call of AWS raises on the way. In any case    *)
(* the page does not warm for ever: it ends in the vault, in an error, or, *)
(* by an old address, in a 502 or at another machine. And a vault that     *)
(* stays registered is started and reached by a visitor who keeps asking   *)
(* the waker, whatever addresses were cached.                              *)
ReachedIfUpOrAsked ==
    /\ \A n \in 0..MaxErrors :
          [](page = "warming" /\ Believed /\ errors = n /\ []serving => <>(page = "open" \/ errors > n))
    /\ <>[]serving => (page = "warming" ~> page \in Ends)
    /\ <>[](inst # Unknown) /\ []<>(page = "asked") => <>(page = "open")

(* Why they hold. Nothing was so longer ago than it was written or is      *)
(* being looked up, and a look-up that may find nothing knows it may.      *)
WasSoSince ==
    \A l \in Lambdas :
        /\ cache[l].was <= cache[l].age
        /\ req[l].at \in {"describe", "described"} => req[l].was <= req[l].elapsed

BlindIsKnown ==
    \A l \in Lambdas :
        /\ req[l].at = "describe" => req[l].res = Unknown /\ (inst = Unknown => req[l].blind)
        /\ req[l].at \in {"described", "act"} /\ req[l].res = Unknown => req[l].blind

WakerInv == TypeOK /\ WasSoSince /\ BlindIsKnown

(* "Idle the instance via sg vault-app stop, hit the URL again - get a     *)
(* warming page that auto-refreshes into the vault UI".                    *)
WarmingPageWakes ==
    <>[](inst # Unknown) => (page = "asked" ~> page \in Ends)
=============================================================================
