------------------------- MODULE VaultWaker_proofs -------------------------
(***************************************************************************)
(* The waker for any TTL, any addresses and any number of stops and        *)
(* errors: what a cache answers was so within the TTL, and nobody is told  *)
(* that a slug is unknown that was there throughout.                       *)
(***************************************************************************)
EXTENDS VaultWaker, TLAPS

(* A tick leaves an older stamp the older one.                             *)
LEMMA LaterIsOrdered ==
    /\ \A n \in 0..TTL : Later(n) \in 0..TTL
    /\ \A m, n \in 0..TTL : m <= n => Later(m) <= Later(n)
  BY WakerAssumption DEF Later

(* A slug without a record is no state of an instance.                     *)
LEMMA UnknownIsNoInstance ==
    /\ Unknown \notin Instances
    /\ \A s \in Instances : s # Unknown
  BY DEF Unknown, Instances, States

(* An empty cache is as good as one that has expired.                      *)
LEMMA NoEntryTypes == NoEntry.of = Unknown /\ NoEntry.age = TTL /\ NoEntry.was = TTL
  BY DEF NoEntry

(* A Lambda without a request.                                             *)
LEMMA IdleTypes == Idle \in Requests /\ Idle.at = "idle"
  BY WakerAssumption DEF Idle, Requests

(* A fresh entry holds an instance.                                        *)
LEMMA FreshHoldsInstance ==
    ASSUME TypeOK, NEW l \in Lambdas, Fresh(l)
    PROVE  cache[l] \in Entries /\ cache[l].of \in Instances
  <1>1. cache[l] \in Entries \/ cache[l] = NoEntry
    BY DEF TypeOK
  <1>2. cache[l] # NoEntry
    BY WakerAssumption, NoEntryTypes DEF Fresh
  <1>3. QED
    BY <1>1, <1>2 DEF Entries

(* Entry drops what is past the TTL and keeps the rest.                    *)
LEMMA IfFreshTypes ==
    ASSUME NEW e \in [of : Instances, age : 0..TTL, was : 0..TTL], e.was <= e.age
    PROVE  /\ IfFresh(e) \in Entries \cup {NoEntry}
           /\ IfFresh(e).was <= IfFresh(e).age
  <1>1. CASE e.age < TTL
    <2>1. e.age \in 0..(TTL - 1)
      BY <1>1, WakerAssumption
    <2>2. e = [of |-> e.of, age |-> e.age, was |-> e.was]
      OBVIOUS
    <2>3. e \in Entries
      BY <2>1, <2>2 DEF Entries
    <2>4. QED
      BY <1>1, <2>3 DEF IfFresh
  <1>2. CASE ~(e.age < TTL)
    BY <1>2, WakerAssumption, NoEntryTypes DEF IfFresh
  <1>3. QED
    BY <1>1, <1>2

(* The request that comes in, and its answer.                              *)
LEMMA ArriveKeeps ==
    ASSUME WakerInv, NEW l \in Lambdas, NEW mine \in BOOLEAN, Arrive(l, mine), UNCHANGED inst
    PROVE  /\ req' \in [Lambdas -> Requests]
           /\ UNCHANGED cache
           /\ WasSoSince'
           /\ BlindIsKnown'
  <1> USE DEF WakerInv
  <1>1. req \in [Lambdas -> Requests] /\ inst \in Instances \cup {Unknown}
    BY DEF TypeOK
  <1>2. CASE Fresh(l)
    <2> DEFINE new == [at |-> "act", mine |-> mine, res |-> cache[l].of, elapsed |-> 0,
                       was |-> 0, blind |-> inst = Unknown]
    <2>1. req' = [req EXCEPT ![l] = new]
      BY <1>2 DEF Arrive
    <2>2. new \in Requests
      BY <1>2, FreshHoldsInstance, WakerAssumption DEF Requests
    <2>3. new.res # Unknown
      BY <1>2, FreshHoldsInstance, UnknownIsNoInstance
    <2> HIDE DEF new
    <2>4. req'[l] = new /\ \A k \in Lambdas : k # l => req'[k] = req[k]
      BY <1>1, <2>1
    <2>5. new.at = "act"
      BY DEF new
    <2>6. QED
      BY <1>1, <2>1, <2>2, <2>3, <2>4, <2>5 DEF Arrive, Hit, WasSoSince, BlindIsKnown
  <1>3. CASE ~Fresh(l)
    <2> DEFINE new == [at |-> "describe", mine |-> mine, res |-> Unknown, elapsed |-> 0,
                       was |-> 0, blind |-> inst = Unknown]
    <2>1. req' = [req EXCEPT ![l] = new]
      BY <1>3 DEF Arrive
    <2>2. new \in Requests
      BY WakerAssumption DEF Requests
    <2>3. new.at = "describe" /\ new.res = Unknown /\ (inst = Unknown => new.blind)
      OBVIOUS
    <2> HIDE DEF new
    <2>4. req'[l] = new /\ \A k \in Lambdas : k # l => req'[k] = req[k]
      BY <1>1, <2>1
    <2>5. QED
      BY <1>1, <2>1, <2>2, <2>3, <2>4 DEF Arrive, Hit, WasSoSince, BlindIsKnown
  <1>4. QED
    BY <1>2, <1>3

(* An answer ends the request and shows what it was based on.              *)
LEMMA AnswerKeeps ==
    ASSUME WakerInv, NEW l \in Lambdas, NEW shown, Answer(l, shown), UNCHANGED cache,
           req[l].at # "idle", inst' = Unknown => inst = Unknown
    PROVE  /\ req' \in [Lambdas -> Requests]
           /\ WasSoSince'
           /\ BlindIsKnown'
  <1>1. req \in [Lambdas -> Requests]
    BY DEF WakerInv, TypeOK
  <1>2. req'[l] = Idle /\ \A k \in Lambdas : k # l => req'[k] = req[k]
    BY <1>1 DEF Answer
  <1>3. QED
    BY <1>1, <1>2, IdleTypes DEF Answer, WakerInv, WasSoSince, BlindIsKnown

(* Where a page may be.                                                    *)
Pages == {"closed", "asked", "warming", "polling", "ready"} \cup Ends

(* The invariant holds before the first request.                           *)
LEMMA InitWakerInv == Init => WakerInv
  <1> SUFFICES ASSUME Init PROVE WakerInv
    OBVIOUS
  <1> USE DEF Init
  <1>1. TypeOK
    <2>1. req \in [Lambdas -> Requests]
      BY IdleTypes
    <2>2. changes \in 0..MaxChanges /\ errors \in 0..MaxErrors
      BY WakerAssumption
    <2>3. cache \in [Lambdas -> Entries \cup {NoEntry}]
      OBVIOUS
    <2>4. serving \in BOOLEAN
      OBVIOUS
    <2>5. QED
      BY <2>1, <2>2, <2>3, <2>4 DEF TypeOK
  <1>2. WasSoSince /\ BlindIsKnown
    BY WakerAssumption, NoEntryTypes, IdleTypes DEF WasSoSince, BlindIsKnown
  <1>3. QED
    BY <1>1, <1>2 DEF WakerInv

(* What happens to the instance leaves the Lambdas alone.                  *)
LEMMA InstanceKeeps ==
    ASSUME WakerInv,
           Register \/ StopStack \/ Ec2
    PROVE  WakerInv'
  <1> USE DEF WakerInv
  <1>1. inst' \in Instances \cup {Unknown}
    BY DEF TypeOK, Register, StopStack, Ec2, Boots, GetsAddress, Serves, Instances, States, Unknown
  <1>2. inst' # Unknown
    BY DEF TypeOK, Register, StopStack, Ec2, Boots, GetsAddress, Serves, Instances, States, Unknown
  <1>3. UNCHANGED <<cache, req, page, errors>>
    BY DEF Register, StopStack, Ec2, Boots, GetsAddress, Serves
  <1>4. serving' \in BOOLEAN
    BY DEF TypeOK, Register, StopStack, Ec2, Boots, GetsAddress, Serves
  <1>6. changes' \in 0..MaxChanges
    BY WakerAssumption DEF TypeOK, Register, StopStack, Ec2, Boots, GetsAddress, Serves
  <1>5. QED
    BY <1>1, <1>2, <1>3, <1>4, <1>6 DEF TypeOK, WasSoSince, BlindIsKnown

(* unpublish takes the slug's record from under a request, which from then *)
(* on may rightly say that it is not there.                                *)
LEMMA UnpublishKeeps ==
    ASSUME WakerInv, Unpublish
    PROVE  WakerInv'
  <1> USE DEF WakerInv
  <1>1. req \in [Lambdas -> Requests]
    BY DEF TypeOK
  <1>2. \A l \in Lambdas : req'[l] = [req[l] EXCEPT !.blind = req[l].at # "idle"]
    BY DEF Unpublish
  <1>3. ASSUME NEW l \in Lambdas
        PROVE  /\ req'[l] \in Requests
               /\ req'[l].at = req[l].at /\ req'[l].res = req[l].res
               /\ req'[l].was = req[l].was /\ req'[l].elapsed = req[l].elapsed
               /\ req[l].at # "idle" => req'[l].blind
    <2> DEFINE b == req[l].at # "idle"
    <2>1. b \in BOOLEAN
      OBVIOUS
    <2>2. req'[l] = [req[l] EXCEPT !.blind = b] /\ req[l] \in Requests
      BY <1>1, <1>2
    <2>3. b <=> req[l].at # "idle"
      OBVIOUS
    <2> HIDE DEF b
    <2>4. QED
      BY <2>1, <2>2, <2>3 DEF Requests
  <1>4. req' \in [Lambdas -> Requests]
    BY <1>3 DEF Unpublish
  <1>5. TypeOK'
    <2>1. changes' \in 0..MaxChanges
      BY WakerAssumption DEF TypeOK, Unpublish
    <2>2. serving' \in BOOLEAN
      BY DEF Unpublish
    <2>3. QED
      BY <1>4, <2>1, <2>2 DEF TypeOK, Unpublish
  <1>6. WasSoSince'
    BY <1>3 DEF WasSoSince, Unpublish
  <1>7. BlindIsKnown'
    BY <1>3 DEF BlindIsKnown, Unpublish
  <1>8. QED
    BY <1>5, <1>6, <1>7

(* A look-up, and the entry that is made of it.                            *)
LEMMA DescribeKeeps ==
    ASSUME WakerInv, NEW l \in Lambdas, Describe(l)
    PROVE  WakerInv'
  <1> USE DEF WakerInv
  <1>1. req \in [Lambdas -> Requests] /\ req[l] \in Requests /\ inst \in Instances \cup {Unknown}
    BY DEF TypeOK
  <1>2. \A k \in Lambdas : k # l => req'[k] = req[k]
    BY <1>1 DEF Describe
  <1>3. /\ req' \in [Lambdas -> Requests]
        /\ req'[l].at = "described"
        /\ req'[l].res = Unknown => req'[l].blind
        /\ req'[l].was = req[l].was /\ req'[l].elapsed = req[l].elapsed
    <2>1. CASE req' = [req EXCEPT ![l].at = "described", ![l].res = inst]
      BY <1>1, <2>1 DEF Describe, Requests, BlindIsKnown
    <2>2. CASE req' = [req EXCEPT ![l].at = "described", ![l].blind = TRUE]
      BY <1>1, <2>2 DEF Describe, Requests
    <2>3. QED
      BY <2>1, <2>2 DEF Describe
  <1>4. TypeOK'
    <2>1. errors' \in 0..MaxErrors
      BY WakerAssumption DEF TypeOK, Describe
    <2>2. QED
      BY <1>3, <2>1 DEF TypeOK, Describe, ec2Vars
  <1>5. req[l].was <= req[l].elapsed
    BY DEF Describe, WasSoSince
  <1>6. WasSoSince'
    BY <1>2, <1>3, <1>5 DEF WasSoSince, Describe
  <1>7. BlindIsKnown'
    BY <1>2, <1>3 DEF BlindIsKnown, Describe, ec2Vars
  <1>8. QED
    BY <1>4, <1>6, <1>7

(* A look-up that AWS has answered is stored as it was when AWS answered,  *)
(* not as it is when it is stored.                                         *)
LEMMA DescribedKeeps ==
    ASSUME WakerInv, NEW l \in Lambdas, Described(l)
    PROVE  WakerInv'
  <1> USE DEF WakerInv
  <1>1. req \in [Lambdas -> Requests] /\ req[l] \in Requests
    BY DEF TypeOK
  <1>2. cache \in [Lambdas -> Entries \cup {NoEntry}]
    BY DEF TypeOK
  <1>3. /\ req' \in [Lambdas -> Requests]
        /\ req'[l].at = "act" /\ req'[l].res = req[l].res /\ req'[l].blind = req[l].blind
        /\ \A k \in Lambdas : k # l => req'[k] = req[k]
    <2> DEFINE new == [req[l] EXCEPT !.at = "act", !.elapsed = 0, !.was = 0]
    <2>1. new \in Requests
      <3>1. 0 \in 0..TTL
        BY WakerAssumption
      <3>2. QED
        BY <1>1, <3>1 DEF Requests
    <2>4. new.at = "act" /\ new.res = req[l].res
      BY <1>1 DEF Requests
    <2>5. new.blind = req[l].blind
      BY <1>1 DEF Requests
    <2>2. req' = [req EXCEPT ![l] = new]
      BY <1>1 DEF Described
    <2> HIDE DEF new
    <2>3. QED
      BY <1>1, <2>1, <2>2, <2>4, <2>5
  <1>4. /\ cache' \in [Lambdas -> Entries \cup {NoEntry}]
        /\ \A k \in Lambdas : cache'[k].was <= cache'[k].age
    <2>1. CASE ~Remembers(l)
      BY <1>2, <2>1 DEF Described, WasSoSince
    <2>2. CASE Remembers(l)
      <3>1. Entry(l) \in [of : Instances, age : 0..TTL, was : 0..TTL]
        BY <1>1, <2>2 DEF Entry, Remembers, Requests
      <3>2. Entry(l).was <= Entry(l).age
        BY DEF Entry, WasSoSince, Described
      <3>3. /\ IfFresh(Entry(l)) \in Entries \cup {NoEntry}
            /\ IfFresh(Entry(l)).was <= IfFresh(Entry(l)).age
        BY <3>1, <3>2, IfFreshTypes
      <3>4. cache' = [cache EXCEPT ![l] = IfFresh(Entry(l))]
        BY <2>2 DEF Described
      <3>5. QED
        BY <1>2, <3>3, <3>4 DEF WasSoSince
    <2>3. QED
      BY <2>1, <2>2
  <1>5. TypeOK'
    BY <1>3, <1>4 DEF TypeOK, Described, ec2Vars
  <1>6. WasSoSince'
    BY <1>3, <1>4 DEF WasSoSince
  <1>7. BlindIsKnown'
    BY <1>3 DEF BlindIsKnown, Described, ec2Vars
  <1>8. QED
    BY <1>5, <1>6, <1>7

(* The ways a request is answered.                                         *)
LEMMA AnswersKeep ==
    ASSUME WakerInv, NEW l \in Lambdas,
           LookUpRaises(l) \/ NotFound(l) \/ Warming(l)
    PROVE  WakerInv'
  <1> USE DEF WakerInv
  <1>1. PICK shown \in Pages : Answer(l, shown)
    BY DEF LookUpRaises, NotFound, Warming, Pages, Ends
  <1>2. req[l].at # "idle" /\ UNCHANGED <<inst, serving, cache, changes>>
    BY DEF LookUpRaises, NotFound, Warming, ec2Vars
  <1>3. req' \in [Lambdas -> Requests] /\ WasSoSince' /\ BlindIsKnown'
    BY <1>1, <1>2, AnswerKeeps
  <1>4. errors' \in 0..MaxErrors /\ page' \in Pages
    BY <1>1, WakerAssumption DEF TypeOK, LookUpRaises, NotFound, Warming, Answer, Pages, Ends
  <1>5. QED
    BY <1>2, <1>3, <1>4 DEF TypeOK, Pages, Ends

(* Starting the instance and proxying to it end the request of the waker.  *)
LEMMA WakerKeeps ==
    ASSUME WakerInv, StartInstance \/ Proxy
    PROVE  WakerInv'
  <1> USE DEF WakerInv
  <1>1. PICK shown \in Pages : Answer("waker", shown)
    BY DEF StartInstance, Proxy, Pages, Ends
  <1>2. req["waker"].at # "idle" /\ UNCHANGED <<serving, cache, changes>>
    BY DEF StartInstance, Proxy, ec2Vars
  <1>3. inst' \in Instances \cup {Unknown} /\ (inst' = Unknown => inst = Unknown)
    BY DEF StartInstance, Proxy, ec2Vars, TypeOK, Instances, States, Unknown
  <1>4. req' \in [Lambdas -> Requests] /\ WasSoSince' /\ BlindIsKnown'
    BY <1>1, <1>2, <1>3, AnswerKeeps DEF Lambdas
  <1>5. errors' \in 0..MaxErrors /\ page' \in Pages
    BY <1>1, WakerAssumption DEF TypeOK, StartInstance, Proxy, Answer, Pages, Ends
  <1>6. QED
    BY <1>2, <1>3, <1>4, <1>5 DEF TypeOK, Pages, Ends

(* The status call of a vault that is up ends the request of the admin     *)
(* Lambda.                                                                 *)
LEMMA ReadyKeeps ==
    ASSUME WakerInv, Ready
    PROVE  WakerInv'
  <1> USE DEF WakerInv
  <1>1. Answer("admin", "ready") /\ req["admin"].at # "idle"
        /\ UNCHANGED <<inst, serving, cache, changes, errors>>
    BY DEF Ready, ec2Vars
  <1>2. req' \in [Lambdas -> Requests] /\ WasSoSince' /\ BlindIsKnown'
    BY <1>1, AnswerKeeps DEF Lambdas
  <1>3. QED
    BY <1>1, <1>2 DEF TypeOK, Answer

(* A waker whose health check succeeds goes on to the proxy.                *)
LEMMA HealthyKeeps ==
    ASSUME WakerInv, Healthy
    PROVE  WakerInv'
  <1> USE DEF WakerInv
  <1>1. req \in [Lambdas -> Requests] /\ "waker" \in Lambdas
    BY DEF TypeOK, Lambdas
  <1>2. /\ req' \in [Lambdas -> Requests]
        /\ req'["waker"].at = "proxy"
        /\ \A k \in Lambdas : k # "waker" => req'[k] = req[k]
    BY <1>1 DEF Healthy, Requests
  <1>3. QED
    BY <1>2 DEF Healthy, ec2Vars, TypeOK, WasSoSince, BlindIsKnown

(* The visitor's requests and the others'.                                 *)
LEMMA VisitorKeeps ==
    ASSUME WakerInv, Visit \/ Redirect \/ Poll \/ Others
    PROVE  WakerInv'
  <1>1. PICK l \in Lambdas, mine \in BOOLEAN : Arrive(l, mine)
    BY DEF Visit, Redirect, Poll, Others, Ask, Lambdas
  <1>2. UNCHANGED <<inst, serving, changes, errors>> /\ page' \in Pages
    BY DEF Visit, Redirect, Poll, Others, Ask, ec2Vars, Pages, Ends, WakerInv, TypeOK
  <1>3. req' \in [Lambdas -> Requests] /\ UNCHANGED cache /\ WasSoSince' /\ BlindIsKnown'
    BY <1>1, <1>2, ArriveKeeps
  <1>4. QED
    BY <1>2, <1>3 DEF WakerInv, TypeOK, Pages, Ends

(* A new sandbox of a Lambda begins with an empty cache.                   *)
LEMMA RecycleKeeps ==
    ASSUME WakerInv, NEW l \in Lambdas, Recycle(l)
    PROVE  WakerInv'
  <1>1. cache' \in [Lambdas -> Entries \cup {NoEntry}]
    BY DEF WakerInv, TypeOK, Recycle
  <1>2. \A k \in Lambdas : cache'[k].was <= cache'[k].age
    BY WakerAssumption, NoEntryTypes DEF WakerInv, TypeOK, WasSoSince, Recycle
  <1>3. QED
    BY <1>1, <1>2 DEF WakerInv, TypeOK, Recycle, ec2Vars, WasSoSince, BlindIsKnown

(* Time passes for an entry as for what it says.                           *)
LEMMA TickKeeps ==
    ASSUME WakerInv, Tick
    PROVE  WakerInv'
  <1> USE DEF WakerInv
  <1>1. req \in [Lambdas -> Requests] /\ cache \in [Lambdas -> Entries \cup {NoEntry}]
    BY DEF TypeOK
  <1>2. \A found, n : n \in 0..TTL => WasSo(found, n) \in 0..TTL
    BY LaterIsOrdered, WakerAssumption DEF WasSo
  <1>3. \A found, m, n : m \in 0..TTL /\ n \in 0..TTL /\ m <= n => WasSo(found, m) <= Later(n)
    BY LaterIsOrdered, WakerAssumption DEF WasSo
  <1>4. ASSUME NEW l \in Lambdas
        PROVE  /\ cache'[l] \in Entries \cup {NoEntry}
               /\ cache'[l].was <= cache'[l].age
    <2> DEFINE e == [cache[l] EXCEPT !.age = Later(cache[l].age),
                                     !.was = WasSo(cache[l].of, cache[l].was)]
    <2>1. cache'[l] = IfFresh(e)
      BY DEF Tick
    <2>2. cache[l].was <= cache[l].age
      BY DEF WasSoSince
    <2>3. CASE cache[l] = NoEntry
      <3>1. e.age = TTL
        BY <2>3, WakerAssumption DEF NoEntry, Later
      <3>2. IfFresh(e) = NoEntry
        BY <3>1, WakerAssumption DEF IfFresh
      <3>3. QED
        BY <2>1, <3>2, WakerAssumption, NoEntryTypes
    <2>4. CASE cache[l] \in Entries
      <3>1. cache[l].age \in 0..TTL /\ cache[l].was \in 0..TTL /\ cache[l].of \in Instances
        BY <2>4, WakerAssumption DEF Entries
      <3>2. e \in [of : Instances, age : 0..TTL, was : 0..TTL]
        BY <1>2, <2>4, <3>1, LaterIsOrdered DEF Entries
      <3>3. e.was <= e.age
        BY <1>3, <2>2, <2>4, <3>1 DEF Entries
      <3>4. QED
        BY <2>1, <3>2, <3>3, IfFreshTypes
    <2>5. QED
      BY <1>1, <2>3, <2>4
  <1>5. ASSUME NEW l \in Lambdas
        PROVE  /\ req'[l] \in Requests
               /\ req'[l].at = req[l].at /\ req'[l].res = req[l].res /\ req'[l].blind = req[l].blind
               /\ req'[l].at \in {"describe", "described"} => req'[l].was <= req'[l].elapsed
    <2>1. req[l] \in Requests
      BY <1>1
    <2>2. CASE req[l].at = "described"
      <3>1. req'[l] = [req[l] EXCEPT !.elapsed = Later(req[l].elapsed),
                                     !.was = WasSo(req[l].res, req[l].was)]
        BY <2>2 DEF Tick
      <3>2. req[l].was <= req[l].elapsed /\ req[l].was \in 0..TTL /\ req[l].elapsed \in 0..TTL
        BY <2>1, <2>2 DEF WasSoSince, Requests
      <3>3. Later(req[l].elapsed) \in 0..TTL /\ WasSo(req[l].res, req[l].was) \in 0..TTL
        BY <1>2, <3>2, LaterIsOrdered
      <3>4. WasSo(req[l].res, req[l].was) <= Later(req[l].elapsed)
        BY <1>3, <3>2
      <3>5. QED
        BY <2>1, <3>1, <3>3, <3>4 DEF Requests
    <2>3. CASE req[l].at = "describe"
      <3>1. req'[l] = [req[l] EXCEPT !.elapsed = Later(req[l].elapsed), !.was = 0]
        BY <2>3 DEF Tick
      <3>2. Later(req[l].elapsed) \in 0..TTL
        BY <2>1, LaterIsOrdered DEF Requests
      <3>3. 0 \in 0..TTL
        BY WakerAssumption
      <3>4. req'[l] \in Requests
        BY <2>1, <3>1, <3>2, <3>3 DEF Requests
      <3>5. /\ req'[l].at = req[l].at /\ req'[l].res = req[l].res
            /\ req'[l].was = 0 /\ req'[l].elapsed = Later(req[l].elapsed)
        BY <2>1, <3>1 DEF Requests
      <3>6. req'[l].blind = req[l].blind
        BY <2>1, <3>1 DEF Requests
      <3>7. req'[l].was <= req'[l].elapsed
        BY <3>2, <3>5
      <3>8. QED
        BY <3>4, <3>5, <3>6, <3>7
    <2>4. CASE req[l].at \notin {"describe", "described"}
      BY <2>1, <2>4 DEF Tick
    <2>5. QED
      BY <2>2, <2>3, <2>4
  <1>6. TypeOK'
    BY <1>4, <1>5 DEF TypeOK, Tick, ec2Vars
  <1>7. WasSoSince'
    BY <1>4, <1>5 DEF WasSoSince
  <1>8. BlindIsKnown'
    BY <1>5 DEF BlindIsKnown, Tick, ec2Vars
  <1>9. QED
    BY <1>6, <1>7, <1>8

(* Every step keeps the invariant.                                         *)
LEMMA NextWakerInv == WakerInv /\ [Next]_vars => WakerInv'
  <1> SUFFICES ASSUME WakerInv, [Next]_vars PROVE WakerInv'
    OBVIOUS
  <1>1. CASE Operator
    BY <1>1, InstanceKeeps, UnpublishKeeps DEF Operator
  <1>2. CASE Ec2
    BY <1>2, InstanceKeeps
  <1>3. ASSUME NEW l \in Lambdas, Handle(l) PROVE WakerInv'
    BY <1>3, DescribeKeeps, DescribedKeeps, AnswersKeep, WakerKeeps, HealthyKeeps, ReadyKeeps
       DEF Handle
  <1>4. ASSUME NEW l \in Lambdas, Recycle(l) PROVE WakerInv'
    BY <1>4, RecycleKeeps
  <1>5. CASE Visit \/ Poll \/ Redirect \/ Others
    BY <1>5, VisitorKeeps
  <1>6. CASE Tick
    BY <1>6, TickKeeps
  <1>7. CASE UNCHANGED vars
    BY <1>7 DEF vars, ec2Vars, WakerInv, TypeOK, WasSoSince, BlindIsKnown
  <1>8. QED
    BY <1>1, <1>2, <1>3, <1>4, <1>5, <1>6, <1>7 DEF Next

(* The inductive invariant of the waker and of the admin Lambda.           *)
THEOREM WakerInvariant == Spec => []WakerInv
  BY InitWakerInv, NextWakerInv, PTL DEF Spec

(* Every variable has its type: no cache holds an entry of nothing.        *)
THEOREM WakerTypeCorrect == Spec => []TypeOK
  BY WakerInvariant, PTL DEF WakerInv

(* Nobody is told that a slug is unknown that had its instance since the   *)
(* request came in, unless a call of AWS has raised.                       *)
THEOREM NotFoundTheorem == Spec => []NotFoundWasSo
  <1>1. WakerInv => NotFoundWasSo
    BY DEF WakerInv, BlindIsKnown, NotFoundWasSo
  <1>2. QED
    BY <1>1, WakerInvariant, PTL

(* An answer out of the cache was so less than the TTL ago, for any TTL,   *)
(* however long a look-up takes.                                           *)
THEOREM RecognisedTheorem == Spec => RecognisedWithinTTL
  <1> DEFINE Recent == \A l \in Lambdas :
                           req[l] = Idle /\ req'[l].at = "act" => cache[l].was < TTL
  <1>1. ASSUME WakerInv, Next PROVE Recent
    <2> SUFFICES ASSUME NEW l \in Lambdas, req[l] = Idle, req'[l].at = "act"
                 PROVE  cache[l].was < TTL
      OBVIOUS
    <2>1. req \in [Lambdas -> Requests] /\ req[l].at = "idle"
      <3>1. req \in [Lambdas -> Requests]
        BY <1>1 DEF WakerInv, TypeOK
      <3>2. req[l].at = "idle"
        BY IdleTypes
      <3>3. QED
        BY <3>1, <3>2
    <2>2. PICK mine \in BOOLEAN : Arrive(l, mine)
      <3>1. CASE Visit \/ Poll \/ Redirect \/ Others
        BY <2>1, <3>1 DEF Visit, Poll, Redirect, Others, Ask, Arrive
      <3>2. CASE Operator \/ Ec2
        <4>1. CASE Unpublish
          <5>1. req'[l].at = req[l].at
            BY <2>1, <4>1 DEF Unpublish, Requests
          <5>2. QED
            BY <2>1, <5>1
        <4>2. CASE Register \/ StopStack \/ Ec2
          BY <2>1, <4>2 DEF Register, StopStack, Ec2, Boots, GetsAddress, Serves
        <4>3. QED
          BY <3>2, <4>1, <4>2 DEF Operator
      <3>3. CASE Tick
        BY <2>1, <3>3 DEF Tick
      <3>4. ASSUME NEW k \in Lambdas, Handle(k) \/ Recycle(k) PROVE req'[l].at # "act"
        BY <2>1, <3>4, IdleTypes
           DEF Handle, Describe, LookUpRaises, Described, NotFound, Warming, StartInstance, Healthy,
               Proxy, Ready, Recycle, Answer
      <3>5. QED
        BY <1>1, <3>1, <3>2, <3>3, <3>4 DEF Next
    <2>3. Fresh(l)
      BY <2>1, <2>2 DEF Arrive
    <2>4. cache[l] \in Entries
      BY <1>1, <2>3, FreshHoldsInstance DEF WakerInv
    <2>6. cache[l].was <= cache[l].age
      BY <1>1 DEF WakerInv, WasSoSince
    <2>5. QED
      BY <2>3, <2>4, <2>6, WakerAssumption DEF Fresh, Entries
  <1>2. WakerInv /\ [Next]_vars => [Recent]_vars
    BY <1>1
  <1>3. QED
    BY <1>2, WakerInvariant, PTL DEF Spec, RecognisedWithinTTL
=============================================================================
