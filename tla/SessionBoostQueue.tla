-------------------------- MODULE SessionBoostQueue --------------------------
(***************************************************************************)
(* RequestPriorityQueue in session-boost mode                              *)
(* (pkg/kthena-router/datastore/session_boost_queue.go): the dequeue loop  *)
(* that admits requests against an inflight limit and the scraped metrics  *)
(* of the backend pods, the handlers that wait, and the goroutines that    *)
(* scrape, add and delete pods and then ask the loop to look again.        *)
(*                                                                         *)
(* notifyCh, releaseCh and recheckCh hold at most one token each, so       *)
(* signals coalesce; the loop sleeps in one select over all three, and     *)
(* inside popWhenAvailable over notifyCh alone.                            *)
(*                                                                         *)
(* pods[p] is what the store believes of a pod as far as this model is     *)
(* concerned: not serving it ("absent"), or serving it with an empty or a  *)
(* non-empty waiting queue.  permit[r] stands for admitted, abandoned and  *)
(* Release together, which the request's admitMu keeps in step.  The heap  *)
(* is a set; RequestOrder models the order.                                *)
(***************************************************************************)
EXTENDS Naturals, FiniteSets

CONSTANTS Requests, Pods, InflightPerPod, Grace, None

ASSUME RequestsFinite == IsFiniteSet(Requests)
ASSUME PodsFinite == IsFiniteSet(Pods)
ASSUME InflightPerPodPositive == InflightPerPod \in Nat \ {0}
ASSUME GraceBoolean == Grace \in BOOLEAN
ASSUME NoneNotRequest == None \notin Requests

VARIABLES
    heap, notifyCh, releaseCh, recheckCh, stopCh, ctxDone, draining,
    inflight,    \* inflightCount
    maxInflight, \* the limit this pass of tryBackpressureDequeue computed
    podCount,    \* the pods it has counted for that limit
    scan,        \* pods the running count or backend check has still to visit
    seen,        \* it has met a pod that serves the model
    loop, hand,  \* the dequeue goroutine and the request it has popped
    pods,        \* the store's view of the pods
    changed,     \* pods whose goroutine has still to call RecheckBackpressure
    caller, cancelled, permit, signalled

chans == <<notifyCh, releaseCh, recheckCh>>
queueVars == <<heap, stopCh, ctxDone, draining>>
loopVars == <<loop, hand, maxInflight, podCount, scan, seen>>
podVars == <<pods, changed>>
reqVars == <<caller, cancelled, permit, signalled>>
vars == <<chans, queueVars, inflight, loopVars, podVars, reqVars>>

LoopStates == {"select", "grace", "limit", "count", "inflight", "backend", "drain", "length",
               "pop", "wait", "commit", "signal", "stopped"}
CallerStates == {"idle", "waiting", "releasing", "serving", "signalling", "done"}
PermitStates == {"none", "inflight", "released", "abandoned"}

(* podInfo.Contains(modelName) *)
Serving == {p \in Pods : pods[p] # "absent"}

(* The limit of a pass: InflightPerPod per pod, of at least one pod. *)
LimitFor(n) == IF n > 0 THEN n * InflightPerPod ELSE InflightPerPod

Init ==
    /\ heap = {} /\ stopCh = FALSE /\ ctxDone = FALSE /\ draining = {}
    /\ notifyCh = FALSE /\ releaseCh = FALSE /\ recheckCh = FALSE
    /\ inflight = 0 /\ maxInflight = LimitFor(0) /\ podCount = 0 /\ scan = {} /\ seen = FALSE
    /\ loop = "select" /\ hand = None
    /\ pods \in [Pods -> {"absent", "idle", "busy"}] /\ changed = {}
    /\ caller = [r \in Requests |-> "idle"]
    /\ cancelled = [r \in Requests |-> FALSE]
    /\ permit = [r \in Requests |-> "none"]
    /\ signalled = [r \in Requests |-> FALSE]

-----------------------------------------------------------------------------
(***************************************************************************)
(* Handlers.                                                               *)
(***************************************************************************)
CallerTo(r, s) == caller' = [caller EXCEPT ![r] = s]

(* The non-blocking send on notifyCh after a push. *)
FaultyWakeLoop == UNCHANGED notifyCh
WakeLoop == notifyCh' = TRUE

(* PushRequest's look at stopCh, under the queue lock. *)
FaultyPushRefused == FALSE
PushRefused == stopCh

(* PushRequest: refused once the queue is closed. *)
PushRequest(r) ==
    /\ caller[r] = "idle"
    /\ IF PushRefused
       THEN CallerTo(r, "done") /\ UNCHANGED <<heap, notifyCh>>
       ELSE CallerTo(r, "waiting") /\ heap' = heap \cup {r} /\ WakeLoop
    /\ UNCHANGED <<releaseCh, recheckCh, stopCh, ctxDone, draining, inflight,
                   loopVars, podVars, cancelled, permit, signalled>>

(* SESSION_BOOST_TIMEOUT passes or the client disconnects. *)
ContextDone(r) ==
    /\ caller[r] = "waiting" /\ ~cancelled[r]
    /\ cancelled' = [cancelled EXCEPT ![r] = TRUE]
    /\ UNCHANGED <<chans, queueVars, inflight, loopVars, podVars, caller, permit, signalled>>

Notified(r) ==
    /\ caller[r] = "waiting" /\ signalled[r]
    /\ CallerTo(r, "serving")
    /\ UNCHANGED <<chans, queueVars, inflight, loopVars, podVars, cancelled, permit, signalled>>

FaultyAbandon(r) ==
    /\ caller[r] = "waiting" /\ cancelled[r]
    /\ CallerTo(r, "releasing")
    /\ UNCHANGED <<chans, queueVars, inflight, loopVars, podVars, cancelled, permit, signalled>>

(* Abandon: the permit of a request admitted meanwhile must be released. *)
Abandon(r) ==
    /\ caller[r] = "waiting" /\ cancelled[r]
    /\ IF permit[r] = "none"
       THEN CallerTo(r, "done") /\ permit' = [permit EXCEPT ![r] = "abandoned"]
       ELSE CallerTo(r, "releasing") /\ UNCHANGED permit
    /\ UNCHANGED <<chans, queueVars, inflight, loopVars, podVars, cancelled, signalled>>

(* Release, first half: inflightCount.Add(-1), once. *)
Release(r) ==
    /\ caller[r] \in {"serving", "releasing"}
    /\ CallerTo(r, "signalling")
    /\ permit' = [permit EXCEPT ![r] = "released"]
    /\ inflight' = inflight - 1
    /\ UNCHANGED <<chans, queueVars, loopVars, podVars, cancelled, signalled>>

(* Second half: the non-blocking send on releaseCh; the handler returns and *)
(* its context is cancelled.                                               *)
FaultySignalRelease(r) ==
    /\ caller[r] = "signalling"
    /\ CallerTo(r, "done")
    /\ cancelled' = [cancelled EXCEPT ![r] = TRUE]
    /\ UNCHANGED <<chans, queueVars, inflight, loopVars, podVars, permit, signalled>>
SignalRelease(r) ==
    /\ caller[r] = "signalling"
    /\ CallerTo(r, "done")
    /\ releaseCh' = TRUE
    /\ cancelled' = [cancelled EXCEPT ![r] = TRUE]
    /\ UNCHANGED <<notifyCh, recheckCh, queueVars, inflight, loopVars, podVars, permit, signalled>>

-----------------------------------------------------------------------------
(***************************************************************************)
(* The store's view of the pods changes (a scrape of metrics or models, a  *)
(* pod added or deleted); the same goroutine then calls                    *)
(* recheckSessionBoostQueues.                                              *)
(***************************************************************************)
PodUpdate(p) ==
    /\ \E s \in {"absent", "idle", "busy"} : pods' = [pods EXCEPT ![p] = s]
    /\ changed' = changed \cup {p}
    /\ UNCHANGED <<chans, queueVars, inflight, loopVars, reqVars>>

(* RecheckBackpressure: nothing to do for an empty queue. *)
FaultyRecheckNeeded == Cardinality(heap) > 1
RecheckNeeded == heap # {}

RecheckBackpressure(p) ==
    /\ p \in changed
    /\ changed' = changed \ {p}
    /\ recheckCh' = (recheckCh \/ RecheckNeeded)
    /\ UNCHANGED <<notifyCh, releaseCh, queueVars, inflight, loopVars, pods, reqVars>>

-----------------------------------------------------------------------------
(***************************************************************************)
(* The dequeue goroutine.                                                  *)
(***************************************************************************)
LoopTo(s) == loop' = s /\ UNCHANGED <<hand, maxInflight, podCount, scan, seen>>

Stopping == ctxDone \/ stopCh

(* A signal that freed no slot yields to a pending release when the grace  *)
(* period is on (dequeueOrHoldPendingRelease).                             *)
DequeueOrHold ==
    IF Grace /\ releaseCh THEN LoopTo("grace") /\ releaseCh' = FALSE
                          ELSE LoopTo("limit") /\ UNCHANGED releaseCh

(* The select of runSessionBoostMode. *)
SelectSignal ==
    /\ loop = "select"
    /\ \/ Stopping /\ LoopTo("stopped") /\ UNCHANGED chans
       \/ /\ releaseCh /\ releaseCh' = FALSE
          /\ LoopTo(IF Grace THEN "grace" ELSE "limit")
          /\ UNCHANGED <<notifyCh, recheckCh>>
       \/ notifyCh /\ notifyCh' = FALSE /\ DequeueOrHold /\ UNCHANGED recheckCh
       \/ recheckCh /\ recheckCh' = FALSE /\ DequeueOrHold /\ UNCHANGED notifyCh
    /\ UNCHANGED <<queueVars, inflight, podVars, reqVars>>

(* waitGraceAndDequeue: the timer, or shutdown. *)
WaitGrace ==
    /\ loop = "grace"
    /\ \/ LoopTo("limit")
       \/ Stopping /\ LoopTo("select")
    /\ UNCHANGED <<chans, queueVars, inflight, podVars, reqVars>>

(* tryBackpressureDequeue computes the limit once, counting the pods one by *)
(* one while they change,                                                   *)
ComputeLimit ==
    /\ loop = "limit"
    /\ loop' = "count" /\ scan' = Pods /\ podCount' = 0
    /\ UNCHANGED <<hand, maxInflight, seen, chans, queueVars, inflight, podVars, reqVars>>

CountPod ==
    /\ loop = "count"
    /\ \/ \E p \in scan :
            /\ scan' = scan \ {p}
            /\ podCount' = podCount + Cardinality({p} \cap Serving)
            /\ UNCHANGED <<loop, maxInflight>>
       \/ /\ scan = {}
          /\ maxInflight' = LimitFor(podCount) /\ podCount' = 0
          /\ loop' = "inflight" /\ UNCHANGED scan
    /\ UNCHANGED <<hand, seen, chans, queueVars, inflight, podVars, reqVars>>

(* then, for each request it admits, compares the inflight count with it, *)
FaultyLimitReached == inflight > maxInflight
LimitReached == inflight >= maxInflight

CheckInflight ==
    /\ loop = "inflight"
    /\ IF LimitReached
       THEN LoopTo("drain")
       ELSE /\ loop' = "backend" /\ scan' = Pods /\ seen' = FALSE
            /\ UNCHANGED <<hand, maxInflight, podCount>>
    /\ UNCHANGED <<chans, queueVars, inflight, podVars, reqVars>>

(* asks the backend checker, which ranges over the pods one by one while   *)
(* they change, *)
ScanPod ==
    /\ loop = "backend"
    /\ \/ \E p \in scan :
            IF pods[p] = "idle"
            THEN loop' = "length" /\ scan' = {} /\ seen' = FALSE
            ELSE /\ scan' = scan \ {p}
                 /\ seen' = (seen \/ pods[p] = "busy")
                 /\ UNCHANGED loop
       \/ /\ scan = {}
          /\ loop' = (IF seen THEN "drain" ELSE "length")
          /\ seen' = FALSE /\ UNCHANGED scan
    /\ UNCHANGED <<hand, maxInflight, podCount, chans, queueVars, inflight, podVars, reqVars>>

(* holds, dropping the requests whose handlers are gone, *)
Kept == {r \in heap : ~cancelled[r]}

DrainCancelled ==
    /\ loop = "drain"
    /\ heap' = Kept
    /\ LoopTo("select")
    /\ UNCHANGED <<chans, stopCh, ctxDone, draining, inflight, podVars, reqVars>>

(* or stops at an empty queue, *)
CheckLength ==
    /\ loop = "length"
    /\ LoopTo(IF heap = {} THEN "select" ELSE "pop")
    /\ UNCHANGED <<chans, queueVars, inflight, podVars, reqVars>>

(* or pops the next request; when all that was queued is cancelled,        *)
(* popWhenAvailable goes on to wait for another one.                       *)
PopRequest ==
    /\ loop = "pop"
    /\ \/ \E r \in heap :
            /\ heap' = heap \ {r}
            /\ IF cancelled[r]
               THEN UNCHANGED loopVars
               ELSE hand' = r /\ loop' = "commit" /\ UNCHANGED <<maxInflight, podCount, scan, seen>>
       \/ heap = {} /\ LoopTo("wait") /\ UNCHANGED heap
    /\ UNCHANGED <<chans, stopCh, ctxDone, draining, inflight, podVars, reqVars>>

AwaitItem ==
    /\ loop = "wait"
    /\ \/ Stopping /\ LoopTo("select") /\ UNCHANGED notifyCh
       \/ notifyCh /\ notifyCh' = FALSE /\ LoopTo("pop")
    /\ UNCHANGED <<releaseCh, recheckCh, queueVars, inflight, podVars, reqVars>>

(* commitAdmission's look at abandoned *)
FaultyAdmissionBlocked == FALSE
AdmissionBlocked == permit[hand] = "abandoned"

(* admitSessionBoost: an abandoned request takes no slot. *)
AdmitSessionBoost ==
    /\ loop = "commit"
    /\ IF AdmissionBlocked
       THEN /\ loop' = "inflight" /\ hand' = None
            /\ UNCHANGED <<maxInflight, podCount, scan, seen, inflight, permit>>
       ELSE /\ inflight' = inflight + 1
            /\ permit' = [permit EXCEPT ![hand] = "inflight"]
            /\ LoopTo("signal")
    /\ UNCHANGED <<chans, queueVars, podVars, caller, cancelled, signalled>>

SignalAdmission ==
    /\ loop = "signal"
    /\ signalled' = [signalled EXCEPT ![hand] = TRUE]
    /\ loop' = "inflight" /\ hand' = None
    /\ UNCHANGED <<maxInflight, podCount, scan, seen, chans, queueVars, inflight, podVars,
                   caller, cancelled, permit>>

LoopStep ==
    \/ SelectSignal \/ WaitGrace \/ ComputeLimit \/ CountPod \/ CheckInflight
    \/ ScanPod \/ DrainCancelled \/ CheckLength \/ PopRequest \/ AwaitItem
    \/ AdmitSessionBoost \/ SignalAdmission

-----------------------------------------------------------------------------
(***************************************************************************)
(* Shutdown, as in FairnessQueue.                                          *)
(***************************************************************************)
Close ==
    /\ ~stopCh
    /\ stopCh' = TRUE /\ draining' = heap /\ heap' = {}
    /\ UNCHANGED <<chans, ctxDone, inflight, loopVars, podVars, reqVars>>

CloseCancel(r) ==
    /\ r \in draining
    /\ draining' = draining \ {r}
    /\ cancelled' = [cancelled EXCEPT ![r] = TRUE]
    /\ UNCHANGED <<chans, heap, stopCh, ctxDone, inflight, loopVars, podVars,
                   caller, permit, signalled>>

RootContextDone ==
    /\ ~ctxDone
    /\ ctxDone' = TRUE
    /\ UNCHANGED <<chans, heap, stopCh, draining, inflight, loopVars, podVars, reqVars>>

HandlerStep(r) == \/ Notified(r) \/ Abandon(r) \/ Release(r) \/ SignalRelease(r)

Next ==
    \/ LoopStep \/ Close \/ RootContextDone
    \/ \E r \in Requests : \/ PushRequest(r) \/ ContextDone(r) \/ HandlerStep(r)
                           \/ CloseCancel(r)
    \/ \E p \in Pods : PodUpdate(p) \/ RecheckBackpressure(p)

Spec == Init /\ [][Next]_vars

(***************************************************************************)
(* Goroutines that can run do, a proxied request ends, and the goroutine   *)
(* that changed a pod goes on to its recheck.  Scrapes, deadlines and      *)
(* disconnects need not happen.                                            *)
(***************************************************************************)
Fairness ==
    /\ WF_vars(LoopStep)
    /\ \A r \in Requests : WF_vars(HandlerStep(r)) /\ WF_vars(CloseCancel(r))
    /\ \A p \in Pods : WF_vars(RecheckBackpressure(p))

FairSpec == Spec /\ Fairness

-----------------------------------------------------------------------------
(***************************************************************************)
(* Properties.                                                             *)
(***************************************************************************)
Inflight == {r \in Requests : permit[r] = "inflight"}

(* What the backend checker answers when nothing moves while it looks. *)
Capacity == Serving = {} \/ \E p \in Pods : pods[p] = "idle"

(* Every variable keeps its type, and the goroutine holds a request only    *)
(* between popWhenAvailable and the end of admitSessionBoost.               *)
TypeOK ==
    /\ heap \subseteq Requests /\ draining \subseteq Requests
    /\ {notifyCh, releaseCh, recheckCh, stopCh, ctxDone, seen} \subseteq BOOLEAN
    /\ inflight \in 0..Cardinality(Requests) /\ maxInflight \in Nat
    /\ podCount \in 0..Cardinality(Pods)
    /\ scan \subseteq Pods /\ changed \subseteq Pods
    /\ pods \in [Pods -> {"absent", "idle", "busy"}]
    /\ loop \in LoopStates /\ hand \in Requests \cup {None}
    /\ hand # None <=> loop \in {"commit", "signal"}
    /\ caller \in [Requests -> CallerStates] /\ cancelled \in [Requests -> BOOLEAN]
    /\ permit \in [Requests -> PermitStates] /\ signalled \in [Requests -> BOOLEAN]

(* inflightCount is the number of admitted requests that have not been      *)
(* released, and each of them has a handler, or the goroutine, that will    *)
(* release it: a request abandoned around its admission leaks no slot.      *)
InflightConservation ==
    /\ inflight = Cardinality(Inflight)
    /\ \A r \in Inflight : caller[r] \in {"waiting", "releasing", "serving"}

(* No admission takes the inflight count past the limit its pass computed.  *)
LimitRespected == [][inflight' > inflight => inflight' <= maxInflight]_vars

(* No wake-up is lost: when the loop sleeps in its select, every signal has *)
(* been consumed, and no goroutine still owes one, then whatever is queued  *)
(* is held for a reason that is true now: the limit for the pods there are  *)
(* now is reached, or all of them are busy.  Coalesced signals, the check   *)
(* of an empty heap in RecheckBackpressure and the one-by-one look at the   *)
(* pods must all work together for this.                                    *)
HeldForAReason ==
    (/\ loop = "select" /\ ~Stopping
     /\ ~notifyCh /\ ~releaseCh /\ ~recheckCh /\ changed = {}
     /\ \A r \in Requests : caller[r] # "signalling")
    => heap = {} \/ inflight >= LimitFor(Cardinality(Serving)) \/ ~Capacity

(* A closed queue leaves nobody behind. *)
NoneStranded ==
    stopCh /\ draining = {} /\ loop = "stopped"
        => \A r \in Requests : caller[r] = "waiting" => cancelled[r] \/ signalled[r]

(* Capacity that stays where it is: one pod that is idle for good, or no    *)
(* busy pod at all.  An idle pod that keeps changing places with a busy one *)
(* can be missed by every look at the pods.                                 *)
CapacityStays ==
    \/ <>[](\A p \in Pods : pods[p] # "busy")
    \/ \E p \in Pods : <>[](pods[p] = "idle")

(* A queue whose backends have capacity from some time on answers everybody *)
(* who waits, without relying on SESSION_BOOST_TIMEOUT, which may be off.   *)
HeldRequestsAnswered ==
    <>ctxDone \/ ~CapacityStays
        \/ \A r \in Requests : caller[r] = "waiting" ~> caller[r] # "waiting"
=============================================================================
