---------------------------- MODULE FairnessQueue ----------------------------
(***************************************************************************)
(* RequestPriorityQueue of the router's datastore                          *)
(* (pkg/kthena-router/datastore/fairness_queue.go) in its two fairness     *)
(* modes, together with the HTTP handlers that wait in it                  *)
(* (Router.handleFairnessScheduling): the dequeue goroutine, one goroutine *)
(* per request, and the goroutine that closes the queue when the model's   *)
(* last route goes.  One step is one critical section or one channel       *)
(* operation.  MaxConcurrent > 0 is semaphore mode, 0 is QPS mode.         *)
(*                                                                         *)
(* The heap is a set and a pop takes any element of it: nothing here       *)
(* depends on the order, which RequestOrder models.  In particular the     *)
(* priority refresh of popWhenAvailable, which puts a popped request back  *)
(* under the same lock, leaves this state as it was.                       *)
(***************************************************************************)
EXTENDS Naturals, FiniteSets

CONSTANTS Requests, MaxConcurrent, None

ASSUME RequestsFinite == IsFiniteSet(Requests)
ASSUME MaxConcurrentNat == MaxConcurrent \in Nat
ASSUME NoneNotRequest == None \notin Requests

VARIABLES
    heap,       \* queued requests
    notifyCh,   \* a token is buffered in notifyCh (capacity 1)
    stopCh,     \* stopCh is closed
    ctxDone,    \* the store's root context is cancelled
    sem,        \* tokens in the semaphore channel
    loop,       \* where the dequeue goroutine is
    hand,       \* the request it has popped, or None
    draining,   \* requests Close has taken out of the heap and not yet cancelled
    caller,     \* where each request's handler is
    cancelled,  \* the request's context is done (CancelCh)
    admitted,   \* Request.admitted
    abandoned,  \* Request.abandoned
    release,    \* Request.Release: "nil", "installed" or "called"
    signalled   \* NotifyChan is closed

queueVars == <<heap, notifyCh, stopCh, ctxDone, draining>>
loopVars == <<loop, hand>>
reqVars == <<admitted, abandoned, release, signalled>>
vars == <<queueVars, sem, loopVars, caller, cancelled, reqVars>>

QPSMode == MaxConcurrent = 0

LoopStates == {"tick", "pop", "wait", "check", "acquire", "requeue", "commit",
               "return", "signal", "stopped"}

CallerStates == {"idle", "waiting", "releasing", "serving", "done", "rejected"}

(***************************************************************************)
(* Run starts in the mode the configuration selects.                       *)
(***************************************************************************)
LoopStart == IF QPSMode THEN "tick" ELSE "pop"

Init ==
    /\ heap = {} /\ notifyCh = FALSE /\ stopCh = FALSE /\ ctxDone = FALSE
    /\ sem = 0 /\ loop = LoopStart /\ hand = None /\ draining = {}
    /\ caller = [r \in Requests |-> "idle"]
    /\ cancelled = [r \in Requests |-> FALSE]
    /\ admitted = [r \in Requests |-> FALSE]
    /\ abandoned = [r \in Requests |-> FALSE]
    /\ release = [r \in Requests |-> "nil"]
    /\ signalled = [r \in Requests |-> FALSE]

-----------------------------------------------------------------------------
(***************************************************************************)
(* The handler of one request.                                             *)
(***************************************************************************)

(* The non-blocking send on notifyCh after a push. *)
FaultyWakeLoop == UNCHANGED notifyCh
WakeLoop == notifyCh' = TRUE

(* PushRequest's look at stopCh, under the queue lock. *)
FaultyPushRefused == FALSE
PushRefused == stopCh

(* Enqueue on this queue: refused once the queue is closed. *)
PushRequest(r) ==
    /\ caller[r] = "idle"
    /\ IF PushRefused
       THEN /\ caller' = [caller EXCEPT ![r] = "rejected"]
            /\ UNCHANGED queueVars
       ELSE /\ caller' = [caller EXCEPT ![r] = "waiting"]
            /\ heap' = heap \cup {r}
            /\ WakeLoop
            /\ UNCHANGED <<stopCh, ctxDone, draining>>
    /\ UNCHANGED <<sem, loopVars, cancelled, reqVars>>

(* The queue-wait deadline passes or the client disconnects. *)
ContextDone(r) ==
    /\ caller[r] = "waiting" /\ ~cancelled[r]
    /\ cancelled' = [cancelled EXCEPT ![r] = TRUE]
    /\ UNCHANGED <<queueVars, sem, loopVars, caller, reqVars>>

(* The handler's select takes the NotifyChan branch. *)
Notified(r) ==
    /\ caller[r] = "waiting" /\ signalled[r]
    /\ caller' = [caller EXCEPT ![r] = "serving"]
    /\ UNCHANGED <<queueVars, sem, loopVars, cancelled, reqVars>>

(* It takes the reqCtx.Done branch: Abandon's critical section. *)
Abandon(r) ==
    /\ caller[r] = "waiting" /\ cancelled[r]
    /\ IF admitted[r]
       THEN /\ caller' = [caller EXCEPT ![r] = "releasing"]
            /\ UNCHANGED abandoned
       ELSE /\ caller' = [caller EXCEPT ![r] = "done"]
            /\ abandoned' = [abandoned EXCEPT ![r] = TRUE]
    /\ UNCHANGED <<queueVars, sem, loopVars, cancelled, admitted, release, signalled>>

(* The Release closure: returns the permit, once. *)
Release(r) ==
    IF release[r] = "installed"
    THEN sem > 0 /\ sem' = sem - 1 /\ release' = [release EXCEPT ![r] = "called"]
    ELSE UNCHANGED <<sem, release>>

(* Abandon found the request admitted and calls Release itself; its context *)
(* is cancelled by the deferred cancel, as on every return.                 *)
AbandonRelease(r) ==
    /\ caller[r] = "releasing"
    /\ release[r] # "nil"
    /\ Release(r)
    /\ caller' = [caller EXCEPT ![r] = "done"]
    /\ UNCHANGED <<queueVars, loopVars, cancelled, admitted, abandoned, signalled>>

(* doLoadbalance has returned; the deferred Release and cancel run. *)
FinishServing(r) ==
    /\ caller[r] = "serving"
    /\ Release(r)
    /\ caller' = [caller EXCEPT ![r] = "done"]
    /\ cancelled' = [cancelled EXCEPT ![r] = TRUE]
    /\ UNCHANGED <<queueVars, loopVars, admitted, abandoned, signalled>>

-----------------------------------------------------------------------------
(***************************************************************************)
(* The dequeue goroutine.                                                  *)
(***************************************************************************)
LoopTo(s) == loop' = s /\ UNCHANGED hand

(* QPS mode waits for its ticker first. *)
Tick ==
    /\ loop = "tick"
    /\ \/ LoopTo("pop")
       \/ (ctxDone \/ stopCh) /\ LoopTo("stopped")
    /\ UNCHANGED <<queueVars, sem, caller, cancelled, reqVars>>

(* heap.Pop takes the request out of the heap. *)
FaultyAfterPop(r) == heap
AfterPop(r) == heap \ {r}

(* popWhenAvailable, under the queue lock: a cancelled request is dropped *)
(* and the next one popped; an empty heap sends it to wait.               *)
PopRequest ==
    /\ loop = "pop"
    /\ \/ \E r \in heap :
            /\ heap' = AfterPop(r)
            /\ IF cancelled[r]
               THEN UNCHANGED loopVars
               ELSE /\ hand' = r
                    /\ loop' = IF QPSMode THEN "signal" ELSE "check"
       \/ heap = {} /\ LoopTo("wait") /\ UNCHANGED heap
    /\ UNCHANGED <<notifyCh, stopCh, ctxDone, draining, sem, caller, cancelled, reqVars>>

(* The select of popWhenAvailable, outside the lock. *)
AwaitItem ==
    /\ loop = "wait"
    /\ \/ (ctxDone \/ stopCh) /\ LoopTo("stopped") /\ UNCHANGED notifyCh
       \/ notifyCh /\ notifyCh' = FALSE /\ LoopTo("pop")
    /\ UNCHANGED <<heap, stopCh, ctxDone, draining, sem, caller, cancelled, reqVars>>

(* runSemaphoreMode looks at CancelCh once more before it blocks. *)
CheckCancelled ==
    /\ loop = "check"
    /\ IF cancelled[hand] THEN loop' = "pop" /\ hand' = None
                          ELSE LoopTo("acquire")
    /\ UNCHANGED <<queueVars, sem, caller, cancelled, reqVars>>

(* The send on sem blocks at the channel's capacity. *)
FaultyPermitFree == sem <= MaxConcurrent
PermitFree == sem < MaxConcurrent

(* Its select: the permit, the root context or stopCh. *)
AcquirePermit ==
    /\ loop = "acquire"
    /\ \/ PermitFree /\ sem' = sem + 1 /\ LoopTo("commit")
       \/ (ctxDone \/ stopCh) /\ LoopTo("requeue") /\ UNCHANGED sem
    /\ UNCHANGED <<queueVars, caller, cancelled, reqVars>>

(* requeueRequest's look at stopCh, under the queue lock. *)
FaultyRequeueRefused == FALSE
RequeueRefused == stopCh

(* requeueRequest, then the goroutine returns: a closed queue cancels the *)
(* request instead of taking it back.                                     *)
RequeueRequest ==
    /\ loop = "requeue"
    /\ loop' = "stopped" /\ hand' = None
    /\ IF RequeueRefused
       THEN /\ cancelled' = [cancelled EXCEPT ![hand] = TRUE]
            /\ UNCHANGED <<heap, notifyCh>>
       ELSE /\ heap' = heap \cup {hand}
            /\ WakeLoop
            /\ UNCHANGED cancelled
    /\ UNCHANGED <<stopCh, ctxDone, draining, sem, caller, reqVars>>

(* commitAdmission's look at abandoned. *)
FaultyAdmissionBlocked == FALSE
AdmissionBlocked == abandoned[hand]

(* commitAdmission under the request's lock. *)
CommitAdmission ==
    /\ loop = "commit"
    /\ IF AdmissionBlocked
       THEN LoopTo("return") /\ UNCHANGED <<release, admitted>>
       ELSE /\ release' = [release EXCEPT ![hand] = "installed"]
            /\ admitted' = [admitted EXCEPT ![hand] = TRUE]
            /\ LoopTo("signal")
    /\ UNCHANGED <<queueVars, sem, caller, cancelled, abandoned, signalled>>

FaultyReturnPermit ==
    /\ loop = "return"
    /\ loop' = "pop" /\ hand' = None
    /\ UNCHANGED <<queueVars, sem, caller, cancelled, reqVars>>

(* The handler had given up: the permit goes back. *)
ReturnPermit ==
    /\ loop = "return"
    /\ sem > 0 /\ sem' = sem - 1
    /\ loop' = "pop" /\ hand' = None
    /\ UNCHANGED <<queueVars, caller, cancelled, reqVars>>

(* close(req.NotifyChan) *)
SignalAdmission ==
    /\ loop = "signal"
    /\ signalled' = [signalled EXCEPT ![hand] = TRUE]
    /\ loop' = LoopStart /\ hand' = None
    /\ UNCHANGED <<queueVars, sem, caller, cancelled, admitted, abandoned, release>>

LoopStep == \/ Tick \/ PopRequest \/ AwaitItem \/ CheckCancelled \/ AcquirePermit
            \/ RequeueRequest \/ CommitAdmission \/ ReturnPermit \/ SignalAdmission

-----------------------------------------------------------------------------
(***************************************************************************)
(* Shutdown.                                                               *)
(***************************************************************************)

(* Close, under the queue lock. *)
Close ==
    /\ ~stopCh
    /\ stopCh' = TRUE
    /\ draining' = heap /\ heap' = {}
    /\ UNCHANGED <<notifyCh, ctxDone, sem, loopVars, caller, cancelled, reqVars>>

(* Close cancels what it took, one request at a time, without the lock. *)
CloseCancel(r) ==
    /\ r \in draining
    /\ draining' = draining \ {r}
    /\ cancelled' = [cancelled EXCEPT ![r] = TRUE]
    /\ UNCHANGED <<heap, notifyCh, stopCh, ctxDone, sem, loopVars, caller, reqVars>>

(* The router shuts down. *)
RootContextDone ==
    /\ ~ctxDone
    /\ ctxDone' = TRUE
    /\ UNCHANGED <<heap, notifyCh, stopCh, draining, sem, loopVars, caller, cancelled, reqVars>>

(* Every handler has returned and the goroutine is gone. *)
Terminated ==
    /\ loop = "stopped" /\ stopCh /\ ctxDone /\ draining = {}
    /\ \A r \in Requests : caller[r] \in {"done", "rejected"}
    /\ UNCHANGED vars

Next ==
    \/ LoopStep \/ Close \/ RootContextDone \/ Terminated
    \/ \E r \in Requests : \/ PushRequest(r) \/ ContextDone(r) \/ Notified(r)
                           \/ Abandon(r) \/ AbandonRelease(r) \/ FinishServing(r)
                           \/ CloseCancel(r)

Spec == Init /\ [][Next]_vars

(***************************************************************************)
(* The Go scheduler runs every goroutine that can run, and a proxied       *)
(* request ends.  Clients need not disconnect, deadlines need not pass,    *)
(* and nobody need close the queue.                                        *)
(***************************************************************************)
Fairness ==
    /\ WF_vars(LoopStep)
    /\ \A r \in Requests : /\ WF_vars(Notified(r) \/ Abandon(r))
                          /\ WF_vars(AbandonRelease(r)) /\ WF_vars(FinishServing(r))
                          /\ WF_vars(CloseCancel(r))

FairSpec == Spec /\ Fairness

-----------------------------------------------------------------------------
(***************************************************************************)
(* Properties.                                                             *)
(***************************************************************************)
PermitHolders == {r \in Requests : release[r] = "installed"}

LoopPermits == IF loop \in {"commit", "return"} THEN 1 ELSE 0

(* Every variable keeps its type; the semaphore channel never exceeds its  *)
(* capacity MaxConcurrent and the goroutine holds a request exactly at the *)
(* places where runSemaphoreMode and runQPSMode use req.                   *)
TypeOK ==
    /\ heap \subseteq Requests /\ draining \subseteq Requests
    /\ notifyCh \in BOOLEAN /\ stopCh \in BOOLEAN /\ ctxDone \in BOOLEAN
    /\ sem \in 0..MaxConcurrent
    /\ loop \in LoopStates /\ hand \in Requests \cup {None}
    /\ hand = None <=> loop \in {"tick", "pop", "wait", "stopped"}
    /\ caller \in [Requests -> CallerStates]
    /\ cancelled \in [Requests -> BOOLEAN]
    /\ admitted \in [Requests -> BOOLEAN]
    /\ abandoned \in [Requests -> BOOLEAN]
    /\ release \in [Requests -> {"nil", "installed", "called"}]
    /\ signalled \in [Requests -> BOOLEAN]

(* The tokens in sem are accounted for one by one: each belongs to an      *)
(* admitted request that has not called Release, or to the goroutine       *)
(* between the send on sem and the end of commitAdmission.  A leak, or a   *)
(* double release, in any interleaving of Abandon, Release, commitAdmission *)
(* and Close breaks it.                                                    *)
PermitConservation == sem = Cardinality(PermitHolders) + LoopPermits

(* commitAdmission and Abandon agree on the outcome: no request is both    *)
(* admitted and abandoned, an admitted one has its Release installed (what *)
(* Abandon relies on when it calls Release), and in semaphore mode only    *)
(* admitted requests are woken through NotifyChan.                         *)
ExclusiveOutcome ==
    \A r \in Requests :
        /\ ~(admitted[r] /\ abandoned[r])
        /\ admitted[r] <=> release[r] # "nil"
        /\ caller[r] = "releasing" => admitted[r]
        /\ signalled[r] /\ ~QPSMode => admitted[r]

(* A request is in one place only: in the heap, in the goroutine's hand,   *)
(* with Close, or out of the queue; so NotifyChan is closed at most once   *)
(* (a second close would panic).                                           *)
OnePlace ==
    /\ hand \notin heap \cup draining
    /\ heap \cap draining = {}
    /\ \A r \in Requests : r \in heap \cup draining \cup {hand} => ~signalled[r]

(* Once Close has run to its end and the goroutine has stopped, no handler *)
(* is left behind: whoever still waits has been woken or cancelled.  This  *)
(* is what requeueRequest's and PushRequest's look at stopCh are for.      *)
NoneStranded ==
    stopCh /\ draining = {} /\ loop = "stopped"
        => \A r \in Requests : caller[r] = "waiting" => cancelled[r] \/ signalled[r]

(* As long as the router runs, every handler that waits in the queue is    *)
(* admitted or turned away, without relying on its deadline.               *)
WaitersAnswered ==
    <>ctxDone \/ \A r \in Requests : caller[r] = "waiting" ~> caller[r] # "waiting"

(* Every permit that was handed out comes back.                            *)
PermitsReturned ==
    \A r \in Requests : release[r] = "installed" ~> release[r] = "called"

(***************************************************************************)
(* The queue implements AdmissionGate.                                     *)
(***************************************************************************)
StageOf(r) ==
    CASE caller[r] = "idle" -> "idle"
      [] caller[r] \in {"done", "rejected"} \/ release[r] = "called" -> "finished"
      [] release[r] = "installed" \/ (QPSMode /\ signalled[r]) -> "holding"
      [] OTHER -> "waiting"

Gate == INSTANCE AdmissionGate WITH st <- [r \in Requests |-> StageOf(r)]

(* The queue implements the admission gate: whatever the interleaving, a   *)
(* request holds a permit once, within MaxConcurrent, and gives it back.   *)
ImplementsGate == Gate!Spec
=============================================================================
