---------------------------- MODULE QueueRegistry ----------------------------
(***************************************************************************)
(* Which request queues exist (pkg/kthena-router/datastore/store.go): the  *)
(* route indexes under routeMutex, the lock-free map requestWaitingQueue   *)
(* from model names to queues, the handlers that look a name up, and then  *)
(* a queue, and then push, and the single route worker that drops the      *)
(* queues of names that lost their last route.                             *)
(*                                                                         *)
(* A queue is an identity from Queues; each handler creates at most one,   *)
(* so as many identities as requests never run out.  What happens inside a *)
(* queue is FairnessQueue's subject: here the queue serves a waiting       *)
(* request, or its Close turns away all of them.                           *)
(***************************************************************************)
EXTENDS Naturals, FiniteSets

CONSTANTS Names, RouteKeys, Requests, Queues, None

ASSUME NoneIsNew == None \notin Names \cup RouteKeys \cup Requests \cup Queues

VARIABLES
    routeInfo,   \* per route key: None or its model name and LoRA names
    routes,      \* model name -> keys of the routes for it
    loraRoutes,  \* LoRA name -> keys of the routes for it
    registry,    \* requestWaitingQueue
    nameOf,      \* the name each started queue was created for
    closed,      \* queues whose Close has run
    cleaning,    \* names cleanRequestWaitingQueues has still to visit
    closing,     \* the queue it has taken out of the map, or None
    pc, model, queue  \* per request: its handler's place, model name and queue

indexVars == <<routeInfo, routes, loraRoutes>>
workerVars == <<cleaning, closing>>
handlerVars == <<pc, model, queue>>
vars == <<indexVars, registry, nameOf, closed, workerVars, handlerVars>>

RouteInfo == [model : Names \cup {None}, loras : SUBSET Names]

ASSUME NoneIsNoRoute == None \notin RouteInfo

Init ==
    /\ routeInfo = [k \in RouteKeys |-> None]
    /\ routes = [n \in Names |-> {}] /\ loraRoutes = [n \in Names |-> {}]
    /\ registry = [n \in Names |-> None]
    /\ nameOf = [q \in Queues |-> None] /\ closed = {}
    /\ cleaning = {} /\ closing = None
    /\ pc = [r \in Requests |-> "idle"]
    /\ model = [r \in Requests |-> None] /\ queue = [r \in Requests |-> None]

HasModel(n) == routes[n] # {} \/ loraRoutes[n] # {}

-----------------------------------------------------------------------------
(***************************************************************************)
(* The route worker.                                                       *)
(***************************************************************************)
WorkerIdle == cleaning = {} /\ closing = None

ModelNameOf(k) == IF routeInfo[k] = None THEN {} ELSE {routeInfo[k].model} \ {None}
LorasOf(k) == IF routeInfo[k] = None THEN {} ELSE routeInfo[k].loras

(* removeModelRouteFromIndexesLocked: what is left of an index, *)
FaultyWithout(index, names, k) == index
Without(index, names, k) ==
    [n \in Names |-> IF n \in names THEN index[n] \ {k} ELSE index[n]]

(* and the names that lost their last route in the index they were in. *)
Candidates(k) ==
    {n \in ModelNameOf(k) : routes[n] \subseteq {k}}
        \cup {n \in LorasOf(k) : loraRoutes[n] \subseteq {k}}

(* AddOrUpdateModelRoute, under routeMutex: only names that no index holds *)
(* any more are to be cleaned.                                             *)
AddOrUpdateModelRoute(k, m, ls) ==
    /\ WorkerIdle
    /\ routeInfo' = [routeInfo EXCEPT ![k] = [model |-> m, loras |-> ls]]
    /\ routes' = [n \in Names |-> Without(routes, ModelNameOf(k), k)[n]
                                    \cup (IF n = m THEN {k} ELSE {})]
    /\ loraRoutes' = [n \in Names |-> Without(loraRoutes, LorasOf(k), k)[n]
                                        \cup (IF n \in ls THEN {k} ELSE {})]
    /\ cleaning' = {n \in Candidates(k) : routes'[n] = {} /\ loraRoutes'[n] = {}}
    /\ UNCHANGED <<registry, nameOf, closed, closing, handlerVars>>

(* DeleteModelRoute: all the candidates are cleaned. *)
DeleteModelRoute(k) ==
    /\ WorkerIdle
    /\ routes' = Without(routes, ModelNameOf(k), k)
    /\ loraRoutes' = Without(loraRoutes, LorasOf(k), k)
    /\ cleaning' = Candidates(k)
    /\ routeInfo' = [routeInfo EXCEPT ![k] = None]
    /\ UNCHANGED <<registry, nameOf, closed, closing, handlerVars>>

(* cleanRequestWaitingQueues: LoadAndDelete, *)
LoadAndDelete(n) ==
    /\ closing = None /\ n \in cleaning
    /\ cleaning' = cleaning \ {n}
    /\ closing' = registry[n]
    /\ registry' = [registry EXCEPT ![n] = None]
    /\ UNCHANGED <<indexVars, nameOf, closed, handlerVars>>

(* then Close, which cancels everyone in the queue. *)
FaultyCancelAll(q) == pc
CancelAll(q) ==
    [r \in Requests |-> IF pc[r] = "waiting" /\ queue[r] = q THEN "cancelled" ELSE pc[r]]

FaultyCloseQueue ==
    /\ closed' = closed \cup {closing}
    /\ pc' = CancelAll(closing)
    /\ closing' = None
    /\ UNCHANGED <<indexVars, registry, nameOf, cleaning, model, queue>>

CloseQueue ==
    /\ closing # None
    /\ closed' = closed \cup {closing}
    /\ pc' = CancelAll(closing)
    /\ closing' = None
    /\ UNCHANGED <<indexVars, registry, nameOf, cleaning, model, queue>>

-----------------------------------------------------------------------------
(***************************************************************************)
(* Handlers.                                                               *)
(***************************************************************************)

(* HandlerFunc asks HasModel and turns unknown names away. *)
HandlerFunc(r, n) ==
    /\ pc[r] = "idle"
    /\ model' = [model EXCEPT ![r] = n]
    /\ pc' = [pc EXCEPT ![r] = IF HasModel(n) THEN "load" ELSE "rejected"]
    /\ UNCHANGED <<indexVars, registry, nameOf, closed, workerVars, queue>>

(* Enqueue: requestWaitingQueue.Load, *)
LoadQueue(r) ==
    /\ pc[r] = "load"
    /\ LET q == registry[model[r]]
       IN  /\ pc' = [pc EXCEPT ![r] = IF q = None THEN "store" ELSE "push"]
           /\ queue' = [queue EXCEPT ![r] = q]
    /\ UNCHANGED <<indexVars, registry, nameOf, closed, workerVars, model>>

(* LoadOrStore keeps a queue that got there first. *)
FaultyKeepsFirst(n) == FALSE
KeepsFirst(n) == registry[n] # None

(* LoadOrStore of a new queue; the one that stores it starts its goroutine. *)
LoadOrStore(r) ==
    /\ pc[r] = "store"
    /\ pc' = [pc EXCEPT ![r] = "push"]
    /\ IF KeepsFirst(model[r])
       THEN /\ queue' = [queue EXCEPT ![r] = registry[model[r]]]
            /\ UNCHANGED <<registry, nameOf>>
       ELSE \E q \in Queues :
               /\ nameOf[q] = None
               /\ nameOf' = [nameOf EXCEPT ![q] = model[r]]
               /\ registry' = [registry EXCEPT ![model[r]] = q]
               /\ queue' = [queue EXCEPT ![r] = q]
    /\ UNCHANGED <<indexVars, closed, workerVars, model>>

(* PushRequest's look at stopCh *)
FaultyPushRefused(q) == FALSE
PushRefused(q) == q \in closed

PushRequest(r) ==
    /\ pc[r] = "push"
    /\ pc' = [pc EXCEPT ![r] = IF PushRefused(queue[r]) THEN "rejected" ELSE "waiting"]
    /\ UNCHANGED <<indexVars, registry, nameOf, closed, workerVars, model, queue>>

(* The queue's goroutine admits the request, as long as it runs. *)
Serve(r) ==
    /\ pc[r] = "waiting" /\ queue[r] \notin closed
    /\ pc' = [pc EXCEPT ![r] = "served"]
    /\ UNCHANGED <<indexVars, registry, nameOf, closed, workerVars, model, queue>>

HandlerStep(r) == LoadQueue(r) \/ LoadOrStore(r) \/ PushRequest(r) \/ Serve(r)

WorkerStep == CloseQueue \/ \E n \in Names : LoadAndDelete(n)

Next ==
    \/ WorkerStep
    \/ \E k \in RouteKeys : DeleteModelRoute(k)
    \/ \E k \in RouteKeys, m \in Names \cup {None}, ls \in SUBSET Names :
           AddOrUpdateModelRoute(k, m, ls)
    \/ \E r \in Requests : HandlerStep(r) \/ \E n \in Names : HandlerFunc(r, n)

Spec == Init /\ [][Next]_vars

(* Goroutines run: handlers, the worker once it has something to clean. *)
FairSpec == Spec /\ WF_vars(WorkerStep) /\ \A r \in Requests : WF_vars(HandlerStep(r))

-----------------------------------------------------------------------------
Started == {q \in Queues : nameOf[q] # None}

(* Every variable keeps its type. *)
TypeOK ==
    /\ routeInfo \in [RouteKeys -> RouteInfo \cup {None}]
    /\ routes \in [Names -> SUBSET RouteKeys] /\ loraRoutes \in [Names -> SUBSET RouteKeys]
    /\ registry \in [Names -> Queues \cup {None}]
    /\ nameOf \in [Queues -> Names \cup {None}] /\ closed \subseteq Started
    /\ cleaning \subseteq Names /\ closing \in Queues \cup {None}
    /\ pc \in [Requests -> {"idle", "load", "store", "push", "waiting", "served",
                            "cancelled", "rejected"}]
    /\ model \in [Requests -> Names \cup {None}] /\ queue \in [Requests -> Queues \cup {None}]

(* The two indexes hold exactly what routeInfo says of each route, however  *)
(* often its model name and adapters are changed: a route is found under    *)
(* every name it declares and under no name it used to declare.             *)
IndexesAgree ==
    \A n \in Names, k \in RouteKeys :
        (k \in routes[n] <=> n \in ModelNameOf(k)) /\ (k \in loraRoutes[n] <=> n \in LorasOf(k))

(* A queue whose goroutine runs is in the map under its own name, or in the *)
(* worker's hand on its way to Close; so no two handlers of one name can    *)
(* start two queues and lose one of them.                                   *)
NoLostQueue ==
    \A q \in Started : q \in closed \/ q = closing \/ registry[nameOf[q]] = q

(* Nobody waits in a queue that has been closed: a handler that looked the  *)
(* queue up before the worker dropped it is refused by PushRequest.         *)
NobodyInClosedQueue == \A r \in Requests : pc[r] = "waiting" => queue[r] \notin closed

(* Every request that passed HasModel is served, cancelled or refused.      *)
HandlersReturn ==
    \A r \in Requests : pc[r] = "load" ~> pc[r] \in {"served", "cancelled", "rejected"}

(* A queue exists only for a registered name: once the worker is done and   *)
(* no handler is under way, every queue in the map has a route.             *)
NoLeakedQueue ==
    WorkerIdle /\ (\A r \in Requests : pc[r] \notin {"load", "store", "push"})
        => \A n \in Names : registry[n] # None => HasModel(n)
=============================================================================
