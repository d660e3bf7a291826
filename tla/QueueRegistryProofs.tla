------------------------- MODULE QueueRegistryProofs -------------------------
(***************************************************************************)
(* Invariance proofs for QueueRegistry, for any sets of names, routes,     *)
(* requests and queues.                                                    *)
(***************************************************************************)
EXTENDS QueueRegistry, TLAPS

(* The map files a queue under the name it was created for; the queue in   *)
(* the worker's hand was started; a handler on its way to the map has a    *)
(* name.                                                                   *)
Filed ==
    /\ \A n \in Names : registry[n] # None => nameOf[registry[n]] = n
    /\ closing # None => nameOf[closing] # None
    /\ \A r \in Requests : pc[r] \in {"load", "store"} => model[r] \in Names

IInv == TypeOK /\ IndexesAgree /\ Filed /\ NoLostQueue /\ NobodyInClosedQueue

LEMMA InitIInv == Init => IInv
<1> SUFFICES ASSUME Init PROVE IInv
  OBVIOUS
<1> USE NoneIsNew DEF Init
<1>1. TypeOK
  BY DEF TypeOK, Started
<1>2. IndexesAgree
  BY DEF IndexesAgree, ModelNameOf, LorasOf
<1>3. Filed /\ NoLostQueue /\ NobodyInClosedQueue
  BY DEF Filed, NoLostQueue, NobodyInClosedQueue, Started
<1> QED BY <1>1, <1>2, <1>3 DEF IInv

(* Only the two route operations touch the indexes. *)
LEMMA IndexesUntouched ==
    ASSUME IndexesAgree, UNCHANGED indexVars PROVE IndexesAgree'
  BY DEF IndexesAgree, indexVars, ModelNameOf, LorasOf

LEMMA AddOrUpdateStep ==
    ASSUME IInv, NEW k \in RouteKeys, NEW m \in Names \cup {None}, NEW ls \in SUBSET Names,
           AddOrUpdateModelRoute(k, m, ls)
    PROVE  IInv'
<1> USE NoneIsNew DEF IInv, AddOrUpdateModelRoute, handlerVars
<1>1. TypeOK'
  BY DEF TypeOK, RouteInfo, Started, Without, Candidates, ModelNameOf, LorasOf
<1>2. IndexesAgree'
  <2>1. [model |-> m, loras |-> ls] # None
    BY NoneIsNoRoute DEF RouteInfo
  <2> QED BY <2>1 DEF TypeOK, RouteInfo, IndexesAgree, Without, ModelNameOf, LorasOf
<1>3. Filed' /\ NoLostQueue' /\ NobodyInClosedQueue'
  BY DEF Filed, NoLostQueue, NobodyInClosedQueue, Started
<1> QED BY <1>1, <1>2, <1>3

LEMMA DeleteStep ==
    ASSUME IInv, NEW k \in RouteKeys, DeleteModelRoute(k)
    PROVE  IInv'
<1> USE NoneIsNew DEF IInv, DeleteModelRoute, handlerVars
<1>1. TypeOK'
  BY DEF TypeOK, RouteInfo, Started, Without, Candidates, ModelNameOf, LorasOf
<1>2. IndexesAgree'
  BY DEF TypeOK, RouteInfo, IndexesAgree, Without, ModelNameOf, LorasOf
<1>3. Filed' /\ NoLostQueue' /\ NobodyInClosedQueue'
  BY DEF Filed, NoLostQueue, NobodyInClosedQueue, Started
<1> QED BY <1>1, <1>2, <1>3

(* The queue leaves the map for the worker's hand. *)
LEMMA LoadAndDeleteStep ==
    ASSUME IInv, NEW n \in Names, LoadAndDelete(n)
    PROVE  IInv'
<1> USE NoneIsNew DEF IInv, LoadAndDelete, indexVars, handlerVars
<1>1. TypeOK'
  BY DEF TypeOK, Started
<1>2. IndexesAgree'
  BY IndexesUntouched
<1>3. Filed'
  BY DEF Filed, TypeOK
<1>4. NoLostQueue'
  BY DEF NoLostQueue, Filed, TypeOK, Started
<1>5. NobodyInClosedQueue'
  BY DEF NobodyInClosedQueue
<1> QED BY <1>1, <1>2, <1>3, <1>4, <1>5

LEMMA CloseQueueStep ==
    ASSUME IInv, CloseQueue
    PROVE  IInv'
<1> USE NoneIsNew DEF IInv, CloseQueue, indexVars
<1>1. TypeOK'
  BY DEF TypeOK, Started, CancelAll, Filed
<1>2. IndexesAgree'
  BY IndexesUntouched
<1>3. Filed'
  BY DEF Filed, TypeOK, CancelAll
<1>4. NoLostQueue'
  BY DEF NoLostQueue, TypeOK, Started
<1>5. NobodyInClosedQueue'
  BY DEF NobodyInClosedQueue, TypeOK, CancelAll
<1> QED BY <1>1, <1>2, <1>3, <1>4, <1>5

(* A new queue goes into an empty place of the map. *)
LEMMA LoadOrStoreStep ==
    ASSUME IInv, NEW r \in Requests, LoadOrStore(r)
    PROVE  IInv'
<1> USE NoneIsNew DEF IInv, LoadOrStore, indexVars, workerVars
<1>0. model[r] \in Names
  BY DEF Filed
<1>1. TypeOK'
  BY <1>0 DEF TypeOK, Started, KeepsFirst
<1>2. IndexesAgree'
  BY IndexesUntouched
<1>3. Filed'
  BY <1>0 DEF Filed, TypeOK, KeepsFirst
<1>4. NoLostQueue'
  BY <1>0 DEF NoLostQueue, Filed, TypeOK, Started, KeepsFirst
<1>5. NobodyInClosedQueue'
  BY DEF NobodyInClosedQueue, TypeOK
<1> QED BY <1>1, <1>2, <1>3, <1>4, <1>5

(* The other steps of a handler change nothing but its own place. *)
LEMMA OtherHandlerStep ==
    ASSUME IInv, NEW r \in Requests,
           \/ \E n \in Names : HandlerFunc(r, n)
           \/ LoadQueue(r) \/ PushRequest(r) \/ Serve(r)
    PROVE  IInv'
<1> USE NoneIsNew DEF IInv, HandlerFunc, indexVars, LoadQueue, PushRequest, Serve, workerVars
<1>1. TypeOK'
  BY DEF TypeOK, Started, Filed
<1>2. IndexesAgree'
  BY IndexesUntouched
<1>3. Filed'
  BY DEF Filed, TypeOK
<1>4. NoLostQueue'
  BY DEF NoLostQueue, Started
<1>5. NobodyInClosedQueue'
  BY DEF NobodyInClosedQueue, TypeOK, PushRefused
<1> QED BY <1>1, <1>2, <1>3, <1>4, <1>5

LEMMA StutterStep == ASSUME IInv, UNCHANGED vars PROVE IInv'
  BY DEF IInv, TypeOK, IndexesAgree, Filed, NoLostQueue, NobodyInClosedQueue, Started,
         ModelNameOf, LorasOf, vars, indexVars, workerVars, handlerVars

(* IInv is inductive. *)
THEOREM RegistryInvariant == Spec => []IInv
<1>1. Init => IInv
  BY InitIInv
<1>2. IInv /\ [Next]_vars => IInv'
  <2> SUFFICES ASSUME IInv, [Next]_vars PROVE IInv'
    OBVIOUS
  <2>1. CASE WorkerStep
    BY <2>1, CloseQueueStep, LoadAndDeleteStep DEF WorkerStep
  <2>2. CASE \E k \in RouteKeys : DeleteModelRoute(k)
    BY <2>2, DeleteStep
  <2>3. CASE \E k \in RouteKeys, m \in Names \cup {None}, ls \in SUBSET Names :
                 AddOrUpdateModelRoute(k, m, ls)
    BY <2>3, AddOrUpdateStep
  <2>4. CASE \E r \in Requests : HandlerStep(r) \/ \E n \in Names : HandlerFunc(r, n)
    BY <2>4, LoadOrStoreStep, OtherHandlerStep DEF HandlerStep
  <2>5. CASE UNCHANGED vars
    BY <2>5, StutterStep
  <2> QED BY <2>1, <2>2, <2>3, <2>4, <2>5 DEF Next
<1> QED BY <1>1, <1>2, PTL DEF Spec

(* Every variable keeps its type. *)
THEOREM RegistryTypeCorrect == Spec => []TypeOK
  BY RegistryInvariant, PTL DEF IInv

(* The route indexes never disagree with routeInfo. *)
THEOREM IndexesAlwaysAgree == Spec => []IndexesAgree
  BY RegistryInvariant, PTL DEF IInv

(* No running queue is ever out of reach of the route worker and of the    *)
(* handlers of its name.                                                   *)
THEOREM QueuesNeverLost == Spec => []NoLostQueue
  BY RegistryInvariant, PTL DEF IInv

(* No handler waits in a closed queue. *)
THEOREM ClosedQueuesEmpty == Spec => []NobodyInClosedQueue
  BY RegistryInvariant, PTL DEF IInv
=============================================================================
