# Verification of kthena in TLA+

kthena serves language models on Kubernetes. It has a **router**, which admits, orders and
proxies inference requests, and a **controller manager**, whose ModelServing controller keeps
groups of Pods running. This project models the concurrent core of both: the router's admission
queues and the registry that holds them, and the life of a ServingGroup in the controller. TLC
checks the models on small instances; TLAPS proves the safety of two of them for every instance.

Paths below are relative to `src/pkg/`. `PROJECT.json` gives the source lines of each definition.

## The system and its parts

| Part | Source | Modelled by |
|---|---|---|
| Admission queue, semaphore and QPS modes | `kthena-router/datastore/fairness_queue.go` | `FairnessQueue`, `AdmissionGate` |
| Admission queue, session-boost mode | `.../session_boost_queue.go` | `SessionBoostQueue` |
| Order of the queue, priority refresh, session tracker | `.../fairness_queue.go`, `session_tracker.go` | `RequestLess`, `RequestOrder` |
| Registry of queues, route indexes | `.../store.go` | `QueueRegistry` |
| Handlers that wait in a queue | `kthena-router/router/router.go` | actors of the four modules above |
| ServingGroup lifecycle | `model-serving-controller/controller`, `.../datastore` | `ServingGroupLifecycle` (partly) |
| Datastore of pods and model servers, on-flight counter, token tracker | `kthena-router/datastore` | planned |
| Scheduler, plugins, load balancing, retries, route matching | `kthena-router/scheduler`, `router` | planned |
| Rate limiting, session stickiness, prefix/KV indexes, PD connectors | `kthena-router/...` | planned |
| Rollouts, in-place update, revisions, PodGroups, LeaderWorkerSet | `model-serving-controller` | planned |
| Autoscaler, model booster, tokenizer service, webhook certificates | `autoscaler`, `model-booster-controller`, ... | planned |
| CLI, generated clients, metrics, logging, process start-up | several | no: one-shot I/O, generated code or output only |

How they interact. A request reaches `Router.HandlerFunc`, which asks the store whether the model
has a route, passes the rate limiter and, with fairness on, calls `store.Enqueue`. Enqueue finds or
creates the model's queue (`QueueRegistry`) and pushes the request. One goroutine per queue picks
the next request (`RequestOrder`) and admits it (`FairnessQueue` or `SessionBoostQueue`, by
configuration). The handler then schedules and proxies it, and calls `Release`. A route worker
deletes the queues of models that lost their last route. The router's pods come from informers.
They run as the Pods of ServingGroups, which the ModelServing controller creates, repairs, scales
and deletes (`ServingGroupLifecycle`).

The modules meet at interfaces, each of which the neighbour abstracts. `QueueRegistry` sees a queue
as something that serves a waiting request or, when closed, cancels all of them. `FairnessQueue`
pops any element of the heap. `RequestOrder` serves what leaves the heap.

## Modules

**AdmissionGate** is the promise to a handler: it waits, then it holds one of `MaxConcurrent`
permits or is turned away, and a permit is returned once. It models no code of its own.

**FairnessQueue** has one step per critical section or channel operation. `loop` and `hand` are the
program counter and the local `req` of `runSemaphoreMode`/`runQPSMode`. `caller` is the program
counter of `handleFairnessScheduling`. `sem`, `notifyCh` and `stopCh` are the channels, and
`admitted`, `abandoned`, `release` and `signalled` are the fields of `Request`. Handler actions are
`PushRequest`, `Notified`, `Abandon`, `AbandonRelease` and `FinishServing`; the goroutine's run from
`PopRequest` to `SignalAdmission`. `Close` empties the heap under the lock and `CloseCancel` cancels
the requests it took, one by one. `ContextDone` is a deadline or a disconnect, `RootContextDone` the
shutdown of the router.

**SessionBoostQueue** adds the three one-token channels, the in-flight limit, the grace period, and
the count (`CountPod`) and the scan (`ScanPod`) of the pods one at a time, as `sync.Map.Range` visits
them, so that a pod may change under either.
`PodUpdate` is a scrape, addition or deletion. The `RecheckBackpressure` it owes is a later step.
**MCSessionBoostStale** adds a history variable for one run.

**RequestLess** is `Less` in its two modes. **RequestOrder** is the array heap as `container/heap`
keeps it (`Up`, `Down`, `HeapPush`, `HeapPop`, `HeapInit`), the priority computed when the request is
created, the bounded refresh of `popWhenAvailable`, `rebuildHeap`, and the LRU session tracker.
`UpdateTokenCount` and `WindowSlides` move the usage at any time. `container/heap` is external, and
modelled from its use.

**QueueRegistry** has the route indexes under `routeMutex`, the `sync.Map` of queues, the handlers
(`HandlerFunc` reads HasModel, then `LoadQueue`, `LoadOrStore`, `PushRequest`), and the route worker
(`AddOrUpdateModelRoute`, `DeleteModelRoute`, then `LoadAndDelete` and `CloseQueue` per name).

**ServingGroupLifecycle** has the API server's Pods (`api`), the informer's cache some changes
behind it (`watch`, `cache`), and the handler some changes behind that (`events`). `gstat`, `rstat`
and `targets` are the controller's in-memory store. Each read or write of the store, each look at the
cache and each API call that another goroutine may come before or after is a step.

- The worker goes through `syncModelServing`: `StartSync`, `FinishPending`,
  `SyncServingGroupReplicas`; then `CreateMember`, `AddMember` and `AddServingGroup`, or `ScaleDown`;
  then `SyncRoleReplicas` and, group by group, `ListRoles`, the repair of each Role listed
  (`ReadRolePods`, `UpdateRoleStatus`, `RecreatePods`), the creation of those that were not
  (`SetScaling`, `CreateRole`, `AddCreatedRole`), and the group's status (`CheckReady`, `ReadStatus`,
  `WriteStatus`).
- The handler runs `updatePod` and `deletePod` (the `Handle...` actions).
- Both call the deletion procedures: `Mark`, `ListTargets` (the snapshot), `DeletePods`,
  `ListReplacements`, `CheckDeleted`, `Forget`. The record's mutex is `Unlocked`.
- `AfterGraceTime` is the goroutine of a failed Pod. `restartGracePeriodSeconds` may be edited, so
  each Pod may have a grace period or none.

Faults are failed API calls (the `...Fails` actions, each with the error path of its call), a
controller restart (the store is lost and rebuilt from the cluster), Pods that restart or fail, Pods
deleted by someone else, and scaling. `dropped` is a history variable: the failed calls that the code
does not repeat. Kubelet and API server are external.

## Runs

| Run | Question | Result |
|---|---|---|
| `fairness_semaphore` | permits conserved, one outcome and one place per request, nobody stranded by Close, waiters answered, permits returned, AdmissionGate implemented | holds |
| `fairness_qps` | the ticker loop keeps requests in one place and answers waiters | holds |
| `boost` | slots conserved, limit respected, no lost wake-up, held requests answered once capacity stays | holds |
| `boost_stale_check` | "It dequeues requests only when backend pods have capacity" | violated |
| `order_refresh` | the array is a heap, least usage is served, the refresh loop ends | holds |
| `order_session` | the tracker remembers the latest sessions, no warmer session is passed over | holds |
| `order_user_fifo` | "Kthena preserves FIFO order for that user" | violated |
| `order_unauthenticated` | "Assign lowest priority to unauthenticated requests" | violated |
| `registry` | indexes agree with routes, no queue lost, nobody waits in a closed queue, handlers return | holds |
| `registry_leak` | Enqueue "can never be reached for an unregistered model name" | violated |
| `lifecycle` | at rest means converged, with three exceptions (below); retried deletions spare later Pods | holds |
| `lifecycle_stuck` | ServingGroupRecreate "will recreate all the pods in the ServingGroup" | violated |

Each property of a passing run has a mutant in `PROJECT.json`: a mapped definition changed as a
plausible bug would change it (the `Faulty...` operators), under which TLC finds it violated.

### Bounds

- `fairness_semaphore`: three requests, two permits. A request can wait for a permit while one holder
  is abandoned and another serves. `fairness_qps`: two requests; there are no permits to contend for.
- `boost`: two requests, one pod, one slot per pod: the limit is reached by one request and
  the pod's state alone decides capacity. The limit is therefore one throughout, and a scan that
  mixes the states of several pods does not occur in this run.
- `order_*`: three or four requests, so the heap has a root with two children. `MaxTokens` and
  `MaxClock` cap usage and time. `RebuildThreshold` (64 by default) is 2 in `order_refresh`, so that
  longer heaps are not rebuilt and shorter ones are.
  `order_session` has three sessions and room for two, so the LRU evicts.
- `registry`: two names, two routes, two handlers, so that a name can be the model of one route and
  an adapter of another. A handler creates at most one queue, so two queue identities never run out.
- `lifecycle`: one group of one Pod, each policy, with and without a grace period, any two faults of
  five kinds. `MaxPods` caps the Pods ever created and `MaxLag` how far cache and handler are behind.
  Deadlock is not checked, because a converged controller is at rest, and the bounds stop behaviours
  too. `lifecycle_stuck` has a group of two Pods and one fault.

### Fairness

Weak fairness is assumed of goroutines only: the Go scheduler runs what can run. `FinishServing` is
fair because a proxied request ends. Deadlines, disconnects, Close, shutdown, scrapes and route
changes are never fair, so no liveness result relies on them. `HeldRequestsAnswered` is
conditional on capacity that stays. No liveness is claimed for `ServingGroupLifecycle`: a cache that
is always behind can make the controller delete and recreate for ever. What it checks
instead is that the states in which nothing more will happen are the right ones.

## Findings

1. **Admission on an old check** (`boost_stale_check`). `tryBackpressureDequeue` checks capacity and
   then `popWhenAvailable` may drop cancelled requests and block. A later arrival is admitted on
   the old answer although every pod is busy.
2. **FIFO per user** (`order_user_fifo`). `Less` compares one user's requests by time and others by
   priority. With two requests of a user at different priorities and another user's between, it is
   cyclic (`FairLessHasCycles`), and the later request can be served first.
3. **Unauthenticated requests promoted** (`order_unauthenticated`). `rebuildHeap` recomputes their
   priority as 0, the best, where the handler had given them the worst.
4. **Leaked queue** (`registry_leak`). `HasModel` is read before the rate limiter; if the last route
   goes meanwhile, Enqueue creates a queue that only a later route of that name can clean up.
5. **Group stuck in Deleting** (`lifecycle_stuck`). The worker goes on creating Pods of a group that
   the handler has marked Deleting and whose Pods it has recorded for deletion. The Pod created
   afterwards counts as a replacement and is spared, the group never empties, and nothing wakes the
   controller. `PolicyCarriedOut` is the property without exceptions.

The quoted lines are in `PROJECT.json`.

### What `SettledMeansConverged` excepts

The controller has no resync, so a state in which nothing is queued and nothing will happen is final.
Such a state is the one asked for, except when

- a deletion is `Stranded`: replacements of its Pods exist (finding 5), or `WriteStatus`, `SetRunning`
  or `SetCreating` wrote over its Deleting status;
- a failed API call is `Abandoned`. `handlePodAfterGraceTime` logs a failed deletion, removes the Pod
  from the grace map and enqueues nothing, so that a failed Pod stays although the comment at
  `model_serving_controller.go:2231` says that it "needs to be rebuilt". `deleteServingGroup` returns
  the error of listing the replacements in a variable (`getErr`, line 3278) that its deferred enqueue
  does not look at; the worker retries, the handler does not. `DeleteRole` returns the same error as its
  named result and is requeued;
- a ready Pod goes `Unnoticed`: the worker reads an unready Pod from the cache, the handler sees it
  ready with its Role still Running and does not enqueue, and the worker writes Creating. A group of
  one Pod recovers, because the handler finds the whole group ready and enqueues; a group of two may
  not, and is never Running although all its Pods are.

The exceptions name the objects concerned, and end when these are gone: a Pod whose deletion failed
and that was then deleted otherwise excuses nothing. The last two have no run of their own, and
neither has a third divergence: a unit can be forgotten on a stale cache while its Pod still exists,
against the comment at `pod_deletion_targets.go:46`.

## Proofs

**FairnessQueueProofs**, for every finite set of requests and every `MaxConcurrent`. Assumptions:
`RequestsFinite`, `MaxConcurrentNat`, `NoneNotRequest`. The permit count is not inductive: that
`CommitAdmission` installs a Release only where there is none needs to know where a request can be
(`Whereabouts`), and that Close strands nobody needs to know where a waiting one must be
(`WaitersPlaced`). `IInv` is their conjunction with `TypeOK`, `PermitConservation` and
`ExclusiveOutcome`, and each conjunct has one step lemma with one case per action. From it follow
`TypeCorrect`, `PermitsConserved`, `OutcomesExclusive`, `InOnePlace`, `NobodyStranded`, and the
refinement `QueueImplementsGate`, in which `CommitAdmission` (in QPS mode `SignalAdmission`) maps to
`Admit`, and the bound on holders follows from the permit count.

**RequestLessProofs**: `Less` is a strict weak order in session-boost mode, and in fairness mode among
requests of different users; with two requests of one user it has cycles.

**QueueRegistryProofs**, for every set of names, routes, requests and queues. `IInv` adds `Filed` (the
map files a queue under its own name) to the checked invariants. From it follow
`RegistryTypeCorrect`, `IndexesAlwaysAgree`, `QueuesNeverLost` and `ClosedQueuesEmpty`.

Only model-checked: all liveness; the heap, whose operators are recursive; `SessionBoostQueue`;
`ServingGroupLifecycle`.

## Abstractions

- Prometheus counters, logs and messages are left out. Times are small numbers, and token usage is
  one number per user: the default weights, without the tracker's buckets.
- `SessionBoostQueue.permit` stands for `admitted`, `abandoned` and `Release` together, which the
  request's `admitMu` keeps in step.
- `LeastUsageServed` is checked with one request per user; with two, FIFO comes before usage.
- `ServingGroupLifecycle`: one Role with one Pod per instance, no Services, PodGroups, plugins or
  revisions, and so none of their errors. The update of the ModelServing's status never fails.
- Some of its steps group several reads or calls of one goroutine: the UID-fenced deletions of one
  `podDeletionTargets.Delete` call (a failure may come after any of them); the reads of one readiness
  check; `handleReadyPod` up to its write of the group's status; the look at the cache and the
  deletion after a grace period; the Role's read and write in `markPodUnavailable`.

## Plan

1. Controller: `ServingGroupRollout` (revisions, partition, maxUnavailable, maxSurge, ordinals), then
   Role and coordinated rollout, `InPlaceUpdate`, `RevisionHistory`, PodGroups, the eviction
   handler, LeaderWorkerSet.
2. Router: `RouterStore` (pods and model servers under concurrent callbacks), `OnFlightCounter`,
   `TokenTracker`, `RateLimiter`, `SessionSticky`, `RequestFlow` (scheduling, load balancing,
   retries, route matching), `PrefixStore` and `KVIndex`, `PDTransfer`.
3. `Autoscaler` with `SlidingWindow`, `ModelBooster`, `TokenizerManager`, webhook certificates.
4. Compositions: `QueueRegistry` over `AdmissionGate`; `RouterStore` with `SessionBoostQueue`.
5. Proofs: `TypeOK` and `ReplacementsSpared` of `ServingGroupLifecycle`, conservation of slots in
   `SessionBoostQueue`, the counter and the store once modelled.

The set of runs is kept small: new components replace or merge with runs that ask a narrow
question (`order_user_fifo` has `FairLessHasCycles` beside it, and the safety part of `fairness_qps`
is proved).
