------------------------ MODULE ServingGroupLifecycle ------------------------
(***************************************************************************)
(* How the ModelServing controller creates, observes, repairs and deletes  *)
(* ServingGroups.  Three kinds of goroutine share its in-memory store: the *)
(* worker that owns the ModelServing's workqueue key (syncModelServing),   *)
(* the informer's handler (updatePod, deletePod), and one goroutine per    *)
(* Pod in its restart grace period.  Pods live in the API server; the      *)
(* watch updates the informer's cache, and the handler learns of a change  *)
(* later still.                                                            *)
(* A ServingGroup has one Role with RoleReplicas instances of one Pod      *)
(* each.  Revisions and rollouts are ServingGroupRollout's subject.        *)
(***************************************************************************)
EXTENDS Integers, FiniteSets, FiniteSetsExt, Sequences, SequencesExt

CONSTANTS
    MaxGroups,       \* bound: replicas stay in 0..MaxGroups
    RoleReplicas,    \* instances of the Role in each group
    Policies,        \* recovery policies the ModelServing may have
    GracePeriods,    \* values of restartGracePeriodSeconds > 0; it may be edited between failures
    FaultKinds,      \* which of "api", "crash", "pod", "evict", "scale" happen
    MaxFaults,       \* bound: how many of them
    MaxPods,         \* bound: Pods ever created
    MaxLag           \* bound: changes the cache, and the handler, may be behind

ASSUME BoundsAssumption ==
    /\ MaxGroups \in Nat /\ RoleReplicas \in Nat \ {0}
    /\ Policies \subseteq {"ServingGroupRecreate", "RoleRecreate", "None"}
    /\ GracePeriods \subseteq BOOLEAN
    /\ FaultKinds \subseteq {"api", "crash", "pod", "evict", "scale"}
    /\ MaxFaults \in Nat /\ MaxPods \in Nat /\ MaxLag \in Nat \ {0}

Groups == 0..MaxGroups - 1
Members == 0..RoleReplicas - 1
Pods == Groups \X Members

(* What is deleted as a whole: a Role instance <<g, m>>, or a group.       *)
Whole == -1
Units == Groups \X (Members \cup {Whole})
PodsOf(u) == {p \in Pods : p[1] = u[1] /\ u[2] \in {p[2], Whole}}

Absent == [uid |-> 0, phase |-> "absent", term |-> FALSE]
Actors == {"worker", "informer"}

VARIABLES
    policy,     \* spec.recoveryPolicy
    replicas,   \* spec.replicas
    api,        \* the Pods of the API server
    watch,      \* changes the informer's cache has not seen
    cache,      \* the informer's cache
    events,     \* changes its handler has not been told of
    gstat,      \* store: Status of each ServingGroup
    rstat,      \* store: Status of each Role instance
    targets,    \* podDeletions: the podDeletionTargets of each unit
    grace,      \* graceMap: <<pod, uid>> in the restart grace period
    queued,     \* the workqueue holds the ModelServing's key
    work,       \* the worker's position in syncModelServing
    hand,       \* the handler's position in updatePod and deletePod
    proc,       \* each one's position in deleteServingGroup or DeleteRole
    uids, faults,
    dropped     \* history: Pods and groups whose failed API call nobody repeats

spec == <<policy, replicas>>
store == <<gstat, rstat>>
cluster == <<api, watch, uids>>
history == <<faults, dropped>>
vars == <<policy, replicas, api, watch, cache, events, gstat, rstat, targets, grace,
          queued, work, hand, proc, uids, faults, dropped>>

NoProc == [at |-> "none", unit |-> <<0, Whole>>]
NoHand == [at |-> "idle", pod |-> <<0, 0>>, uid |-> 0, next |-> "none"]
NoRoles == [m \in Members |-> "NotFound"]
Idle == [phase |-> "idle", todo |-> <<>>, n |-> 0, err |-> FALSE, ready |-> FALSE,
         deleting |-> {}, roles |-> NoRoles, left |-> {},
         saw |-> "absent"]
NoTargets == [taken |-> FALSE, uid |-> [p \in Pods |-> 0], done |-> {}]

Init ==
    /\ policy \in Policies /\ replicas \in 0..MaxGroups
    /\ api = [p \in Pods |-> Absent] /\ cache = api
    /\ watch = <<>> /\ events = <<>> /\ uids = 0
    /\ gstat = [g \in Groups |-> "NotFound"]
    /\ rstat = [g \in Groups |-> NoRoles]
    /\ targets = [u \in Units |-> NoTargets]
    /\ grace = {} /\ queued = TRUE
    /\ work = Idle /\ hand = NoHand /\ proc = [a \in Actors |-> NoProc]
    /\ faults = 0 /\ dropped = {}

-----------------------------------------------------------------------------
Present(obj) == obj # Absent
Ready(obj) == obj.phase = "ready" /\ ~obj.term
Known == {g \in Groups : gstat[g] # "NotFound"}
InOrder(S) == SetToSortSeq(S, LAMBDA x, y : x[1] < y[1] \/ (x[1] = y[1] /\ x[2] < y[2]))

(* The API server applies a change and the watch reports it, Pod by Pod. *)
Apply(new) ==
    LET changed == {p \in Pods : new[p] # api[p]}
        order == InOrder(changed)
    IN  /\ api' = new
        /\ watch' = watch \o [i \in DOMAIN order |-> [pod |-> order[i], obj |-> new[order[i]]]]

(* createPod for each of P: one that already exists is taken for the one   *)
(* wanted, its group, Role and revision being the same.                    *)
CreatePods(P) ==
    LET missing == InOrder({p \in P : ~Present(api[p])})
        index(p) == CHOOSE i \in DOMAIN missing : missing[i] = p
    IN  /\ uids + Len(missing) <= MaxPods
        /\ Apply([p \in Pods |-> IF p \in ToSet(missing)
                                 THEN [uid |-> uids + index(p), phase |-> "pending", term |-> FALSE]
                                 ELSE api[p]])
        /\ uids' = uids + Len(missing)

(* Delete with a UID precondition: nothing else by that name is touched.   *)
DeleteAt(uid) == [p \in Pods |-> IF Present(api[p]) /\ api[p].uid = uid[p]
                                 THEN [api[p] EXCEPT !.term = TRUE] ELSE api[p]]

Fault(kind, lost) ==
    /\ kind \in FaultKinds /\ faults < MaxFaults
    /\ faults' = faults + 1 /\ dropped' = dropped \cup lost

-----------------------------------------------------------------------------
(***************************************************************************)
(* deleteServingGroup and DeleteRole, in the goroutine that calls them.    *)
(***************************************************************************)
Call(a, u) == proc' = [proc EXCEPT ![a] = [at |-> "mark", unit |-> u]]

(* An error aborts the worker's round, except that scaleDownServingGroups  *)
(* goes on to the next group first; the handler only logs it.              *)
Return(a, err) ==
    /\ proc' = [proc EXCEPT ![a] = NoProc]
    /\ work' = CASE a = "worker" /\ err /\ work.phase = "down" -> [work EXCEPT !.err = TRUE]
                 [] a = "worker" /\ err /\ work.phase # "down" -> Idle
                 [] OTHER -> work
Continue(a, at) == proc' = [proc EXCEPT ![a].at = at] /\ UNCHANGED work

(* AddRateLimited *)
Retry(a, err) == a = "worker" /\ err /\ work.phase # "down"

Mark(a) ==
    LET u == proc[a].unit
        found == IF u[2] = Whole THEN gstat[u[1]] # "NotFound" ELSE rstat[u[1]][u[2]] # "NotFound"
        err == ~found /\ u[2] # Whole
    IN  /\ proc[a].at = "mark"
        /\ IF found THEN Continue(a, "pods") ELSE Return(a, err)
        /\ gstat' = IF found /\ u[2] = Whole THEN [gstat EXCEPT ![u[1]] = "Deleting"] ELSE gstat
        /\ rstat' = IF found /\ u[2] # Whole THEN [rstat EXCEPT ![u[1]][u[2]] = "Deleting"] ELSE rstat
        /\ queued' = (queued \/ Retry(a, err))
        /\ UNCHANGED <<spec, cluster, cache, events, targets, grace, hand, history>>

(* podDeletionTargets.Delete: the first call lists the unit's Pods, and    *)
(* every call submits the deletions not yet accepted.                      *)
FaultySnapshot(u) == [taken |-> TRUE, done |-> {},
                      uid |-> [p \in Pods |-> IF p \in PodsOf(u) THEN api[p].uid ELSE 0]]
Snapshot(u) == IF targets[u].taken THEN targets[u]
               ELSE [taken |-> TRUE, done |-> {},
                     uid |-> [p \in Pods |-> IF p \in PodsOf(u) THEN api[p].uid ELSE 0]]

(* The record's mutex: nobody else is between its snapshot and the last of *)
(* its deletions.                                                          *)
Unlocked(a) == \A b \in Actors \ {a} : ~(proc[b].at = "submit" /\ proc[b].unit = proc[a].unit)

ListTargets(a) ==
    LET u == proc[a].unit
    IN  /\ proc[a].at = "pods" /\ Unlocked(a)
        /\ targets' = [targets EXCEPT ![u] = Snapshot(u)]
        /\ Continue(a, "submit")
        /\ UNCHANGED <<spec, cluster, cache, events, store, grace, queued, hand, history>>

Submit(a, P) ==
    LET u == proc[a].unit
        t == targets[u]
    IN  /\ Apply(DeleteAt([p \in Pods |-> IF p \in P \ t.done THEN t.uid[p] ELSE 0]))
        /\ targets' = [targets EXCEPT ![u].done = @ \cup P]

DeletePods(a) ==
    /\ proc[a].at = "submit"
    /\ Submit(a, PodsOf(proc[a].unit))
    /\ Continue(a, "replacements")
    /\ UNCHANGED <<spec, cache, events, store, grace, queued, hand, uids, history>>

(* The snapshot cannot be listed, or a deletion fails: the Pods before it, *)
(* by name, are done.  Either error is the callee's err, and requeues.     *)
ListTargetsFails(a) ==
    /\ proc[a].at = "pods" /\ Unlocked(a) /\ ~targets[proc[a].unit].taken /\ Fault("api", {})
    /\ Return(a, TRUE)
    /\ queued' = TRUE
    /\ UNCHANGED <<spec, cluster, cache, events, store, targets, grace, hand>>

DeletePodsFails(a) ==
    /\ proc[a].at = "submit" /\ Fault("api", {})
    /\ \E k \in Members : Submit(a, {p \in PodsOf(proc[a].unit) : p[2] < k})
    /\ Return(a, TRUE)
    /\ queued' = TRUE
    /\ UNCHANGED <<spec, cache, events, store, grace, hand, uids>>

(* Pods of the unit that the decision does not cover: they are left alone. *)
Replacements(u, t) == {p \in PodsOf(u) : Present(api[p]) /\ api[p].uid # t.uid[p]}

ListReplacements(a) ==
    /\ proc[a].at = "replacements" /\ Unlocked(a)
    /\ IF Replacements(proc[a].unit, targets[proc[a].unit]) # {}
       THEN Return(a, FALSE) ELSE Continue(a, "check")
    /\ UNCHANGED <<spec, cluster, cache, events, store, targets, grace, queued, hand, history>>

(* Listing them fails.  DeleteRole returns the error as its named result,  *)
(* and requeues; deleteServingGroup returns one that its deferred enqueue  *)
(* does not look at, so that only the worker's own retry is left.          *)
ListReplacementsFails(a) ==
    LET u == proc[a].unit
        lost == u[2] = Whole /\ a = "informer"
    IN  /\ proc[a].at = "replacements" /\ Unlocked(a)
        /\ Fault("api", IF lost THEN {<<u, 0>>} ELSE {})
        /\ Return(a, TRUE)
        /\ queued' = (queued \/ u[2] # Whole \/ Retry(a, TRUE))
        /\ UNCHANGED <<spec, cluster, cache, events, store, targets, grace, hand>>

(* isServingGroupDeleted, isRoleDeleted *)
Deleted(u) ==
    /\ IF u[2] = Whole THEN gstat[u[1]] = "Deleting" ELSE rstat[u[1]][u[2]] = "Deleting"
    /\ \A p \in PodsOf(u) : ~Present(cache[p])

CheckDeleted(a) ==
    /\ proc[a].at = "check"
    /\ IF Deleted(proc[a].unit) THEN Continue(a, "forget") ELSE Return(a, FALSE)
    /\ UNCHANGED <<spec, cluster, cache, events, store, targets, grace, queued, hand, history>>

Forgotten(u) == {v \in Units : v[1] = u[1] /\ u[2] \in {v[2], Whole}}

(* Whoever removes the unit wakes the worker, which may have gone by. *)
FaultyRequeues(u) == u[2] = Whole
Requeues(u) == u \in Units

Forget(a) ==
    LET u == proc[a].unit
    IN  /\ proc[a].at = "forget"
        /\ gstat' = IF u[2] = Whole THEN [gstat EXCEPT ![u[1]] = "NotFound"] ELSE gstat
        /\ rstat' = [rstat EXCEPT ![u[1]] = IF u[2] = Whole THEN NoRoles
                                            ELSE [@ EXCEPT ![u[2]] = "NotFound"]]
        /\ targets' = [v \in Units |-> IF v \in Forgotten(u) THEN NoTargets ELSE targets[v]]
        /\ queued' = (queued \/ Requeues(u))
        /\ Return(a, FALSE)
        /\ UNCHANGED <<spec, cluster, cache, events, grace, hand, history>>

-----------------------------------------------------------------------------
(***************************************************************************)
(* syncModelServing                                                        *)
(***************************************************************************)
At(phase) == work.phase = phase /\ proc["worker"] = NoProc
Groupwise(S) == InOrder({<<g, Whole>> : g \in S})

StartSync ==
    /\ At("idle") /\ queued
    /\ queued' = FALSE
    /\ work' = [Idle EXCEPT !.phase = "pending", !.n = replicas, !.todo = Groupwise(Known),
                            !.deleting = {g \in Groups : gstat[g] = "Deleting"}]
    /\ UNCHANGED <<spec, cluster, cache, events, store, targets, grace, hand, proc, history>>

(* finishPendingDeletions: a group that was not being deleted when the     *)
(* round began is replaced by its Roles that are.                          *)
FinishPending ==
    LET u == Head(work.todo)
        roles == {<<u[1], m>> : m \in {m \in Members : rstat[u[1]][m] = "Deleting"}}
        call == u[2] # Whole \/ u[1] \in work.deleting
        lost == ~call /\ gstat[u[1]] = "NotFound"
    IN  /\ At("pending") /\ work.todo # <<>>
        /\ work' = CASE lost -> Idle
                     [] call -> [work EXCEPT !.todo = Tail(@)]
                     [] OTHER -> [work EXCEPT !.todo = InOrder(roles) \o Tail(@)]
        /\ IF call THEN Call("worker", u) ELSE UNCHANGED proc
        /\ queued' = (queued \/ lost)
        /\ UNCHANGED <<spec, cluster, cache, events, store, targets, grace, hand, history>>

(* scaleUpServingGroups fills the lowest missing ordinals; every known     *)
(* group counts, deleted or not.                                           *)
FaultyMissing(n) == {g \in 0..n : g \notin Known}
Missing(n) ==
    LET all == {g \in 0..n - 1 : g \notin Known}
    IN  {g \in all : Cardinality({h \in all : h < g}) < n - Cardinality(Known)}

(* scaleDownServingGroups: not Running first, then the highest ordinal.    *)
Victims(n) ==
    LET running(u) == gstat[u[1]] = "Running"
        order == SetToSortSeq({<<g, Whole>> : g \in Known},
                     LAMBDA u, v : IF running(u) = running(v) THEN u[1] > v[1] ELSE running(v))
    IN  SubSeq(order, 1, Cardinality(Known) - n)

SyncServingGroupReplicas ==
    /\ At("pending") /\ work.todo = <<>>
    /\ work' = CASE Cardinality(Known) < work.n ->
                        [Idle EXCEPT !.phase = "up", !.todo = InOrder(Missing(work.n) \X Members)]
                 [] OTHER -> [Idle EXCEPT !.phase = "down", !.todo = Victims(work.n)]
    /\ UNCHANGED <<spec, cluster, cache, events, store, targets, grace, queued, hand, proc, history>>

(* AddRole, which adds the group as well *)
AddRole(p) ==
    /\ gstat' = [gstat EXCEPT ![p[1]] = IF @ = "NotFound" THEN "Creating" ELSE @]
    /\ rstat' = [rstat EXCEPT ![p[1]][p[2]] = IF @ = "NotFound" THEN "Creating" ELSE @]

(* CreatePodsForServingGroup: the Pod first, the store after. *)
CreateMember ==
    /\ At("up") /\ work.todo # <<>>
    /\ CreatePods({Head(work.todo)})
    /\ work' = [work EXCEPT !.phase = "added"]
    /\ UNCHANGED <<spec, cache, events, store, targets, grace, queued, hand, proc, history>>

AddMember ==
    /\ At("added")
    /\ AddRole(Head(work.todo))
    /\ work' = IF Head(work.todo)[2] = RoleReplicas - 1 THEN [work EXCEPT !.phase = "group"]
               ELSE [work EXCEPT !.phase = "up", !.todo = Tail(@)]
    /\ UNCHANGED <<spec, cluster, cache, events, targets, grace, queued, hand, proc, history>>

(* The group is added once more, if the handler has removed it meanwhile.  *)
AddServingGroup ==
    /\ At("group")
    /\ gstat' = [gstat EXCEPT ![Head(work.todo)[1]] = IF @ = "NotFound" THEN "Creating" ELSE @]
    /\ work' = [work EXCEPT !.phase = "up", !.todo = Tail(@)]
    /\ UNCHANGED <<spec, cluster, cache, events, rstat, targets, grace, queued, hand, proc, history>>

CreateMemberFails ==
    /\ At("up") /\ work.todo # <<>> /\ Fault("api", {})
    /\ work' = Idle /\ queued' = TRUE
    /\ UNCHANGED <<spec, cluster, cache, events, store, targets, grace, hand, proc>>

ScaleDown ==
    /\ At("down") /\ work.todo # <<>>
    /\ Call("worker", Head(work.todo))
    /\ work' = [work EXCEPT !.todo = Tail(@)]
    /\ UNCHANGED <<spec, cluster, cache, events, store, targets, grace, queued, hand, history>>

(* syncRoleReplicas lists the groups anew and skips those being deleted. *)
SyncRoleReplicas ==
    /\ At("up") \/ At("down")
    /\ work.todo = <<>>
    /\ work' = IF work.err THEN Idle
               ELSE [work EXCEPT !.phase = "roles",
                                 !.todo = Groupwise({g \in Known : gstat[g] # "Deleting"})]
    /\ queued' = (queued \/ work.err)
    /\ UNCHANGED <<spec, cluster, cache, events, store, targets, grace, hand, proc, history>>

(* The group the worker is at, and the Role instance it has come to.       *)
Group == Head(work.todo)[1]
Role == Min(work.left)
NextGroup(err) == [Idle EXCEPT !.phase = "roles", !.todo = Tail(work.todo), !.err = work.err \/ err]
NextRole == [work EXCEPT !.phase = "repair", !.left = @ \ {Role}, !.saw = "absent"]
RolesFail == [Idle EXCEPT !.phase = "check", !.todo = work.todo, !.err = TRUE]

(* unitHasPods asks the API server only about a group the cache shows      *)
(* empty; if it cannot be asked, the group is passed over.                 *)
UnitHasPodsFails ==
    /\ At("roles") /\ work.todo # <<>>
    /\ \A m \in Members : ~Present(cache[<<Group, m>>])
    /\ Fault("api", {})
    /\ work' = NextGroup(TRUE)
    /\ UNCHANGED <<spec, cluster, cache, events, store, targets, grace, queued, hand, proc>>

(* manageRoleReplicasPerGroup reads the Roles of the group. *)
ListRoles ==
    /\ At("roles") /\ work.todo # <<>>
    /\ work' = IF Group \notin Known THEN RolesFail
               ELSE [work EXCEPT !.phase = "repair", !.roles = rstat[Group],
                         !.left = {m \in Members : rstat[Group][m] \notin {"NotFound", "Deleting"}}]
    /\ UNCHANGED <<spec, cluster, cache, events, store, targets, grace, queued, hand, proc, history>>

(* The cache is read for one of the listed Roles; its status is written    *)
(* if it was listed with another, then a Pod that was not seen is created. *)
Observed(saw) == IF saw = "ready" THEN "Running" ELSE "Creating"

ReadRolePods ==
    LET obj == cache[<<Group, Role>>]
        saw == CASE Ready(obj) -> "ready" [] ~Present(obj) -> "absent" [] OTHER -> "unready"
    IN  /\ At("repair") /\ work.left # {}
        /\ work' = CASE work.roles[Role] # Observed(saw) ->
                            [work EXCEPT !.phase = "role", !.saw = saw]
                     [] work.roles[Role] = Observed(saw) /\ saw = "absent" ->
                            [work EXCEPT !.phase = "recreate"]
                     [] OTHER -> NextRole
        /\ UNCHANGED <<spec, cluster, cache, events, store, targets, grace, queued, hand, proc, history>>

UpdateRoleStatus ==
    LET found == rstat[Group][Role] # "NotFound"
    IN  /\ At("role")
        /\ rstat' = IF found THEN [rstat EXCEPT ![Group][Role] = Observed(work.saw)] ELSE rstat
        /\ work' = IF found /\ work.saw = "absent" THEN [work EXCEPT !.phase = "recreate"] ELSE NextRole
        /\ UNCHANGED <<spec, cluster, cache, events, gstat, targets, grace, queued, hand, proc, history>>

RecreatePods ==
    /\ At("recreate")
    /\ CreatePods({<<Group, Role>>})
    /\ work' = NextRole
    /\ UNCHANGED <<spec, cache, events, store, targets, grace, queued, hand, proc, history>>

(* scaleUpRoles, if Roles were missing from the list: the group becomes    *)
(* Scaling whatever it was, then each is created and added to the store.   *)
SetScaling ==
    LET missing == {m \in Members : work.roles[m] = "NotFound"}
        fails == missing # {} /\ Group \notin Known
    IN  /\ At("repair") /\ work.left = {}
        /\ gstat' = IF missing = {} \/ fails THEN gstat ELSE [gstat EXCEPT ![Group] = "Scaling"]
        /\ work' = CASE fails -> RolesFail
                     [] missing = {} -> [work EXCEPT !.phase = "check", !.roles = NoRoles]
                     [] OTHER -> [work EXCEPT !.phase = "scale", !.left = missing, !.roles = NoRoles]
        /\ UNCHANGED <<spec, cluster, cache, events, rstat, targets, grace, queued, hand, proc, history>>

CreateRole ==
    /\ At("scale")
    /\ CreatePods({<<Group, Role>>})
    /\ work' = [work EXCEPT !.phase = "add"]
    /\ UNCHANGED <<spec, cache, events, store, targets, grace, queued, hand, proc, history>>

AddCreatedRole ==
    /\ At("add")
    /\ AddRole(<<Group, Role>>)
    /\ work' = [work EXCEPT !.phase = IF work.left = {Role} THEN "check" ELSE "scale",
                            !.left = @ \ {Role}]
    /\ queued' = TRUE
    /\ UNCHANGED <<spec, cluster, cache, events, targets, grace, hand, proc, history>>

(* A Pod cannot be created: manageRoleReplicasPerGroup gives up the rest.  *)
CreateRoleFails ==
    /\ At("recreate") \/ At("scale")
    /\ Fault("api", {})
    /\ work' = RolesFail
    /\ UNCHANGED <<spec, cluster, cache, events, store, targets, grace, queued, hand, proc>>

(* checkServingGroupReady *)
GroupReady(g, rs) == \A m \in Members : rs[g][m] = "Running" /\ Ready(cache[<<g, m>>])

CheckReady ==
    /\ At("check")
    /\ work' = IF Group \notin Known THEN NextGroup(TRUE)
               ELSE [work EXCEPT !.phase = "status", !.ready = GroupReady(Group, rstat)]
    /\ UNCHANGED <<spec, cluster, cache, events, store, targets, grace, queued, hand, proc, history>>

(* The status is read, and written if it must change. *)
ReadStatus ==
    LET was == gstat[Group]
        writes == was # "Deleting" /\ (work.ready \/ was = "Running")
    IN  /\ At("status")
        /\ work' = IF writes THEN [work EXCEPT !.phase = "write"] ELSE NextGroup(FALSE)
        /\ UNCHANGED <<spec, cluster, cache, events, store, targets, grace, queued, hand, proc, history>>

WriteStatus ==
    /\ At("write")
    /\ gstat' = IF Group \in Known
                THEN [gstat EXCEPT ![Group] = IF work.ready THEN "Running" ELSE "Creating"]
                ELSE gstat
    /\ work' = NextGroup(Group \notin Known)
    /\ UNCHANGED <<spec, cluster, cache, events, rstat, targets, grace, queued, hand, proc, history>>

EndSync ==
    /\ At("roles") /\ work.todo = <<>>
    /\ work' = Idle
    /\ queued' = (queued \/ work.err)
    /\ UNCHANGED <<spec, cluster, cache, events, store, targets, grace, hand, proc, history>>
-----------------------------------------------------------------------------
(***************************************************************************)
(* The informer: the watch updates the cache, the handler follows.         *)
(***************************************************************************)
Observe ==
    /\ watch # <<>> /\ Len(events) < MaxLag
    /\ cache' = [cache EXCEPT ![Head(watch).pod] = Head(watch).obj]
    /\ watch' = Tail(watch)
    /\ events' = Append(events, Head(watch))
    /\ UNCHANGED <<spec, api, uids, store, targets, grace, queued, work, hand, proc, history>>

(* The handler takes its next event, if that is of the given kind. *)
Event(kind) ==
    /\ hand = NoHand /\ proc["informer"] = NoProc
    /\ events # <<>> /\ kind
    /\ events' = Tail(events)
    /\ UNCHANGED <<spec, cluster, cache, targets, work, history>>

Broken(obj) == obj.phase \in {"restarting", "failed"} /\ ~obj.term

(* updatePod leaves a terminating Pod to deletePod and, after the initial  *)
(* sync, does nothing for one that is starting.                            *)
Starting(obj) == Present(obj) /\ ~Ready(obj) /\ ~Broken(obj)
HandleOther == Event(Starting(Head(events).obj)) /\ UNCHANGED <<store, grace, queued, hand, proc>>

(* handleReadyPod: AddRunningPodToServingGroup brings back a group or Role *)
(* the store has forgotten; whether the Role and the group are ready is    *)
(* read from the cache as it is now.                                       *)
HandleReadyPod ==
    LET p == Head(events).pod
        old == rstat[p[1]][p[2]]
        runs == Ready(cache[p]) /\ old # "Deleting"
        rs == [rstat EXCEPT ![p[1]][p[2]] = IF runs THEN "Running"
                                            ELSE IF @ = "NotFound" THEN "Creating" ELSE @]
        ready == GroupReady(p[1], rs)
    IN  /\ Event(Ready(Head(events).obj))
        /\ rstat' = rs
        /\ gstat' = [gstat EXCEPT ![p[1]] = IF @ = "NotFound" THEN "Creating" ELSE @]
        /\ hand' = IF ready THEN [NoHand EXCEPT !.at = "setRunning", !.pod = p] ELSE NoHand
        /\ queued' = (queued \/ (~ready /\ runs /\ old # "Running"))
        /\ UNCHANGED <<grace, proc>>

SetRunning ==
    LET g == hand.pod[1]
    IN  /\ hand.at = "setRunning"
        /\ hand' = NoHand
        /\ gstat' = IF g \in Known THEN [gstat EXCEPT ![g] = "Running"] ELSE gstat
        /\ queued' = (queued \/ g \in Known)
        /\ UNCHANGED <<spec, cluster, cache, events, rstat, targets, grace, work, proc, history>>

(* markPodUnavailable: the Role at once, the group if it is Running; the   *)
(* write is a step of its own.  What the caller does next comes after it.  *)
MarkPodUnavailable(p, next) ==
    /\ rstat' = [rstat EXCEPT ![p[1]][p[2]] = IF @ = "Running" THEN "Creating" ELSE @]
    /\ hand' = [at |-> IF gstat[p[1]] = "Running" THEN "setCreating" ELSE "then",
                pod |-> p, uid |-> Head(events).obj.uid, next |-> next]

(* handleErrorPod: with policy None a restarted Pod is left to the         *)
(* kubelet; otherwise the Pod enters its grace period, once.               *)
HandleErrorPod ==
    LET e == Head(events)
        kubelets == policy = "None" /\ e.obj.phase = "restarting"
        loaded == <<e.pod, e.obj.uid>> \in grace
    IN  /\ Event(Broken(Head(events).obj))
        /\ IF ~kubelets /\ loaded THEN UNCHANGED <<rstat, hand>>
           ELSE MarkPodUnavailable(e.pod, IF kubelets THEN "enqueue" ELSE "grace")
        /\ grace' = IF kubelets THEN grace ELSE grace \cup {<<e.pod, e.obj.uid>>}
        /\ UNCHANGED <<gstat, queued, proc>>

(* deletePod: a deletion in progress is the worker's to finish; otherwise  *)
(* the policy decides what is recreated.                                   *)
InProgress(p) == gstat[p[1]] = "Deleting" \/ rstat[p[1]][p[2]] = "Deleting"

HandleDeletedPod ==
    LET p == Head(events).pod
        recreate(u) == Call("informer", u) /\ UNCHANGED <<rstat, hand, queued>>
    IN  /\ Event(~Present(Head(events).obj))
        /\ CASE InProgress(p) -> queued' = TRUE /\ UNCHANGED <<rstat, hand, proc>>
             [] ~InProgress(p) /\ policy = "ServingGroupRecreate" ->
                    recreate(<<p[1], Whole>>)
             [] ~InProgress(p) /\ policy = "RoleRecreate" ->
                    IF gstat[p[1]] = "Running"
                    THEN /\ hand' = [NoHand EXCEPT !.at = "setCreating", !.pod = p, !.next = "role"]
                         /\ UNCHANGED <<rstat, queued, proc>>
                    ELSE recreate(p)
             [] ~InProgress(p) /\ policy = "None" ->
                    MarkPodUnavailable(p, "enqueue") /\ UNCHANGED <<queued, proc>>
        /\ UNCHANGED <<gstat, grace>>

(* UpdateServingGroupStatus(Creating); it fails if the group is gone.      *)
SetCreating ==
    LET g == hand.pod[1]
        fails == g \notin Known
    IN  /\ hand.at = "setCreating"
        /\ gstat' = IF fails THEN gstat ELSE [gstat EXCEPT ![g] = "Creating"]
        /\ hand' = IF fails /\ hand.next # "enqueue" THEN NoHand ELSE [hand EXCEPT !.at = "then"]
        /\ grace' = IF fails /\ hand.next = "grace"
                    THEN grace \ {<<hand.pod, hand.uid>>} ELSE grace
        /\ UNCHANGED <<spec, cluster, cache, events, rstat, targets, queued, work, proc, history>>

Then ==
    /\ hand.at = "then"
    /\ hand' = NoHand
    /\ IF hand.next = "role" THEN Call("informer", hand.pod) /\ UNCHANGED queued
                             ELSE queued' = TRUE /\ UNCHANGED proc
    /\ UNCHANGED <<spec, cluster, cache, events, store, targets, grace, work, history>>

(* handlePodAfterGraceTime: after a grace period the Pod is deleted if the *)
(* cache still shows this incarnation and it has not recovered; without    *)
(* one it is deleted at once.                                              *)
StillBroken(p, uid) == cache[p].uid = uid /\ ~Ready(cache[p])
Started(p, uid) == <<p, uid>> \in grace /\ <<p, uid>> # <<hand.pod, hand.uid>>

AfterGraceTime(p, uid, waits) ==
    /\ Started(p, uid)
    /\ grace' = grace \ {<<p, uid>>}
    /\ Apply(IF waits => StillBroken(p, uid) THEN DeleteAt([[x \in Pods |-> 0] EXCEPT ![p] = uid])
             ELSE api)
    /\ UNCHANGED <<spec, cache, events, store, targets, queued, work, hand, proc, uids, history>>

(* The deletion fails: the error is logged, the Pod leaves the grace map,  *)
(* and nothing is enqueued.                                                *)
AfterGraceTimeFails(p, uid, waits) ==
    /\ Started(p, uid) /\ (waits => StillBroken(p, uid))
    /\ Fault("api", {<<p, uid>>})
    /\ grace' = grace \ {<<p, uid>>}
    /\ UNCHANGED <<spec, cluster, cache, events, store, targets, queued, work, hand, proc>>

-----------------------------------------------------------------------------
(***************************************************************************)
(* The cluster and its users.                                              *)
(***************************************************************************)
Becomes(p, obj) ==
    /\ Len(watch) < MaxLag
    /\ Apply([api EXCEPT ![p] = obj])
    /\ UNCHANGED <<spec, cache, events, store, targets, grace, queued, work, hand, proc, uids>>

PodStarts(p) ==
    /\ api[p].phase \in {"pending", "restarting"} /\ ~api[p].term
    /\ Becomes(p, [api[p] EXCEPT !.phase = "ready"]) /\ UNCHANGED history

PodGoes(p) == api[p].term /\ Becomes(p, Absent) /\ UNCHANGED history

PodRestarts(p) ==
    Ready(api[p]) /\ Fault("pod", {}) /\ Becomes(p, [api[p] EXCEPT !.phase = "restarting"])

PodFails(p) ==
    /\ Present(api[p]) /\ ~api[p].term /\ api[p].phase # "failed" /\ Fault("pod", {})
    /\ Becomes(p, [api[p] EXCEPT !.phase = "failed"])

(* Someone else deletes the Pod. *)
PodEvicted(p) ==
    Present(api[p]) /\ ~api[p].term /\ Fault("evict", {}) /\ Becomes(p, [api[p] EXCEPT !.term = TRUE])

Scale(n) ==
    /\ n # replicas /\ Fault("scale", {})
    /\ replicas' = n /\ queued' = TRUE
    /\ UNCHANGED <<policy, cluster, cache, events, store, targets, grace, work, hand, proc>>

(* The controller restarts: syncAll rebuilds the store from the Pods that  *)
(* are starting or ready before any worker runs.                           *)
Restart ==
    LET kept(p) == Present(api[p]) /\ ~api[p].term /\ ~Broken(api[p])
        rs == [g \in Groups |-> [m \in Members |->
                  IF ~kept(<<g, m>>) THEN "NotFound"
                  ELSE IF Ready(api[<<g, m>>]) THEN "Running" ELSE "Creating"]]
        all == InOrder({p \in Pods : Present(api[p])})
    IN  /\ "crash" \in FaultKinds /\ faults < MaxFaults /\ faults' = faults + 1 /\ dropped' = {}
        /\ cache' = api /\ watch' = <<>>
        /\ events' = [i \in DOMAIN all |-> [pod |-> all[i], obj |-> api[all[i]]]]
        /\ rstat' = rs
        /\ gstat' = [g \in Groups |->
                CASE \A m \in Members : rs[g][m] = "NotFound" -> "NotFound"
                  [] \A m \in Members : rs[g][m] = "Running" -> "Running"
                  [] OTHER -> "Creating"]
        /\ targets' = [u \in Units |-> NoTargets]
        /\ grace' = {} /\ queued' = TRUE
        /\ work' = Idle /\ hand' = NoHand /\ proc' = [a \in Actors |-> NoProc]
        /\ UNCHANGED <<spec, api, uids>>

Procedure(a) ==
    Mark(a) \/ ListTargets(a) \/ DeletePods(a) \/ ListReplacements(a) \/ CheckDeleted(a) \/ Forget(a)
ProcedureFails(a) == ListTargetsFails(a) \/ DeletePodsFails(a) \/ ListReplacementsFails(a)
Worker ==
    \/ StartSync \/ FinishPending \/ SyncServingGroupReplicas \/ CreateMember \/ AddMember
    \/ AddServingGroup \/ ScaleDown \/ SyncRoleReplicas \/ ListRoles \/ ReadRolePods \/ UpdateRoleStatus
    \/ RecreatePods \/ SetScaling \/ CreateRole \/ AddCreatedRole \/ CheckReady \/ ReadStatus
    \/ WriteStatus \/ EndSync \/ Procedure("worker")
Informer ==
    \/ HandleOther \/ HandleReadyPod \/ SetRunning \/ HandleErrorPod \/ HandleDeletedPod
    \/ SetCreating \/ Then \/ Procedure("informer")
Kubelet(p) == PodStarts(p) \/ PodGoes(p)
Faults ==
    \/ CreateMemberFails \/ UnitHasPodsFails \/ CreateRoleFails \/ Restart
    \/ \E a \in Actors : ProcedureFails(a)
    \/ \E p \in Pods : PodRestarts(p) \/ PodFails(p) \/ PodEvicted(p)
    \/ \E n \in 0..MaxGroups : Scale(n)
GraceTimes(p) ==
    \E uid \in 1..uids, waits \in GracePeriods :
        AfterGraceTime(p, uid, waits) \/ AfterGraceTimeFails(p, uid, waits)

Next ==
    \/ Worker \/ Informer \/ Observe \/ Faults
    \/ \E p \in Pods : Kubelet(p) \/ GraceTimes(p)

Spec == Init /\ [][Next]_vars

-----------------------------------------------------------------------------
Object == [uid : 0..MaxPods, phase : {"absent", "pending", "ready", "restarting", "failed"},
           term : BOOLEAN]
Change == [pod : Pods, obj : Object]
GroupStatus == {"NotFound", "Creating", "Scaling", "Running", "Deleting"}
RoleStatus == {"NotFound", "Creating", "Running", "Deleting"}

(* Every variable has its type: a store status is one of the constants of  *)
(* datastore/store.go, and a deletion record names Pods that have existed. *)
TypeOK ==
    /\ policy \in Policies /\ replicas \in 0..MaxGroups
    /\ api \in [Pods -> Object] /\ cache \in [Pods -> Object]
    /\ watch \in Seq(Change) /\ events \in Seq(Change)
    /\ gstat \in [Groups -> GroupStatus] /\ rstat \in [Groups -> [Members -> RoleStatus]]
    /\ targets \in [Units -> [taken : BOOLEAN, uid : [Pods -> 0..uids], done : SUBSET Pods]]
    /\ grace \subseteq Pods \X (1..uids) /\ queued \in BOOLEAN
    /\ work.todo \in Seq(Units) /\ work.roles \in [Members -> RoleStatus]
    /\ \A a \in Actors : proc[a].unit \in Units
    /\ uids \in 0..MaxPods /\ faults \in 0..MaxFaults /\ dropped \subseteq Units \X (0..MaxPods)

(* The ModelServing has the groups it asks for, all of them Running with   *)
(* every Pod ready, and no other Pod exists.                               *)
Converged ==
    /\ Cardinality(Known) = replicas
    /\ \A g \in Known : gstat[g] = "Running"
    /\ \A p \in Pods : IF p[1] \in Known THEN Ready(api[p]) ELSE ~Present(api[p])

(* Nothing is left to happen: no work, no event, no timer, and no Pod that *)
(* is about to start or to go.                                             *)
Quiet ==
    /\ ~queued /\ work = Idle /\ hand = NoHand /\ proc["informer"] = NoProc
    /\ watch = <<>> /\ events = <<>> /\ grace = {}
    /\ \A p \in Pods : ~Present(api[p]) \/ (~api[p].term /\ api[p].phase \in {"ready", "failed"})

Status(u) == IF u[2] = Whole THEN gstat[u[1]] ELSE rstat[u[1]][u[2]]

(* A deletion was begun and is not finished, because replacements of its   *)
(* Pods exist or because its Deleting status has been overwritten.         *)
Stranded == \E u \in Units : targets[u].taken
                              /\ (Replacements(u, targets[u]) # {} \/ Status(u) # "Deleting")

(* An API call failed that nobody repeats, and its object is still there:  *)
(* the deletion of a Pod after its grace period, or the listing of a       *)
(* group's replacements in the informer's handler.                         *)
Abandoned == \E d \in dropped : IF d[1][2] = Whole THEN gstat[d[1][1]] = "Deleting"
                                ELSE api[d[1]].uid = d[2]

(* The worker wrote Creating from a read of the cache that preceded the    *)
(* handler's Running, and the handler had no reason to enqueue.            *)
Unnoticed == \E p \in Pods : rstat[p[1]][p[2]] = "Creating" /\ Ready(api[p])

(* No wake-up is lost: whatever the order of the worker's, the handler's   *)
(* and the grace periods' steps, and whichever of the retried API calls    *)
(* failed, the controller does not come to rest (syncModelServing done,    *)
(* the key not queued, every event handled) short of the groups asked for, *)
(* all Running.  It does in three cases, each of them named above: a       *)
(* deletion that is Stranded (PolicyCarriedOut has the run of it), a       *)
(* failed call that is Abandoned, a ready Pod that goes Unnoticed.         *)
SettledMeansConverged == Quiet /\ ~Stranded /\ ~Abandoned /\ ~Unnoticed => Converged

(* Once deleteServingGroup or DeleteRole has listed its Pods, however      *)
(* often it is retried it works from that list until the unit is           *)
(* forgotten, and deletes none of the Pods that replaced the listed ones   *)
(* (podDeletionTargets.Delete).                                            *)
ReplacementsSpared ==
    [][/\ \A u \in Units : targets[u].taken /\ targets'[u].taken => targets'[u].uid = targets[u].uid
       /\ \A a \in Actors : \A p \in Pods :
             proc[a].at = "submit" /\ proc'[a].at # "submit" /\ ~api[p].term /\ api'[p].term
             => api[p].uid = targets[proc[a].unit].uid[p]]_vars

(* The recovery policy is carried out: when nothing is left that would     *)
(* wake the controller, every group is back and Running.  Said of          *)
(* ServingGroupRecreate by model_serving_types.go ("will recreate all the  *)
(* pods in the ServingGroup"), after a Pod was deleted by someone else.    *)
PolicyCarriedOut == Quiet => Converged
=============================================================================
