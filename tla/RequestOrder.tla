----------------------------- MODULE RequestOrder -----------------------------
(***************************************************************************)
(* The order in which RequestPriorityQueue serves: the array heap kept by  *)
(* container/heap with Less as its comparison, the priority a handler      *)
(* computes before it queues, the token usage that moves under it, the     *)
(* bounded refresh of popWhenAvailable with rebuildHeap, and the           *)
(* SessionTracker whose LRU decides who is boosted.                        *)
(* Admission is FairnessQueue's and SessionBoostQueue's subject: here a    *)
(* request that leaves the heap is served.                                 *)
(***************************************************************************)
EXTENDS RequestLess, Sequences, SequencesExt

CONSTANTS
    Requests,       \* request identities
    UserOf,         \* the user of each; Anonymous for an unauthenticated one
    Anonymous,
    SessionOf,      \* the session of each, or NoSession
    NoSession,
    SessionBoost,   \* session-boost mode
    MaxPriorityRefreshRetries, RebuildThreshold,
    MaxSessions,    \* capacity of the session tracker
    MaxTokens,      \* bound: tokens one user uses
    MaxClock        \* bound: sessions complete no later than this

Sessions == {SessionOf[r] : r \in Requests} \ {NoSession}

(* math.MaxFloat64: above every priority a user reaches. *)
MaxFloat64 == MaxTokens + 1

VARIABLES
    req,      \* the Request of each handler
    stage,    \* "new", "created", "queued" or "served"
    heap,     \* pq.heap, identities
    tokens,   \* the token tracker's count per user
    retries,  \* refreshRetries of the running popWhenAvailable
    tracker,  \* SessionTracker's sessions, most recently used first
    doneAt,   \* the completion time it stores for each (0: none)
    clock

vars == <<req, stage, heap, tokens, retries, tracker, doneAt, clock>>

Blank == [user |-> Anonymous, prio |-> 0, boost |-> FALSE, at |-> 0, time |-> 0]

Init ==
    /\ req = [r \in Requests |-> Blank]
    /\ stage = [r \in Requests |-> "new"]
    /\ heap = <<>> /\ retries = 0
    /\ tokens = [u \in Users |-> 0]
    /\ tracker = <<>> /\ doneAt = [s \in Sessions |-> 0]
    /\ clock = 1

-----------------------------------------------------------------------------
(***************************************************************************)
(* container/heap over the identities in h, compared by the requests rq.   *)
(***************************************************************************)
Less(rq, a, b) == IF SessionBoost THEN SessionLess(rq[a], rq[b])
                                  ELSE FairLess(rq[a], rq[b])

FaultySwap(h, i, j) == [h EXCEPT ![i] = h[j]]
Swap(h, i, j) == [h EXCEPT ![i] = h[j], ![j] = h[i]]

RECURSIVE Up(_, _, _)
Up(rq, h, j) ==
    LET i == j \div 2
    IN  IF j = 1 \/ ~Less(rq, h[j], h[i]) THEN h ELSE Up(rq, Swap(h, i, j), i)

(* down, within the first n elements *)
RECURSIVE Down(_, _, _, _)
Down(rq, h, i, n) ==
    LET j == IF 2*i + 1 <= n /\ Less(rq, h[2*i + 1], h[2*i]) THEN 2*i + 1 ELSE 2*i
    IN  IF 2*i > n \/ ~Less(rq, h[j], h[i]) THEN h ELSE Down(rq, Swap(h, i, j), j, n)

FaultyHeapPush(rq, h, r) == Append(h, r)
HeapPush(rq, h, r) == Up(rq, Append(h, r), Len(h) + 1)

HeapPop(rq, h) ==
    LET n == Len(h) IN Front(Down(rq, Swap(h, 1, n), 1, n - 1))

RECURSIVE InitFrom(_, _, _)
InitFrom(rq, h, i) == IF i = 0 THEN h ELSE InitFrom(rq, Down(rq, h, i, Len(h)), i - 1)

HeapInit(rq, h) == InitFrom(rq, h, Len(h) \div 2)

-----------------------------------------------------------------------------
(* CalculateFairnessPriority with the default weights; the tracker counts  *)
(* nothing for the empty user.                                             *)
FairnessPriority(u) == IF u = Anonymous THEN 0 ELSE tokens[u]

(* handleFairnessScheduling fills the Request before it calls Enqueue. *)
InitialPriority(u) ==
    CASE SessionBoost -> 0
      [] ~SessionBoost /\ u # Anonymous -> FairnessPriority(u)
      [] OTHER -> MaxFloat64

CreateRequest(r) ==
    /\ stage[r] = "new"
    /\ stage' = [stage EXCEPT ![r] = "created"]
    /\ req' = [req EXCEPT ![r] = [Blank EXCEPT !.user = UserOf[r], !.time = clock,
                                               !.prio = InitialPriority(UserOf[r])]]
    /\ clock' = clock + 1
    /\ UNCHANGED <<heap, tokens, retries, tracker, doneAt>>

(* PushRequest promotes a request whose session the tracker remembers. *)
PushRequest(r) ==
    /\ stage[r] = "created"
    /\ stage' = [stage EXCEPT ![r] = "queued"]
    /\ req' = IF SessionBoost /\ Contains(tracker, SessionOf[r])
              THEN [req EXCEPT ![r].boost = TRUE, ![r].at = doneAt[SessionOf[r]]]
              ELSE req
    /\ heap' = HeapPush(req', heap, r)
    /\ UNCHANGED <<tokens, retries, tracker, doneAt, clock>>

(* rebuildHeap: every queued priority is computed anew. *)
Rebuild(rq, h) ==
    [r \in Requests |-> IF r \in ToSet(h)
                        THEN [rq[r] EXCEPT !.prio = FairnessPriority(rq[r].user)]
                        ELSE rq[r]]

(* The refreshed request no longer goes first. *)
FaultyOutranked(p, rest) == FALSE
Outranked(p, rest) == rest # <<>> /\ p > req[rest[1]].prio

(* It goes back into the heap, if its priority has changed at all. *)
FaultyPutBack(r, p, rest) == rest # <<>> /\ p >= req[rest[1]].prio
PutBack(r, p, rest) == p # req[r].prio /\ Outranked(p, rest)

(* One turn of popWhenAvailable, under the queue lock: pop, refresh, and   *)
(* either serve the request or put it back and try again, with all the     *)
(* priorities refreshed after MaxPriorityRefreshRetries turns.             *)
Dequeue ==
    /\ heap # <<>>
    /\ LET r == heap[1]
           rest == HeapPop(req, heap)
           new == FairnessPriority(req[r].user)
           rq == IF MaxPriorityRefreshRetries > 0
                 THEN [req EXCEPT ![r].prio = new] ELSE req
           back == HeapPush(rq, rest, r)
           rebuild == /\ retries + 1 >= MaxPriorityRefreshRetries
                      /\ RebuildThreshold <= 0 \/ Len(back) <= RebuildThreshold
       IN  IF MaxPriorityRefreshRetries > 0 /\ PutBack(r, new, rest)
           THEN /\ retries' = IF retries + 1 >= MaxPriorityRefreshRetries
                              THEN 0 ELSE retries + 1
                /\ req' = IF rebuild THEN Rebuild(rq, back) ELSE rq
                /\ heap' = IF rebuild THEN HeapInit(req', back) ELSE back
                /\ UNCHANGED stage
           ELSE /\ req' = rq /\ heap' = rest /\ retries' = 0
                /\ stage' = [stage EXCEPT ![r] = "served"]
    /\ UNCHANGED <<tokens, tracker, doneAt, clock>>

(* UpdateTokenCount after a response. *)
UpdateTokenCount(u) ==
    /\ u # Anonymous /\ tokens[u] < MaxTokens
    /\ tokens' = [tokens EXCEPT ![u] = @ + 1]
    /\ UNCHANGED <<req, stage, heap, retries, tracker, doneAt, clock>>

(* The sliding window moves on: old usage no longer counts. *)
WindowSlides(u) ==
    /\ \E n \in 0..tokens[u] - 1 : tokens' = [tokens EXCEPT ![u] = n]
    /\ UNCHANGED <<req, stage, heap, retries, tracker, doneAt, clock>>

(* MarkRequestCompleted: cache.Add moves the session to the front and      *)
(* evicts the least recently used one beyond the capacity.                 *)
FaultyTouched(s) == IF Contains(tracker, s) THEN tracker ELSE <<s>> \o tracker
Touched(s) == <<s>> \o SelectSeq(tracker, LAMBDA x : x # s)

MarkRequestCompleted(s) ==
    /\ SessionBoost /\ clock < MaxClock
    /\ LET t == Touched(s)
       IN  tracker' = SubSeq(t, 1, IF Len(t) > MaxSessions THEN MaxSessions ELSE Len(t))
    /\ doneAt' = [doneAt EXCEPT ![s] = clock]
    /\ clock' = clock + 1
    /\ UNCHANGED <<req, stage, heap, tokens, retries>>

(* Nothing is left to serve. *)
AllServed == (\A r \in Requests : stage[r] = "served") /\ UNCHANGED vars

Next ==
    \/ Dequeue \/ AllServed
    \/ \E r \in Requests : CreateRequest(r) \/ PushRequest(r)
    \/ \E u \in Users : UpdateTokenCount(u) \/ WindowSlides(u)
    \/ \E s \in Sessions : MarkRequestCompleted(s)

Spec == Init /\ [][Next]_vars

(* The dequeue goroutine keeps running. *)
FairSpec == Spec /\ WF_vars(Dequeue)

-----------------------------------------------------------------------------
Serves(r) == stage[r] = "queued" /\ stage'[r] = "served"

(* The heap holds each queued request once, and a request is as            *)
(* handleFairnessScheduling and PushRequest fill it.                       *)
TypeOK ==
    /\ req \in [Requests -> Request]
    /\ stage \in [Requests -> {"new", "created", "queued", "served"}]
    /\ ToSet(heap) = {r \in Requests : stage[r] = "queued"}
    /\ IsInjective(heap)
    /\ tokens \in [Users -> 0..MaxTokens]
    /\ retries \in 0..MaxPriorityRefreshRetries
    /\ IsInjective(tracker) /\ ToSet(tracker) \subseteq Sessions
    /\ \A s \in Sessions : doneAt[s] < clock

(* The array is a heap under Less after every push, pop, reinsertion and   *)
(* rebuild, as long as no user has two requests in it.                     *)
HeapOrdered == \A i \in 2..Len(heap) : ~Less(req, heap[i], heap[i \div 2])

(* Nobody is served while someone who outranks them is queued: in          *)
(* session-boost mode a boosted request, or one with a warmer session, is  *)
(* never passed over.                                                      *)
NothingOutranks ==
    [][\A r \in Requests : Serves(r) =>
           \A x \in ToSet(heap') : ~Less(req', x, r)]_vars

(* With the dequeue-time refresh, the request that is served carries its   *)
(* user's usage as it is now, and no queued request is known to have used  *)
(* less.  This is so while every user has at most one request in the       *)
(* queue; with two, Less puts FIFO before usage (SameUserFIFO).            *)
LeastUsageServed ==
    [][\A r \in Requests : Serves(r) =>
           /\ req'[r].prio = FairnessPriority(UserOf[r])
           /\ \A x \in ToSet(heap') : req'[r].prio <= req'[x].prio]_vars

(* The refresh loop of popWhenAvailable ends, with and without a rebuild:  *)
(* once the counted usage stops moving, everyone in the queue is served.   *)
EveryoneServed ==
    <>[][UNCHANGED tokens]_tokens =>
        \A r \in Requests : stage[r] = "queued" ~> stage[r] = "served"

(* The tracker remembers the MaxSessions sessions that completed most      *)
(* recently: looking a session up on every push does not keep it alive.    *)
RemembersMostRecent ==
    /\ Len(tracker) <= MaxSessions
    /\ \A s \in Sessions, t \in ToSet(tracker) :
           s \notin ToSet(tracker) => doneAt[s] < doneAt[t]

(* Requests of one user are served in the order of their arrival.          *)
SameUserFIFO ==
    [][\A r \in Requests : Serves(r) =>
           \A x \in ToSet(heap') :
               UserOf[x] = UserOf[r] => req[r].time < req[x].time]_vars

(* An unauthenticated request is not served while an authenticated one     *)
(* waits.                                                                  *)
UnauthenticatedLast ==
    [][\A r \in Requests : Serves(r) /\ UserOf[r] = Anonymous =>
           \A x \in ToSet(heap') : UserOf[x] = Anonymous]_vars
=============================================================================
