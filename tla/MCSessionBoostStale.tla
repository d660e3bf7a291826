------------------------ MODULE MCSessionBoostStale ------------------------
(* SessionBoostQueue with a history variable: the requests that arrived while *)
(* the loop slept inside popWhenAvailable with every pod busy, and have seen  *)
(* no capacity since.                                                         *)
EXTENDS SessionBoostQueue

VARIABLE unserved

HInit == Init /\ unserved = {}

Arrived == {r \in Requests : caller[r] = "idle" /\ caller'[r] = "waiting"}

HNext ==
    /\ Next
    /\ unserved' = IF Capacity' THEN {}
                   ELSE unserved \cup (IF loop = "wait" THEN Arrived ELSE {})

HSpec == HInit /\ [][HNext]_<<vars, unserved>>

(* The loop dequeues requests only when backend pods have capacity            *)
(* (session_boost_queue.go:190): it never pops a request during whose whole   *)
(* stay in the queue all the pods were busy.                                  *)
DequeuedOnCapacity == hand \notin unserved
=============================================================================
