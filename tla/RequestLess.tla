----------------------------- MODULE RequestLess -----------------------------
(***************************************************************************)
(* The comparison RequestPriorityQueue.Less hands to container/heap        *)
(* (pkg/kthena-router/datastore/fairness_queue.go).  A request is a record *)
(* with the fields Less reads; "at" is LastTurnCompletedAt.                *)
(***************************************************************************)
EXTENDS Integers

CONSTANTS Users

Request == [user : Users, prio : Int, boost : BOOLEAN, at : Int, time : Int]

(* Session-boost mode: boosted first, the warmest session first, FIFO.     *)
SessionLess(a, b) ==
    IF a.boost # b.boost THEN a.boost
    ELSE IF a.boost /\ a.at # b.at THEN a.at > b.at
    ELSE a.time < b.time

(* Fairness mode: FIFO for one user, the smaller token usage between two.  *)
FairLess(a, b) ==
    IF a.user = b.user THEN a.time < b.time
    ELSE IF a.prio # b.prio THEN a.prio < b.prio
    ELSE a.time < b.time
=============================================================================
