---------------------------- MODULE AdmissionGate ----------------------------
(***************************************************************************)
(* What the router's admission queue promises to the HTTP handlers that    *)
(* wait in it, without saying how: a request waits, is either admitted or  *)
(* turned away, and while it is admitted it holds one of MaxConcurrent     *)
(* permits until it gives that permit back, exactly once.  MaxConcurrent   *)
(* = 0 is the queue without permits (QPS mode).                            *)
(***************************************************************************)
EXTENDS Naturals, FiniteSets

CONSTANTS Requests, MaxConcurrent

VARIABLE st

Stages == {"idle", "waiting", "holding", "finished"}

Holding == {r \in Requests : st[r] = "holding"}

Init == st = [r \in Requests |-> "idle"]

Move(r, from, to) == st[r] = from /\ st' = [st EXCEPT ![r] = to]

Enqueue(r) == Move(r, "idle", "waiting")

Reject(r) == Move(r, "idle", "finished")

Admit(r) ==
    /\ MaxConcurrent = 0 \/ Cardinality(Holding) < MaxConcurrent
    /\ Move(r, "waiting", "holding")

GiveUp(r) == Move(r, "waiting", "finished")

Return(r) == Move(r, "holding", "finished")

Next == \E r \in Requests : \/ Enqueue(r) \/ Reject(r) \/ Admit(r)
                            \/ GiveUp(r) \/ Return(r)

Spec == Init /\ [][Next]_st
=============================================================================
