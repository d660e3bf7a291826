-------------------------- MODULE RequestLessProofs --------------------------
(***************************************************************************)
(* When RequestPriorityQueue.Less is an order.  container/heap serves the  *)
(* least element only if its comparison is a strict weak order.            *)
(***************************************************************************)
EXTENDS RequestLess, TLAPS

(* Two requests neither of which goes before the other. *)
SessionTied(a, b) == ~SessionLess(a, b) /\ ~SessionLess(b, a)
FairTied(a, b) == ~FairLess(a, b) /\ ~FairLess(b, a)

(* In session-boost mode Less is a strict weak order on all requests:      *)
(* irreflexive, transitive, and ties are transitive too.                   *)
THEOREM SessionLessIsOrder ==
    ASSUME NEW a \in Request, NEW b \in Request, NEW c \in Request
    PROVE  /\ ~SessionLess(a, a)
           /\ SessionLess(a, b) /\ SessionLess(b, c) => SessionLess(a, c)
           /\ SessionTied(a, b) /\ SessionTied(b, c) => SessionTied(a, c)
  BY DEF SessionLess, SessionTied, Request

(* In fairness mode it is one among requests of pairwise different users.  *)
THEOREM FairLessIsOrderAcrossUsers ==
    ASSUME NEW a \in Request, NEW b \in Request, NEW c \in Request,
           a.user # b.user, b.user # c.user, a.user # c.user
    PROVE  /\ ~FairLess(a, a)
           /\ FairLess(a, b) /\ FairLess(b, c) => FairLess(a, c)
           /\ FairTied(a, b) /\ FairTied(b, c) => FairTied(a, c)
  BY DEF FairLess, FairTied, Request

(* It is not one as soon as a user has two requests: with one of another   *)
(* user between their priorities the three form a cycle, so no heap can    *)
(* respect both the FIFO order of a user and the order between users.      *)
THEOREM FairLessHasCycles ==
    ASSUME NEW u \in Users, NEW v \in Users, u # v
    PROVE  \E a, b, c \in Request : FairLess(a, b) /\ FairLess(b, c) /\ FairLess(c, a)
<1> DEFINE A == [user |-> u, prio |-> 2, boost |-> FALSE, at |-> 0, time |-> 1]
           B == [user |-> u, prio |-> 0, boost |-> FALSE, at |-> 0, time |-> 2]
           C == [user |-> v, prio |-> 1, boost |-> FALSE, at |-> 0, time |-> 3]
<1>1. A \in Request /\ B \in Request /\ C \in Request
  BY DEF Request
<1>2. FairLess(A, B) /\ FairLess(B, C) /\ FairLess(C, A)
  BY DEF FairLess
<1> HIDE DEF A, B, C
<1> QED BY <1>1, <1>2
=============================================================================
