------------------------- MODULE FairnessQueueProofs -------------------------
(***************************************************************************)
(* Safety of FairnessQueue for every set of requests and every             *)
(* MaxConcurrent.  The permit count alone is not inductive: that           *)
(* CommitAdmission installs a Release only where none was installed needs  *)
(* to know where a request can be (Whereabouts), and that nobody is left   *)
(* behind by Close needs to know where a waiting request must be           *)
(* (WaitersPlaced).                                                        *)
(***************************************************************************)
EXTENDS FairnessQueue, FiniteSetTheorems, TLAPS

(* A request that is still queued, or popped but not committed, has no     *)
(* permit and has not been signalled; one whose handler has not pushed it  *)
(* yet is nowhere.                                                         *)
Whereabouts ==
    /\ OnePlace
    /\ \A r \in heap \cup draining : release[r] = "nil"
    /\ hand # None /\ loop # "signal" => release[hand] = "nil"
    /\ loop = "signal" /\ ~QPSMode => admitted[hand]
    /\ loop = "return" => abandoned[hand]
    /\ \A r \in Requests : caller[r] = "idle" =>
           /\ r \notin heap \cup draining \cup {hand}
           /\ release[r] = "nil" /\ ~signalled[r] /\ ~abandoned[r]
    /\ \A r \in Requests : release[r] = "installed" \/ signalled[r] =>
           caller[r] # "rejected"
    /\ \A r \in Requests : caller[r] = "done" => release[r] # "installed"
    /\ \A r \in heap \cup draining : caller[r] # "rejected"
    /\ hand # None => caller[hand] # "rejected"
    /\ \A r \in Requests : caller[r] = "serving" => signalled[r]
    /\ \A r \in Requests : caller[r] = "done" => abandoned[r] \/ signalled[r] \/ release[r] # "nil"

(* A handler still in its select is waiting for something that will come. *)
WaitersPlaced ==
    /\ stopCh => heap = {}
    /\ ~stopCh => draining = {}
    /\ \A r \in Requests : abandoned[r] => caller[r] # "waiting"
    /\ \A r \in Requests : caller[r] = "waiting" =>
           r \in heap \cup draining \cup {hand} \/ cancelled[r] \/ signalled[r]

IInv == TypeOK /\ PermitConservation /\ ExclusiveOutcome /\ Whereabouts /\ WaitersPlaced

(* Every step keeps the types. *)
LEMMA TypeStep ==
    ASSUME TypeOK, PermitConservation, [Next]_vars
    PROVE  TypeOK'
<1> USE NoneNotRequest, MaxConcurrentNat DEF TypeOK, PermitConservation, LoopStates, CallerStates, QPSMode, queueVars, loopVars, reqVars
<1>1. CASE Tick
    BY <1>1 DEF Tick, LoopTo, LoopStart
<1>2. CASE PopRequest
    BY <1>2 DEF PopRequest, LoopTo, AfterPop
<1>3. CASE AwaitItem
    BY <1>3 DEF AwaitItem, LoopTo
<1>4. CASE CheckCancelled
    BY <1>4 DEF CheckCancelled, LoopTo
<1>5. CASE AcquirePermit
    BY <1>5 DEF AcquirePermit, LoopTo, PermitFree
<1>6. CASE RequeueRequest
    BY <1>6 DEF RequeueRequest, RequeueRefused, WakeLoop
<1>7. CASE CommitAdmission
    BY <1>7 DEF CommitAdmission, LoopTo, AdmissionBlocked
<1>8. CASE ReturnPermit
    BY <1>8 DEF ReturnPermit
<1>9. CASE SignalAdmission
    BY <1>9 DEF SignalAdmission, LoopStart
<1>10. CASE Close
    BY <1>10 DEF Close
<1>11. CASE RootContextDone
    BY <1>11 DEF RootContextDone
<1>12. ASSUME NEW r \in Requests, PushRequest(r) PROVE TypeOK'
    BY <1>12 DEF PushRequest, PushRefused, WakeLoop
<1>13. ASSUME NEW r \in Requests, ContextDone(r) PROVE TypeOK'
    BY <1>13 DEF ContextDone
<1>14. ASSUME NEW r \in Requests, Notified(r) PROVE TypeOK'
    BY <1>14 DEF Notified
<1>15. ASSUME NEW r \in Requests, Abandon(r) PROVE TypeOK'
    BY <1>15 DEF Abandon
<1>16. ASSUME NEW r \in Requests, AbandonRelease(r) PROVE TypeOK'
    BY <1>16 DEF AbandonRelease, Release
<1>17. ASSUME NEW r \in Requests, FinishServing(r) PROVE TypeOK'
    BY <1>17 DEF FinishServing, Release
<1>18. ASSUME NEW r \in Requests, CloseCancel(r) PROVE TypeOK'
    BY <1>18 DEF CloseCancel
<1>19. CASE UNCHANGED vars
    BY <1>19 DEF vars
<1> QED
    BY <1>1, <1>2, <1>3, <1>4, <1>5, <1>6, <1>7, <1>8, <1>9, <1>10, <1>11, <1>12, <1>13, <1>14, <1>15, <1>16, <1>17, <1>18, <1>19 DEF Next, LoopStep, Terminated

(* No step makes commitAdmission and Abandon disagree. *)
LEMMA OutcomeStep ==
    ASSUME TypeOK, ExclusiveOutcome, Whereabouts, [Next]_vars
    PROVE  ExclusiveOutcome'
<1> USE NoneNotRequest DEF TypeOK, ExclusiveOutcome, Whereabouts, QPSMode, LoopStates, CallerStates, queueVars, loopVars, reqVars
<1>1. CASE Tick
    BY <1>1 DEF Tick, LoopTo, LoopStart
<1>2. CASE PopRequest
    BY <1>2 DEF PopRequest, LoopTo, AfterPop
<1>3. CASE AwaitItem
    BY <1>3 DEF AwaitItem, LoopTo
<1>4. CASE CheckCancelled
    BY <1>4 DEF CheckCancelled, LoopTo
<1>5. CASE AcquirePermit
    BY <1>5 DEF AcquirePermit, LoopTo, PermitFree
<1>6. CASE RequeueRequest
    BY <1>6 DEF RequeueRequest, RequeueRefused, WakeLoop
<1>7. CASE CommitAdmission
    BY <1>7 DEF CommitAdmission, LoopTo, AdmissionBlocked
<1>8. CASE ReturnPermit
    BY <1>8 DEF ReturnPermit
<1>9. CASE SignalAdmission
    BY <1>9 DEF SignalAdmission, LoopStart
<1>10. CASE Close
    BY <1>10 DEF Close
<1>11. CASE RootContextDone
    BY <1>11 DEF RootContextDone
<1>12. ASSUME NEW r \in Requests, PushRequest(r) PROVE ExclusiveOutcome'
    BY <1>12 DEF PushRequest, PushRefused, WakeLoop
<1>13. ASSUME NEW r \in Requests, ContextDone(r) PROVE ExclusiveOutcome'
    BY <1>13 DEF ContextDone
<1>14. ASSUME NEW r \in Requests, Notified(r) PROVE ExclusiveOutcome'
    BY <1>14 DEF Notified
<1>15. ASSUME NEW r \in Requests, Abandon(r) PROVE ExclusiveOutcome'
    BY <1>15 DEF Abandon
<1>16. ASSUME NEW r \in Requests, AbandonRelease(r) PROVE ExclusiveOutcome'
    BY <1>16 DEF AbandonRelease, Release
<1>17. ASSUME NEW r \in Requests, FinishServing(r) PROVE ExclusiveOutcome'
    BY <1>17 DEF FinishServing, Release
<1>18. ASSUME NEW r \in Requests, CloseCancel(r) PROVE ExclusiveOutcome'
    BY <1>18 DEF CloseCancel
<1>19. CASE UNCHANGED vars
    BY <1>19 DEF vars
<1> QED
    BY <1>1, <1>2, <1>3, <1>4, <1>5, <1>6, <1>7, <1>8, <1>9, <1>10, <1>11, <1>12, <1>13, <1>14, <1>15, <1>16, <1>17, <1>18, <1>19 DEF Next, LoopStep, Terminated

(* No step duplicates a request. *)
LEMMA WhereaboutsStep ==
    ASSUME TypeOK, ExclusiveOutcome, Whereabouts, [Next]_vars
    PROVE  Whereabouts'
<1> USE NoneNotRequest DEF TypeOK, ExclusiveOutcome, Whereabouts, OnePlace, QPSMode, LoopStates, CallerStates, queueVars, loopVars, reqVars
<1>1. CASE Tick
    BY <1>1 DEF Tick, LoopTo, LoopStart
<1>2. CASE PopRequest
    BY <1>2 DEF PopRequest, LoopTo, AfterPop
<1>3. CASE AwaitItem
    BY <1>3 DEF AwaitItem, LoopTo
<1>4. CASE CheckCancelled
    BY <1>4 DEF CheckCancelled, LoopTo
<1>5. CASE AcquirePermit
    BY <1>5 DEF AcquirePermit, LoopTo, PermitFree
<1>6. CASE RequeueRequest
    BY <1>6 DEF RequeueRequest, RequeueRefused, WakeLoop
<1>7. CASE CommitAdmission
    BY <1>7 DEF CommitAdmission, LoopTo, AdmissionBlocked
<1>8. CASE ReturnPermit
    BY <1>8 DEF ReturnPermit
<1>9. CASE SignalAdmission
    BY <1>9 DEF SignalAdmission, LoopStart
<1>10. CASE Close
    BY <1>10 DEF Close
<1>11. CASE RootContextDone
    BY <1>11 DEF RootContextDone
<1>12. ASSUME NEW r \in Requests, PushRequest(r) PROVE Whereabouts'
    BY <1>12 DEF PushRequest, PushRefused, WakeLoop
<1>13. ASSUME NEW r \in Requests, ContextDone(r) PROVE Whereabouts'
    BY <1>13 DEF ContextDone
<1>14. ASSUME NEW r \in Requests, Notified(r) PROVE Whereabouts'
    BY <1>14 DEF Notified
<1>15. ASSUME NEW r \in Requests, Abandon(r) PROVE Whereabouts'
    BY <1>15 DEF Abandon
<1>16. ASSUME NEW r \in Requests, AbandonRelease(r) PROVE Whereabouts'
    BY <1>16 DEF AbandonRelease, Release
<1>17. ASSUME NEW r \in Requests, FinishServing(r) PROVE Whereabouts'
    BY <1>17 DEF FinishServing, Release
<1>18. ASSUME NEW r \in Requests, CloseCancel(r) PROVE Whereabouts'
    BY <1>18 DEF CloseCancel
<1>19. CASE UNCHANGED vars
    BY <1>19 DEF vars
<1> QED
    BY <1>1, <1>2, <1>3, <1>4, <1>5, <1>6, <1>7, <1>8, <1>9, <1>10, <1>11, <1>12, <1>13, <1>14, <1>15, <1>16, <1>17, <1>18, <1>19 DEF Next, LoopStep, Terminated

(* No step strands a waiting handler. *)
LEMMA WaitersStep ==
    ASSUME TypeOK, ExclusiveOutcome, Whereabouts, WaitersPlaced, [Next]_vars
    PROVE  WaitersPlaced'
<1> USE NoneNotRequest DEF TypeOK, ExclusiveOutcome, Whereabouts, OnePlace, WaitersPlaced, QPSMode, LoopStates, CallerStates, queueVars, loopVars, reqVars
<1>1. CASE Tick
    BY <1>1 DEF Tick, LoopTo, LoopStart
<1>2. CASE PopRequest
    BY <1>2 DEF PopRequest, LoopTo, AfterPop
<1>3. CASE AwaitItem
    BY <1>3 DEF AwaitItem, LoopTo
<1>4. CASE CheckCancelled
    BY <1>4 DEF CheckCancelled, LoopTo
<1>5. CASE AcquirePermit
    BY <1>5 DEF AcquirePermit, LoopTo, PermitFree
<1>6. CASE RequeueRequest
    BY <1>6 DEF RequeueRequest, RequeueRefused, WakeLoop
<1>7. CASE CommitAdmission
    BY <1>7 DEF CommitAdmission, LoopTo, AdmissionBlocked
<1>8. CASE ReturnPermit
    BY <1>8 DEF ReturnPermit
<1>9. CASE SignalAdmission
    BY <1>9 DEF SignalAdmission, LoopStart
<1>10. CASE Close
    BY <1>10 DEF Close
<1>11. CASE RootContextDone
    BY <1>11 DEF RootContextDone
<1>12. ASSUME NEW r \in Requests, PushRequest(r) PROVE WaitersPlaced'
    BY <1>12 DEF PushRequest, PushRefused, WakeLoop
<1>13. ASSUME NEW r \in Requests, ContextDone(r) PROVE WaitersPlaced'
    BY <1>13 DEF ContextDone
<1>14. ASSUME NEW r \in Requests, Notified(r) PROVE WaitersPlaced'
    BY <1>14 DEF Notified
<1>15. ASSUME NEW r \in Requests, Abandon(r) PROVE WaitersPlaced'
    BY <1>15 DEF Abandon
<1>16. ASSUME NEW r \in Requests, AbandonRelease(r) PROVE WaitersPlaced'
    BY <1>16 DEF AbandonRelease, Release
<1>17. ASSUME NEW r \in Requests, FinishServing(r) PROVE WaitersPlaced'
    BY <1>17 DEF FinishServing, Release
<1>18. ASSUME NEW r \in Requests, CloseCancel(r) PROVE WaitersPlaced'
    BY <1>18 DEF CloseCancel
<1>19. CASE UNCHANGED vars
    BY <1>19 DEF vars
<1> QED
    BY <1>1, <1>2, <1>3, <1>4, <1>5, <1>6, <1>7, <1>8, <1>9, <1>10, <1>11, <1>12, <1>13, <1>14, <1>15, <1>16, <1>17, <1>18, <1>19 DEF Next, LoopStep, Terminated

(* What installing a Release does to the set of permit holders. *)
LEMMA HolderAdded ==
    ASSUME NEW H, NEW H2, NEW x, IsFiniteSet(H), x \notin H, H2 = H \cup {x}
    PROVE  Cardinality(H2) = Cardinality(H) + 1
BY FS_AddElement

(* What calling Release does to the set of permit holders. *)
LEMMA HolderRemoved ==
    ASSUME NEW H, NEW H2, NEW x, IsFiniteSet(H), x \in H, H2 = H \ {x}
    PROVE  Cardinality(H2) = Cardinality(H) - 1
BY FS_RemoveElement

(* The permit holders are finitely many. *)
LEMMA HoldersFinite == IsFiniteSet(PermitHolders) /\ Cardinality(PermitHolders) \in Nat
BY RequestsFinite, FS_Subset, FS_CardinalityType DEF PermitHolders

(* The Release closure takes one token out of sem and one holder away. *)
LEMMA ReleaseStep ==
    ASSUME TypeOK, PermitConservation, NEW r \in Requests, Release(r), UNCHANGED loop
    PROVE  PermitConservation'
<1>1. CASE release[r] = "installed"
  <2>1. PermitHolders' = PermitHolders \ {r} /\ r \in PermitHolders
    BY <1>1 DEF PermitHolders, Release, TypeOK
  <2>2. Cardinality(PermitHolders') = Cardinality(PermitHolders) - 1
    BY <2>1, HoldersFinite, HolderRemoved
  <2>3. sem' = sem - 1 /\ LoopPermits' = LoopPermits
    BY <1>1 DEF Release, LoopPermits
  <2> QED
    BY <2>2, <2>3, HoldersFinite DEF PermitConservation, LoopPermits
<1>2. CASE release[r] # "installed"
    BY <1>2 DEF PermitConservation, LoopPermits, PermitHolders, Release
<1> QED
    BY <1>1, <1>2

(* No step leaks a permit or returns one twice. *)
LEMMA PermitStep ==
    ASSUME TypeOK, PermitConservation, Whereabouts, [Next]_vars
    PROVE  PermitConservation'
<1>1. CASE CommitAdmission
  <2>1. CASE abandoned[hand]
    BY <1>1, <2>1 DEF CommitAdmission, AdmissionBlocked, LoopTo, PermitConservation,
                      LoopPermits, PermitHolders
  <2>2. CASE ~abandoned[hand]
    <3>1. hand \in Requests /\ release[hand] = "nil"
      BY <1>1, NoneNotRequest DEF CommitAdmission, TypeOK, Whereabouts
    <3>2. PermitHolders' = PermitHolders \cup {hand} /\ hand \notin PermitHolders
      BY <1>1, <2>2, <3>1 DEF CommitAdmission, AdmissionBlocked, PermitHolders, TypeOK
    <3>3. Cardinality(PermitHolders') = Cardinality(PermitHolders) + 1
      BY <3>2, HoldersFinite, HolderAdded
    <3>4. sem' = sem /\ LoopPermits = 1 /\ LoopPermits' = 0
      BY <1>1, <2>2 DEF CommitAdmission, AdmissionBlocked, LoopTo, LoopPermits
    <3> QED
      BY <3>3, <3>4, HoldersFinite DEF PermitConservation
  <2> QED
    BY <2>1, <2>2
<1>2. ASSUME NEW r \in Requests, AbandonRelease(r) \/ FinishServing(r)
      PROVE  PermitConservation'
    BY <1>2, ReleaseStep DEF AbandonRelease, FinishServing, loopVars
<1>3. ASSUME \/ Tick \/ PopRequest \/ AwaitItem \/ CheckCancelled \/ AcquirePermit
             \/ RequeueRequest \/ ReturnPermit \/ SignalAdmission
      PROVE  PermitConservation'
  <2>1. PermitHolders' = PermitHolders
    BY <1>3 DEF PermitHolders, reqVars, Tick, PopRequest, AwaitItem, CheckCancelled,
                AcquirePermit, RequeueRequest, ReturnPermit, SignalAdmission
  <2>2. sem' - LoopPermits' = sem - LoopPermits
    BY <1>3 DEF TypeOK, LoopPermits, LoopTo, LoopStart, loopVars, Tick, PopRequest,
                AwaitItem, CheckCancelled, AcquirePermit, RequeueRequest, ReturnPermit,
                SignalAdmission
  <2>3. sem' \in Int /\ sem \in Int /\ LoopPermits \in Int /\ LoopPermits' \in Int
    BY <1>3 DEF TypeOK, LoopPermits, Tick, PopRequest, AwaitItem, CheckCancelled,
                AcquirePermit, RequeueRequest, ReturnPermit, SignalAdmission
  <2> QED
    BY <2>1, <2>2, <2>3, HoldersFinite DEF PermitConservation
<1>4. ASSUME NEW r \in Requests,
             \/ PushRequest(r) \/ ContextDone(r) \/ Notified(r) \/ Abandon(r)
             \/ CloseCancel(r) \/ Close \/ RootContextDone
      PROVE  PermitConservation'
    BY <1>4 DEF PermitConservation, LoopPermits, PermitHolders, reqVars, loopVars,
                PushRequest, ContextDone, Notified, Abandon, CloseCancel, Close,
                RootContextDone
<1>5. CASE Close \/ RootContextDone \/ UNCHANGED vars
    BY <1>5 DEF PermitConservation, LoopPermits, PermitHolders, reqVars, loopVars, vars,
                Close, RootContextDone
<1> QED
    BY <1>1, <1>2, <1>3, <1>4, <1>5 DEF Next, LoopStep, Terminated

(* The queue starts in the invariant. *)
LEMMA InitIInv == Init => IInv
<1> SUFFICES ASSUME Init PROVE IInv
    OBVIOUS
<1>1. PermitHolders = {}
    BY DEF Init, PermitHolders
<1>2. PermitConservation
    BY <1>1, FS_EmptySet DEF Init, PermitConservation, LoopPermits, LoopStart
<1>3. TypeOK
  <2>1. sem \in 0..MaxConcurrent
    BY MaxConcurrentNat DEF Init
  <2>2. loop \in LoopStates /\ (hand = None <=> loop \in {"tick", "pop", "wait", "stopped"})
    BY DEF Init, LoopStart, LoopStates
  <2>3. caller \in [Requests -> CallerStates]
    BY DEF Init, CallerStates
  <2> QED
    BY <2>1, <2>2, <2>3, Zenon DEF Init, TypeOK
<1>4. ExclusiveOutcome /\ Whereabouts /\ WaitersPlaced
    BY NoneNotRequest DEF Init, ExclusiveOutcome, Whereabouts, OnePlace, WaitersPlaced,
                          LoopStart
<1> QED
    BY <1>2, <1>3, <1>4 DEF IInv

(* The invariant of the queue, for any number of requests and permits. *)
THEOREM QueueInvariant == Spec => []IInv
<1>1. Init => IInv
    BY InitIInv
<1>2. IInv /\ [Next]_vars => IInv'
    BY TypeStep, PermitStep, OutcomeStep, WhereaboutsStep, WaitersStep DEF IInv
<1> QED
    BY <1>1, <1>2, PTL DEF Spec

(* Type correctness of the queue's state, with sem within MaxConcurrent.   *)
THEOREM TypeCorrect == Spec => []TypeOK
<1>1. IInv => TypeOK
    BY DEF IInv
<1> QED
    BY <1>1, QueueInvariant, PTL

(* No interleaving of admission, abandonment, release and shutdown leaks a *)
(* semaphore token or returns one twice.                                   *)
THEOREM PermitsConserved == Spec => []PermitConservation
<1>1. IInv => PermitConservation
    BY DEF IInv
<1> QED
    BY <1>1, QueueInvariant, PTL

(* commitAdmission and Abandon never disagree about a request.             *)
THEOREM OutcomesExclusive == Spec => []ExclusiveOutcome
<1>1. IInv => ExclusiveOutcome
    BY DEF IInv
<1> QED
    BY <1>1, QueueInvariant, PTL

(* No request is in two places, so NotifyChan is never closed twice.       *)
THEOREM InOnePlace == Spec => []OnePlace
<1>1. IInv => OnePlace
    BY DEF IInv, Whereabouts
<1> QED
    BY <1>1, QueueInvariant, PTL

(* Closing the queue leaves no handler waiting for a wake-up that will     *)
(* never come.                                                             *)
THEOREM NobodyStranded == Spec => []NoneStranded
<1>1. IInv => NoneStranded
    BY NoneNotRequest DEF IInv, TypeOK, WaitersPlaced, NoneStranded
<1> QED
    BY <1>1, QueueInvariant, PTL
-----------------------------------------------------------------------------
(***************************************************************************)
(* The queue implements AdmissionGate.  Only the steps below move a        *)
(* request between the stages of the gate; CommitAdmission is the          *)
(* admission (SignalAdmission in QPS mode, which has no commit).           *)
(***************************************************************************)
stages == [r \in Requests |-> StageOf(r)]

(* A step that leaves the data of every request alone is a stutter.        *)
LEMMA StageStutter ==
    ASSUME UNCHANGED <<caller, release>>, QPSMode => UNCHANGED signalled
    PROVE  UNCHANGED stages
BY DEF stages, StageOf, QPSMode

(* A step that moves one request from one stage to another. *)
LEMMA StageMove ==
    ASSUME NEW r \in Requests, NEW c,
           \A q \in Requests \ {r} : StageOf(q)' = StageOf(q),
           StageOf(r)' = c
    PROVE  Gate!Move(r, StageOf(r), c)
BY DEF Gate!Move

(* The steps that only one request's handler takes. *)
LEMMA HandlerRefines ==
    ASSUME IInv, NEW r \in Requests,
           \/ PushRequest(r) \/ Notified(r) \/ Abandon(r) \/ AbandonRelease(r)
           \/ FinishServing(r)
    PROVE  Gate!Next \/ UNCHANGED stages
<1>1. \A q \in Requests \ {r} : StageOf(q)' = StageOf(q)
    BY DEF IInv, TypeOK, StageOf, reqVars, QPSMode, PushRequest, Notified, Abandon,
           AbandonRelease, FinishServing, Release
<1>2. CASE StageOf(r)' = StageOf(r)
    BY <1>1, <1>2 DEF stages
<1>3. CASE StageOf(r) = "idle" /\ StageOf(r)' \in {"waiting", "finished"}
    BY <1>1, <1>3, StageMove DEF Gate!Next, Gate!Enqueue, Gate!Reject
<1>4. CASE StageOf(r) \in {"waiting", "holding"} /\ StageOf(r)' = "finished"
    BY <1>1, <1>4, StageMove DEF Gate!Next, Gate!GiveUp, Gate!Return
<1>5. CASE PushRequest(r)
    BY <1>2, <1>3, <1>5 DEF PushRequest, StageOf, IInv, TypeOK, Whereabouts, reqVars, QPSMode
<1>6. CASE Notified(r)
    BY <1>2, <1>6 DEF Notified, StageOf, IInv, TypeOK, reqVars, QPSMode
<1>7. CASE Abandon(r)
    BY <1>2, <1>4, <1>7 DEF Abandon, StageOf, IInv, TypeOK, QPSMode
<1>8. CASE AbandonRelease(r)
    BY <1>2, <1>4, <1>8 DEF AbandonRelease, Release, StageOf, IInv, TypeOK, QPSMode
<1>9. CASE FinishServing(r)
    BY <1>2, <1>4, <1>9 DEF FinishServing, Release, StageOf, IInv, TypeOK, QPSMode
<1> QED
    BY <1>5, <1>6, <1>7, <1>8, <1>9

(* commitAdmission is the gate's Admit, and there is room for it. *)
LEMMA CommitRefines ==
    ASSUME IInv, CommitAdmission
    PROVE  Gate!Next \/ UNCHANGED stages
<1>1. CASE abandoned[hand]
    BY <1>1, StageStutter DEF CommitAdmission, AdmissionBlocked
<1>2. CASE ~abandoned[hand]
  <2>1. PICK h \in Requests : h = hand /\ release[h] = "nil" /\ ~signalled[h]
    BY NoneNotRequest DEF CommitAdmission, IInv, TypeOK, Whereabouts, OnePlace
  <2>2. StageOf(h) = "waiting" /\ StageOf(h)' = "holding"
    BY <1>2, <2>1 DEF CommitAdmission, AdmissionBlocked, StageOf, IInv, TypeOK,
                      ExclusiveOutcome, Whereabouts, CallerStates
  <2>3. \A q \in Requests \ {h} : StageOf(q)' = StageOf(q)
    BY <1>2, <2>1 DEF CommitAdmission, AdmissionBlocked, StageOf, IInv, TypeOK, QPSMode
  <2>4. MaxConcurrent # 0 /\ Cardinality(PermitHolders) < MaxConcurrent
    BY HoldersFinite, MaxConcurrentNat
       DEF CommitAdmission, IInv, TypeOK, PermitConservation, LoopPermits
  <2>5. Gate!Holding \subseteq PermitHolders
    BY <2>4 DEF Gate!Holding, PermitHolders, StageOf, QPSMode
  <2>6. Cardinality(Gate!Holding) <= Cardinality(PermitHolders)
    BY <2>5, HoldersFinite, FS_Subset
  <2>7. IsFiniteSet(Gate!Holding)
    BY <2>5, HoldersFinite, FS_Subset
  <2>8. Cardinality(Gate!Holding) < MaxConcurrent
    BY <2>4, <2>6, <2>7, HoldersFinite, FS_CardinalityType, MaxConcurrentNat
  <2>9. Gate!Move(h, "waiting", "holding")
    BY <2>1, <2>2, <2>3, StageMove
  <2>10. Gate!Admit(h)
    BY <2>8, <2>9, Zenon DEF Gate!Admit, Cardinality, Gate!Cardinality
  <2> QED
    BY <2>1, <2>10, Zenon DEF Gate!Next
<1> QED
    BY <1>1, <1>2

(* In QPS mode closing NotifyChan is the admission. *)
LEMMA SignalRefines ==
    ASSUME IInv, SignalAdmission
    PROVE  Gate!Next \/ UNCHANGED stages
<1>1. CASE ~QPSMode
    BY <1>1, StageStutter DEF SignalAdmission
<1>2. CASE QPSMode
  <2>1. PICK h \in Requests : h = hand /\ ~signalled[h]
    BY NoneNotRequest DEF SignalAdmission, IInv, TypeOK, Whereabouts, OnePlace
  <2>2. \A q \in Requests \ {h} : StageOf(q)' = StageOf(q)
    BY <2>1 DEF SignalAdmission, StageOf, IInv, TypeOK, QPSMode
  <2>3. CASE StageOf(h)' = StageOf(h)
    BY <2>2, <2>3 DEF stages
  <2>4. CASE StageOf(h)' # StageOf(h)
    <3>1. StageOf(h) = "waiting" /\ StageOf(h)' = "holding"
      BY <1>2, <2>1, <2>4 DEF SignalAdmission, StageOf, IInv, TypeOK, QPSMode
    <3>2. Gate!Move(h, "waiting", "holding")
      BY <2>1, <2>2, <3>1, StageMove
    <3> QED
      BY <1>2, <2>1, <3>2 DEF Gate!Next, Gate!Admit, QPSMode
  <2> QED
    BY <2>3, <2>4
<1> QED
    BY <1>1, <1>2

(* The queue of fairness_queue.go, in both modes, does nothing that the    *)
(* admission gate would not do.                                            *)
THEOREM QueueImplementsGate == Spec => ImplementsGate
<1>1. Init => Gate!Init
    BY DEF Init, Gate!Init, StageOf
<1>2. IInv /\ [Next]_vars => [Gate!Next]_stages
  <2> SUFFICES ASSUME IInv, [Next]_vars PROVE Gate!Next \/ UNCHANGED stages
    OBVIOUS
  <2>1. ASSUME NEW r \in Requests,
               \/ Tick \/ PopRequest \/ AwaitItem \/ CheckCancelled \/ AcquirePermit
               \/ RequeueRequest \/ ReturnPermit \/ ContextDone(r) \/ CloseCancel(r)
        PROVE  UNCHANGED stages
    BY <2>1, StageStutter DEF reqVars, Tick, PopRequest, AwaitItem, CheckCancelled,
           AcquirePermit, RequeueRequest, ReturnPermit, ContextDone, CloseCancel
  <2>2. CASE \/ Tick \/ PopRequest \/ AwaitItem \/ CheckCancelled \/ AcquirePermit
             \/ RequeueRequest \/ ReturnPermit \/ Close \/ RootContextDone \/ UNCHANGED vars
    BY <2>2, StageStutter DEF reqVars, vars, Tick, PopRequest, AwaitItem, CheckCancelled,
           AcquirePermit, RequeueRequest, ReturnPermit, Close, RootContextDone
  <2> QED
    BY <2>1, <2>2, HandlerRefines, CommitRefines, SignalRefines
       DEF Next, LoopStep, Terminated
<1>3. Init /\ [][Next]_vars => []IInv
    BY QueueInvariant DEF Spec
<1> QED
    BY <1>1, <1>2, <1>3, PTL DEF Spec, ImplementsGate, Gate!Spec, stages
=============================================================================
