------------------------- MODULE IOReadEngine_proofs -------------------------
(***************************************************************************)
(* Proofs about the read engine, for every number of workers, every queue  *)
(* allowance and every number of reads.                                    *)
(***************************************************************************)
EXTENDS IOReadEngine, FiniteSetTheorems, TLAPS

USE ConstantsAssumption

\* Before open_r no read() can have been called.
NotOpenedIdle ==
    executor = "none" => \A f \in Futures : fstate[f] = "idle"

\* The executor exists exactly while the caller is between open_r and the
\* end of close().
CallerExecutor ==
    /\ pc = "unopened" => executor = "none"
    /\ pc \in {"open", "draining", "cancelling", "closeDraining",
              "shuttingDown"} => executor = "live"

(* The inductive strengthening of PermitsConserved.                        *)
IInv ==
    /\ TypeOK
    /\ CallerExecutor
    /\ NotOpenedIdle
    /\ PermitsConserved

-----------------------------------------------------------------------------

\* Any set of futures selected by their state is finite.
LEMMA StateSetFinite ==
    ASSUME NEW g, NEW S
    PROVE  IsFiniteSet({f \in Futures : g[f] \in S})
<1>1. IsFiniteSet(Futures)
  BY FS_Interval DEF Futures
<1>. QED
  BY <1>1, FS_Subset

\* Every step keeps every variable in its type.
LEMMA TypeStep == TypeOK /\ [Next]_vars => TypeOK'
<1> SUFFICES ASSUME TypeOK, [Next]_vars PROVE TypeOK'
  OBVIOUS
<1>. USE DEF TypeOK, FutureStates, CallerStates
<1>1. CASE OpenR
  BY <1>1 DEF OpenR, ReadPermits
<1>2. CASE ReadGetCompleted \/ Close \/ CancelsDone
  BY <1>2 DEF ReadGetCompleted, Close, CancelsDone, ReadFutures, InState
<1>3. CASE DrainExhausted \/ DrainAbandoned \/ CloseDrainDone \/ Shutdown
  BY <1>3 DEF DrainExhausted, DrainAbandoned, CloseDrainDone, Shutdown
<1>4. ASSUME NEW f \in Futures,
             Read(f) \/ CancelOne(f) \/ StartWork(f) \/ FinishRead(f)
      PROVE  TypeOK'
  BY <1>4 DEF Read, CancelOne, StartWork, FinishRead
<1>5. ASSUME NEW f \in Futures, YieldCompleted(f) \/ Acquire(f)
      PROVE  TypeOK'
  BY <1>5 DEF YieldCompleted, Acquire
<1>6. CASE UNCHANGED vars
  BY <1>6 DEF vars
<1>. QED
  BY <1>1, <1>2, <1>3, <1>4, <1>5, <1>6 DEF Next

(* Every reachable state of the engine is well typed.                      *)
THEOREM TypeCorrect == Spec => []TypeOK
<1>1. Init => TypeOK
  BY DEF Init, TypeOK, FutureStates, CallerStates
<1>. QED
  BY <1>1, TypeStep, PTL DEF Spec

\* The permit holders of the current and of the next state are finite sets.
LEMMA HoldingFinite ==
    /\ IsFiniteSet(Holding)  /\ Cardinality(Holding) \in Nat
    /\ IsFiniteSet(Holding') /\ Cardinality(Holding') \in Nat
BY StateSetFinite, FS_CardinalityType DEF Holding, InState

\* Every step keeps IInv.
LEMMA IInvStep == IInv /\ [Next]_vars => IInv'
<1> SUFFICES ASSUME IInv, [Next]_vars PROVE IInv'
  OBVIOUS
<1>0. TypeOK'
  BY TypeStep DEF IInv
<1>. USE <1>0, HoldingFinite DEF IInv, TypeOK, FutureStates, CallerStates
<1>1. CASE OpenR
  <2>1. Holding' = {}
    BY <1>1 DEF OpenR, CallerExecutor, NotOpenedIdle, Holding, InState
  <2>2. PermitsConserved'
    BY <1>1, <2>1, FS_EmptySet DEF OpenR, PermitsConserved, ReadPermits
  <2>. QED
    BY <1>1, <2>2 DEF OpenR, CallerExecutor, NotOpenedIdle
<1>2. CASE ReadGetCompleted \/ DrainExhausted \/ DrainAbandoned \/ Close
           \/ CancelsDone \/ CloseDrainDone
  BY <1>2 DEF ReadGetCompleted, DrainExhausted, DrainAbandoned, Close,
              CancelsDone, CloseDrainDone, CallerExecutor, NotOpenedIdle,
              PermitsConserved, Holding, InState
<1>3. CASE Shutdown
  BY <1>3 DEF Shutdown, CallerExecutor, NotOpenedIdle, PermitsConserved,
              Holding, InState
<1>4. ASSUME NEW f \in Futures,
             Read(f) \/ CancelOne(f) \/ StartWork(f) \/ FinishRead(f)
      PROVE  IInv'
  <2>1. Holding' = Holding
    BY <1>4 DEF Read, CancelOne, StartWork, FinishRead, Holding, InState
  <2>2. UNCHANGED <<pc, executor, permits>>
    BY <1>4 DEF Read, CancelOne, StartWork, FinishRead
  <2>3. NotOpenedIdle'
    BY <1>4, <2>2 DEF Read, CancelOne, StartWork, FinishRead,
                       NotOpenedIdle, CallerExecutor
  <2>. QED
    BY <2>1, <2>2, <2>3 DEF CallerExecutor, PermitsConserved
<1>5. ASSUME NEW f \in Futures, Acquire(f)
      PROVE  IInv'
  <2>1. Holding' = Holding \cup {f} /\ f \notin Holding
    BY <1>5 DEF Acquire, Holding, InState
  <2>2. Cardinality(Holding') = Cardinality(Holding) + 1
    BY <2>1, FS_AddElement
  <2>3. executor # "none"
    BY <1>5 DEF Acquire, NotOpenedIdle
  <2>. QED
    BY <1>5, <2>2, <2>3
       DEF Acquire, CallerExecutor, NotOpenedIdle, PermitsConserved
<1>6. ASSUME NEW f \in Futures, YieldCompleted(f)
      PROVE  IInv'
  <2>1. executor = "live"
    BY <1>6 DEF YieldCompleted, CallerExecutor
  <2>2. CASE fstate[f] = "cancelled"
    <3>1. Holding' = Holding
      BY <1>6, <2>2 DEF YieldCompleted, Holding, InState
    <3>. QED
      BY <1>6, <2>1, <2>2, <3>1
         DEF YieldCompleted, CallerExecutor, NotOpenedIdle,
             PermitsConserved
  <2>3. CASE fstate[f] = "done"
    <3>1. Holding' = Holding \ {f} /\ f \in Holding
      BY <1>6, <2>3 DEF YieldCompleted, Holding, InState
    <3>2. Cardinality(Holding') = Cardinality(Holding) - 1
      BY <3>1, FS_RemoveElement
    <3>. QED
      BY <1>6, <2>1, <2>3, <3>2
         DEF YieldCompleted, CallerExecutor, NotOpenedIdle,
             PermitsConserved
  <2>. QED
    BY <1>6, <2>2, <2>3 DEF YieldCompleted
<1>7. CASE UNCHANGED vars
  BY <1>7 DEF vars, CallerExecutor, NotOpenedIdle, PermitsConserved,
              Holding, InState
<1>. QED
  BY <1>1, <1>2, <1>3, <1>4, <1>5, <1>6, <1>7 DEF Next

(* PermitsConserved: the semaphore's counter plus the undrained permit     *)
(* holders is SimultaneousReads + READ_QUEUE_LENGTH in every reachable     *)
(* state, for every configuration; so the drain never releases a permit    *)
(* the BoundedSemaphore does not owe and never keeps one back.             *)
THEOREM PermitsConservation == Spec => []PermitsConserved
<1>1. Init => IInv
  BY DEF Init, IInv, TypeOK, CallerExecutor, NotOpenedIdle,
         PermitsConserved, FutureStates, CallerStates
<1>2. IInv /\ [Next]_vars => IInv'
  BY IInvStep
<1>3. IInv => PermitsConserved
  BY DEF IInv
<1>. QED
  BY <1>1, <1>2, <1>3, PTL DEF Spec

-----------------------------------------------------------------------------
(* Refinement of IOReadEngineAbstract.                                     *)

\* While close() drains, every future still in the list is in the drain's
\* snapshot: no read() can be submitted inside close().
DrainCovers == pc = "closeDraining" => ReadFutures \subseteq pending

\* Once close() reaches shutdown, the list is empty.
ClosedEmpty == pc \in {"shuttingDown", "closed"} => ReadFutures = {}

(* The invariant the refinement rests on.                                  *)
RInv == IInv /\ DrainCovers /\ ClosedEmpty

\* A finished result is the abstract "result" outcome, and nothing else is.
LEMMA WaitingIsDone ==
    ASSUME TypeOK
    PROVE  {f \in Futures : AbsOutcome(fstate[f]) = "result"} = InState({"done"})
BY DEF TypeOK, FutureStates, AbsOutcome, InState

\* Every step keeps RInv.
LEMMA RInvStep == RInv /\ [Next]_vars => RInv'
<1> SUFFICES ASSUME RInv, [Next]_vars PROVE RInv'
  OBVIOUS
<1>1. IInv'
  BY IInvStep DEF RInv
<1>. USE DEF RInv, IInv, TypeOK, FutureStates, CallerStates
<1>2. (DrainCovers /\ ClosedEmpty)'
  <2>1. CASE OpenR
    BY <2>1 DEF OpenR, DrainCovers, ClosedEmpty
  <2>2. CASE ReadGetCompleted \/ DrainExhausted \/ DrainAbandoned
    BY <2>2 DEF ReadGetCompleted, DrainExhausted, DrainAbandoned,
                DrainCovers, ClosedEmpty
  <2>3. CASE Close
    BY <2>3 DEF Close, DrainCovers, ClosedEmpty, CallerExecutor,
                NotOpenedIdle, ReadFutures, InState
  <2>4. CASE CancelsDone \/ CloseDrainDone \/ Shutdown
    BY <2>4 DEF CancelsDone, CloseDrainDone, Shutdown, DrainCovers,
                ClosedEmpty, ReadFutures, InState
  <2>5. ASSUME NEW f \in Futures,
               StartWork(f) \/ Acquire(f) \/ FinishRead(f)
        PROVE  (DrainCovers /\ ClosedEmpty)'
    BY <2>5 DEF StartWork, Acquire, FinishRead, DrainCovers, ClosedEmpty,
                ReadFutures, InState
  <2>6. ASSUME NEW f \in Futures, Read(f) \/ CancelOne(f)
        PROVE  (DrainCovers /\ ClosedEmpty)'
    BY <2>6 DEF Read, CancelOne, DrainCovers, ClosedEmpty
  <2>7. ASSUME NEW f \in Futures, YieldCompleted(f)
        PROVE  (DrainCovers /\ ClosedEmpty)'
    BY <2>7 DEF YieldCompleted, DrainCovers, ClosedEmpty, ReadFutures,
                InState
  <2>8. CASE UNCHANGED vars
    BY <2>8 DEF vars, DrainCovers, ClosedEmpty, ReadFutures, InState
  <2>. QED
    BY <2>1, <2>2, <2>3, <2>4, <2>5, <2>6, <2>7, <2>8 DEF Next
<1>. QED
  BY <1>1, <1>2

(* The read engine implements IOReadEngineAbstract for every number of     *)
(* workers, permits and reads: submissions in order, finished results      *)
(* never more than SimultaneousReads + READ_QUEUE_LENGTH, cancellation     *)
(* only inside close(), and close() returning only once every outcome has  *)
(* been retrieved from the list.                                           *)
THEOREM Refinement == Spec => ImplementsAbstract
<1>1. Init => RInv
  BY DEF Init, RInv, IInv, TypeOK, CallerExecutor, NotOpenedIdle,
         PermitsConserved, DrainCovers, ClosedEmpty, ReadFutures, InState,
         FutureStates, CallerStates
<1>2. Init => Abs!Init
  BY DEF Init, Abs!Init, AbsStatus, AbsOutcome, Futures, Abs!Reads
<1>3. RInv /\ [Next]_vars => [Abs!Next]_Abs!vars
  <2> SUFFICES ASSUME RInv, [Next]_vars PROVE [Abs!Next]_Abs!vars
    OBVIOUS
  <2>. USE DEF RInv, IInv, TypeOK, FutureStates, CallerStates
  <2>0. Abs!Reads = Futures
    BY DEF Abs!Reads, Futures
  <2>1. CASE OpenR
    BY <2>1 DEF OpenR, Abs!Next, Abs!Open, Abs!vars, AbsStatus
  <2>2. CASE ReadGetCompleted \/ DrainExhausted \/ DrainAbandoned
             \/ CancelsDone \/ CloseDrainDone
    BY <2>2 DEF ReadGetCompleted, DrainExhausted, DrainAbandoned,
                CancelsDone, CloseDrainDone, Abs!vars, AbsStatus
  <2>3. CASE Close
    <3>1. executor = "none" => pc = "unopened"
      BY <2>3 DEF Close, CallerExecutor
    <3>2. executor # "none" => pc \in {"open", "draining"}
      BY <2>3 DEF Close, CallerExecutor
    <3>. QED
      BY <2>3, <3>1, <3>2, <2>0
         DEF Close, Abs!Next, Abs!Close, Abs!vars, AbsStatus
  <2>4. CASE Shutdown
    <3>1. \A f \in Futures : fstate[f] \in {"idle", "drained"}
      BY <2>4 DEF Shutdown, ClosedEmpty, ReadFutures, InState
    <3>. QED
      BY <2>4, <3>1, <2>0
         DEF Shutdown, Abs!Next, Abs!Closed, Abs!vars, AbsStatus, AbsOutcome
  <2>5. ASSUME NEW f \in Futures, StartWork(f) \/ Acquire(f)
        PROVE  [Abs!Next]_Abs!vars
    BY <2>5 DEF StartWork, Acquire, Abs!vars, AbsStatus, AbsOutcome
  <2>6. ASSUME NEW f \in Futures, Read(f)
        PROVE  [Abs!Next]_Abs!vars
    <3>1. \A q \in 1..(f - 1) : q \in Futures /\ fstate[q] # "idle"
      BY <2>6 DEF Read, Futures
    <3>2. Abs!Submit(f)
      BY <2>6, <3>1 DEF Read, Abs!Submit, AbsStatus, AbsOutcome
    <3>. QED
      BY <3>2, <2>0 DEF Abs!Next
  <2>7. ASSUME NEW f \in Futures, FinishRead(f)
        PROVE  [Abs!Next]_Abs!vars
    <3>1. fstate[f] = "running" /\ f \in Holding
      BY <2>7 DEF FinishRead, Holding, InState
    <3>2. InState({"done"}) \subseteq Holding \ {f}
      BY <3>1 DEF Holding, InState
    <3>3. IsFiniteSet(Holding \ {f})
           /\ Cardinality(Holding \ {f}) = Cardinality(Holding) - 1
      BY <3>1, HoldingFinite, FS_RemoveElement
    <3>4. Cardinality(InState({"done"})) <= Cardinality(Holding) - 1
      BY <3>2, <3>3, FS_Subset
    <3>5. Cardinality(Holding) <= ReadPermits
      BY <3>1, HoldingFinite DEF NotOpenedIdle, PermitsConserved
    <3>6. Abs!Waiting = InState({"done"})
      BY <2>0, WaitingIsDone DEF Abs!Waiting
    <3>7. Cardinality(InState({"done"})) \in Nat
      <4>1. IsFiniteSet({g \in Futures : fstate[g] \in {"done"}})
        BY StateSetFinite
      <4>2. IsFiniteSet(InState({"done"}))
        BY <4>1 DEF InState
      <4>. QED
        BY <4>2, FS_CardinalityType, Zenon
    <3>8. Cardinality(Abs!Waiting) < ReadPermits
      BY <3>4, <3>5, <3>6, <3>7, HoldingFinite DEF ReadPermits
    <3>9. [g \in Futures |-> AbsOutcome(fstate'[g])]
            = [[g \in Futures |-> AbsOutcome(fstate[g])] EXCEPT ![f] = "result"]
      BY <2>7 DEF FinishRead, AbsOutcome
    <3>10. AbsStatus' = AbsStatus
      BY <2>7 DEF FinishRead, AbsStatus
    <3>11. [g \in Futures |-> AbsOutcome(fstate[g])][f] = "pending"
      BY <3>1 DEF AbsOutcome
    <3>12. Abs!Cardinality(Abs!Waiting) = Cardinality(Abs!Waiting)
      BY DEF Abs!Cardinality, Cardinality
    <3>13. Abs!Complete(f)
      BY <3>8, <3>9, <3>10, <3>11, <3>12 DEF Abs!Complete
    <3>. QED
      BY <3>13, <2>0 DEF Abs!Next
  <2>8. ASSUME NEW f \in Futures, CancelOne(f)
        PROVE  [Abs!Next]_Abs!vars
    <3>1. CASE fstate[f] = "queued"
      <4>1. Abs!Cancel(f)
        BY <2>8, <3>1 DEF CancelOne, Abs!Cancel, AbsStatus, AbsOutcome
      <4>. QED
        BY <4>1, <2>0 DEF Abs!Next
    <3>2. CASE fstate[f] # "queued"
      BY <2>8, <3>2 DEF CancelOne, Abs!vars, AbsStatus
    <3>. QED
      BY <3>1, <3>2
  <2>9. ASSUME NEW f \in Futures, YieldCompleted(f)
        PROVE  [Abs!Next]_Abs!vars
    <3>1. Abs!Retrieve(f)
      BY <2>9 DEF YieldCompleted, Abs!Retrieve, AbsStatus, AbsOutcome
    <3>. QED
      BY <3>1, <2>0 DEF Abs!Next
  <2>10. CASE UNCHANGED vars
    BY <2>10 DEF vars, Abs!vars, AbsStatus
  <2>. QED
    BY <2>1, <2>2, <2>3, <2>4, <2>5, <2>6, <2>7, <2>8, <2>9, <2>10 DEF Next
<1>. QED
  BY <1>1, <1>2, <1>3, RInvStep, PTL DEF Spec, ImplementsAbstract, Abs!Spec


(* Once close() has returned, no read is left in the list: every outcome,  *)
(* cancelled ones included, was retrieved by the drain inside close(), for *)
(* every configuration (CloseDrainsAll).                                   *)
THEOREM CloseDrainsAllHolds == Spec => []CloseDrainsAll
<1>1. Init => RInv
  BY DEF Init, RInv, IInv, TypeOK, CallerExecutor, NotOpenedIdle,
         PermitsConserved, DrainCovers, ClosedEmpty, ReadFutures, InState,
         FutureStates, CallerStates
<1>2. RInv => CloseDrainsAll
  BY DEF RInv, ClosedEmpty, CloseDrainsAll
<1>. QED
  BY <1>1, <1>2, RInvStep, PTL DEF Spec

=============================================================================
