---------------------------- MODULE IOReadEngine ----------------------------
(***************************************************************************)
(* The asynchronous read path of benji's IO base class                    *)
(* (src/benji/io/base.py, class IOBase).                                   *)
(*                                                                         *)
(* One caller thread opens the IO for reading (open_r), submits reads      *)
(* (read(block) with sync=False), retrieves results through the generator  *)
(* returned by read_get_completed and finally calls close().  Each read    *)
(* is a Future of a ThreadPoolExecutor with SimultaneousReads worker       *)
(* threads; the work item read_with_acquire first acquires the            *)
(* BoundedSemaphore _read_semaphore (SimultaneousReads + READ_QUEUE_LENGTH *)
(* permits) and then performs _read.  The permit is given back when the    *)
(* caller retrieves the result (future_results_as_completed releases it    *)
(* for every future that was not cancelled).                               *)
(*                                                                         *)
(* Futures are numbered in submission order 1..MaxReads.  Block contents   *)
(* and whether _read returned data or raised are abstracted away: either   *)
(* way the future is done and its outcome is yielded by the drain.         *)
(***************************************************************************)
EXTENDS Naturals, FiniteSets

CONSTANTS
    SimultaneousReads,  \* simultaneousReads: worker threads of the executor
    ReadQueueLength,    \* IOBase.READ_QUEUE_LENGTH: permits beyond the workers
    MaxReads            \* bound on the number of read() calls in a run

ASSUME ConstantsAssumption ==
    /\ SimultaneousReads \in Nat \ {0}
    /\ ReadQueueLength \in Nat
    /\ MaxReads \in Nat

\* The initial value of the BoundedSemaphore created by open_r.
ReadPermits == SimultaneousReads + ReadQueueLength

Futures == 1..MaxReads

(* idle: read() not called yet; queued: in the executor's work queue;     *)
(* waiting: a worker runs read_with_acquire and blocks in acquire();      *)
(* running: permit held, _read in progress; done: finished, permit held;  *)
(* cancelled: cancelled before a worker took it; drained: removed from    *)
(* _read_futures by the result generator.                                 *)
FutureStates == {"idle", "queued", "waiting", "running", "done",
                 "cancelled", "drained"}

(* Where the caller thread is: before open_r, between calls, inside a     *)
(* loop over read_get_completed, or in one of the three phases of close.  *)
CallerStates == {"unopened", "open", "draining", "cancelling",
                 "closeDraining", "shuttingDown", "closed"}

VARIABLES
    pc,        \* control point of the caller thread
    executor,  \* self._read_executor: "none", "live" or "shutdown"
    fstate,    \* fstate[f]: state of the future of the f-th read() call
    permits,   \* counter of self._read_semaphore
    pending    \* futures the caller's current loop has still to visit

vars == <<pc, executor, fstate, permits, pending>>

InState(S) == {f \in Futures : fstate[f] \in S}

\* self._read_futures: submitted and not yet removed by the drain.
ReadFutures == InState({"queued", "waiting", "running", "done", "cancelled"})

\* Futures occupying a worker thread.
Busy == InState({"waiting", "running"})

\* Futures that acquired a permit and have not given it back.
Holding == InState({"running", "done"})

\* The earliest submitted future still in the executor's FIFO work queue.
IsHeadOfQueue(f) == \A g \in InState({"queued"}) : f <= g

-----------------------------------------------------------------------------
(* Plausible bugs of the code below, used as mutants of its actions.      *)

\* Releasing the permit of every retrieved future, cancelled ones included.
YieldCompletedReleaseAlways(f) ==
    /\ pc \in {"draining", "closeDraining"}
    /\ f \in pending
    /\ fstate[f] \in {"done", "cancelled"}
    /\ fstate' = [fstate EXCEPT ![f] = "drained"]
    /\ pending' = pending \ {f}
    /\ permits' = permits + 1
    /\ UNCHANGED <<pc, executor>>

\* A drain that never gives the permits back.
YieldCompletedNoRelease(f) ==
    /\ pc \in {"draining", "closeDraining"}
    /\ f \in pending
    /\ fstate[f] \in {"done", "cancelled"}
    /\ fstate' = [fstate EXCEPT ![f] = "drained"]
    /\ pending' = pending \ {f}
    /\ UNCHANGED <<pc, executor, permits>>

\* close() testing len(self._read_futures) > 1 instead of > 0.
CloseOffByOne ==
    /\ pc \in {"unopened", "open", "draining"}
    /\ \/ /\ executor = "none"
          /\ pc' = "closed"
          /\ pending' = {}
       \/ /\ executor = "live"
          /\ Cardinality(ReadFutures) > 1
          /\ pc' = "cancelling"
          /\ pending' = ReadFutures
       \/ /\ executor = "live"
          /\ Cardinality(ReadFutures) <= 1
          /\ pc' = "shuttingDown"
          /\ pending' = {}
    /\ UNCHANGED <<executor, fstate, permits>>

\* close() shutting the executor down right after cancelling, without
\* first draining the outstanding results.
CancelsDoneSkipDrain ==
    /\ pc = "cancelling"
    /\ pending = {}
    /\ pc' = "shuttingDown"
    /\ UNCHANGED <<executor, fstate, permits, pending>>

\* A semaphore acquire() that does not wait for a permit.
AcquireNoWait(f) ==
    /\ fstate[f] = "waiting"
    /\ fstate' = [fstate EXCEPT ![f] = "running"]
    /\ permits' = permits - 1
    /\ UNCHANGED <<pc, executor, pending>>

-----------------------------------------------------------------------------
(* The caller thread.                                                      *)

Init ==
    /\ pc = "unopened"
    /\ executor = "none"
    /\ fstate = [f \in Futures |-> "idle"]
    /\ permits = 0
    /\ pending = {}

\* open_r: a fresh executor, an empty future list and a fresh semaphore.
OpenR ==
    /\ pc = "unopened"
    /\ pc' = "open"
    /\ executor' = "live"
    /\ permits' = ReadPermits
    /\ UNCHANGED <<fstate, pending>>

\* read(block, sync=False): submit read_with_acquire; never blocks.
Read(f) ==
    /\ pc = "open"
    /\ fstate[f] = "idle"
    /\ \A g \in 1..(f - 1) : fstate[g] # "idle"
    /\ fstate' = [fstate EXCEPT ![f] = "queued"]
    /\ UNCHANGED <<pc, executor, permits, pending>>

\* First step of the generator of read_get_completed: as_completed takes
\* a snapshot of the futures in the list.
ReadGetCompleted ==
    /\ pc = "open"
    /\ pc' = "draining"
    /\ pending' = ReadFutures
    /\ UNCHANGED <<executor, fstate, permits>>

\* One result of future_results_as_completed: remove the finished future
\* from the list, release its permit unless it was cancelled, yield it.
YieldCompleted(f) ==
    /\ pc \in {"draining", "closeDraining"}
    /\ f \in pending
    /\ fstate[f] \in {"done", "cancelled"}
    /\ fstate' = [fstate EXCEPT ![f] = "drained"]
    /\ pending' = pending \ {f}
    /\ permits' = IF fstate[f] = "cancelled" THEN permits ELSE permits + 1
    /\ UNCHANGED <<pc, executor>>

\* The generator is exhausted.
DrainExhausted ==
    /\ pc = "draining"
    /\ pending = {}
    /\ pc' = "open"
    /\ UNCHANGED <<executor, fstate, permits, pending>>

\* The caller leaves the loop early: as_completed's timeout expired, or
\* handling a result raised.  The rest stays in the list.
DrainAbandoned ==
    /\ pc = "draining"
    /\ pending # {}
    /\ pc' = "open"
    /\ pending' = {}
    /\ UNCHANGED <<executor, fstate, permits>>

\* close(): nothing if never opened; cancel and drain if reads are
\* outstanding; otherwise shut the executor down at once.
Close ==
    /\ pc \in {"unopened", "open", "draining"}
    /\ \/ /\ executor = "none"
          /\ pc' = "closed"
          /\ pending' = {}
       \/ /\ executor = "live"
          /\ ReadFutures # {}
          /\ pc' = "cancelling"
          /\ pending' = ReadFutures
       \/ /\ executor = "live"
          /\ ReadFutures = {}
          /\ pc' = "shuttingDown"
          /\ pending' = {}
    /\ UNCHANGED <<executor, fstate, permits>>

\* future.cancel(): succeeds only if no worker has taken the future yet.
CancelOne(f) ==
    /\ pc = "cancelling"
    /\ f \in pending
    /\ fstate' = IF fstate[f] = "queued"
                   THEN [fstate EXCEPT ![f] = "cancelled"]
                   ELSE fstate
    /\ pending' = pending \ {f}
    /\ UNCHANGED <<pc, executor, permits>>

\* After the cancel loop, close() runs read_get_completed() to the end.
CancelsDone ==
    /\ pc = "cancelling"
    /\ pending = {}
    /\ pc' = "closeDraining"
    /\ pending' = ReadFutures
    /\ UNCHANGED <<executor, fstate, permits>>

CloseDrainDone ==
    /\ pc = "closeDraining"
    /\ pending = {}
    /\ pc' = "shuttingDown"
    /\ UNCHANGED <<executor, fstate, permits, pending>>

\* executor.shutdown(wait=True): returns once every work item has run.
Shutdown ==
    /\ pc = "shuttingDown"
    /\ InState({"queued", "waiting", "running"}) = {}
    /\ pc' = "closed"
    /\ executor' = "shutdown"
    /\ UNCHANGED <<fstate, permits, pending>>

-----------------------------------------------------------------------------
(* The executor's worker threads.                                          *)

\* A free worker takes the head of the work queue and enters
\* read_with_acquire.
StartWork(f) ==
    /\ fstate[f] = "queued"
    /\ IsHeadOfQueue(f)
    /\ Cardinality(Busy) < SimultaneousReads
    /\ fstate' = [fstate EXCEPT ![f] = "waiting"]
    /\ UNCHANGED <<pc, executor, permits, pending>>

\* self._read_semaphore.acquire() returns.  Which waiting thread gets a
\* released permit is not specified by Python: any of them may.
Acquire(f) ==
    /\ fstate[f] = "waiting"
    /\ permits > 0
    /\ fstate' = [fstate EXCEPT ![f] = "running"]
    /\ permits' = permits - 1
    /\ UNCHANGED <<pc, executor, pending>>

\* self._read(block) returns or raises; either completes the future.
FinishRead(f) ==
    /\ fstate[f] = "running"
    /\ fstate' = [fstate EXCEPT ![f] = "done"]
    /\ UNCHANGED <<pc, executor, permits, pending>>

-----------------------------------------------------------------------------

WorkerStep == \E f \in Futures : StartWork(f) \/ Acquire(f) \/ FinishRead(f)

CloseStep ==
    \/ \E f \in Futures : CancelOne(f)
    \/ pc = "closeDraining" /\ \E f \in Futures : YieldCompleted(f)
    \/ CancelsDone \/ CloseDrainDone \/ Shutdown

\* The caller's own loop over read_get_completed(): it blocks in the
\* generator until the next result is there.
DrainStep ==
    \/ pc = "draining" /\ \E f \in Futures : YieldCompleted(f)
    \/ DrainExhausted

Next ==
    \/ OpenR \/ ReadGetCompleted \/ DrainExhausted \/ DrainAbandoned \/ Close
    \/ CancelsDone \/ CloseDrainDone \/ Shutdown
    \/ \E f \in Futures :
         \/ Read(f) \/ YieldCompleted(f) \/ CancelOne(f)
         \/ StartWork(f) \/ Acquire(f) \/ FinishRead(f)

Spec == Init /\ [][Next]_vars

\* Worker threads that can run are scheduled; once the caller is inside
\* close() it keeps executing it, and a caller iterating the generator
\* keeps asking for the next result (it may still leave the loop).  The
\* caller is not obliged to call anything else.
FairSpec ==
    Spec /\ WF_vars(WorkerStep) /\ WF_vars(CloseStep) /\ WF_vars(DrainStep)

-----------------------------------------------------------------------------
(* Properties.                                                             *)

\* Every variable has a value of its intended kind.
TypeOK ==
    /\ pc \in CallerStates
    /\ executor \in {"none", "live", "shutdown"}
    /\ fstate \in [Futures -> FutureStates]
    /\ permits \in Nat
    /\ pending \in SUBSET Futures

(* The BoundedSemaphore never loses or gains a permit: once open_r has     *)
(* run, its counter plus the futures that acquired and were not yet        *)
(* drained is always SimultaneousReads + READ_QUEUE_LENGTH.  This is what  *)
(* the release in the drain (only for futures that were not cancelled)     *)
(* must get right, since the acquire happens inside the worker (line 49):  *)
(* one release too many raises ValueError, one too few starves workers.   *)
PermitsConserved ==
    executor # "none" => permits + Cardinality(Holding) = ReadPermits

(* Once close() has returned, every read that was submitted has had its    *)
(* outcome (data, exception or cancellation) retrieved from the list, so   *)
(* no result was silently dropped and, with PermitsConserved, every permit *)
(* is back in the semaphore.                                               *)
CloseDrainsAll ==
    pc = "closed" => ReadFutures = {}

(* A close() that has started always returns: draining before shutdown     *)
(* lets the workers blocked in acquire() finish (comment at base.py:74).   *)
CloseCompletes ==
    pc \in {"cancelling", "closeDraining", "shuttingDown"} ~> pc = "closed"

(* A loop over read_get_completed() ends: the generator of               *)
(* future_results_as_completed (base.py:56) yields every future of its     *)
(* snapshot, although a future in it may wait in acquire() for a permit   *)
(* that only the drain itself gives back.  The caller leaves the loop,     *)
(* whether it is exhausted, abandoned or followed by close().              *)
DrainReturns ==
    pc = "draining" ~> pc # "draining"

(* spec.md section 8: at most N + Q reads are ever outstanding (submitted *)
(* but not yet drained).                                                   *)
OutstandingBound ==
    Cardinality(ReadFutures) <= ReadPermits

-----------------------------------------------------------------------------
(* The refinement mapping to the promise of IOReadEngineAbstract: the      *)
(* caller's position gives the IO's status, and a future's state its       *)
(* outcome, with ResultBound the semaphore's initial value.                *)

AbsStatus ==
    CASE pc = "unopened"                                      -> "unopened"
      [] pc \in {"open", "draining"}                           -> "open"
      [] pc \in {"cancelling", "closeDraining", "shuttingDown"} -> "closing"
      [] pc = "closed"                                        -> "closed"

AbsOutcome(s) ==
    CASE s = "idle"                              -> "none"
      [] s \in {"queued", "waiting", "running"}  -> "pending"
      [] s = "done"                              -> "result"
      [] s = "cancelled"                         -> "cancelled"
      [] s = "drained"                           -> "retrieved"

Abs == INSTANCE IOReadEngineAbstract
           WITH ResultBound <- ReadPermits,
                status <- AbsStatus,
                outcome <- [f \in Futures |-> AbsOutcome(fstate[f])]

(* The read engine implements its abstract promise: every step of the      *)
(* caller or of a worker is a step of IOReadEngineAbstract or leaves its   *)
(* view unchanged; in particular close() returns only once every outcome   *)
(* was retrieved, and finished results never exceed the permits.          *)
ImplementsAbstract == Abs!Spec

=============================================================================
