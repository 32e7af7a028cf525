----------------------------- MODULE WorkerLoop -----------------------------
(***************************************************************************)
(* FutureLoop with native::worker(): functions that run on libuv's thread  *)
(* pool and whose result comes back to the loop.                           *)
(*                                                                         *)
(* A WorkerCallback owns one result future of kind "worker".  Its function *)
(* runs while the loop goes on, and may itself call async() and then() on  *)
(* futures of the loop (Async and ForeignAttach of FutureLoop).            *)
(* WorkerCallback::_resolver is written by the pool thread and read by     *)
(* WorkerAfter on the loop thread.                                         *)
(***************************************************************************)
EXTENDS FutureLoop, FiniteSets

CONSTANT PoolSize   \* threads of libuv's pool

ASSUME PoolSizeAssumption == PoolSize \in Nat \ {0}

VARIABLES
  work,      \* WorkerBase::_uvWork: where libuv has the request
  result,    \* WorkerCallback::_resolver holding a value or an error
  returned   \* WorkerCallback::_resolver holding a Future, 0 for none

workVars == <<work, result, returned>>
wvars == <<vars, work, result, returned>>

\* A WorkerCallback: not one, queued, on a pool thread, returned, handed to the loop.
WorkStates == {"none", "pending", "working", "done", "closed"}

WorkTypeOK ==
  /\ TypeOK
  /\ work \in [Fut -> WorkStates]
  /\ result \in [Fut -> Outcomes]
  /\ returned \in [Fut -> 0..MaxFutures]

WInit ==
  /\ Init
  /\ work = [f \in Fut |-> "none"]
  /\ result = [f \in Fut |-> Null]
  /\ returned = [f \in Fut |-> 0]

-----------------------------------------------------------------------------
\* A bound: the two lambdas for a returned Future that WorkerAfter has not yet
\* seen still fit below MaxFutures.
Room ==
  made + 2 * Cardinality({w \in Fut : work[w] = "done" /\ returned[w] # 0}) <= MaxFutures

\* native::worker(loop, fn): WorkerBase::enqueue sets data and _instance and
\* hands the request to uv_queue_work.
StartWorker ==
  /\ UserCode
  /\ Create("worker", 0, 0)
  /\ work' = [work EXCEPT ![made + 1] = "pending"]
  /\ UNCHANGED <<resolver, actions, asyncVars, running, runs, result, returned>>

\* WorkerBase::Worker: a free pool thread takes the oldest request.
Worker(w) ==
  /\ work[w] = "pending"
  /\ \A v \in Fut : v < w => work[v] # "pending"
  /\ Cardinality({v \in Fut : work[v] = "working"}) < PoolSize
  /\ work' = [work EXCEPT ![w] = "working"]
  /\ UNCHANGED <<vars, result, returned>>

\* WorkerCallback::callFn: the function returns a value or throws a FutureError.
WorkerReturns(w, o) ==
  /\ work[w] = "working"
  /\ o \in {Value(w), Error(w)}
  /\ work' = [work EXCEPT ![w] = "done"]
  /\ result' = [result EXCEPT ![w] = o]
  /\ UNCHANGED <<vars, returned>>

\* WorkerCallback<Future<R>>::callFn: the function returns Future g.
WorkerReturnsFuture(w, g) ==
  /\ work[w] = "working"
  /\ g \in Made
  /\ work' = [work EXCEPT ![w] = "done"]
  /\ returned' = [returned EXCEPT ![w] = g]
  /\ UNCHANGED <<vars, result>>

\* Variants of WorkerAfter: a returned Future is not looked at; the result is not
\* given to the future.
WorkerAfterIgnoresFuture(w) ==
  /\ ~failed /\ running = 0
  /\ work[w] = "done"
  /\ work' = [work EXCEPT ![w] = "closed"]
  /\ Settle(queue, w, Value(w))
  /\ UNCHANGED <<made, kind, parent, subject, actions, closing, running, runs,
                 result, returned>>

WorkerAfterNoSettle(w) ==
  /\ ~failed /\ running = 0
  /\ work[w] = "done"
  /\ work' = [work EXCEPT ![w] = "closed"]
  /\ UNCHANGED <<vars, result, returned>>

\* WorkerBase::WorkerAfter on the loop thread: data and _instance are cleared and
\* executeWorkerAfter gives the result to the future, directly or, for a Future,
\* by forwarding it.
WorkerAfter(w) ==
  /\ ~failed /\ running = 0
  /\ work[w] = "done"
  /\ work' = [work EXCEPT ![w] = "closed"]
  /\ UNCHANGED <<closing, running, runs, result, returned>>
  /\ \/ /\ returned[w] = 0
        /\ Settle(queue, w, result[w])
        /\ UNCHANGED <<made, kind, parent, subject, actions>>
     \/ /\ returned[w] # 0
        /\ Forward(returned[w], w)
        /\ UNCHANGED resolver

-----------------------------------------------------------------------------
Pool ==
  \E w \in Fut :
    \/ Worker(w)
    \/ \E o \in Outcomes : WorkerReturns(w, o)
    \/ \E g \in Fut : WorkerReturnsFuture(w, g)

After == \E w \in Fut : WorkerAfter(w)

WNext ==
  /\ \/ Next /\ UNCHANGED workVars
     \/ StartWorker
     \/ Pool
     \/ After
  /\ Room'

WSpec == WInit /\ [][WNext]_wvars

\* The pool's threads and the loop thread keep running; a worker's function
\* returns.
WFairness ==
  /\ WF_wvars(Dispatch /\ UNCHANGED workVars)
  /\ WF_wvars(Return /\ UNCHANGED workVars /\ Room')
  /\ WF_wvars(Close /\ UNCHANGED workVars)
  /\ WF_wvars(Pool /\ Room')
  /\ WF_wvars(After)

WFairSpec == WSpec /\ WFairness

-----------------------------------------------------------------------------
\* A worker's future is settled by WorkerAfter, with the function's own result,
\* or by the lambdas that forward the Future it returned: never both, and not
\* before the function has returned.
WorkerOutcome ==
  \A w \in Fut :
    kind[w] = "worker" /\ Settled(w) =>
      /\ work[w] = "closed"
      /\ resolver[w] = IF returned[w] = 0 THEN result[w]
                       ELSE resolver[returned[w]]

\* The futures beside the workers stay as they are without them: no assertion fails,
\* no handler is missed or told early, and Futures that workers return are adopted.
FuturesHold == NeverFails /\ DeliveredIffSettled /\ AdoptsReturned

\* Every worker's future is eventually settled, unless it waits for a returned
\* Future that is not settled.  The full pool only delays it.
WorkersFinish ==
  \A w \in Fut :
    work[w] = "pending" ~> \/ Settled(w)
                           \/ returned[w] \in {g \in Fut : ~Settled(g)}
=============================================================================
