-------------------------- MODULE WorkerLoopProofs --------------------------
(***************************************************************************)
(* Proofs about module WorkerLoop, for any number of futures, any size of  *)
(* the pool and any choice of handlers.                                    *)
(*                                                                         *)
(* The invariant of FutureLoop is kept by the steps of workers too.  What  *)
(* is added says where the result of a worker is: with the function, in    *)
(* _resolver, in the future, or with the lambdas on a returned Future.     *)
(***************************************************************************)
EXTENDS WorkerLoop, FutureLoopProofs

\* t is the lambda that will settle the worker's future w, behind a returned Future.
ForwardsTo(t, w) == kind[t] = "fwdThen" /\ subject[t] = w

WorkerFits(w) ==
  /\ work[w] = "none" <=> kind[w] # "worker"
  /\ work[w] \in {"none", "pending", "working"} => result[w] = Null /\ returned[w] = 0
  /\ work[w] \in {"pending", "working", "done"} =>
       ~Settled(w) /\ \A t \in Fut : ~ForwardsTo(t, w)
  /\ work[w] \in {"done", "closed"} =>
       IF returned[w] = 0 THEN result[w] # Null ELSE returned[w] \in Made
  /\ work[w] = "closed" =>
       IF returned[w] = 0 THEN resolver[w] = result[w]
       ELSE \E t \in Fut : ForwardsTo(t, w) /\ parent[t] = returned[w]

WorkersFit ==
  /\ work \in [Fut -> WorkStates] /\ result \in [Fut -> Outcomes]
  /\ returned \in [Fut -> 0..MaxFutures]
  /\ \A w \in Fut : WorkerFits(w)

WInv == IInv /\ WorkersFit

-----------------------------------------------------------------------------
(* The steps of FutureLoop. *)

\* Workers and the lambdas that forward to them stay, none are added, and a worker's
\* future is settled only by such a lambda.
WorkersKept ==
  /\ Made \subseteq Made'
  /\ \A b \in Fut : kind'[b] = "worker" <=> kind[b] = "worker"
  /\ \A t \in Fut : kind[t] = "fwdThen" =>
       kind'[t] = "fwdThen" /\ subject'[t] = subject[t] /\ parent'[t] = parent[t]
  /\ \A t, w \in Fut : kind[w] = "worker" /\ ForwardsTo(t, w)' => ForwardsTo(t, w)
  /\ \A w \in Fut : kind[w] = "worker" =>
       \/ resolver'[w] = resolver[w]
       \/ ~Settled(w) /\ \E t \in Fut : ForwardsTo(t, w)

LEMMA KeptFits ==
  ASSUME WorkersFit, WorkersKept, UNCHANGED workVars
  PROVE  WorkersFit'
<1>1. work' = work /\ result' = result /\ returned' = returned
  BY DEF workVars
<1>2. ASSUME NEW w \in Fut  PROVE WorkerFits(w)'
  <2>1. WorkerFits(w)
    BY DEF WorkersFit
  <2>2. CASE kind[w] # "worker"
    <3>1. work[w] = "none"
      BY <2>1, <2>2 DEF WorkerFits
    <3> QED  BY <1>1, <2>1, <2>2, <3>1 DEF WorkerFits, WorkersKept
  <2>3. CASE kind[w] = "worker"
    <3>1. kind'[w] = "worker" /\ work'[w] # "none"
      BY <1>1, <2>1, <2>3 DEF WorkerFits, WorkersKept
    <3>2. work[w] \in {"pending", "working", "done"} =>
            ~Settled(w)' /\ \A t \in Fut : ~ForwardsTo(t, w)'
      BY <2>1, <2>3 DEF WorkerFits, WorkersKept, Settled
    <3>3. work[w] \in {"done", "closed"} =>
            IF returned[w] = 0 THEN result[w] # Null ELSE returned[w] \in Made'
      BY <2>1 DEF WorkerFits, WorkersKept
    <3>4. work[w] = "closed" /\ returned[w] = 0 => resolver'[w] = result[w]
      BY <2>1, <2>3 DEF WorkerFits, WorkersKept, Settled
    <3>5. work[w] = "closed" /\ returned[w] # 0 =>
            \E t \in Fut : ForwardsTo(t, w)' /\ parent'[t] = returned[w]
      BY <2>1, <2>3 DEF WorkerFits, WorkersKept, ForwardsTo
    <3> QED  BY <1>1, <2>1, <3>1, <3>2, <3>3, <3>4, <3>5 DEF WorkerFits
  <2> QED  BY <2>2, <2>3
<1> QED  BY <1>1, <1>2 DEF WorkersFit

\* Steps that settle a future.
LEMMA SettleKeepsWorkers ==
  ASSUME IInv, UNCHANGED <<made, kind, parent, subject>>, NEW q, NEW f \in Fut, NEW o,
         Settle(q, f, o), kind[f] # "worker" \/ \E t \in Fut : ForwardsTo(t, f)
  PROVE  WorkersKept
<1>1. \A b \in Fut : resolver'[b] = resolver[b] \/ (b = f /\ ~Settled(f))
  BY DEF Settle, IInv, TypeOK
<1>2. Made' = Made
  BY DEF Made
<1> QED  BY <1>1, <1>2 DEF WorkersKept, ForwardsTo

LEMMA UnmadeNone ==
  ASSUME IInv
  PROVE  \A b \in Fut : b \notin Made => kind[b] = "none"
<1>1. made \in Nat
  BY DEF IInv, TypeOK
<1>2. \A b \in Fut : b \notin Made => b > made
  BY <1>1, SMT DEF Made, Fut
<1> QED  BY <1>2 DEF IInv, UnmadeInv

\* Steps that settle none.
LEMMA CreateKeepsWorkers ==
  ASSUME IInv, resolver' = resolver, Made \subseteq Made',
         \A b \in Fut : b \in Made =>
           kind'[b] = kind[b] /\ subject'[b] = subject[b] /\ parent'[b] = parent[b],
         \A b \in Fut : b \notin Made => kind'[b] # "worker",
         \A b, w \in Fut : b \notin Made /\ kind'[b] = "fwdThen" /\ kind[w] = "worker" => subject'[b] # w
  PROVE  WorkersKept
<1>1. \A b \in Fut : b \notin Made => kind[b] = "none"
  BY UnmadeNone
<1> QED  BY <1>1 DEF WorkersKept, ForwardsTo

LEMMA SameKeepsWorkers ==
  ASSUME UNCHANGED <<made, kind, parent, subject, resolver>>
  PROVE  WorkersKept
<1> QED  BY DEF WorkersKept, ForwardsTo, Made

LEMMA OneKeepsWorkers ==
  ASSUME IInv, resolver' = resolver, NEW k \in Kinds \ {"worker", "fwdThen"},
         NEW p \in 0..MaxFutures, NEW s \in 0..MaxFutures, Create(k, p, s)
  PROVE  WorkersKept
<1>1. Creates(made + 1, k, p, s)
  BY CreateFacts
<1>2. Made \subseteq Made'
  BY <1>1, SMT DEF Made, Creates, IInv, TypeOK
<1>3. \A b \in Fut : b \in Made => b # made + 1
  BY <1>1 DEF Creates
<1>4. \A b \in Fut : b \notin Made => kind[b] = "none"
  BY UnmadeNone
<1> QED  BY <1>1, <1>2, <1>3, <1>4, CreateKeepsWorkers DEF Creates

LEMMA ForeignKeepsWorkers ==
  ASSUME IInv, NEW f \in Fut, NEW k \in HandlerKinds, ForeignAttach(f, k)
  PROVE  WorkersKept
<1> DEFINE x == made + 1
           y == made + 2
<1>1. CreatesTwo(x, y)
  BY CreateTwoFacts DEF ForeignAttach
<1>2. /\ kind' = [kind EXCEPT ![x] = k, ![y] = "attach"] /\ parent' = [parent EXCEPT ![x] = f]
      /\ subject' = [subject EXCEPT ![y] = x] /\ resolver' = resolver
  BY DEF ForeignAttach
<1>3. k \notin {"worker", "fwdThen"}
  BY HandlerKindsAssumption DEF Handlers
<1> HIDE DEF x, y
<1>4. x \notin Made /\ y \notin Made /\ x \in Fut /\ y \in Fut
  BY <1>1 DEF CreatesTwo
<1>5. Made \subseteq Made'
  BY <1>1, SMT DEF Made, CreatesTwo, IInv, TypeOK
<1>6. \A b \in Fut : b \notin Made => kind[b] = "none"
  BY UnmadeNone
<1>7. /\ kind \in [Fut -> Kinds] /\ parent \in [Fut -> 0..MaxFutures] /\ subject \in [Fut -> 0..MaxFutures]
  BY DEF IInv, TypeOK
<1>8. \A b \in Fut : b \in Made => kind'[b] = kind[b] /\ subject'[b] = subject[b] /\ parent'[b] = parent[b]
  BY <1>2, <1>4, <1>7
<1>9. \A b \in Fut : b \notin Made => kind'[b] \notin {"worker", "fwdThen"}
  BY <1>2, <1>3, <1>4, <1>6, <1>7
<1> QED  BY <1>2, <1>5, <1>8, <1>9, CreateKeepsWorkers

LEMMA ReturnKeepsWorkers ==
  ASSUME IInv, NEW g \in Fut, ReturnFuture(g)
  PROVE  WorkersKept
<1> DEFINE t == made + 1
           e == made + 2
<1>1. CreatesTwo(t, e)
  BY CreateTwoFacts DEF ReturnFuture, Forward
<1>2. /\ kind' = [kind EXCEPT ![t] = "fwdThen", ![e] = "fwdError"]
      /\ parent' = [parent EXCEPT ![t] = g, ![e] = t]
      /\ subject' = [subject EXCEPT ![t] = running, ![e] = running]
      /\ resolver' = resolver /\ kind[running] \in UserKinds
  BY DEF ReturnFuture, Forward
<1> HIDE DEF t, e
<1>3. t \notin Made /\ e \notin Made /\ t \in Fut /\ e \in Fut /\ t # e
  BY <1>1 DEF CreatesTwo
<1>4. Made \subseteq Made'
  BY <1>1, SMT DEF Made, CreatesTwo, IInv, TypeOK
<1>5. \A b \in Fut : b \notin Made => kind[b] = "none"
  BY UnmadeNone
<1>6. /\ kind \in [Fut -> Kinds] /\ parent \in [Fut -> 0..MaxFutures] /\ subject \in [Fut -> 0..MaxFutures]
  BY DEF IInv, TypeOK
<1>7. \A b \in Fut : b \in Made => kind'[b] = kind[b] /\ subject'[b] = subject[b] /\ parent'[b] = parent[b]
  BY <1>2, <1>3, <1>6
<1>8. \A b \in Fut : b \notin Made => kind'[b] # "worker" /\ (kind'[b] = "fwdThen" => subject'[b] = running)
  BY <1>2, <1>3, <1>5, <1>6
<1>9. \A w \in Fut : kind[w] = "worker" => w # running
  BY <1>2 DEF UserKinds, Handlers
<1> QED  BY <1>2, <1>4, <1>7, <1>8, <1>9, CreateKeepsWorkers

LEMMA UserKeepsWorkers ==
  ASSUME IInv, User
  PROVE  WorkersKept
<1>0. 0 \in 0..MaxFutures
  BY MaxFuturesAssumption
<1>1. CASE NewPromise
  <2>1. "promise" \in Kinds \ {"worker", "fwdThen"}
    BY DEF Kinds
  <2> QED  BY <1>0, <1>1, <2>1, OneKeepsWorkers DEF NewPromise
<1>2. CASE Async
  <2>1. "async" \in Kinds \ {"worker", "fwdThen"}
    BY DEF Kinds, UserKinds
  <2> QED  BY <1>0, <1>2, <2>1, OneKeepsWorkers DEF Async
<1>3. ASSUME NEW f \in Fut, NEW tag \in Tags, PromiseSettle(f, tag)  PROVE WorkersKept
  <2>1. /\ kind[f] # "worker" /\ Settle(queue, f, [tag |-> tag, from |-> f])
        /\ UNCHANGED <<made, kind, parent, subject>>
    BY <1>3 DEF PromiseSettle
  <2> QED  BY <2>1, SettleKeepsWorkers
<1>4. ASSUME NEW f \in Fut, NEW k \in HandlerKinds, AttachHandler(f, k)  PROVE WorkersKept
  <2>1. k \in Kinds \ {"worker", "fwdThen"}
    BY HandlerKindsAssumption DEF Handlers, Kinds, UserKinds
  <2>2. f \in 0..MaxFutures
    BY MaxFuturesAssumption, SMT DEF Fut
  <2> QED  BY <1>0, <1>4, <2>1, <2>2, OneKeepsWorkers DEF AttachHandler
<1> QED  BY <1>1, <1>2, <1>3, <1>4, ForeignKeepsWorkers DEF User

LEMMA DispatchKeepsWorkers ==
  ASSUME IInv, Dispatch
  PROVE  WorkersKept
<1> SUFFICES ASSUME NEW a \in Fut, PassOn(a) \/ CallUser(a) \/ CallForward(a) \/ CallAttach(a)
             PROVE  WorkersKept
  BY DEF Dispatch
<1>1. Begin(a)
  BY DEF PassOn, CallUser, CallForward, CallAttach
<1>2. a \in Range(queue) /\ a \in armed /\ kind[a] # "worker"
  <2>1. queue \in Seq(Fut) /\ queue # <<>> /\ IsInjective(queue) /\ a = Head(queue)
    BY <1>1 DEF IInv, TypeOK, HandlesReady, Begin
  <2>2. a \in Range(queue)
    BY <2>1, TailOfQueue
  <2> QED  BY <2>2 DEF IInv, HandlesReady, RunsInv
<1>3. CASE PassOn(a)
  <2>1. Settle(Tail(queue), a, cbResolver[a]) /\ UNCHANGED <<made, kind, parent, subject>>
    BY <1>3 DEF PassOn
  <2> QED  BY <1>2, <2>1, SettleKeepsWorkers
<1>4. CASE CallUser(a) \/ CallAttach(a)
  BY <1>4, SameKeepsWorkers DEF CallUser, CallAttach
<1>5. CASE CallForward(a)
  <2>1. /\ Settle(Tail(queue), subject[a], cbResolver[a]) /\ UNCHANGED <<made, kind, parent, subject>>
        /\ kind[a] \in Forwarders
    BY <1>5 DEF CallForward
  <2>2. \E t \in Fut : kind[t] = "fwdThen" /\ subject[t] = subject[a]
    <3>1. CASE kind[a] = "fwdThen"
      BY <3>1
    <3>2. CASE kind[a] = "fwdError"
      <4>1. a - 1 \in Made /\ kind[a - 1] = "fwdThen"
        BY <3>2 DEF IInv, PairInv
      <4>2. a - 1 \in Fut /\ (a - 1) + 1 = a
        <5>1. a - 1 \in 1..made /\ made \in 0..MaxFutures
          BY <4>1 DEF Made, IInv, TypeOK
        <5> QED  BY <5>1, MaxFuturesAssumption, SMT DEF Fut
      <4>3. subject[(a - 1) + 1] = subject[a - 1]
        BY <4>1, <4>2 DEF IInv, PairInv
      <4> QED  BY <4>1, <4>2, <4>3
    <3> QED  BY <2>1, <3>1, <3>2 DEF Forwarders
  <2>3. subject[a] \in Fut
    BY <2>2, PairFacts
  <2> QED  BY <2>1, <2>2, <2>3, SettleKeepsWorkers DEF ForwardsTo
<1> QED  BY <1>3, <1>4, <1>5

LEMMA ReturnsKeepWorkers ==
  ASSUME IInv, Return
  PROVE  WorkersKept
<1>1. ASSUME NEW o, running # 0, Finish(o)  PROVE WorkersKept
  <2>1. Settle(queue, running, o) /\ UNCHANGED <<made, kind, parent, subject>>
    BY <1>1 DEF Finish
  <2>2. running \in Fut /\ kind[running] # "worker"
    BY <1>1, RunningFacts
  <2> QED  BY <2>1, <2>2, SettleKeepsWorkers
<1> QED  BY <1>1, ReturnKeepsWorkers DEF Return, ReturnValue, ReturnThrow

LEMMA NextKeepsWorkers ==
  ASSUME IInv, Next
  PROVE  WorkersKept
<1>1. CASE Close
  BY <1>1, SameKeepsWorkers DEF Close, AsyncClosed
<1> QED  BY <1>1, UserKeepsWorkers, DispatchKeepsWorkers, ReturnsKeepWorkers DEF Next

-----------------------------------------------------------------------------
(* The steps of workers. *)

\* native::worker(loop, fn).
LEMMA StartWorkerInv ==
  ASSUME WInv, StartWorker
  PROVE  WInv'
<1> DEFINE n == made + 1
<1>1. /\ Create("worker", 0, 0)
      /\ UNCHANGED <<resolver, actions, asyncVars, running, runs, result, returned>>
      /\ work' = [work EXCEPT ![n] = "pending"]
  BY DEF StartWorker
<1>2. IInv'
  BY <1>1, NewFutureInv DEF WInv, asyncVars
<1>3. Creates(n, "worker", 0, 0)
  <2>1. 0 \in 0..MaxFutures /\ "worker" \in Kinds
    BY MaxFuturesAssumption DEF Kinds
  <2> QED  BY <1>1, <2>1, CreateFacts DEF WInv
<1> HIDE DEF n
<1>4. IInv /\ WorkersFit
  BY DEF WInv
<1>5. /\ n \in Fut /\ n \notin Made /\ kind[n] = "none" /\ resolver[n] = Null
      /\ \A b \in Fut : kind'[b] = (IF b = n THEN "worker" ELSE kind[b])
      /\ \A b \in Fut : parent'[b] = (IF b = n THEN 0 ELSE parent[b])
      /\ \A b \in Fut : subject'[b] = (IF b = n THEN 0 ELSE subject[b])
      /\ Made \subseteq Made'
  <2>1. Made \subseteq Made'
    BY <1>3, <1>4, SMT DEF Made, Creates, IInv, TypeOK
  <2> QED  BY <1>3, <1>4, <2>1, UnmadeNone DEF Creates
<1>6. /\ work \in [Fut -> WorkStates] /\ result \in [Fut -> Outcomes] /\ returned \in [Fut -> 0..MaxFutures]
      /\ work' \in [Fut -> WorkStates] /\ result' = result /\ returned' = returned
      /\ \A b \in Fut : work'[b] = IF b = n THEN "pending" ELSE work[b]
  BY <1>1, <1>4, <1>5 DEF WorkersFit, WorkStates
<1>7. \A t \in Fut : kind[t] = "fwdThen" => subject[t] # n /\ subject[t] \in Made
  BY <1>4, <1>5 DEF IInv, ForwardInv, PairState
<1>8. \A t, w \in Fut : ForwardsTo(t, w)' <=> ForwardsTo(t, w)
  BY <1>5 DEF ForwardsTo
<1>9. ASSUME NEW w \in Fut  PROVE WorkerFits(w)'
  <2>1. WorkerFits(w)
    BY <1>4 DEF WorkersFit
  <2>2. CASE w = n
    <3>1. result[n] = Null /\ returned[n] = 0
      BY <2>1, <2>2, <1>5 DEF WorkerFits
    <3> QED  BY <1>1, <1>5, <1>6, <1>7, <1>8, <2>2, <3>1 DEF WorkerFits, ForwardsTo, Settled
  <2>3. CASE w # n
    <3>1. /\ work'[w] = work[w] /\ kind'[w] = kind[w] /\ result'[w] = result[w]
          /\ returned'[w] = returned[w] /\ resolver'[w] = resolver[w]
      BY <1>1, <1>5, <1>6, <2>3
    <3>2. \A t \in Fut : ForwardsTo(t, w) => parent'[t] = parent[t]
      BY <1>5 DEF ForwardsTo
    <3> QED  BY <1>5, <1>8, <2>1, <3>1, <3>2 DEF WorkerFits, Settled
  <2> QED  BY <2>2, <2>3
<1>10. WorkersFit'
  BY <1>6, <1>9 DEF WorkersFit
<1> QED  BY <1>2, <1>10 DEF WInv

\* A step of the pool, which changes nothing of the futures.
LEMMA WorkMoves ==
  ASSUME WInv, UNCHANGED vars, NEW w \in Fut,
         \A v \in Fut : v # w =>
           work'[v] = work[v] /\ result'[v] = result[v] /\ returned'[v] = returned[v],
         work' \in [Fut -> WorkStates], result' \in [Fut -> Outcomes],
         returned' \in [Fut -> 0..MaxFutures], WorkerFits(w)'
  PROVE  WInv'
<1>1. IInv'
  BY StutterInv DEF WInv
<1>2. kind' = kind /\ resolver' = resolver /\ subject' = subject /\ parent' = parent /\ Made' = Made
  BY DEF vars, Made
<1>3. ASSUME NEW v \in Fut, v # w  PROVE WorkerFits(v)'
  <2>1. WorkerFits(v)
    BY DEF WInv, WorkersFit
  <2> QED  BY <1>2, <1>3, <2>1 DEF WorkerFits, ForwardsTo, Settled
<1> QED  BY <1>1, <1>3 DEF WInv, WorkersFit

LEMMA PoolInv ==
  ASSUME WInv, Pool
  PROVE  WInv'
<1>0. /\ work \in [Fut -> WorkStates] /\ result \in [Fut -> Outcomes]
      /\ returned \in [Fut -> 0..MaxFutures] /\ \A v \in Fut : WorkerFits(v)
  BY DEF WInv, WorkersFit
<1>1. ASSUME UNCHANGED vars  PROVE /\ kind' = kind /\ resolver' = resolver /\ subject' = subject
                                   /\ parent' = parent /\ Made' = Made
  BY <1>1 DEF vars, Made
<1>2. ASSUME NEW w \in Fut, Worker(w)  PROVE WInv'
  <2>1. /\ work[w] = "pending" /\ work' = [work EXCEPT ![w] = "working"]
        /\ UNCHANGED vars /\ result' = result /\ returned' = returned
    BY <1>2 DEF Worker
  <2>2. work' \in [Fut -> WorkStates] /\ work'[w] = "working" /\ \A v \in Fut : v # w => work'[v] = work[v]
    BY <1>0, <2>1 DEF WorkStates
  <2>3. WorkerFits(w)'
    BY <1>0, <1>1, <2>1, <2>2 DEF WorkerFits, ForwardsTo, Settled
  <2> QED  BY <1>0, <2>1, <2>2, <2>3, WorkMoves
<1>3. ASSUME NEW w \in Fut, NEW o \in Outcomes, WorkerReturns(w, o)  PROVE WInv'
  <2>1. /\ work[w] = "working" /\ work' = [work EXCEPT ![w] = "done"]
        /\ result' = [result EXCEPT ![w] = o] /\ o # Null
        /\ UNCHANGED vars /\ returned' = returned
    BY <1>3, OutcomeFacts DEF WorkerReturns
  <2>2. /\ work' \in [Fut -> WorkStates] /\ work'[w] = "done" /\ \A v \in Fut : v # w => work'[v] = work[v]
        /\ result' \in [Fut -> Outcomes] /\ result'[w] = o /\ \A v \in Fut : v # w => result'[v] = result[v]
    BY <1>0, <2>1 DEF WorkStates
  <2>3. WorkerFits(w)'
    BY <1>0, <1>1, <2>1, <2>2 DEF WorkerFits, ForwardsTo, Settled
  <2> QED  BY <1>0, <2>1, <2>2, <2>3, WorkMoves
<1>4. ASSUME NEW w \in Fut, NEW g \in Fut, WorkerReturnsFuture(w, g)  PROVE WInv'
  <2>1. /\ work[w] = "working" /\ work' = [work EXCEPT ![w] = "done"]
        /\ returned' = [returned EXCEPT ![w] = g] /\ g \in Made
        /\ UNCHANGED vars /\ result' = result
    BY <1>4 DEF WorkerReturnsFuture
  <2>2. g \in 0..MaxFutures /\ g # 0
    BY MaxFuturesAssumption, SMT DEF Fut
  <2>3. /\ work' \in [Fut -> WorkStates] /\ work'[w] = "done" /\ \A v \in Fut : v # w => work'[v] = work[v]
        /\ returned' \in [Fut -> 0..MaxFutures] /\ returned'[w] = g
        /\ \A v \in Fut : v # w => returned'[v] = returned[v]
    BY <1>0, <2>1, <2>2 DEF WorkStates
  <2>4. WorkerFits(w)'
    BY <1>0, <1>1, <2>1, <2>2, <2>3 DEF WorkerFits, ForwardsTo, Settled
  <2> QED  BY <1>0, <2>1, <2>3, <2>4, WorkMoves
<1> QED  BY <1>2, <1>3, <1>4 DEF Pool

\* WorkerAfter gives the function's own result to the future.
LEMMA AfterSettles ==
  ASSUME WInv, NEW w \in Fut, WorkerAfter(w), returned[w] = 0
  PROVE  WInv'
<1>1. /\ work[w] = "done" /\ work' = [work EXCEPT ![w] = "closed"]
      /\ UNCHANGED <<closing, running, runs, result, returned>>
      /\ Settle(queue, w, result[w])
      /\ UNCHANGED <<made, kind, parent, subject, actions>>
  BY DEF WorkerAfter
<1>2. /\ work \in [Fut -> WorkStates] /\ result \in [Fut -> Outcomes]
      /\ returned \in [Fut -> 0..MaxFutures] /\ \A v \in Fut : WorkerFits(v)
      /\ IInv
  BY DEF WInv, WorkersFit
<1>3. WorkerFits(w)
  BY <1>2
<1>4. /\ kind[w] = "worker" /\ ~Settled(w) /\ result[w] # Null
      /\ \A t \in Fut : kind[t] = "fwdThen" => subject[t] # w
  BY <1>1, <1>3 DEF WorkerFits, ForwardsTo
<1>5. IInv'
  BY <1>1, <1>2, <1>4, OutsideSettleInv
<1>6. /\ \A v \in Fut : resolver'[v] = IF v = w THEN result[w] ELSE resolver[v]
      /\ \A v \in Fut : work'[v] = IF v = w THEN "closed" ELSE work[v]
      /\ work' \in [Fut -> WorkStates] /\ Made' = Made
  BY <1>1, <1>2, <1>4 DEF Settle, IInv, TypeOK, WorkStates, Made
<1>7. ASSUME NEW v \in Fut  PROVE WorkerFits(v)'
  <2>1. CASE v = w
    BY <1>1, <1>3, <1>4, <1>6, <2>1 DEF WorkerFits
  <2>2. CASE v # w
    <3>1. WorkerFits(v)
      BY <1>2
    <3> QED  BY <1>1, <1>6, <2>2, <3>1 DEF WorkerFits, ForwardsTo, Settled
  <2> QED  BY <2>1, <2>2
<1>8. WorkersFit'
  BY <1>1, <1>2, <1>6, <1>7 DEF WorkersFit
<1> QED  BY <1>5, <1>8 DEF WInv

\* WorkerAfter puts the lambdas on the Future the function returned.
LEMMA AfterForwards ==
  ASSUME WInv, NEW w \in Fut, WorkerAfter(w), returned[w] # 0
  PROVE  WInv'
<1> DEFINE g == returned[w]
           t == made + 1
           e == made + 2
<1>1. /\ work[w] = "done" /\ work' = [work EXCEPT ![w] = "closed"] /\ running = 0
      /\ UNCHANGED <<closing, running, runs, result, returned, resolver>>
      /\ Forward(g, w)
  BY DEF WorkerAfter
<1>2. /\ work \in [Fut -> WorkStates] /\ result \in [Fut -> Outcomes]
      /\ returned \in [Fut -> 0..MaxFutures] /\ \A v \in Fut : WorkerFits(v)
      /\ IInv
  BY DEF WInv, WorkersFit
<1>3. WorkerFits(w)
  BY <1>2
<1>4. /\ kind[w] = "worker" /\ ~Settled(w) /\ g \in Made
      /\ \A u \in Fut : kind[u] = "fwdThen" => subject[u] # w
  BY <1>1, <1>3 DEF WorkerFits, ForwardsTo
<1>5. g \in Fut
  <2>1. g \in 1..made /\ made \in 0..MaxFutures
    BY <1>2, <1>4 DEF Made, IInv, TypeOK
  <2> QED  BY <2>1, MaxFuturesAssumption, SMT DEF Fut
<1> HIDE DEF g
<1>6. IInv'
  <2>1. kind[w] \in (UserKinds \ {"error"}) \cup {"worker"} /\ kind[w] \notin Handlers
    BY <1>4 DEF Handlers
  <2>2. /\ closing \subseteq closing' /\ closing' \subseteq Fut /\ running' = 0
        /\ \A b \in Fut : b \in closing' \cup {running'} <=> b \in closing \cup {running} \cup {}
    BY <1>1, <1>2, Basics
  <2> QED  BY <1>1, <1>2, <1>4, <1>5, <2>1, <2>2, ForwardStep
<1>7. CreatesTwo(t, e)
  BY <1>1, <1>2, CreateTwoFacts DEF Forward
<1>8. /\ kind' = [kind EXCEPT ![t] = "fwdThen", ![e] = "fwdError"]
      /\ parent' = [parent EXCEPT ![t] = g, ![e] = t]
      /\ subject' = [subject EXCEPT ![t] = w, ![e] = w]
  BY <1>1 DEF Forward
<1> HIDE DEF t, e
<1>9. /\ t \notin Made /\ e \notin Made /\ t \in Fut /\ e \in Fut /\ t # e
      /\ kind[t] = "none" /\ kind[e] = "none"
  BY <1>7 DEF CreatesTwo
<1>10. Made \subseteq Made'
  BY <1>2, <1>7, SMT DEF Made, CreatesTwo, IInv, TypeOK
<1>11. /\ kind'[t] = "fwdThen" /\ kind'[e] = "fwdError" /\ parent'[t] = g /\ subject'[t] = w
       /\ \A b \in Fut : b # t /\ b # e =>
            kind'[b] = kind[b] /\ subject'[b] = subject[b] /\ parent'[b] = parent[b]
  BY <1>2, <1>8, <1>9 DEF IInv, TypeOK
<1>12. /\ \A v \in Fut : work'[v] = IF v = w THEN "closed" ELSE work[v]
       /\ work' \in [Fut -> WorkStates]
  BY <1>1, <1>2 DEF WorkStates
<1>13. \A u, v \in Fut : v # w => (ForwardsTo(u, v)' <=> ForwardsTo(u, v))
  BY <1>9, <1>11 DEF ForwardsTo
<1>14. \A u, v \in Fut : ForwardsTo(u, v) => parent'[u] = parent[u]
  BY <1>9, <1>11 DEF ForwardsTo
<1>15. ASSUME NEW v \in Fut  PROVE WorkerFits(v)'
  <2>1. CASE v = w
    <3>1. kind'[w] = "worker"
      BY <1>4, <1>9, <1>11
    <3>2. \E u \in Fut : ForwardsTo(u, w)' /\ parent'[u] = returned'[w]
      <4>1. PICK u \in Fut : u = t
        BY <1>9
      <4>2. kind'[u] = "fwdThen" /\ subject'[u] = w /\ parent'[u] = returned'[w]
        BY <1>1, <1>11, <4>1 DEF g
      <4> QED  BY <4>2 DEF ForwardsTo
    <3>3. work'[w] = "closed" /\ returned'[w] # 0 /\ returned'[w] \in Made'
      BY <1>1, <1>4, <1>10, <1>12 DEF g
    <3> QED  BY <1>9, <2>1, <3>1, <3>2, <3>3 DEF WorkerFits
  <2>2. CASE v # w
    <3>1. WorkerFits(v)
      BY <1>2
    <3>2. kind'[v] = "worker" <=> kind[v] = "worker"
      BY <1>9, <1>11
    <3> QED  BY <1>1, <1>10, <1>12, <1>13, <1>14, <2>2, <3>1, <3>2 DEF WorkerFits, Settled
  <2> QED  BY <2>1, <2>2
<1>16. WorkersFit'
  BY <1>1, <1>2, <1>12, <1>15 DEF WorkersFit
<1> QED  BY <1>6, <1>16 DEF WInv

-----------------------------------------------------------------------------
(* The theorems. *)

LEMMA InitWorkers ==
  ASSUME WInit
  PROVE  WInv
<1>1. IInv
  BY InitInv DEF WInit
<1>2. /\ work = [f \in Fut |-> "none"] /\ result = [f \in Fut |-> Null] /\ returned = [f \in Fut |-> 0]
      /\ kind = [f \in Fut |-> "none"]
  BY DEF WInit, Init
<1>3. 0 \in 0..MaxFutures /\ Null \in Outcomes
  BY MaxFuturesAssumption DEF Outcomes
<1>4. WorkersFit
  BY <1>2, <1>3 DEF WorkersFit, WorkerFits, WorkStates
<1> QED  BY <1>1, <1>4 DEF WInv

LEMMA NextWorkers ==
  ASSUME WInv, [WNext]_wvars
  PROVE  WInv'
<1>1. CASE Next /\ UNCHANGED workVars
  <2>1. IInv'
    BY <1>1, NextInv DEF WInv
  <2>2. WorkersFit'
    BY <1>1, NextKeepsWorkers, KeptFits DEF WInv
  <2> QED  BY <2>1, <2>2 DEF WInv
<1>2. CASE After
  BY <1>2, AfterSettles, AfterForwards DEF After
<1>3. CASE UNCHANGED wvars
  <2>1. UNCHANGED vars /\ UNCHANGED workVars
    BY <1>3 DEF wvars, workVars
  <2>2. IInv'
    BY <2>1, StutterInv DEF WInv
  <2>3. WorkersKept
    BY <2>1, SameKeepsWorkers DEF vars
  <2> QED  BY <2>1, <2>2, <2>3, KeptFits DEF WInv
<1> QED  BY <1>1, <1>2, <1>3, StartWorkerInv, PoolInv DEF WNext

\* The invariant of the futures holds beside workers, and the result of every worker is
\* in exactly one place: with its function, in _resolver, or in its future or the
\* lambdas that will settle it.
THEOREM WorkerInvariance == WSpec => []WInv
<1>1. WInit => WInv
  BY InitWorkers
<1>2. WInv /\ [WNext]_wvars => WInv'
  BY NextWorkers
<1> QED  BY <1>1, <1>2, PTL DEF WSpec

\* Types, with workers: libuv's states of their requests, and what _resolver holds.
THEOREM WorkerTypeCorrect == WSpec => []WorkTypeOK
<1>1. WInv => WorkTypeOK
  BY DEF WInv, IInv, WorkersFit, WorkTypeOK
<1> QED  BY <1>1, WorkerInvariance, PTL

LEMMA Adopts ==
  ASSUME IInv
  PROVE  AdoptsReturned
<1> SUFFICES ASSUME NEW t \in Fut, kind[t] = "fwdThen", Settled(subject[t])
             PROVE  resolver[subject[t]] = resolver[parent[t]]
  BY DEF AdoptsReturned
<1>1. PairState(t) /\ parent[t] \in Fut /\ (runs[t] = 1 => Settled(parent[t]))
  BY PairFacts
<1>2. runs[t] = 1
  BY <1>1, Basics DEF PairState
<1>3. resolver[parent[t]].tag \in Tags
  BY <1>1, <1>2, OutcomeFacts DEF Settled, IInv, TypeOK
<1> QED  BY <1>1, <1>2, <1>3 DEF PairState, Tags

\* Workers disturb no future: no assertion fails, no handler is missed or told early, and
\* Futures that functions return are adopted, whatever the pool does meanwhile.
THEOREM FuturesHoldWithWorkers == WSpec => []FuturesHold
<1>1. WInv => FuturesHold
  BY Adopts DEF WInv, IInv, AttachInv, FuturesHold
<1> QED  BY <1>1, WorkerInvariance, PTL

LEMMA OutcomeIsResult ==
  ASSUME WInv
  PROVE  WorkerOutcome
<1> SUFFICES ASSUME NEW w \in Fut, kind[w] = "worker", Settled(w)
             PROVE  /\ work[w] = "closed"
                    /\ resolver[w] = IF returned[w] = 0 THEN result[w]
                                     ELSE resolver[returned[w]]
  BY DEF WorkerOutcome
<1>1. WorkerFits(w) /\ work[w] \in WorkStates /\ IInv
  BY DEF WInv, WorkersFit
<1>2. work[w] = "closed"
  BY <1>1 DEF WorkerFits, WorkStates
<1>3. CASE returned[w] = 0
  BY <1>1, <1>2, <1>3 DEF WorkerFits
<1>4. CASE returned[w] # 0
  <2>1. PICK t \in Fut : ForwardsTo(t, w) /\ parent[t] = returned[w]
    BY <1>1, <1>2, <1>4 DEF WorkerFits
  <2>2. resolver[subject[t]] = resolver[parent[t]]
    BY <1>1, <2>1, Adopts DEF AdoptsReturned, ForwardsTo
  <2> QED  BY <1>2, <1>4, <2>1, <2>2 DEF ForwardsTo
<1> QED  BY <1>2, <1>3, <1>4

\* A worker's future has the result of its function, or of the Future that it returned,
\* and nothing else: WorkerAfter and the forwarding lambdas never both settle it.
THEOREM WorkerResultArrives == WSpec => []WorkerOutcome
<1> QED  BY WorkerInvariance, OutcomeIsResult, PTL

-----------------------------------------------------------------------------
(* Workers beside the loop: the order of attachment, and Promises. *)

LEMMA WorkersOrder ==
  ASSUME WInv, WInv', OrderInv, [WNext]_wvars
  PROVE  OrderInv' /\ Simulated
<1>0. IInv /\ IInv'
  BY DEF WInv
<1>1. CASE Next
  BY <1>0, <1>1, NextOrder, NextSimulated
<1>2. ASSUME UNCHANGED <<resolver, actions, queue, runs>>
      PROVE  OrderInv' /\ Simulated
  BY <1>0, <1>2, PlainOrder, QuietSimulated DEF Dequeues
<1>3. CASE StartWorker
  BY <1>2, <1>3 DEF StartWorker, asyncVars
<1>4. CASE Pool
  BY <1>2, <1>4 DEF Pool, Worker, WorkerReturns, WorkerReturnsFuture, vars
<1>5. CASE After
  <2>1. PICK w \in Fut : WorkerAfter(w)
    BY <1>5 DEF After
  <2>2. /\ work[w] = "done" /\ runs' = runs /\ Dequeues(queue)
        /\ WorkerFits(w) /\ returned[w] \in 0..MaxFutures /\ result[w] \in Outcomes
    BY <2>1 DEF WorkerAfter, WInv, WorkersFit, Dequeues
  <2>3. CASE returned[w] = 0 /\ Settle(queue, w, result[w]) /\ actions' = actions
    <3>1. result[w] \in Outcomes \ {Null}
      BY <2>2, <2>3 DEF WorkerFits
    <3> QED BY <1>0, <2>2, <2>3, <3>1, SettleOrder, SettleSimulated
  <2>4. CASE returned[w] # 0 /\ Forward(returned[w], w) /\ resolver' = resolver
    <3>1. returned[w] \in Fut /\ returned[w] \in Made
      BY <2>2, <2>4, MaxFuturesAssumption, SMT DEF WorkerFits, Fut
    <3> QED BY <1>0, <2>2, <2>4, <3>1, ForwardOrder, ForwardRegisters DEF Simulated
  <2> QED BY <2>1, <2>3, <2>4 DEF WorkerAfter
<1>6. CASE UNCHANGED wvars
  BY <1>2, <1>6 DEF wvars, vars
<1> QED BY <1>1, <1>3, <1>4, <1>5, <1>6 DEF WNext

LEMMA WorkersOrderInvariance == WSpec => [](WInv /\ OrderInv)
<1>1. WInit => WInv /\ OrderInv
  BY InitWorkers, InitOrder DEF WInit
<1>2. WInv /\ OrderInv /\ [WNext]_wvars => (WInv /\ OrderInv)'
  BY NextWorkers, WorkersOrder
<1> QED BY <1>1, <1>2, PTL DEF WSpec

\* Functions on the pool do not disturb the order either: the actions of one future
\* run in the order they were attached, on the loop or from a pool thread.
THEOREM OrderKeptWithWorkers == WSpec => []AttachmentOrder
<1>1. OrderInv => AttachmentOrder
  BY DEF OrderInv, AttachmentOrder
<1> QED BY <1>1, WorkersOrderInvariance, PTL

\* Futures and workers together still are Promises: WorkerAfter settles a pending
\* future, or puts the lambdas behind the handlers of a returned Future.
THEOREM WorkersRefine == WSpec => ImplementsPromises
<1>1. WInit => P!PInit
  BY InitOrder DEF WInit
<1>2. WInv /\ WInv' /\ OrderInv /\ [WNext]_wvars => [P!PNext]_(P!pvars)
  BY WorkersOrder DEF Simulated, P!pvars
<1> QED BY <1>1, <1>2, WorkersOrderInvariance, PTL DEF WSpec, ImplementsPromises, P!PSpec
=============================================================================
