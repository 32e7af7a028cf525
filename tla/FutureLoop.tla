----------------------------- MODULE FutureLoop -----------------------------
(***************************************************************************)
(* Futures, promises and callbacks on one event loop.                      *)
(*                                                                         *)
(* A FutureShared object is an element of 1..MaxFutures.  Every callback   *)
(* object (ActionCallback, ActionCallbackError, ActionCallbackFinally)     *)
(* owns exactly one result future, so the two share an identity: future a  *)
(* is the result of action a.  A promise is a future without an action.    *)
(*                                                                         *)
(* A value or an error is represented by the future that first produced it *)
(* (the promise that was settled, or the action whose callback returned or *)
(* threw): this is all the code can tell apart about a payload.            *)
(*                                                                         *)
(* One step is one uninterrupted piece of code between two points where    *)
(* another thread can enqueue: the start of a callback, one call made by   *)
(* the callback, its return.                                               *)
(***************************************************************************)
EXTENDS Integers, Sequences, Functions

CONSTANTS
  MaxFutures,    \* bound on the FutureShared objects ever created
  HandlerKinds   \* the handlers user code attaches: then, error, finally

Handlers == {"then", "error", "finally"}

ASSUME MaxFuturesAssumption == MaxFutures \in Nat
ASSUME HandlerKindsAssumption == HandlerKinds \subseteq Handlers

VARIABLES
  made,        \* number of FutureShared objects created; made + 1 is the next
  kind,        \* the operation that created each of them
  parent,      \* the future an action waits for, 0 when it waits for none
  subject,     \* forwarding lambdas: the future they settle;
               \* attach job: the action it attaches
  resolver,    \* FutureShared::_resolver
  actions,     \* FutureShared::_actions
  cbResolver,  \* ActionCallbackBase::_resolver
  armed,       \* the actions with AsyncBase::_instance and _uv_async.data set
  queue,       \* libuv: async handles sent and not yet called, oldest first
  closing,     \* libuv: handles passed to uv_close, AsyncClosed still to come
  running,     \* the action whose function is on the stack, 0 when none is
  runs,        \* history: how often executeAsync ran for the action
  failed       \* an NNATIVE_ASSERT, or resolve/reject called by the library
               \* itself on a settled future, has thrown

futureVars == <<made, kind, parent, subject, resolver, actions>>
asyncVars == <<cbResolver, armed, queue, closing, failed>>
vars == <<made, kind, parent, subject, resolver, actions,
          cbResolver, armed, queue, closing, running, runs, failed>>

Fut == 1..MaxFutures

UserKinds == Handlers \cup {"async"}         \* their function is user code
Forwarders == {"fwdThen", "fwdError"}        \* lambdas of a returned Future
Kinds == UserKinds \cup Forwarders \cup {"none", "promise", "attach", "worker"}

Tags == {"value", "error"}
Null == [tag |-> "null", from |-> 0]         \* an empty std::unique_ptr
Outcomes == [tag : Tags, from : Fut] \cup {Null}
Value(f) == [tag |-> "value", from |-> f]    \* FutureSharedResolverValue
Error(f) == [tag |-> "error", from |-> f]    \* FutureSharedResolverError

Made == 1..made
Settled(f) == resolver[f] # Null

TypeOK ==
  /\ made \in 0..MaxFutures
  /\ kind \in [Fut -> Kinds]
  /\ parent \in [Fut -> 0..MaxFutures]
  /\ subject \in [Fut -> 0..MaxFutures]
  /\ resolver \in [Fut -> Outcomes]
  /\ actions \in [Fut -> Seq(Fut)]
  /\ cbResolver \in [Fut -> Outcomes]
  /\ armed \in SUBSET Fut
  /\ queue \in Seq(Fut)
  /\ closing \in SUBSET Fut
  /\ running \in 0..MaxFutures
  /\ runs \in [Fut -> Nat]
  /\ failed \in BOOLEAN

Init ==
  /\ made = 0
  /\ kind = [f \in Fut |-> "none"]
  /\ parent = [f \in Fut |-> 0]
  /\ subject = [f \in Fut |-> 0]
  /\ resolver = [f \in Fut |-> Null]
  /\ actions = [f \in Fut |-> <<>>]
  /\ cbResolver = [f \in Fut |-> Null]
  /\ armed = {}
  /\ queue = <<>>
  /\ closing = {}
  /\ running = 0
  /\ runs = [f \in Fut |-> 0]
  /\ failed = FALSE

-----------------------------------------------------------------------------
(* ActionCallbackBase::resolve/reject and AsyncBase::enqueue for a list of  *)
(* actions that receive the same outcome.                                   *)

Idle(a) == cbResolver[a] = Null /\ a \notin armed

\* The assertions of resolve/reject and enqueue, for every action of the list.
Enqueueable(list) ==
  /\ \A a \in Range(list) : Idle(a)
  /\ IsInjective(list)

\* q is what is left of the queue when the actions are added to it.
Enqueue(q, list, o) ==
  /\ cbResolver' = [a \in Fut |-> IF a \in Range(list) THEN o ELSE cbResolver[a]]
  /\ armed' = armed \cup Range(list)
  /\ queue' = q \o list
  /\ failed' = ~Enqueueable(list)

\* FutureShared::resolve/reject called by the library itself: the outcome is
\* stored, then every attached action is enqueued with it, in attachment order.
\* A future that is already settled throws PromiseAlreadySatisfied: in the
\* library's own calls nothing handles it and the outcome o is lost.
Settle(q, f, o) ==
  IF Settled(f)
    THEN /\ failed' = TRUE
         /\ queue' = q
         /\ UNCHANGED <<resolver, cbResolver, armed>>
    ELSE /\ resolver' = [resolver EXCEPT ![f] = o]
         /\ Enqueue(q, actions[f], o)

(* Variants of Attach with a slip in it. *)

\* push_back of an action that was moved from.
AttachMovedFrom(q, f, a) ==
  /\ actions' = [actions EXCEPT ![f] = Append(@, 0)]
  /\ Enqueue(q, IF Settled(f) THEN <<a>> ELSE <<>>, resolver[f])

\* The check of _resolver after push_back is missing.
AttachNoDelivery(q, f, a) ==
  /\ actions' = [actions EXCEPT ![f] = Append(@, a)]
  /\ Enqueue(q, <<>>, resolver[f])

\* A settled future delivers to all its actions again.
AttachDeliversAll(q, f, a) ==
  /\ actions' = [actions EXCEPT ![f] = Append(@, a)]
  /\ Enqueue(q, IF Settled(f) THEN Append(actions[f], a) ELSE <<>>, resolver[f])

\* The action goes to the front of _actions.
AttachFront(q, f, a) ==
  /\ actions' = [actions EXCEPT ![f] = <<a>> \o @]
  /\ Enqueue(q, IF Settled(f) THEN <<a>> ELSE <<>>, resolver[f])

\* push_back on _actions, then the immediate delivery when f is settled.
Attach(q, f, a) ==
  /\ actions' = [actions EXCEPT ![f] = Append(@, a)]
  /\ Enqueue(q, IF Settled(f) THEN <<a>> ELSE <<>>, resolver[f])

\* A new FutureShared, with its action when k is not "promise".
Create(k, p, s) ==
  /\ made < MaxFutures
  /\ made' = made + 1
  /\ kind' = [kind EXCEPT ![made + 1] = k]
  /\ parent' = [parent EXCEPT ![made + 1] = p]
  /\ subject' = [subject EXCEPT ![made + 1] = s]

-----------------------------------------------------------------------------
(* What user code calls.  It runs on the loop thread, outside a callback    *)
(* (main before run(), a timer or I/O callback) or inside one.              *)

UserCode == ~failed /\ (running # 0 => kind[running] \in UserKinds)

\* Promise<R>(loop); Promise::reset() is the same on a fresh future.
NewPromise ==
  /\ UserCode
  /\ Create("promise", 0, 0)
  /\ UNCHANGED <<resolver, actions, cbResolver, armed, queue, closing, running,
                 runs, failed>>

\* Variant: the check for a settled future is missing.
PromiseResettle(f, tag) ==
  /\ UserCode
  /\ kind[f] = "promise"
  /\ resolver' = [resolver EXCEPT ![f] = [tag |-> tag, from |-> f]]
  /\ Enqueue(queue, <<>>, Null)
  /\ UNCHANGED <<made, kind, parent, subject, actions, closing, running, runs>>

\* Promise::resolve and Promise::reject.  On a settled future both throw
\* PromiseAlreadySatisfied, a FutureError, before they change anything: see
\* ReturnThrow.
PromiseSettle(f, tag) ==
  /\ UserCode
  /\ kind[f] = "promise" /\ ~Settled(f)
  /\ Settle(queue, f, [tag |-> tag, from |-> f])
  /\ UNCHANGED <<made, kind, parent, subject, actions, closing, running, runs>>

\* Future::then, error and finally, called on the loop thread.
AttachHandler(f, k) ==
  /\ UserCode
  /\ f \in Made
  /\ Create(k, f, 0)
  /\ Attach(queue, f, made + 1)
  /\ UNCHANGED <<resolver, closing, running, runs>>

\* native::async(loop, fn), from any thread: the action is enqueued at once.
Async ==
  /\ ~failed
  /\ Create("async", 0, 0)
  /\ Enqueue(queue, <<made + 1>>, Value(made + 1))
  /\ UNCHANGED <<resolver, actions, closing, running, runs>>

\* Future::then, error and finally called on another thread: the action is
\* created at once and an async job is posted that will attach it.
ForeignAttach(f, k) ==
  /\ ~failed
  /\ f \in Made
  /\ made + 1 < MaxFutures
  /\ made' = made + 2
  /\ kind' = [kind EXCEPT ![made + 1] = k, ![made + 2] = "attach"]
  /\ parent' = [parent EXCEPT ![made + 1] = f]
  /\ subject' = [subject EXCEPT ![made + 2] = made + 1]
  /\ Enqueue(queue, <<made + 2>>, Value(made + 2))
  /\ UNCHANGED <<resolver, actions, closing, running, runs>>

-----------------------------------------------------------------------------
(* The loop: AsyncBase::Async for the oldest handle, in two or more steps.  *)

\* Does the action's resolveCb/rejectCb call its function for outcome o?
Calls(a, o) ==
  /\ kind[a] \in {"then", "fwdThen"} => o.tag = "value"
  /\ kind[a] \in {"error", "fwdError"} => o.tag = "error"

\* executeAsync of the oldest handle.
Begin(a) ==
  /\ ~failed /\ running = 0
  /\ queue # <<>> /\ a = Head(queue)
  /\ runs' = [runs EXCEPT ![a] = @ + 1]

\* Variant: a new error is made of the outcome that is passed on.
PassOnNewError(a) ==
  /\ Begin(a)
  /\ ~Calls(a, cbResolver[a])
  /\ Settle(Tail(queue), a, Error(a))
  /\ closing' = closing \cup {a}
  /\ UNCHANGED <<made, kind, parent, subject, actions, running>>

\* A then on an error, an error on a value: the outcome is passed on, and
\* Async ends with uv_close.
PassOn(a) ==
  /\ Begin(a)
  /\ ~Calls(a, cbResolver[a])
  /\ Settle(Tail(queue), a, cbResolver[a])
  /\ closing' = closing \cup {a}
  /\ UNCHANGED <<made, kind, parent, subject, actions, running>>

\* The user's function starts.
CallUser(a) ==
  /\ Begin(a)
  /\ kind[a] \in UserKinds
  /\ Calls(a, cbResolver[a])
  /\ running' = a
  /\ queue' = Tail(queue)
  /\ UNCHANGED <<made, kind, parent, subject, resolver, actions, cbResolver,
                 armed, closing, failed>>

\* Variant: the lambda settles the future with an outcome of its own.
CallForwardOwnValue(a) ==
  /\ Begin(a)
  /\ kind[a] \in Forwarders
  /\ Calls(a, cbResolver[a])
  /\ running' = a
  /\ Settle(Tail(queue), subject[a], Value(a))
  /\ UNCHANGED <<made, kind, parent, subject, actions, closing>>

\* The lambda put on a returned Future: it settles the future of the action
\* that got that Future back, with the outcome it was called with.
CallForward(a) ==
  /\ Begin(a)
  /\ kind[a] \in Forwarders
  /\ Calls(a, cbResolver[a])
  /\ running' = a
  /\ Settle(Tail(queue), subject[a], cbResolver[a])
  /\ UNCHANGED <<made, kind, parent, subject, actions, closing>>

\* The job posted by ForeignAttach attaches its action.
CallAttach(a) ==
  /\ Begin(a)
  /\ kind[a] = "attach"
  /\ running' = a
  /\ Attach(Tail(queue), parent[subject[a]], subject[a])
  /\ UNCHANGED <<made, kind, parent, subject, resolver, closing>>

\* Variant: Async does not close the handle.
FinishNoClose(o) ==
  /\ Settle(queue, running, o)
  /\ running' = 0
  /\ UNCHANGED <<made, kind, parent, subject, actions, closing, runs>>

\* callFn ends: the function's result settles the action's future, and Async
\* closes the handle.
Finish(o) ==
  /\ Settle(queue, running, o)
  /\ closing' = closing \cup {running}
  /\ running' = 0
  /\ UNCHANGED <<made, kind, parent, subject, actions, runs>>

ReturnValue ==
  /\ ~failed /\ running # 0
  /\ Finish(Value(running))

\* A FutureError leaves the function: the user's own, or the
\* PromiseAlreadySatisfied of a second resolve or reject of a promise.
ReturnThrow ==
  /\ ~failed /\ running # 0
  /\ kind[running] \in UserKinds
  /\ Finish(Error(running))

\* Variant: the error lambda is missing.
ForwardNoError(g, f) ==
  /\ Create("fwdThen", g, f)
  /\ actions' = [actions EXCEPT ![g] = Append(@, made + 1)]
  /\ Enqueue(queue, IF Settled(g) THEN <<made + 1>> ELSE <<>>, resolver[g])

\* future.then(lambda).error(lambda) on Future g, where the lambdas settle
\* future f with the outcome of g.
Forward(g, f) ==
  LET t == made + 1
      e == made + 2
  IN /\ made + 1 < MaxFutures
     /\ made' = made + 2
     /\ kind' = [kind EXCEPT ![t] = "fwdThen", ![e] = "fwdError"]
     /\ parent' = [parent EXCEPT ![t] = g, ![e] = t]
     /\ subject' = [subject EXCEPT ![t] = f, ![e] = f]
     /\ actions' = [actions EXCEPT ![g] = Append(@, t), ![t] = <<e>>]
     /\ Enqueue(queue, IF Settled(g) THEN <<t>> ELSE <<>>, resolver[g])

\* The function returns Future g: callFn forwards g to the action's future.  An
\* error function cannot do this: its result type is R.
ReturnFuture(g) ==
  /\ ~failed /\ running # 0
  /\ kind[running] \in UserKinds \ {"error"}
  /\ g \in Made
  /\ Forward(g, running)
  /\ closing' = closing \cup {running}
  /\ running' = 0
  /\ UNCHANGED <<resolver, runs>>

\* Variant: closeAsync does not reset the action's resolver.
AsyncClosedNoReset(a) ==
  /\ ~failed /\ running = 0
  /\ a \in closing
  /\ closing' = closing \ {a}
  /\ armed' = armed \ {a}
  /\ UNCHANGED <<made, kind, parent, subject, resolver, actions, cbResolver,
                 queue, running, runs, failed>>

\* AsyncBase::AsyncClosed: data and _instance are cleared, then closeAsync
\* resets the action's resolver.
AsyncClosed(a) ==
  /\ ~failed /\ running = 0
  /\ a \in closing
  /\ closing' = closing \ {a}
  /\ armed' = armed \ {a}
  /\ cbResolver' = [cbResolver EXCEPT ![a] = Null]
  /\ UNCHANGED <<made, kind, parent, subject, resolver, actions, queue,
                 running, runs, failed>>

-----------------------------------------------------------------------------
User ==
  \/ NewPromise
  \/ Async
  \/ \E f \in Fut, tag \in Tags : PromiseSettle(f, tag)
  \/ \E f \in Fut, k \in HandlerKinds : AttachHandler(f, k)
  \/ \E f \in Fut, k \in HandlerKinds : ForeignAttach(f, k)

Dispatch ==
  \E a \in Fut : PassOn(a) \/ CallUser(a) \/ CallForward(a) \/ CallAttach(a)

Return ==
  ReturnValue \/ ReturnThrow \/ \E g \in Fut : ReturnFuture(g)

Close == \E a \in Fut : AsyncClosed(a)

Next == User \/ Dispatch \/ Return \/ Close

Spec == Init /\ [][Next]_vars

\* The loop thread keeps running: a handle that was sent is called, a callback
\* returns, a closed handle gets its close callback.  User code owes nothing.
Fairness == WF_vars(Dispatch) /\ WF_vars(Return) /\ WF_vars(Close)

FairSpec == Spec /\ Fairness

-----------------------------------------------------------------------------
(* Safety. *)

\* No NNATIVE_ASSERT of ActionCallbackBase::resolve/reject or AsyncBase::enqueue
\* fails, and the library never settles a future twice, whatever the order in
\* which user code, other threads and the loop act.
NeverFails == ~failed

\* What the assertions of executeAsync, AsyncClosed and closeAsync need: a handle
\* libuv will call back (sent, being called, or closing) belongs to an action
\* that holds its instance and its resolver, and is in one of these places only.
HandlesReady ==
  /\ IsInjective(queue)
  /\ \A a \in Range(queue) : a \notin closing /\ a # running
  /\ running \notin closing
  /\ \A a \in Fut : a \in armed <=> a \in Range(queue) \cup closing \cup {running}
  /\ \A a \in Fut : a \in armed <=> cbResolver[a] # Null

\* executeAsync runs at most once for an action, although nothing in the code
\* stops an action from being enqueued again after AsyncClosed.
RunsOnce == \A a \in Fut : runs[a] <= 1

\* No wake-up is lost and none is early: an attached action has run or is in the
\* loop's queue exactly when the future it is attached to is settled.
DeliveredIffSettled ==
  \A f \in Fut : \A a \in Range(actions[f]) :
    Settled(f) <=> runs[a] = 1 \/ a \in Range(queue)

\* The actions of one future run in the order they were attached, the ones
\* attached after it was settled included.
AttachmentOrder ==
  \A f \in Fut : \A i, j \in DOMAIN actions[f] :
    i < j /\ runs[actions[f][j]] > 0 => runs[actions[f][i]] > 0

\* A then behind an error and an error behind a value are transparent: their
\* future gets the very outcome of the future they are attached to.
SkippedIsTransparent ==
  \A a \in Fut :
    /\ Settled(a)
    /\ \/ kind[a] = "then" /\ resolver[parent[a]].tag = "error"
       \/ kind[a] = "error" /\ resolver[parent[a]].tag = "value"
    => resolver[a] = resolver[parent[a]]

\* An action whose function returned a Future ends with that Future's outcome,
\* value or error, although the two come back along different lambdas.
AdoptsReturned ==
  \A t \in Fut :
    kind[t] = "fwdThen" /\ Settled(subject[t]) =>
      resolver[subject[t]] = resolver[parent[t]]

(* Action properties. *)

\* The outcome of a future never changes once it is there.
SettledForever == [][\A f \in Fut : Settled(f) => resolver'[f] = resolver[f]]_vars

(* Liveness, under FairSpec. *)

ParentSettled(a) == parent[a] \in {f \in Fut : Settled(f)}
SubjectSettled(a) == subject[a] \in {f \in Fut : Settled(f)}

\* What is attached to a settled future eventually acts, also when another thread
\* attaches it while the future is being settled: a handler is run, and the lambdas
\* of a Future that a function returned have settled the future of that function.
HandlersRun ==
  \A a \in Fut :
    kind[a] \in Handlers \cup Forwarders /\ ParentSettled(a) ~>
      IF kind[a] \in Handlers THEN runs[a] = 1 ELSE SubjectSettled(a)

\* Every handle is eventually closed, so that the loop can end.
HandlesClose == \A a \in Fut : a \in armed ~> a \notin armed

(* Refinement. *)

\* A future's outcome is its resolver; the handlers that were told it are the
\* attached actions that executeAsync has run.
ToldBy == [f \in Fut |-> {a \in Range(actions[f]) : runs[a] > 0}]

P == INSTANCE Promises WITH
  Futures <- Fut,
  Results <- Outcomes \ {Null},
  NoResult <- Null,
  outcome <- resolver,
  waiting <- actions,
  told <- ToldBy

\* The callback machinery implements Promises: whatever the loop, its callbacks
\* and other threads do, a future gets one outcome and every handler is told it
\* once, in the order of attachment.
ImplementsPromises == P!PSpec

-----------------------------------------------------------------------------
(* The inductive invariant behind the safety properties. *)

Waiters == Handlers \cup Forwarders      \* the actions attached to a future

\* The next futures are as Init left them.
UnmadeInv ==
  \A f \in Fut : f > made =>
    /\ kind[f] = "none" /\ parent[f] = 0 /\ subject[f] = 0
    /\ resolver[f] = Null /\ actions[f] = <<>>
    /\ Idle(f) /\ runs[f] = 0

\* Where a handle is tells whether its action ran.
RunsInv ==
  /\ \A a \in Range(queue) : runs[a] = 0
  /\ \A a \in closing : runs[a] = 1
  /\ running # 0 => runs[running] = 1
  /\ \A a \in armed : kind[a] \notin {"none", "promise", "worker"}
  /\ RunsOnce

\* _actions lists each action once, with the future it was made for, and an action
\* that is not attached to a settled future was never touched.
AttachInv ==
  /\ \A f \in Fut : IsInjective(actions[f])
  /\ \A f \in Fut : \A a \in Range(actions[f]) : kind[a] \in Waiters /\ parent[a] = f
  /\ \A a \in Fut : kind[a] \in Waiters => parent[a] \in Made
  /\ \A a \in Fut : kind[a] \notin Waiters => parent[a] = 0
  /\ \A a \in Fut : kind[a] \in Waiters /\ (a \in armed \/ runs[a] = 1) =>
       a \in Range(actions[parent[a]]) /\ Settled(parent[a])
  /\ DeliveredIffSettled

\* The jobs posted by other threads.
JobsInv ==
  \A j \in Fut : kind[j] = "attach" =>
    /\ subject[j] \in Made /\ subject[j] + 1 = j
    /\ kind[subject[j]] \in Handlers
    /\ runs[j] = 0 => subject[j] \notin Range(actions[parent[subject[j]]])

\* An action's own future is settled by the action, so not before it ran; the
\* outcome it was given is the one of the future it waits for.
OwnInv ==
  /\ \A a \in Fut : Settled(a) => \/ kind[a] \in {"promise", "worker"}
                                  \/ runs[a] = 1 /\ a # running
  /\ \A a \in Fut : kind[a] \in Waiters /\ a \in armed =>
       cbResolver[a] = resolver[parent[a]]

\* A running function was called for its kind of outcome; otherwise the outcome
\* was passed on.
CallInv ==
  /\ running # 0 => Calls(running, cbResolver[running])
  /\ \A a \in Fut : kind[a] \in Waiters /\ runs[a] = 1 =>
       Calls(a, resolver[parent[a]]) \/ resolver[a] = resolver[parent[a]]

\* The pair of lambdas on a returned Future.
PairInv ==
  /\ \A t \in Fut : kind[t] = "fwdThen" =>
       /\ t + 1 \in Made /\ kind[t + 1] = "fwdError"
       /\ parent[t + 1] = t /\ subject[t + 1] = subject[t]
       /\ t \in Range(actions[parent[t]]) /\ t + 1 \in Range(actions[t])
  /\ \A e \in Fut : kind[e] = "fwdError" => e - 1 \in Made /\ kind[e - 1] = "fwdThen"

\* The action that returned the Future has run, and its future stays pending until
\* one of the two lambdas t and t + 1 settles it.
PairState(t) ==
  LET s == subject[t]
      o == resolver[parent[t]]
  IN /\ s \in Made /\ s # running
     /\ kind[s] \in (UserKinds \ {"error"}) \cup {"worker"}
     /\ kind[s] # "worker" => runs[s] = 1
     /\ kind[s] \in Handlers => Calls(s, resolver[parent[s]])
     /\ runs[t] = 0 => ~Settled(s)
     /\ runs[t] = 1 /\ o.tag = "value" =>
          resolver[s] = o /\ (Settled(t) => resolver[t].tag = "value")
     /\ runs[t] = 1 /\ o.tag = "error" =>
          IF runs[t + 1] = 1 THEN resolver[s] = o ELSE ~Settled(s)

\* An action is the subject of one pair only.
ForwardInv ==
  /\ \A t \in Fut : kind[t] = "fwdThen" => PairState(t)
  /\ \A t, u \in Fut :
       kind[t] = "fwdThen" /\ kind[u] = "fwdThen" /\ subject[t] = subject[u] => t = u

IInv ==
  /\ TypeOK /\ NeverFails /\ UnmadeInv
  /\ HandlesReady /\ RunsInv
  /\ AttachInv /\ JobsInv
  /\ OwnInv /\ CallInv
  /\ PairInv /\ ForwardInv

\* b is never before a in the queue.
Before(s, a, b) == \A p, q \in DOMAIN s : s[p] = a /\ s[q] = b => p < q

\* Of two actions of one future, the earlier one runs first: it has run, or it is
\* not behind the other in the queue.
OrderInv ==
  \A f \in Fut : \A i, j \in DOMAIN actions[f] : i < j =>
    LET a == actions[f][i]
        b == actions[f][j]
    IN (runs[b] > 0 => runs[a] > 0) /\ Before(queue, a, b)
=============================================================================
