-------------------------- MODULE FutureLoopProofs --------------------------
(* The safety properties of FutureLoop, proved for every MaxFutures and every *)
(* choice of handlers.                                                        *)
EXTENDS FutureLoop, SequenceTheorems, TLAPS

-----------------------------------------------------------------------------
(* Sequences without repetition, as sets. *)

\* The queue without its oldest handle: nothing but that handle is gone.
LEMMA TailOfQueue ==
  ASSUME NEW S, NEW s \in Seq(S), s # <<>>, IsInjective(s)
  PROVE  /\ Tail(s) \in Seq(S)
         /\ Head(s) \in Range(s)
         /\ IsInjective(Tail(s))
         /\ Range(Tail(s)) = Range(s) \ {Head(s)}
<1>1. /\ Tail(s) \in Seq(S) /\ Len(s) \in Nat /\ Len(s) >= 1
      /\ Len(Tail(s)) = Len(s) - 1
      /\ \A i \in 1..Len(Tail(s)) : Tail(s)[i] = s[i + 1]
      /\ Head(s) = s[1]
  BY HeadTailProperties, EmptySeq, LenProperties, SMT
<1>2. DOMAIN s = 1..Len(s) /\ DOMAIN Tail(s) = 1..Len(Tail(s))
  BY <1>1, LenProperties
<1>3. IsInjective(Tail(s))
  BY <1>1, <1>2, SMT DEF IsInjective
<1>4. Head(s) \in Range(s)
  BY <1>1, <1>2, SMT DEF Range
<1>5. ASSUME NEW x \in Range(Tail(s)) PROVE x \in Range(s) \ {Head(s)}
  <2>1. PICK i \in 1..Len(Tail(s)) : x = s[i + 1]
    BY <1>1, <1>2 DEF Range
  <2>2. i + 1 \in 1..Len(s) /\ i + 1 # 1
    BY <1>1, SMT
  <2> QED BY <1>1, <1>2, <2>1, <2>2, SMT DEF Range, IsInjective
<1>6. ASSUME NEW x \in Range(s) \ {Head(s)} PROVE x \in Range(Tail(s))
  <2>1. PICK i \in 1..Len(s) : x = s[i] /\ i # 1
    BY <1>1, <1>2 DEF Range
  <2>2. i - 1 \in 1..Len(Tail(s)) /\ Tail(s)[i - 1] = s[i]
    BY <1>1, <2>1, SMT
  <2> QED BY <1>2, <2>1, <2>2 DEF Range
<1> QED BY <1>1, <1>3, <1>4, <1>5, <1>6

\* Adding a list of other elements at the end.
LEMMA ConcatOfQueue ==
  ASSUME NEW S, NEW s \in Seq(S), NEW t \in Seq(S),
         IsInjective(s), IsInjective(t), Range(s) \cap Range(t) = {}
  PROVE  /\ s \o t \in Seq(S)
         /\ IsInjective(s \o t)
         /\ Range(s \o t) = Range(s) \cup Range(t)
<1>1. /\ s \o t \in Seq(S) /\ Len(s) \in Nat /\ Len(t) \in Nat
      /\ Len(s \o t) = Len(s) + Len(t)
      /\ \A i \in 1..Len(s) + Len(t) :
           (s \o t)[i] = IF i <= Len(s) THEN s[i] ELSE t[i - Len(s)]
  BY ConcatProperties, LenProperties, SMT
<1>2. DOMAIN s = 1..Len(s) /\ DOMAIN t = 1..Len(t)
      /\ DOMAIN (s \o t) = 1..Len(s) + Len(t)
  BY <1>1, LenProperties
<1>3. Range(s \o t) = Range(s) \cup Range(t)
  BY RangeConcatenation
<1>4. ASSUME NEW i \in 1..Len(s) + Len(t), NEW j \in 1..Len(s) + Len(t),
             (s \o t)[i] = (s \o t)[j]
      PROVE  i = j
  <2>1. CASE i <= Len(s) /\ j <= Len(s)
    <3>1. i \in DOMAIN s /\ j \in DOMAIN s /\ s[i] = s[j]
      BY <1>1, <1>2, <1>4, <2>1, SMT
    <3> QED BY <3>1 DEF IsInjective
  <2>2. CASE i > Len(s) /\ j > Len(s)
    <3>1. /\ i - Len(s) \in DOMAIN t /\ j - Len(s) \in DOMAIN t
          /\ t[i - Len(s)] = t[j - Len(s)]
      BY <1>1, <1>2, <1>4, <2>2, SMT
    <3>2. i - Len(s) = j - Len(s)
      BY <3>1 DEF IsInjective
    <3> QED BY <1>1, <3>2, SMT
  <2>3. CASE i <= Len(s) /\ j > Len(s)
    <3>1. i \in DOMAIN s /\ j - Len(s) \in DOMAIN t /\ s[i] = t[j - Len(s)]
      BY <1>1, <1>2, <1>4, <2>3, SMT
    <3> QED BY <3>1 DEF Range
  <2>4. CASE i > Len(s) /\ j <= Len(s)
    <3>1. j \in DOMAIN s /\ i - Len(s) \in DOMAIN t /\ s[j] = t[i - Len(s)]
      BY <1>1, <1>2, <1>4, <2>4, SMT
    <3> QED BY <3>1 DEF Range
  <2> QED BY <1>1, <2>1, <2>2, <2>3, <2>4, SMT
<1>5. IsInjective(s \o t)
  BY <1>2, <1>4 DEF IsInjective
<1> QED BY <1>1, <1>3, <1>5

\* A list of one, and the empty list.
LEMMA ShortLists ==
  ASSUME NEW S, NEW a \in S
  PROVE  /\ <<a>> \in Seq(S) /\ <<>> \in Seq(S)
         /\ Range(<<a>>) = {a} /\ Range(<<>>) = {}
         /\ IsInjective(<<a>>) /\ IsInjective(<<>>)
<1>1. DOMAIN <<a>> = {1} /\ <<a>>[1] = a
  OBVIOUS
<1>2. DOMAIN <<>> = {}
  OBVIOUS
<1> QED BY <1>1, <1>2, SMT DEF Range, IsInjective

\* push_back of a new element.
LEMMA AppendToList ==
  ASSUME NEW S, NEW s \in Seq(S), NEW a \in S, IsInjective(s), a \notin Range(s)
  PROVE  /\ Append(s, a) \in Seq(S)
         /\ IsInjective(Append(s, a))
         /\ Range(Append(s, a)) = Range(s) \cup {a}
<1>1. Append(s, a) = s \o <<a>>
  BY AppendIsConcat
<1>2. Range(s) \cap Range(<<a>>) = {}
  BY ShortLists
<1>3. <<a>> \in Seq(S) /\ IsInjective(<<a>>) /\ Range(<<a>>) = {a}
  BY ShortLists
<1>4. /\ s \o <<a>> \in Seq(S) /\ IsInjective(s \o <<a>>)
      /\ Range(s \o <<a>>) = Range(s) \cup Range(<<a>>)
  BY <1>2, <1>3, ConcatOfQueue
<1> QED BY <1>1, <1>3, <1>4

-----------------------------------------------------------------------------
(* The operators that several actions share. *)

\* Outcomes are not confused with the empty pointer.
LEMMA OutcomeFacts ==
  ASSUME NEW f \in Fut
  PROVE  /\ Value(f) \in Outcomes /\ Value(f) # Null /\ Value(f).tag = "value"
         /\ Error(f) \in Outcomes /\ Error(f) # Null /\ Error(f).tag = "error"
         /\ \A tag \in Tags : /\ [tag |-> tag, from |-> f] \in Outcomes
                              /\ [tag |-> tag, from |-> f] # Null
         /\ Null \in Outcomes
         /\ \A o \in Outcomes : o # Null <=> o.tag \in Tags
<1>1. \A tag \in Tags : /\ [tag |-> tag, from |-> f] \in Outcomes
                        /\ [tag |-> tag, from |-> f] # Null
  BY DEF Outcomes, Tags, Null
<1>2. \A o \in Outcomes : o # Null <=> o.tag \in Tags
  BY DEF Outcomes, Tags, Null
<1> QED BY <1>1, <1>2 DEF Value, Error, Tags, Outcomes

\* What enqueue() does to actions that are idle and not in q.
EnqueuedTo(q, list, o) ==
  /\ queue' \in Seq(Fut) /\ IsInjective(queue')
  /\ Range(queue') = Range(q) \cup Range(list)
  /\ failed' = FALSE
  /\ armed' = armed \cup Range(list)
  /\ cbResolver' \in [Fut -> Outcomes]
  /\ \A a \in Fut : cbResolver'[a] = IF a \in Range(list) THEN o ELSE cbResolver[a]

\* enqueue() of actions that are idle and not in the queue fails no assertion.
LEMMA EnqueueFacts ==
  ASSUME TypeOK, NEW q \in Seq(Fut), NEW list \in Seq(Fut), NEW o \in Outcomes,
         IsInjective(q), IsInjective(list),
         \A a \in Range(list) : Idle(a) /\ a \notin Range(q),
         Enqueue(q, list, o)
  PROVE  EnqueuedTo(q, list, o)
<1>1. Range(q) \cap Range(list) = {}
  OBVIOUS
<1>2. /\ q \o list \in Seq(Fut) /\ IsInjective(q \o list)
      /\ Range(q \o list) = Range(q) \cup Range(list)
  BY ONLY <1>1, q \in Seq(Fut), list \in Seq(Fut), IsInjective(q),
          IsInjective(list), ConcatOfQueue, SMTT(30)
<1>3. queue' = q \o list
  BY DEF Enqueue
<1>4. failed' = FALSE
  BY DEF Enqueue, Enqueueable
<1>5. armed' = armed \cup Range(list)
  BY DEF Enqueue
<1>6. /\ cbResolver' \in [Fut -> Outcomes]
      /\ \A a \in Fut : cbResolver'[a] = IF a \in Range(list) THEN o ELSE cbResolver[a]
  BY DEF Enqueue, TypeOK
<1> QED BY <1>2, <1>3, <1>4, <1>5, <1>6 DEF EnqueuedTo

\* An action that never ran and is not attached to a settled future.
Untouched(a) ==
  /\ a \in Fut /\ Idle(a) /\ runs[a] = 0 /\ kind[a] \in Waiters
  /\ a \notin Range(queue) /\ a \notin closing /\ a # running /\ a \notin armed

\* An action nobody delivered to is idle.
LEMMA UntouchedFacts ==
  ASSUME IInv, NEW a \in Fut, kind[a] \in Waiters,
         ~(a \in Range(actions[parent[a]]) /\ Settled(parent[a]))
  PROVE  Untouched(a)
<1>1. a \notin armed /\ runs[a] # 1
  BY DEF IInv, AttachInv
<1>2. runs[a] = 0
  <2>1. runs[a] \in Nat /\ runs[a] <= 1
    BY DEF IInv, TypeOK, RunsInv, RunsOnce
  <2> QED BY <2>1, <1>1, SMT
<1>3. Idle(a) /\ a \notin Range(queue) /\ a \notin closing /\ a # running
  BY <1>1 DEF IInv, HandlesReady, Idle
<1> QED BY <1>1, <1>2, <1>3 DEF Untouched

\* The actions of a pending future have never been touched.
LEMMA PendingActions ==
  ASSUME IInv, NEW f \in Fut, ~Settled(f)
  PROVE  /\ actions[f] \in Seq(Fut) /\ IsInjective(actions[f])
         /\ \A a \in Range(actions[f]) : Untouched(a) /\ parent[a] = f
<1>1. actions[f] \in Seq(Fut) /\ IsInjective(actions[f])
  BY DEF IInv, TypeOK, AttachInv
<1>2. ASSUME NEW a \in Range(actions[f])
      PROVE  Untouched(a) /\ parent[a] = f
  <2>1. a \in Fut
    BY <1>1, RangeOfSeq
  <2>2. kind[a] \in Waiters /\ parent[a] = f
    BY DEF IInv, AttachInv
  <2> QED BY <2>1, <2>2, UntouchedFacts
<1> QED BY <1>1, <1>2

\* What resolve/reject does to a pending future.
SettledTo(q, f, o) ==
  /\ EnqueuedTo(q, actions[f], o)
  /\ resolver' \in [Fut -> Outcomes]
  /\ \A g \in Fut : resolver'[g] = IF g = f THEN o ELSE resolver[g]

\* resolve/reject of a pending future fails no assertion.
LEMMA SettleFacts ==
  ASSUME IInv, NEW q \in Seq(Fut), NEW f \in Fut, NEW o \in Outcomes, o # Null,
         IsInjective(q), Range(q) \subseteq Range(queue),
         ~Settled(f), Settle(q, f, o)
  PROVE  SettledTo(q, f, o)
<1>1. /\ actions[f] \in Seq(Fut) /\ IsInjective(actions[f])
      /\ \A a \in Range(actions[f]) : Idle(a) /\ a \notin Range(q)
  BY PendingActions DEF Untouched
<1>2. resolver' = [resolver EXCEPT ![f] = o] /\ Enqueue(q, actions[f], o)
  BY DEF Settle
<1>3. TypeOK
  BY DEF IInv
<1>4. /\ resolver' \in [Fut -> Outcomes]
      /\ \A g \in Fut : resolver'[g] = IF g = f THEN o ELSE resolver[g]
  BY <1>2, <1>3 DEF TypeOK
<1>5. EnqueuedTo(q, actions[f], o)
  BY <1>1, <1>2, <1>3, EnqueueFacts
<1> QED BY <1>4, <1>5 DEF SettledTo

\* What executeAsync finds for the oldest handle a.
Started(a) ==
  /\ running = 0 /\ a \in Range(queue)
  /\ Tail(queue) \in Seq(Fut) /\ IsInjective(Tail(queue))
  /\ Range(Tail(queue)) = Range(queue) \ {a}
  /\ runs[a] = 0 /\ a \in armed /\ a \notin closing /\ ~Settled(a)
  /\ cbResolver[a] # Null /\ cbResolver[a] \in Outcomes
  /\ kind[a] \notin {"none", "promise", "worker"}
  /\ kind[a] \in Waiters => /\ cbResolver[a] = resolver[parent[a]]
                            /\ parent[a] \in Fut
                            /\ Settled(parent[a]) /\ parent[a] # a
  /\ runs' \in [Fut -> Nat]
  /\ \A b \in Fut : runs'[b] = IF b = a THEN 1 ELSE runs[b]

\* executeAsync finds what its assertions ask for.
LEMMA BeginFacts ==
  ASSUME IInv, NEW a \in Fut, Begin(a)
  PROVE  Started(a)
<1>1. queue \in Seq(Fut) /\ queue # <<>> /\ IsInjective(queue) /\ a = Head(queue)
  BY DEF IInv, TypeOK, HandlesReady, Begin
<1>2. /\ Tail(queue) \in Seq(Fut) /\ IsInjective(Tail(queue))
      /\ Range(Tail(queue)) = Range(queue) \ {a} /\ a \in Range(queue)
  BY ONLY <1>1, TailOfQueue
<1>3. runs[a] = 0 /\ a \in armed /\ a \notin closing /\ cbResolver[a] # Null
  BY <1>2 DEF IInv, HandlesReady, RunsInv
<1>4. cbResolver[a] \in Outcomes
  BY DEF IInv, TypeOK
<1>5. kind[a] \notin {"none", "promise", "worker"}
  BY <1>3 DEF IInv, RunsInv
<1>6. ~Settled(a)
  BY <1>3, <1>5 DEF IInv, OwnInv
<1>7. /\ runs' \in [Fut -> Nat]
      /\ \A b \in Fut : runs'[b] = IF b = a THEN 1 ELSE runs[b]
  BY <1>3 DEF Begin, IInv, TypeOK
<1>8. ASSUME kind[a] \in Waiters
      PROVE  /\ cbResolver[a] = resolver[parent[a]]
             /\ parent[a] \in Fut /\ Settled(parent[a]) /\ parent[a] # a
  <2>1. cbResolver[a] = resolver[parent[a]] /\ Settled(parent[a])
    BY <1>3, <1>8 DEF IInv, OwnInv, AttachInv
  <2>2. parent[a] \in Fut
    BY <1>8 DEF IInv, AttachInv, TypeOK, Made, Fut
  <2> QED BY <2>1, <2>2, <1>6
<1> QED BY <1>2, <1>3, <1>4, <1>5, <1>6, <1>7, <1>8 DEF Begin, Started

\* The invariant's types, in the form the steps below use.
LEMMA Basics ==
  ASSUME IInv
  PROVE  /\ closing \subseteq Fut /\ armed \subseteq Fut /\ Range(queue) \subseteq Fut
         /\ \A f \in Fut : Range(actions[f]) \subseteq Fut
         /\ \A f \in Fut : runs[f] \in {0, 1}
         /\ \A f \in Fut : kind[f] \in Waiters => parent[f] \in Fut
<1>1. /\ closing \subseteq Fut /\ armed \subseteq Fut /\ queue \in Seq(Fut)
      /\ \A f \in Fut : actions[f] \in Seq(Fut)
  BY DEF IInv, TypeOK
<1>2. \A s \in Seq(Fut) : Range(s) \subseteq Fut
  BY RangeOfSeq
<1>3. ASSUME NEW f \in Fut PROVE runs[f] \in {0, 1}
  <2>1. runs[f] \in Nat /\ runs[f] <= 1
    BY DEF IInv, TypeOK, RunsInv, RunsOnce
  <2> QED BY <2>1, SMT
<1>4. ASSUME NEW f \in Fut, kind[f] \in Waiters PROVE parent[f] \in Fut
  <2>1. parent[f] \in 1..made /\ made \in 0..MaxFutures
    BY <1>4 DEF IInv, AttachInv, TypeOK, Made
  <2> QED BY <2>1, MaxFuturesAssumption, SMT DEF Fut
<1> QED BY <1>1, <1>2, <1>3, <1>4

\* Where the handles go in a step: D leaves the queue, list joins it, and every
\* other handle of the step is closing or being called afterwards.
HandlesMove(q, list, o, D) ==
  /\ EnqueuedTo(q, list, o) /\ Range(q) = Range(queue) \ D /\ D \subseteq Range(queue)
  /\ \A b \in Range(list) : o # Null /\ b \in Fut /\ b \notin armed /\ runs[b] = 0
  /\ \A b \in Range(list) : kind'[b] \notin {"none", "promise", "worker"}
  /\ \A b \in armed : kind'[b] = kind[b]
  /\ \A b \in Fut : runs'[b] = IF b \in D THEN 1 ELSE runs[b]
  /\ \A b \in Fut : b \in closing' \cup {running'} <=> b \in closing \cup {running} \cup D
  /\ running' \notin closing' /\ closing' \subseteq Fut /\ running' \in 0..MaxFutures
  /\ closing \subseteq closing'

\* Every step moves handles in this way, except AsyncClosed.
LEMMA HandleStep ==
  ASSUME IInv, NEW q, NEW list, NEW o, NEW D, HandlesMove(q, list, o, D)
  PROVE  HandlesReady' /\ RunsInv'
<1>1. /\ IsInjective(queue') /\ Range(queue') = (Range(queue) \ D) \cup Range(list)
      /\ armed' = armed \cup Range(list)
      /\ \A b \in Fut : cbResolver'[b] = IF b \in Range(list) THEN o ELSE cbResolver[b]
  BY DEF HandlesMove, EnqueuedTo
<1>2. /\ D \subseteq Range(queue) /\ Range(list) \subseteq Fut
      /\ \A b \in Range(list) : o # Null /\ b \notin armed /\ runs[b] = 0
      /\ \A b \in Fut : b \in closing' \cup {running'} <=> b \in closing \cup {running} \cup D
      /\ running' \notin closing' /\ closing' \subseteq Fut /\ running' \in 0..MaxFutures
      /\ \A b \in Fut : runs'[b] = IF b \in D THEN 1 ELSE runs[b]
  BY DEF HandlesMove
<1>3. /\ \A b \in Fut : b \in armed <=> b \in Range(queue) \cup closing \cup {running}
      /\ \A b \in Fut : b \in armed <=> cbResolver[b] # Null
      /\ \A b \in Range(queue) : b \in Fut /\ b \notin closing /\ b # running /\ runs[b] = 0
      /\ \A b \in closing : runs[b] = 1
      /\ running # 0 => runs[running] = 1
      /\ \A b \in Fut : runs[b] \in {0, 1}
  BY Basics DEF IInv, HandlesReady, RunsInv
<1>4. running' # 0 => running' \in Fut
  BY <1>2, MaxFuturesAssumption, SMT DEF Fut
<1>5. \A b \in Range(queue') : b \in Fut /\ b \notin closing' /\ b # running'
  BY <1>1, <1>2, <1>3
<1>6. \A b \in Fut : b \in armed' <=> b \in Range(queue') \cup closing' \cup {running'}
  BY <1>1, <1>2, <1>3
<1>7. \A b \in Fut : b \in armed' <=> cbResolver'[b] # Null
  BY <1>1, <1>2, <1>3
<1>8. HandlesReady'
  BY <1>1, <1>2, <1>5, <1>6, <1>7 DEF HandlesReady
<1>9. \A b \in Range(queue') : runs'[b] = 0
  BY <1>1, <1>2, <1>3
<1>10. \A b \in closing' \cup {running'} : b # 0 => runs'[b] = 1
  BY <1>2, <1>3, <1>4
<1>11. \A b \in closing' : runs'[b] = 1
  BY <1>2, <1>10, SMT DEF Fut
<1>12. \A b \in armed' : kind'[b] \notin {"none", "promise", "worker"}
  BY <1>1 DEF HandlesMove, IInv, RunsInv
<1>13. RunsOnce'
  BY <1>2, <1>3 DEF RunsOnce
<1> QED BY <1>8, <1>9, <1>10, <1>11, <1>12, <1>13 DEF RunsInv

\* A resolve/reject of the pending future f, made while the handles of D (none,
\* or the one being started) leave the queue, keeps the parts of the invariant
\* that relate futures to their actions.
LEMMA SettleKeeps ==
  ASSUME IInv, NEW q, NEW f \in Fut, NEW o \in Outcomes, o # Null,
         NEW D \in SUBSET Range(queue),
         Range(q) = Range(queue) \ D, ~Settled(f), SettledTo(q, f, o),
         \A b \in Fut : runs'[b] = IF b \in D THEN 1 ELSE runs[b],
         kind[f] # "none",
         UNCHANGED <<made, kind, parent, subject, actions>>
  PROVE  /\ Range(actions[f]) \cap D = {}
         /\ \A b \in Range(actions[f]) : Untouched(b) /\ parent[b] = f
         /\ UnmadeInv' /\ AttachInv' /\ JobsInv' /\ PairInv' /\ NeverFails'
         /\ \A b \in Fut : kind'[b] \in Waiters /\ b \in armed' =>
              cbResolver'[b] = resolver'[parent'[b]]
<1>1. \A b \in Range(actions[f]) : Untouched(b) /\ parent[b] = f
  BY PendingActions
<1>2. /\ \A b \in Range(actions[f]) :
           /\ b \in Fut /\ cbResolver[b] = Null /\ runs[b] = 0 /\ parent[b] = f
           /\ b \notin armed /\ b \notin Range(queue) /\ b \notin D
           /\ kind[b] \in Waiters
      /\ \A b \in D : b \in Fut /\ b \in armed /\ runs[b] = 0
  BY <1>1, Basics DEF Untouched, Idle, IInv, HandlesReady, RunsInv
<1>3. /\ Range(queue') = (Range(queue) \ D) \cup Range(actions[f])
      /\ failed' = FALSE
      /\ armed' = armed \cup Range(actions[f])
      /\ \A b \in Fut : cbResolver'[b] = IF b \in Range(actions[f]) THEN o ELSE cbResolver[b]
      /\ \A b \in Fut : resolver'[b] = IF b = f THEN o ELSE resolver[b]
  BY DEF SettledTo, EnqueuedTo
<1>4. made' = made /\ kind' = kind /\ parent' = parent /\ subject' = subject
      /\ actions' = actions
  OBVIOUS
<1>5. UnmadeInv'
  <2>1. \A b \in D : kind[b] # "none"
    BY <1>2 DEF IInv, RunsInv
  <2> QED BY <1>2, <1>3, <1>4, <2>1 DEF IInv, UnmadeInv, Idle, Waiters, Handlers, Forwarders
<1>6. AttachInv'
  <2>1. \A g \in Fut : \A b \in Range(actions'[g]) : kind'[b] \in Waiters /\ parent'[b] = g
    BY <1>4 DEF IInv, AttachInv
  <2>2. ASSUME NEW b \in Fut, kind[b] \in Waiters, b \in armed' \/ runs'[b] = 1
        PROVE  b \in Range(actions[parent[b]]) /\ resolver'[parent[b]] # Null
    <3>1. CASE b \in Range(actions[f])
      BY <3>1, <1>2, <1>3
    <3>2. CASE b \notin Range(actions[f])
      <4>1. b \in armed \/ runs[b] = 1
        BY <2>2, <3>2, <1>2, <1>3
      <4>2. b \in Range(actions[parent[b]]) /\ resolver[parent[b]] # Null
        BY <2>2, <4>1 DEF IInv, AttachInv, Settled
      <4> QED BY <4>2, <2>2, <1>3, Basics
    <3> QED BY <3>1, <3>2
  <2>3. ASSUME NEW g \in Fut, NEW b \in Range(actions[g])
        PROVE  resolver'[g] # Null <=> runs'[b] = 1 \/ b \in Range(queue')
    <3>1. b \in Fut /\ parent[b] = g
      BY Basics DEF IInv, AttachInv
    <3>2. Settled(g) <=> runs[b] = 1 \/ b \in Range(queue)
      BY DEF IInv, AttachInv, DeliveredIffSettled
    <3>3. CASE g = f
      BY <3>3, <3>1, <1>2, <1>3
    <3>4. CASE g # f
      BY <3>4, <3>1, <3>2, <1>2, <1>3 DEF Settled
    <3> QED BY <3>3, <3>4
  <2> QED
    BY <2>1, <2>2, <2>3, <1>4 DEF IInv, AttachInv, Made, DeliveredIffSettled, Settled
<1>7. JobsInv'
  BY <1>2, <1>4 DEF IInv, JobsInv, Made
<1>8. PairInv'
  BY <1>4 DEF IInv, PairInv, Made
<1>9. ASSUME NEW b \in Fut, kind[b] \in Waiters, b \in armed'
      PROVE  cbResolver'[b] = resolver'[parent[b]]
  <2>1. CASE b \in Range(actions[f])
    BY <2>1, <1>2, <1>3
  <2>2. CASE b \notin Range(actions[f])
    <3>1. /\ cbResolver[b] = resolver[parent[b]] /\ resolver[parent[b]] # Null
          /\ parent[b] \in Fut
      BY <1>9, <2>2, <1>3, Basics DEF IInv, OwnInv, AttachInv, Settled
    <3> QED BY <3>1, <2>2, <1>3 DEF Settled
  <2> QED BY <2>1, <2>2
<1>10. NeverFails'
  BY <1>3 DEF NeverFails
<1> QED BY <1>1, <1>2, <1>4, <1>5, <1>6, <1>7, <1>8, <1>9, <1>10

\* A step that settles f keeps the whole invariant but for the pairs of lambdas.
LEMMA SettleStep ==
  ASSUME IInv, NEW q, NEW f \in Fut, NEW o \in Outcomes, o # Null, NEW D,
         HandlesMove(q, actions[f], o, D), ~Settled(f), SettledTo(q, f, o),
         UNCHANGED <<made, kind, parent, subject, actions>>,
         runs' \in [Fut -> Nat],
         kind[f] \in {"promise", "worker"} \/ (runs'[f] = 1 /\ f # running' /\ kind[f] # "none"),
         running' # 0 => Calls(running', cbResolver[running']),
         \A b \in D : kind[b] \in Waiters =>
           \/ Calls(b, resolver[parent[b]])
           \/ b = f /\ o = resolver[parent[b]]
  PROVE  /\ TypeOK' /\ NeverFails' /\ UnmadeInv' /\ HandlesReady' /\ RunsInv'
         /\ AttachInv' /\ JobsInv' /\ OwnInv' /\ CallInv' /\ PairInv'
<1>1. /\ D \in SUBSET Range(queue) /\ Range(q) = Range(queue) \ D
      /\ \A b \in Fut : runs'[b] = IF b \in D THEN 1 ELSE runs[b]
      /\ closing' \subseteq Fut /\ running' \in 0..MaxFutures
      /\ \A b \in Fut : b \in closing' \cup {running'} <=> b \in closing \cup {running} \cup D
  BY DEF HandlesMove
<1>2. kind[f] # "none"
  OBVIOUS
<1>3. /\ Range(actions[f]) \cap D = {}
      /\ \A b \in Range(actions[f]) : Untouched(b) /\ parent[b] = f
      /\ UnmadeInv' /\ AttachInv' /\ JobsInv' /\ PairInv' /\ NeverFails'
      /\ \A b \in Fut : kind'[b] \in Waiters /\ b \in armed' =>
              cbResolver'[b] = resolver'[parent'[b]]
  BY <1>1, <1>2, SettleKeeps
<1>4. HandlesReady' /\ RunsInv'
  BY HandleStep
<1>5. /\ \A b \in Fut : cbResolver'[b] = IF b \in Range(actions[f]) THEN o ELSE cbResolver[b]
      /\ \A b \in Fut : resolver'[b] = IF b = f THEN o ELSE resolver[b]
      /\ armed' = armed \cup Range(actions[f])
  BY DEF SettledTo, EnqueuedTo
<1>6. made' = made /\ kind' = kind /\ parent' = parent /\ subject' = subject
      /\ actions' = actions
  OBVIOUS
<1>7. TypeOK'
  <2>1. Range(actions[f]) \subseteq Fut /\ armed \subseteq Fut
    BY Basics
  <2> QED BY <1>1, <1>5, <1>6, <2>1 DEF IInv, TypeOK, SettledTo, EnqueuedTo
<1>8. \A b \in D : b \in Fut /\ runs[b] = 0 /\ b \in armed /\ kind[b] \notin {"none", "promise", "worker"}
  BY <1>1, Basics DEF IInv, RunsInv, HandlesReady
<1>9. ASSUME NEW b \in Fut, resolver'[b] # Null
      PROVE  kind[b] \in {"promise", "worker"} \/ (runs'[b] = 1 /\ b # running')
  <2>1. CASE b = f
    BY <2>1
  <2>2. CASE b # f /\ kind[b] \notin {"promise", "worker"}
    <3>1. runs[b] = 1 /\ b # running /\ b \notin D
      BY <1>5, <1>8, <1>9, <2>2 DEF IInv, OwnInv, Settled
    <3>2. b = running' => b \in closing
      BY <1>1, <3>1
    <3>3. b # running'
      BY <3>2 DEF HandlesMove
    <3> QED BY <3>1, <3>3, <1>1
  <2> QED BY <2>1, <2>2
<1>10. OwnInv'
  BY <1>3, <1>6, <1>9 DEF OwnInv, Settled
<1>11. running' # 0 => Calls(running', cbResolver'[running'])
  <2>1. ASSUME running' # 0 PROVE running' \in Fut /\ running' \in armed
    <3>1. running' \in Fut
      BY <1>1, <2>1, MaxFuturesAssumption, SMT DEF Fut
    <3> QED BY <3>1, <1>1, <1>8 DEF IInv, HandlesReady
  <2>2. \A b \in Range(actions[f]) : b \notin armed
    BY <1>3 DEF Untouched
  <2> QED BY <2>1, <2>2, <1>5
<1>12. ASSUME NEW b \in Fut, kind[b] \in Waiters, runs'[b] = 1
       PROVE  Calls(b, resolver'[parent[b]]) \/ resolver'[b] = resolver'[parent[b]]
  <2>1. b \in Range(actions[parent[b]]) /\ Settled(parent[b]) /\ parent[b] \in Fut
    <3>1. b \in armed \/ runs[b] = 1
      BY <1>1, <1>8, <1>12
    <3>2. parent[b] \in Fut
      BY <1>12, Basics
    <3> QED BY <3>1, <3>2, <1>12 DEF IInv, AttachInv
  <2>2. parent[b] # f /\ resolver'[parent[b]] = resolver[parent[b]]
    BY <2>1, <1>5
  <2>3. CASE b \in D
    BY <2>2, <2>3, <1>5, <1>12
  <2>4. CASE b \notin D
    <3>1. Calls(b, resolver[parent[b]]) \/ resolver[b] = resolver[parent[b]]
      BY <2>4, <1>1, <1>12 DEF IInv, CallInv
    <3>2. b = f => resolver[b] # resolver[parent[b]]
      BY <2>1 DEF Settled
    <3> QED BY <3>1, <3>2, <2>2, <1>5
  <2> QED BY <2>3, <2>4
<1>13. CallInv'
  BY <1>6, <1>11, <1>12 DEF CallInv, Calls
<1> QED BY <1>3, <1>4, <1>7, <1>10, <1>13

\* The pair t of lambdas, their subject and the futures these wait for.
LEMMA PairFacts ==
  ASSUME IInv, NEW t \in Fut, kind[t] = "fwdThen"
  PROVE  /\ subject[t] \in Fut /\ parent[t] \in Fut /\ t + 1 \in Fut
         /\ kind[subject[t]] \notin {"none", "promise", "error", "fwdThen", "fwdError", "attach"}
         /\ kind[subject[t]] # "worker" => runs[subject[t]] = 1
         /\ kind[subject[t]] \in Handlers =>
              /\ parent[subject[t]] \in Fut /\ Settled(parent[subject[t]])
         /\ t # t + 1 /\ subject[t] # t /\ subject[t] # t + 1 /\ subject[t] # running
         /\ parent[t + 1] = t /\ kind[t + 1] = "fwdError"
         /\ t \in Range(actions[parent[t]]) /\ t + 1 \in Range(actions[t])
         /\ runs[t + 1] = 1 => Settled(t)
         /\ runs[t] = 1 => Settled(parent[t])
         /\ PairState(t)
<1>1. PairState(t)
  BY DEF IInv, ForwardInv
<1>2. /\ t + 1 \in Made /\ kind[t + 1] = "fwdError" /\ parent[t + 1] = t
      /\ t \in Range(actions[parent[t]]) /\ t + 1 \in Range(actions[t])
  BY DEF IInv, PairInv
<1>3. subject[t] \in Fut /\ t + 1 \in Fut
  <2>1. subject[t] \in 1..made /\ made \in 0..MaxFutures /\ t + 1 \in 1..made
    BY <1>1, <1>2 DEF IInv, TypeOK, PairState, Made
  <2> QED BY <2>1, MaxFuturesAssumption, SMT DEF Fut
<1>4. /\ kind[subject[t]] \in (UserKinds \ {"error"}) \cup {"worker"}
      /\ kind[subject[t]] # "worker" => runs[subject[t]] = 1
      /\ subject[t] # running
  BY <1>1 DEF PairState
<1>5. kind[subject[t]] \notin {"none", "promise", "error", "fwdThen", "fwdError", "attach"}
  BY <1>4 DEF UserKinds, Handlers
<1>6. t # t + 1
  BY SMT DEF Fut
<1>7. subject[t] # t /\ subject[t] # t + 1
  BY <1>2, <1>5
<1>8. parent[t] \in Fut
  BY Basics DEF Waiters, Forwarders
<1>9. kind[subject[t]] \in Handlers =>
        parent[subject[t]] \in Fut /\ Settled(parent[subject[t]])
  <2>1. kind[subject[t]] \in Handlers =>
          kind[subject[t]] \in Waiters /\ kind[subject[t]] # "worker"
    BY DEF Handlers, Waiters
  <2> QED BY <1>3, <1>4, <2>1, Basics DEF IInv, AttachInv
<1>10. /\ runs[t + 1] = 1 => Settled(t)
       /\ runs[t] = 1 => Settled(parent[t])
  BY <1>2, <1>3 DEF IInv, AttachInv, Waiters, Forwarders
<1> QED BY <1>1, <1>2, <1>3, <1>4, <1>5, <1>6, <1>7, <1>8, <1>9, <1>10

\* A step that settles f (0 for none) with o and starts the actions D.
Advance(f, o, D) ==
  /\ f \in Fut => ~Settled(f)
  /\ \A b \in Fut : resolver'[b] = IF b = f THEN o ELSE resolver[b]
  /\ \A b \in Fut : runs'[b] = IF b \in D THEN 1 ELSE runs[b]
  /\ \A b \in Made : kind'[b] = kind[b] /\ parent'[b] = parent[b] /\ subject'[b] = subject[b]
  /\ made' \in Nat /\ made' >= made

\* f is not the subject of pair t, and its first lambda does not start.
Apart(t, f, o, D) ==
  /\ t \notin D /\ subject[t] \notin D /\ subject[t] # f /\ subject[t] # running'
  /\ t + 1 \notin D \/ resolver[parent[t]].tag # "error"
  /\ t = f /\ runs[t] = 1 /\ resolver[parent[t]].tag = "value" => o.tag = "value"

\* Such a step leaves the pair as it is.
LEMMA PairFrame ==
  ASSUME IInv, NEW t \in Fut, kind[t] = "fwdThen", NEW f, NEW o, NEW D,
         Advance(f, o, D), Apart(t, f, o, D)
  PROVE  PairState(t)'
<1> USE DEF Advance, Apart
<1>1. PairState(t)
  BY PairFacts
<1>2. /\ subject[t] \in Fut /\ parent[t] \in Fut /\ t + 1 \in Fut
      /\ kind[subject[t]] \in Handlers =>
           parent[subject[t]] \in Fut /\ Settled(parent[subject[t]])
      /\ runs[t] = 1 => Settled(parent[t])
  BY PairFacts
<1>3. t \in Made /\ subject[t] \in Made /\ subject[t] \in 1..made'
  <2>1. subject[t] \in 1..made /\ made \in Nat
    BY <1>1 DEF PairState, Made, IInv, TypeOK
  <2>2. ~(t > made) /\ t \in Nat /\ t >= 1
    BY SMT DEF IInv, UnmadeInv, Fut
  <2>3. t \in 1..made /\ subject[t] \in 1..made'
    BY <2>1, <2>2, SMT
  <2> QED BY <2>1, <2>3 DEF Made
<1>4. /\ kind'[t] = kind[t] /\ parent'[t] = parent[t] /\ subject'[t] = subject[t]
      /\ kind'[subject[t]] = kind[subject[t]] /\ parent'[subject[t]] = parent[subject[t]]
  BY <1>3
<1>5. /\ runs'[t] = runs[t] /\ runs'[subject[t]] = runs[subject[t]]
      /\ runs'[t + 1] = runs[t + 1] \/ resolver[parent[t]].tag # "error"
  BY <1>2
<1>6. /\ resolver'[subject[t]] = resolver[subject[t]]
      /\ runs[t] = 1 => resolver'[parent[t]] = resolver[parent[t]]
      /\ kind[subject[t]] \in Handlers =>
           resolver'[parent[subject[t]]] = resolver[parent[subject[t]]]
      /\ resolver'[t] = resolver[t] \/ (t = f /\ resolver'[t] = o)
  <2>1. \A b \in Fut : Settled(b) => b # f
    OBVIOUS
  <2>2. \A b \in Fut : b # f => resolver'[b] = resolver[b]
    OBVIOUS
  <2>3. resolver'[t] = resolver[t] \/ (t = f /\ resolver'[t] = o)
    OBVIOUS
  <2>4. subject[t] # f
    OBVIOUS
  <2> QED BY ONLY <1>2, <2>1, <2>2, <2>3, <2>4
<1>7. kind[subject[t]] \in Handlers => Calls(subject[t], resolver[parent[subject[t]]])
  BY <1>1 DEF PairState
<1>8. (kind[subject[t]] \in Handlers => Calls(subject[t], resolver[parent[subject[t]]]))'
  BY <1>4, <1>6, <1>7 DEF Calls
<1>9. /\ subject[t] \in 1..made' /\ subject[t] # running'
      /\ kind'[subject[t]] \in (UserKinds \ {"error"}) \cup {"worker"}
      /\ kind'[subject[t]] # "worker" => runs'[subject[t]] = 1
      /\ runs'[t] = 0 => resolver'[subject[t]] = Null
  BY <1>1, <1>3, <1>4, <1>5, <1>6 DEF PairState, Settled
<1>10. runs'[t] = 1 /\ resolver'[parent[t]].tag = "value" =>
         /\ resolver'[subject[t]] = resolver'[parent[t]]
         /\ resolver'[t] # Null => resolver'[t].tag = "value"
  BY <1>1, <1>5, <1>6 DEF PairState, Settled
<1>11. runs'[t] = 1 /\ resolver'[parent[t]].tag = "error" =>
         IF runs'[t + 1] = 1 THEN resolver'[subject[t]] = resolver'[parent[t]]
                             ELSE resolver'[subject[t]] = Null
  BY <1>1, <1>5, <1>6 DEF PairState, Settled
<1>12. subject[t] \in Made'
  BY <1>9 DEF Made
<1> QED BY ONLY <1>4, <1>8, <1>9, <1>10, <1>11, <1>12 DEF PairState, Settled

-----------------------------------------------------------------------------
(* Every action preserves the invariant. *)

\* The handles that move when f is settled: the attached actions are sent.
LEMMA SettleMoves ==
  ASSUME IInv, NEW q, NEW f \in Fut, NEW o, o # Null, NEW D,
         ~Settled(f), SettledTo(q, f, o), kind' = kind,
         Range(q) = Range(queue) \ D, D \subseteq Range(queue),
         \A b \in Fut : runs'[b] = IF b \in D THEN 1 ELSE runs[b],
         \A b \in Fut : b \in closing' \cup {running'} <=> b \in closing \cup {running} \cup D,
         running' \notin closing', closing' \subseteq Fut, running' \in 0..MaxFutures,
         closing \subseteq closing'
  PROVE  HandlesMove(q, actions[f], o, D)
<1>1. \A b \in Range(actions[f]) : Untouched(b)
  BY PendingActions
<1>2. \A b \in Range(actions[f]) :
        /\ b \in Fut /\ b \notin armed /\ runs[b] = 0
        /\ kind[b] \notin {"none", "promise", "worker"}
  BY <1>1 DEF Untouched, Waiters, Handlers, Forwarders
<1> QED BY <1>2 DEF HandlesMove, SettledTo

\* The action whose handle is started is not the subject of a pair, and it comes
\* first in its own pair.
LEMMA StartedPairs ==
  ASSUME IInv, NEW a \in Fut, Started(a), NEW t \in Fut, kind[t] = "fwdThen"
  PROVE  /\ subject[t] # a
         /\ t = a => t + 1 # a /\ runs[t + 1] = 0
         /\ t + 1 = a => /\ t # a /\ runs[t] = 1 /\ Settled(t)
                         /\ cbResolver[a] = resolver[t] /\ resolver[t] # Null
                         /\ kind[a] = "fwdError"
<1>1. /\ runs[a] = 0 /\ ~Settled(a) /\ kind[a] \notin {"none", "promise", "worker"}
      /\ kind[a] \in Waiters => cbResolver[a] = resolver[parent[a]] /\ Settled(parent[a])
  BY DEF Started
<1>2. /\ subject[t] \in Fut /\ t + 1 \in Fut /\ t # t + 1
      /\ kind[subject[t]] # "worker" => runs[subject[t]] = 1
      /\ parent[t + 1] = t /\ kind[t + 1] = "fwdError"
      /\ runs[t + 1] = 1 => Settled(t)
  BY PairFacts
<1>3. subject[t] # a
  BY <1>1, <1>2
<1>4. t = a => t + 1 # a /\ runs[t + 1] = 0
  <2>1. runs[t + 1] \in {0, 1}
    BY <1>2, Basics
  <2> QED BY <2>1, <1>1, <1>2
<1>5. ASSUME t + 1 = a
      PROVE  /\ t # a /\ runs[t] = 1 /\ Settled(t)
             /\ cbResolver[a] = resolver[t] /\ resolver[t] # Null
             /\ kind[a] = "fwdError"
  <2>1. kind[a] = "fwdError" /\ parent[a] = t /\ t # a
    BY <1>2, <1>5
  <2>2. cbResolver[a] = resolver[t] /\ Settled(t)
    BY <2>1, <1>1 DEF Waiters, Forwarders
  <2>3. runs[t] = 1
    BY <2>2 DEF IInv, OwnInv
  <2> QED BY <2>1, <2>2, <2>3 DEF Settled
<1> QED BY <1>3, <1>4, <1>5

\* The first lambda of a pair starts: it settles the subject with a value, or
\* passes an error on to its own future and so to the second lambda.
LEMMA PairStarts ==
  ASSUME IInv, NEW t \in Fut, kind[t] = "fwdThen", Started(t), NEW f,
         UNCHANGED <<made, kind, parent, subject>>,
         Advance(f, cbResolver[t], {t}), running' # subject[t],
         \/ f = t /\ cbResolver[t].tag = "error"
         \/ f = subject[t] /\ cbResolver[t].tag = "value"
  PROVE  PairState(t)'
<1> DEFINE s == subject[t]
           o == cbResolver[t]
<1>1. /\ kind[t] \in Waiters /\ runs[t] = 0 /\ o = resolver[parent[t]]
      /\ parent[t] \in Fut /\ parent[t] # t /\ ~Settled(t) /\ Settled(parent[t])
  BY DEF Started, Waiters, Forwarders
<1>2. PairState(t) /\ s \in Fut /\ t + 1 \in Fut /\ s # t
  BY PairFacts
<1>3. t + 1 # t /\ runs[t + 1] = 0
  BY StartedPairs
<1>4. ~Settled(s) /\ s # parent[t]
  BY <1>1, <1>2 DEF PairState
<1>5. runs'[t] = 1 /\ runs'[t + 1] = 0 /\ runs'[s] = runs[s]
  BY <1>2, <1>3 DEF Advance
<1>6. resolver'[parent[t]] = o /\ resolver'[t] = (IF f = t THEN o ELSE Null)
      /\ resolver'[s] = (IF f = s THEN o ELSE Null)
  BY <1>1, <1>2, <1>4 DEF Settled, Advance
<1>7. (kind[s] \in Handlers => Calls(s, resolver[parent[s]]))'
  <2>1. kind[s] \in Handlers => Calls(s, resolver[parent[s]])
    BY <1>2 DEF PairState
  <2>2. kind[s] \in Handlers => parent[s] \in Fut /\ Settled(parent[s])
    BY PairFacts
  <2>3. kind[s] \in Handlers => resolver'[parent[s]] = resolver[parent[s]]
    BY <2>2, <1>1, <1>4 DEF Advance
  <2> QED BY <2>1, <2>3 DEF Calls
<1>8. /\ s \in Made' /\ s # running'
      /\ kind'[s] \in (UserKinds \ {"error"}) \cup {"worker"}
      /\ kind'[s] # "worker" => runs'[s] = 1
  BY <1>2, <1>5 DEF PairState, Made
<1>9. /\ subject'[t] = subject[t] /\ parent'[t] = parent[t] /\ s # t
      /\ (f = t /\ o.tag = "error") \/ (f = s /\ o.tag = "value")
  BY <1>2
<1> HIDE DEF o
<1> QED BY ONLY <1>5, <1>6, <1>7, <1>8, <1>9 DEF PairState, Settled

\* A then behind an error, an error behind a value.
LEMMA PassOnInv ==
  ASSUME IInv, NEW a \in Fut, PassOn(a)
  PROVE  IInv'
<1> DEFINE q == Tail(queue)
           o == cbResolver[a]
<1>1. Started(a)
  BY BeginFacts DEF PassOn
<1>2. /\ closing' = closing \cup {a} /\ ~Calls(a, o)
      /\ made' = made /\ kind' = kind /\ parent' = parent /\ subject' = subject
      /\ actions' = actions /\ running' = running
  BY DEF PassOn
<1>3. kind[a] \in Waiters
  BY <1>2 DEF Calls, Waiters, Handlers, Forwarders
<1>4. /\ running = 0 /\ runs[a] = 0 /\ ~Settled(a) /\ a \in armed /\ a \notin closing
      /\ a \in Range(queue) /\ o # Null /\ o \in Outcomes /\ Range(q) = Range(queue) \ {a}
      /\ o = resolver[parent[a]] /\ kind[a] \notin {"none", "promise", "worker"}
      /\ \A b \in Fut : runs'[b] = IF b \in {a} THEN 1 ELSE runs[b]
      /\ runs' \in [Fut -> Nat]
  BY <1>1, <1>3 DEF Started
<1>5. SettledTo(q, a, o)
  <2>1. /\ q \in Seq(Fut) /\ o \in Outcomes /\ o # Null /\ IsInjective(q)
        /\ Range(q) \subseteq Range(queue) /\ ~Settled(a) /\ Settle(q, a, o)
    BY <1>1 DEF PassOn, Started
  <2> HIDE DEF q, o
  <2> QED BY <2>1, SettleFacts
<1> HIDE DEF q, o
<1>6. /\ closing' \subseteq Fut /\ running' \in 0..MaxFutures /\ running' \notin closing'
      /\ running' = 0
      /\ \A b \in Fut : b \in closing' \cup {running'} <=> b \in closing \cup {running} \cup {a}
  BY <1>2, <1>4, Basics DEF IInv, TypeOK, Fut
<1>7. HandlesMove(q, actions[a], o, {a})
  BY <1>2, <1>4, <1>5, <1>6, SettleMoves
<1>8. /\ TypeOK' /\ NeverFails' /\ UnmadeInv' /\ HandlesReady' /\ RunsInv'
      /\ AttachInv' /\ JobsInv' /\ OwnInv' /\ CallInv' /\ PairInv'
  <2>1. runs'[a] = 1 /\ a # running'
    BY <1>4, <1>6 DEF Fut
  <2> QED BY <1>2, <1>4, <1>5, <1>6, <1>7, <2>1, SettleStep
<1>9. ASSUME NEW t \in Fut, kind[t] = "fwdThen"
      PROVE  PairState(t)'
  <2>1. /\ subject[t] # a /\ subject[t] \in Fut /\ parent[t] \in Fut /\ t + 1 \in Fut
        /\ subject[t] # running'
    BY <1>1, <1>6, <1>9, StartedPairs, PairFacts DEF Fut
  <2>2. \A b \in Fut : resolver'[b] = IF b = a THEN o ELSE resolver[b]
    BY <1>5 DEF SettledTo
  <2>3. CASE t = a
    <3>1. o.tag = "error"
      BY <1>2, <1>4, <1>9, <2>3, OutcomeFacts DEF Calls, Tags
    <3>2. UNCHANGED <<made, kind, parent, subject>> /\ o = cbResolver[t]
      BY <1>2, <2>3 DEF o
    <3>3. Advance(a, o, {a})
      BY <1>2, <1>4, <2>2 DEF Advance, IInv, TypeOK
    <3> QED BY <1>1, <1>9, <2>1, <2>3, <3>1, <3>2, <3>3, PairStarts
  <2>4. CASE t # a
    <3>1. ASSUME t + 1 = a PROVE resolver[parent[t]].tag # "error"
      <4>0. runs[t] = 1 /\ kind[a] = "fwdError" /\ o = resolver[t]
        BY <1>1, <1>9, <3>1, StartedPairs DEF o
      <4>1. runs[t] = 1 /\ resolver[t].tag = "value"
        BY <4>0, <1>2, <1>4, OutcomeFacts DEF Calls, Tags
      <4>2. kind[t] \in Waiters /\ (Calls(t, resolver[parent[t]]) => resolver[parent[t]].tag = "value")
        BY <1>9 DEF Calls, Waiters, Forwarders
      <4>3. Calls(t, resolver[parent[t]]) \/ resolver[t] = resolver[parent[t]]
        BY <4>1, <4>2 DEF IInv, CallInv
      <4> QED BY <4>1, <4>2, <4>3
    <3>2. Apart(t, a, o, {a})
      BY <2>1, <2>4, <3>1 DEF Apart
    <3>3. Advance(a, o, {a})
      BY <1>2, <1>4, <2>2 DEF Advance, IInv, TypeOK
    <3> QED BY <1>9, <3>2, <3>3, PairFrame
  <2> QED BY <2>3, <2>4
<1>10. ForwardInv'
  BY <1>2, <1>9 DEF IInv, ForwardInv
<1> QED BY <1>8, <1>10 DEF IInv

\* The action whose function is on the stack.
LEMMA RunningFacts ==
  ASSUME IInv, running # 0
  PROVE  /\ running \in Fut /\ running \in armed /\ runs[running] = 1
         /\ running \notin Range(queue) /\ running \notin closing
         /\ kind[running] \notin {"none", "promise", "worker"} /\ ~Settled(running)
         /\ Calls(running, cbResolver[running])
<1>1. running \in Fut
  BY MaxFuturesAssumption, SMT DEF IInv, TypeOK, Fut
<1>2. /\ running \in armed /\ runs[running] = 1
      /\ running \notin Range(queue) /\ running \notin closing
      /\ Calls(running, cbResolver[running])
  BY <1>1 DEF IInv, HandlesReady, RunsInv, CallInv
<1>3. kind[running] \notin {"none", "promise", "worker"}
  BY <1>2 DEF IInv, RunsInv
<1>4. ~Settled(running)
  BY <1>1, <1>3 DEF IInv, OwnInv
<1> QED BY <1>1, <1>2, <1>3, <1>4

\* A future is settled that no action of the loop settles, and no lambdas forward to.
LEMMA OutsideSettleInv ==
  ASSUME IInv, NEW f \in Fut, NEW o \in Outcomes, o # Null,
         kind[f] \in {"promise", "worker"}, ~Settled(f), Settle(queue, f, o),
         \A t \in Fut : kind[t] = "fwdThen" => subject[t] # f,
         UNCHANGED <<made, kind, parent, subject, actions, closing, running, runs>>
  PROVE  IInv'
<1> DEFINE D == {}
<1>1. o \in Outcomes /\ o # Null
  OBVIOUS
<1>2. /\ kind[f] \in {"promise", "worker"} /\ ~Settled(f) /\ Settle(queue, f, o)
      /\ made' = made /\ kind' = kind /\ parent' = parent /\ subject' = subject
      /\ actions' = actions /\ running' = running /\ closing' = closing /\ runs' = runs
  OBVIOUS
<1>3. SettledTo(queue, f, o)
  <2>1. queue \in Seq(Fut) /\ IsInjective(queue) /\ Range(queue) \subseteq Range(queue)
    BY DEF IInv, TypeOK, HandlesReady
  <2> QED BY <1>1, <1>2, <2>1, SettleFacts
<1>4. /\ closing' \subseteq Fut /\ running' \in 0..MaxFutures /\ running' \notin closing'
      /\ Range(queue) = Range(queue) \ D /\ D \subseteq Range(queue)
      /\ \A b \in Fut : b \in closing' \cup {running'} <=> b \in closing \cup {running} \cup D
      /\ \A b \in Fut : runs'[b] = IF b \in D THEN 1 ELSE runs[b]
      /\ runs' \in [Fut -> Nat]
      /\ \A b \in D : FALSE
  BY <1>2 DEF IInv, TypeOK, HandlesReady
<1> HIDE DEF D
<1>5. HandlesMove(queue, actions[f], o, D)
  BY <1>1, <1>2, <1>3, <1>4, SettleMoves
<1>6. /\ TypeOK' /\ NeverFails' /\ UnmadeInv' /\ HandlesReady' /\ RunsInv'
      /\ AttachInv' /\ JobsInv' /\ OwnInv' /\ CallInv' /\ PairInv'
  <2>1. running' # 0 => Calls(running', cbResolver[running'])
    BY <1>2 DEF IInv, CallInv
  <2> QED BY <1>1, <1>2, <1>3, <1>4, <1>5, <2>1, SettleStep
<1>7. ASSUME NEW t \in Fut, kind[t] = "fwdThen"
      PROVE  PairState(t)'
  <2>1. Apart(t, f, o, D)
    <3>1. subject[t] # running /\ t # f /\ subject[t] # f
      BY <1>2, <1>7, PairFacts
    <3> QED BY <3>1, <1>2, <1>4 DEF Apart
  <2>2. Advance(f, o, D)
    BY <1>2, <1>3, <1>4 DEF Advance, SettledTo, IInv, TypeOK
  <2> QED BY <1>7, <2>1, <2>2, PairFrame
<1>8. ForwardInv'
  BY <1>2, <1>7 DEF IInv, ForwardInv
<1> QED BY <1>6, <1>8 DEF IInv

\* A promise is resolved or rejected.
LEMMA PromiseSettleInv ==
  ASSUME IInv, NEW f \in Fut, NEW tag \in Tags, PromiseSettle(f, tag)
  PROVE  IInv'
<1>1. [tag |-> tag, from |-> f] \in Outcomes /\ [tag |-> tag, from |-> f] # Null
  BY OutcomeFacts
<1>2. /\ kind[f] = "promise" /\ ~Settled(f) /\ Settle(queue, f, [tag |-> tag, from |-> f])
      /\ UNCHANGED <<made, kind, parent, subject, actions, closing, running, runs>>
  BY DEF PromiseSettle
<1>3. \A t \in Fut : kind[t] = "fwdThen" => subject[t] # f
  BY <1>2, PairFacts
<1> QED BY <1>1, <1>2, <1>3, OutsideSettleInv

\* A function returns a value or throws: its action's future is settled.
LEMMA FinishInv ==
  ASSUME IInv, running # 0, NEW o \in Outcomes, o # Null, Finish(o),
         kind[running] = "fwdThen" => o.tag = "value"
  PROVE  IInv'
<1> DEFINE f == running
           D == {}
<1>1. /\ f \in Fut /\ ~Settled(f) /\ runs[f] = 1 /\ kind[f] # "none" /\ f # 0
      /\ f \notin closing
  BY RunningFacts
<1>2. /\ Settle(queue, f, o)
      /\ made' = made /\ kind' = kind /\ parent' = parent /\ subject' = subject
      /\ actions' = actions /\ running' = 0 /\ closing' = closing \cup {f} /\ runs' = runs
  BY DEF Finish
<1>3. SettledTo(queue, f, o)
  <2>1. queue \in Seq(Fut) /\ IsInjective(queue) /\ Range(queue) \subseteq Range(queue)
    BY DEF IInv, TypeOK, HandlesReady
  <2> HIDE DEF f
  <2> QED BY <1>1, <1>2, <2>1, SettleFacts
<1>4. /\ closing' \subseteq Fut /\ running' \in 0..MaxFutures /\ running' \notin closing'
      /\ Range(queue) = Range(queue) \ D /\ D \subseteq Range(queue)
      /\ \A b \in Fut : b \in closing' \cup {running'} <=> b \in closing \cup {running} \cup D
      /\ \A b \in Fut : runs'[b] = IF b \in D THEN 1 ELSE runs[b]
      /\ runs' \in [Fut -> Nat]
      /\ \A b \in D : FALSE
  <2>1. closing \subseteq Fut /\ runs \in [Fut -> Nat] /\ 0 \notin Fut
    BY DEF IInv, TypeOK, Fut
  <2>2. 0 \in 0..MaxFutures
    BY MaxFuturesAssumption
  <2> QED BY <1>1, <1>2, <2>1, <2>2
<1> HIDE DEF D
<1>5. HandlesMove(queue, actions[f], o, D)
  <2> HIDE DEF f
  <2>1. closing \subseteq closing'
    BY <1>2
  <2> QED BY ONLY <2>1, IInv, o \in Outcomes, o # Null, <1>1, <1>2, <1>3, <1>4, SettleMoves
<1>6. /\ TypeOK' /\ NeverFails' /\ UnmadeInv' /\ HandlesReady' /\ RunsInv'
      /\ AttachInv' /\ JobsInv' /\ OwnInv' /\ CallInv' /\ PairInv'
  <2> HIDE DEF f
  <2> QED BY ONLY IInv, o \in Outcomes, o # Null, <1>1, <1>2, <1>3, <1>4, <1>5, SettleStep
<1>7. ASSUME NEW t \in Fut, kind[t] = "fwdThen"
      PROVE  PairState(t)'
  <2>1. Apart(t, f, o, D)
    <3>1. subject[t] # running /\ subject[t] \in Fut
      BY <1>7, PairFacts
    <3> QED BY <3>1, <1>2, <1>4, <1>7 DEF Apart, Fut
  <2>2. Advance(f, o, D)
    BY <1>1, <1>2, <1>3, <1>4 DEF Advance, SettledTo, IInv, TypeOK
  <2> QED BY <1>7, <2>1, <2>2, PairFrame
<1>8. ForwardInv'
  BY <1>2, <1>7 DEF IInv, ForwardInv
<1> QED BY <1>6, <1>8 DEF IInv

-----------------------------------------------------------------------------
(* The steps that settle nothing: they create the futures made + 1..made',  *)
(* attach the actions New, start D and enqueue list with the outcome o.     *)

Fresh(b) == b > made /\ b <= made'

\* The futures and actions that are created.
Grows ==
  /\ made' \in made..MaxFutures /\ resolver' = resolver
  /\ kind' \in [Fut -> Kinds] /\ parent' \in [Fut -> 0..MaxFutures]
  /\ subject' \in [Fut -> 0..MaxFutures] /\ actions' \in [Fut -> Seq(Fut)]
  /\ runs' \in [Fut -> Nat]
  /\ \A b \in Fut : ~Fresh(b) =>
       kind'[b] = kind[b] /\ parent'[b] = parent[b] /\ subject'[b] = subject[b]
  /\ \A b \in Fut : Fresh(b) =>
       /\ kind'[b] # "none"
       /\ kind'[b] \in Waiters => parent'[b] \in Made'
       /\ kind'[b] \notin Waiters => parent'[b] = 0

\* The actions that are attached.
Attaches(New) ==
  /\ \A g \in Fut : IsInjective(actions'[g]) /\ (g > made' => actions'[g] = <<>>)
  /\ \A g \in Fut : Range(actions'[g]) = Range(actions[g]) \cup {b \in New : parent'[b] = g}
  /\ \A b \in New : /\ b \in Fut /\ b \in Made' /\ kind'[b] \in Waiters
                    /\ b \notin armed /\ runs[b] = 0
                    /\ b \notin Range(actions[parent'[b]])

\* Those attached to a settled future are enqueued.
Delivers(New, list, o) ==
  /\ \A b \in New : b \in Range(list) <=> Settled(parent'[b])
  /\ \A b \in Range(list) : b \in Made'
  /\ \A b \in Range(list) : kind'[b] \in Waiters => b \in New /\ o = resolver[parent'[b]]

\* The functions that are called.
Starts(D) ==
  /\ (running # 0 => Calls(running, cbResolver[running]))'
  /\ \A b \in D : kind[b] \in Waiters => Calls(b, resolver[parent[b]])

\* What every such step leaves alone.
LEMMA GrowFacts ==
  ASSUME IInv, Grows
  PROVE  /\ \A b \in Fut : b \in Made => ~Fresh(b) /\ b \in Made'
         /\ \A b \in Fut : b \notin Made =>
              /\ kind[b] = "none" /\ parent[b] = 0 /\ subject[b] = 0
              /\ resolver[b] = Null /\ actions[b] = <<>> /\ Idle(b) /\ runs[b] = 0
              /\ b \notin armed /\ cbResolver[b] = Null
         /\ \A b \in Fut : b \in Made' <=> b \in Made \/ Fresh(b)
         /\ \A b \in Fut : b > made' => b \notin Made' /\ b \notin Made
         /\ \A b \in Made' : b \in Fut
         /\ \A b \in Fut : kind[b] # "none" => b \in Made
<1>1. made \in Nat /\ made' \in Nat /\ made <= made' /\ made' <= MaxFutures
  <2>1. made \in 0..MaxFutures /\ made' \in made..MaxFutures
    BY DEF IInv, TypeOK, Grows
  <2> QED BY <2>1, MaxFuturesAssumption, SMT
<1>2. \A b \in Fut : b \in Made <=> ~(b > made)
  BY <1>1, SMT DEF Made, Fut
<1>3. \A b \in Fut : b \in Made' <=> ~(b > made')
  BY <1>1, SMT DEF Made, Fut
<1>4. \A b \in Made' : b \in Fut
  BY <1>1, MaxFuturesAssumption, SMT DEF Made, Fut
<1>5. \A b \in Fut : b \in Made => ~Fresh(b) /\ b \in Made'
  BY <1>1, SMT DEF Made, Fut, Fresh
<1>6. \A b \in Fut : b \in Made' <=> b \in Made \/ Fresh(b)
  BY <1>1, SMT DEF Made, Fut, Fresh
<1>7. \A b \in Fut : b \notin Made =>
              /\ kind[b] = "none" /\ parent[b] = 0 /\ subject[b] = 0
              /\ resolver[b] = Null /\ actions[b] = <<>> /\ Idle(b) /\ runs[b] = 0
              /\ b \notin armed /\ cbResolver[b] = Null
  BY <1>2 DEF IInv, UnmadeInv, Idle
<1>8. \A b \in Fut : b > made' => b \notin Made' /\ b \notin Made
  BY <1>3, <1>5
<1> QED BY <1>4, <1>5, <1>6, <1>7, <1>8

\* Types, and the futures that are not made yet.
LEMMA GrowUnmade ==
  ASSUME IInv, NEW q, NEW list, NEW o, NEW D, NEW New,
         HandlesMove(q, list, o, D), Grows, Attaches(New), Delivers(New, list, o)
  PROVE  TypeOK' /\ NeverFails' /\ UnmadeInv'
<1>1. /\ queue' \in Seq(Fut) /\ failed' = FALSE /\ armed' = armed \cup Range(list)
      /\ cbResolver' \in [Fut -> Outcomes]
      /\ \A b \in Fut : cbResolver'[b] = IF b \in Range(list) THEN o ELSE cbResolver[b]
      /\ \A b \in Range(list) : b \in Fut
      /\ \A b \in Fut : runs'[b] = IF b \in D THEN 1 ELSE runs[b]
      /\ closing' \subseteq Fut /\ running' \in 0..MaxFutures
  BY DEF HandlesMove, EnqueuedTo
<1>2. TypeOK'
  <2>1. made' \in 0..MaxFutures
    <3>1. made \in 0..MaxFutures /\ made' \in made..MaxFutures
      BY DEF IInv, TypeOK, Grows
    <3> QED BY <3>1, MaxFuturesAssumption, SMT
  <2>2. armed' \in SUBSET Fut
    BY <1>1, Basics
  <2>3. resolver' \in [Fut -> Outcomes]
    BY DEF IInv, TypeOK, Grows
  <2> QED BY <1>1, <2>1, <2>2, <2>3 DEF TypeOK, Grows
<1>3. NeverFails'
  BY <1>1 DEF NeverFails
<1>4. \A b \in D : b \in armed /\ b \in Fut
  BY Basics DEF HandlesMove, IInv, HandlesReady
<1>5. ASSUME NEW b \in Fut, b > made'
      PROVE  /\ kind'[b] = "none" /\ parent'[b] = 0 /\ subject'[b] = 0
             /\ resolver'[b] = Null /\ actions'[b] = <<>>
             /\ cbResolver'[b] = Null /\ b \notin armed' /\ runs'[b] = 0
  <2>1. b \notin Made' /\ b \notin Made /\ ~Fresh(b)
    BY <1>5, GrowFacts
  <2>2. /\ kind[b] = "none" /\ parent[b] = 0 /\ subject[b] = 0
        /\ resolver[b] = Null /\ runs[b] = 0 /\ b \notin armed /\ cbResolver[b] = Null
    BY <2>1, GrowFacts
  <2>3. b \notin Range(list) /\ b \notin D
    BY <2>1, <2>2, <1>4 DEF Delivers
  <2>4. actions'[b] = <<>>
    BY <1>5 DEF Attaches
  <2> QED BY <1>1, <2>1, <2>2, <2>3, <2>4 DEF Grows
<1>6. UnmadeInv'
  BY <1>5 DEF UnmadeInv, Idle
<1> QED BY <1>2, <1>3, <1>6

\* Futures and their actions.
LEMMA GrowAttach ==
  ASSUME IInv, NEW q, NEW list, NEW o, NEW D, NEW New,
         HandlesMove(q, list, o, D), Grows, Attaches(New), Delivers(New, list, o)
  PROVE  AttachInv'
<1>1. /\ Range(queue') = (Range(queue) \ D) \cup Range(list)
      /\ armed' = armed \cup Range(list) /\ D \subseteq Range(queue)
      /\ \A b \in Range(list) : b \in Fut /\ b \notin armed /\ runs[b] = 0
      /\ \A b \in Fut : runs'[b] = IF b \in D THEN 1 ELSE runs[b]
      /\ resolver' = resolver
  BY DEF HandlesMove, EnqueuedTo, Grows
<1>2. \A b \in D : b \in armed /\ b \in Fut /\ b \in Range(queue)
  BY Basics DEF HandlesMove, IInv, HandlesReady
<1>3. /\ \A g \in Fut : Range(actions'[g]) = Range(actions[g]) \cup {b \in New : parent'[b] = g}
      /\ \A b \in New : /\ b \in Fut /\ kind'[b] \in Waiters
                        /\ b \notin armed /\ runs[b] = 0
      /\ \A b \in New : b \in Range(list) <=> Settled(parent'[b])
      /\ \A b \in Range(list) : kind'[b] \in Waiters => b \in New
  BY DEF Attaches, Delivers
<1>4. \A b \in Fut : kind[b] \in Waiters => b \in Made /\ kind'[b] = kind[b] /\ parent'[b] = parent[b]
  BY GrowFacts DEF Grows, Waiters, Handlers, Forwarders
<1>5. \A g \in Fut : \A b \in Range(actions[g]) : b \in Fut /\ kind[b] \in Waiters /\ parent[b] = g
  BY Basics DEF IInv, AttachInv
<1>6. \A g \in Fut : \A b \in Range(actions'[g]) : kind'[b] \in Waiters /\ parent'[b] = g
  BY <1>3, <1>4, <1>5
<1>7. ASSUME NEW b \in Fut
      PROVE  /\ kind'[b] \in Waiters => parent'[b] \in Made'
             /\ kind'[b] \notin Waiters => parent'[b] = 0
  <2>1. CASE Fresh(b)
    BY <2>1 DEF Grows
  <2>2. CASE ~Fresh(b)
    <3>1. kind'[b] = kind[b] /\ parent'[b] = parent[b]
      BY <2>2 DEF Grows
    <3>2. /\ kind[b] \in Waiters => parent[b] \in Made /\ parent[b] \in Fut
          /\ kind[b] \notin Waiters => parent[b] = 0
      BY Basics DEF IInv, AttachInv
    <3> QED BY <3>1, <3>2, GrowFacts
  <2> QED BY <2>1, <2>2
<1>8. ASSUME NEW b \in Fut, kind'[b] \in Waiters, b \in armed' \/ runs'[b] = 1
      PROVE  b \in Range(actions'[parent'[b]]) /\ Settled(parent'[b])
  <2>1. parent'[b] \in Fut
    BY <1>7, <1>8, GrowFacts
  <2>2. CASE b \in Range(list)
    BY <2>1, <2>2, <1>3, <1>8
  <2>3. CASE b \notin Range(list)
    <3>1. b \in armed \/ runs[b] = 1
      BY <1>1, <1>2, <1>8, <2>3
    <3>2. b \in Made /\ ~Fresh(b)
      BY <3>1, GrowFacts
    <3>3. kind[b] = kind'[b] /\ parent'[b] = parent[b]
      BY <3>2 DEF Grows
    <3>4. b \in Range(actions[parent[b]]) /\ Settled(parent[b])
      BY <3>1, <3>3, <1>8 DEF IInv, AttachInv
    <3> QED BY <2>1, <3>3, <3>4, <1>3
  <2> QED BY <2>2, <2>3
<1>9. ASSUME NEW g \in Fut, NEW b \in Range(actions'[g])
      PROVE  Settled(g) <=> runs'[b] = 1 \/ b \in Range(queue')
  <2>1. CASE b \in Range(actions[g])
    <3>1. Settled(g) <=> runs[b] = 1 \/ b \in Range(queue)
      BY <2>1 DEF IInv, AttachInv, DeliveredIffSettled
    <3>2. b \in Range(list) => ~(runs[b] = 1 \/ b \in Range(queue)) /\ Settled(g)
      <4>1. b \in Fut /\ kind'[b] \in Waiters /\ parent'[b] = g
        BY <2>1, <1>4, <1>5
      <4>2. b \in Range(queue) => b \in armed
        BY <4>1 DEF IInv, HandlesReady
      <4> QED BY <4>1, <4>2, <1>1, <1>3
    <3> QED BY <3>1, <3>2, <2>1, <1>1, <1>2, <1>5
  <2>2. CASE b \in New /\ parent'[b] = g
    <3>1. b \in Fut /\ b \notin armed /\ runs[b] = 0 /\ (b \in Range(list) <=> Settled(g))
      BY <2>2, <1>3
    <3>2. b \notin Range(queue) /\ b \notin D
      BY <3>1, <1>2 DEF IInv, HandlesReady
    <3> QED BY <3>1, <3>2, <1>1
  <2> QED BY <2>1, <2>2, <1>3
<1>10. \A g \in Fut : IsInjective(actions'[g])
  BY DEF Attaches
<1> QED BY <1>1, <1>6, <1>7, <1>8, <1>9, <1>10 DEF AttachInv, DeliveredIffSettled, Settled

\* What the actions were given and what they settled.
LEMMA GrowOwn ==
  ASSUME IInv, NEW q, NEW list, NEW o, NEW D, NEW New,
         HandlesMove(q, list, o, D), Grows, Attaches(New), Delivers(New, list, o), Starts(D)
  PROVE  OwnInv' /\ CallInv'
<1>1. /\ armed' = armed \cup Range(list) /\ D \subseteq Range(queue)
      /\ \A b \in Range(list) : b \in Fut /\ b \notin armed /\ runs[b] = 0
      /\ \A b \in Fut : runs'[b] = IF b \in D THEN 1 ELSE runs[b]
      /\ \A b \in Fut : cbResolver'[b] = IF b \in Range(list) THEN o ELSE cbResolver[b]
      /\ resolver' = resolver
      /\ \A b \in Fut : b \in closing' \cup {running'} <=> b \in closing \cup {running} \cup D
      /\ running' \notin closing' /\ closing \subseteq closing'
  BY DEF HandlesMove, EnqueuedTo, Grows
<1>2. \A b \in D : /\ b \in armed /\ b \in Fut /\ runs[b] = 0
                   /\ kind[b] \notin {"none", "promise", "worker"}
  BY Basics DEF HandlesMove, IInv, HandlesReady, RunsInv
<1>3. \A b \in Fut : b \in Made => kind'[b] = kind[b] /\ parent'[b] = parent[b]
  BY GrowFacts DEF Grows
<1>4. ASSUME NEW b \in Fut, Settled(b)
      PROVE  kind'[b] \in {"promise", "worker"} \/ (runs'[b] = 1 /\ b # running')
  <2>1. b \in Made
    BY <1>4, GrowFacts DEF Settled
  <2>2. CASE kind[b] \notin {"promise", "worker"}
    <3>1. runs[b] = 1 /\ b # running /\ b \notin D
      BY <1>2, <1>4, <2>2 DEF IInv, OwnInv
    <3> QED BY <3>1, <1>1
  <2> QED BY <2>1, <2>2, <1>3
<1>5. ASSUME NEW b \in Fut, kind'[b] \in Waiters, b \in armed'
      PROVE  cbResolver'[b] = resolver[parent'[b]]
  <2>1. CASE b \in Range(list)
    BY <2>1, <1>1, <1>5 DEF Delivers
  <2>2. CASE b \notin Range(list)
    <3>1. b \in armed /\ b \in Made
      BY <2>2, <1>1, <1>5, GrowFacts
    <3>2. kind[b] \in Waiters /\ parent'[b] = parent[b]
      BY <3>1, <1>3, <1>5
    <3>3. cbResolver[b] = resolver[parent[b]]
      BY <3>1, <3>2 DEF IInv, OwnInv
    <3> QED BY <3>2, <3>3, <2>2, <1>1
  <2> QED BY <2>1, <2>2
<1>6. OwnInv'
  BY <1>1, <1>4, <1>5 DEF OwnInv, Settled
<1>7. ASSUME NEW b \in Fut, kind'[b] \in Waiters, runs'[b] = 1
      PROVE  /\ kind'[b] = kind[b]
             /\ Calls(b, resolver[parent'[b]]) \/ resolver[b] = resolver[parent'[b]]
  <2>1. b \in D \/ runs[b] = 1
    BY <1>1, <1>7
  <2>2. b \in Made
    BY <2>1, <1>2, GrowFacts
  <2>3. kind'[b] = kind[b] /\ parent'[b] = parent[b]
    BY <2>2, <1>3
  <2>4. Calls(b, resolver[parent[b]]) \/ resolver[b] = resolver[parent[b]]
    <3>1. CASE b \in D
      BY <3>1, <2>3, <1>7 DEF Starts
    <3>2. CASE runs[b] = 1
      BY <3>2, <2>3, <1>7 DEF IInv, CallInv
    <3> QED BY <2>1, <3>1, <3>2
  <2> QED BY <2>3, <2>4
<1>8. CallInv'
  <2>1. (running # 0 => Calls(running, cbResolver[running]))'
    BY DEF Starts
  <2>2. (\A a \in Fut : kind[a] \in Waiters /\ runs[a] = 1 =>
           Calls(a, resolver[parent[a]]) \/ resolver[a] = resolver[parent[a]])'
    BY <1>1, <1>7 DEF Calls
  <2> QED BY <2>1, <2>2 DEF CallInv
<1> QED BY <1>6, <1>8

\* The jobs of other threads that are posted, and no waiting job's action is attached.
Posts(New, D) ==
  /\ \A j \in Fut : kind[j] = "attach" /\ j \notin D => subject[j] \notin New
  /\ \A j \in Fut : Fresh(j) /\ kind'[j] = "attach" =>
       /\ Fresh(subject'[j]) /\ subject'[j] \in Fut /\ subject'[j] + 1 = j
       /\ kind'[subject'[j]] \in Handlers /\ New = {}

\* The jobs posted by other threads.
LEMMA GrowJobs ==
  ASSUME IInv, NEW q, NEW list, NEW o, NEW D, NEW New,
         HandlesMove(q, list, o, D), Grows, Attaches(New), Posts(New, D)
  PROVE  JobsInv'
<1> SUFFICES ASSUME NEW j \in Fut, kind'[j] = "attach"
             PROVE  /\ subject'[j] \in Made' /\ subject'[j] + 1 = j
                    /\ kind'[subject'[j]] \in Handlers
                    /\ runs'[j] = 0 => subject'[j] \notin Range(actions'[parent'[subject'[j]]])
  BY DEF JobsInv
<1>1. \A g \in Fut : Range(actions'[g]) = Range(actions[g]) \cup {b \in New : parent'[b] = g}
  BY DEF Attaches
<1>2. CASE Fresh(j)
  <2> DEFINE s == subject'[j]
  <2>1. /\ Fresh(s) /\ s \in Fut /\ s + 1 = j /\ kind'[s] \in Handlers /\ New = {}
    BY <1>2 DEF Posts
  <2>2. s \in Made' /\ s \notin Made
    BY <2>1, GrowFacts
  <2>3. parent'[s] \in Fut
    <3>1. kind'[s] \in Waiters
      BY <2>1 DEF Waiters
    <3> QED BY <2>1, <3>1, GrowFacts DEF Grows
  <2>4. s \notin Range(actions[parent'[s]])
    <3>1. kind[s] \notin Waiters
      BY <2>1, <2>2, GrowFacts DEF Waiters, Handlers, Forwarders
    <3> QED BY <2>3, <3>1 DEF IInv, AttachInv
  <2> QED BY <2>1, <2>2, <2>3, <2>4, <1>1
<1>3. CASE ~Fresh(j)
  <2> DEFINE s == subject[j]
  <2>1. kind[j] = "attach" /\ subject'[j] = s
    BY <1>3 DEF Grows
  <2>2. /\ s \in Made /\ s + 1 = j /\ kind[s] \in Handlers
        /\ runs[j] = 0 => s \notin Range(actions[parent[s]])
    BY <2>1 DEF IInv, JobsInv
  <2>3. s \in Fut
    <3>1. s \in 0..MaxFutures /\ s \in 1..made /\ made \in Nat
      BY <2>2 DEF IInv, TypeOK, Made
    <3> QED BY <3>1, MaxFuturesAssumption, SMT DEF Fut
  <2>4. s \in Made' /\ kind'[s] = kind[s] /\ parent'[s] = parent[s]
    BY <2>2, <2>3, GrowFacts DEF Grows
  <2>5. parent[s] \in Fut
    BY <2>2, <2>3, Basics DEF Waiters
  <2>6. runs'[j] = 0 => s \notin Range(actions'[parent[s]])
    <3>1. runs'[j] = 0 => runs[j] = 0 /\ j \notin D
      BY DEF HandlesMove
    <3>2. j \notin D => s \notin New
      BY <2>1 DEF Posts
    <3> QED BY <3>1, <3>2, <2>2, <2>5, <1>1
  <2> QED BY <2>1, <2>2, <2>4, <2>6
<1> QED BY <1>2, <1>3

\* The pairs that were there before the step.
LEMMA GrowOldPairs ==
  ASSUME IInv, NEW q, NEW list, NEW o, NEW D, NEW New,
         HandlesMove(q, list, o, D), Grows, Attaches(New),
         \A b \in D : kind[b] \notin Forwarders,
         NEW t \in Fut, kind[t] = "fwdThen"
  PROVE  /\ PairState(t)'
         /\ t + 1 \in Made' /\ kind'[t + 1] = "fwdError"
         /\ parent'[t + 1] = t /\ subject'[t + 1] = subject'[t]
         /\ t \in Range(actions'[parent'[t]]) /\ t + 1 \in Range(actions'[t])
         /\ kind'[t] = "fwdThen" /\ subject'[t] = subject[t]
<1>1. /\ D \subseteq Range(queue)
      /\ \A b \in Fut : runs'[b] = IF b \in D THEN 1 ELSE runs[b]
      /\ resolver' = resolver
      /\ \A b \in Fut : b \in closing' \cup {running'} <=> b \in closing \cup {running} \cup D
      /\ running' \notin closing' /\ closing \subseteq closing'
  BY DEF HandlesMove, Grows
<1>2. \A b \in D : b \in Fut /\ runs[b] = 0 /\ kind[b] \notin {"none", "promise", "worker"}
  BY <1>1, Basics DEF IInv, HandlesReady, RunsInv
<1>3. /\ subject[t] \in Fut /\ parent[t] \in Fut /\ t + 1 \in Fut
      /\ kind[subject[t]] # "worker" => runs[subject[t]] = 1
      /\ kind[t + 1] = "fwdError" /\ subject[t] # running
      /\ t \in Range(actions[parent[t]]) /\ t + 1 \in Range(actions[t])
      /\ parent[t + 1] = t
  BY PairFacts
<1>4. t \in Made /\ t + 1 \in Made /\ subject[t + 1] = subject[t]
  BY GrowFacts DEF IInv, PairInv
<1>5. \A b \in Made : b \in Fut =>
        kind'[b] = kind[b] /\ parent'[b] = parent[b] /\ subject'[b] = subject[b]
  BY GrowFacts DEF Grows
<1>6. subject[t] \notin D /\ t \notin D /\ t + 1 \notin D
  BY <1>2, <1>3 DEF Forwarders
<1>7. subject[t] # running'
  BY <1>1, <1>3, <1>6
<1>8. Apart(t, 0, Null, D)
  BY <1>3, <1>6, <1>7, SMT DEF Apart, Fut
<1>9. Advance(0, Null, D)
  <2>1. made' \in Nat /\ made' >= made
    <3>1. made \in 0..MaxFutures /\ made' \in made..MaxFutures
      BY DEF IInv, TypeOK, Grows
    <3> QED BY <3>1, MaxFuturesAssumption, SMT
  <2>2. 0 \notin Fut
    BY SMT DEF Fut
  <2>3. Made \subseteq Fut
    <3>1. made \in 0..MaxFutures
      BY DEF IInv, TypeOK
    <3> QED BY <3>1, MaxFuturesAssumption, SMT DEF Made, Fut
  <2> QED BY <1>1, <1>5, <2>1, <2>2, <2>3 DEF Advance
<1>10. PairState(t)'
  BY <1>8, <1>9, PairFrame
<1>11. \A g \in Fut : Range(actions[g]) \subseteq Range(actions'[g])
  BY DEF Attaches
<1>12. kind'[t] = "fwdThen" /\ subject'[t] = subject[t] /\ parent'[t] = parent[t]
  BY <1>4, <1>5
<1>13. kind'[t + 1] = "fwdError" /\ parent'[t + 1] = t /\ subject'[t + 1] = subject[t]
  BY <1>3, <1>4, <1>5
<1>14. t + 1 \in Made'
  BY <1>3, <1>4, GrowFacts
<1>15. t \in Range(actions'[parent[t]]) /\ t + 1 \in Range(actions'[t])
  BY <1>3, <1>11
<1> QED BY <1>10, <1>12, <1>13, <1>14, <1>15

\* A step that makes no pair.
LEMMA GrowPairs ==
  ASSUME IInv, NEW q, NEW list, NEW o, NEW D, NEW New,
         HandlesMove(q, list, o, D), Grows, Attaches(New),
         \A b \in D : kind[b] \notin Forwarders,
         \A b \in Fut : Fresh(b) => kind'[b] \notin Forwarders
  PROVE  PairInv' /\ ForwardInv'
<1>1. \A b \in Fut : kind'[b] \in Forwarders => kind[b] = kind'[b] /\ subject'[b] = subject[b]
  BY DEF Grows
<1>2. ASSUME NEW t \in Fut, kind'[t] = "fwdThen"
      PROVE  /\ PairState(t)' /\ kind[t] = "fwdThen" /\ subject'[t] = subject[t]
             /\ t + 1 \in Made' /\ kind'[t + 1] = "fwdError"
             /\ parent'[t + 1] = t /\ subject'[t + 1] = subject'[t]
             /\ t \in Range(actions'[parent'[t]]) /\ t + 1 \in Range(actions'[t])
  <2>1. kind[t] = "fwdThen"
    BY <1>1, <1>2 DEF Forwarders
  <2> QED BY <2>1, GrowOldPairs
<1>3. ASSUME NEW e \in Fut, kind'[e] = "fwdError"
      PROVE  e - 1 \in Made' /\ kind'[e - 1] = "fwdThen"
  <2>1. kind[e] = "fwdError"
    BY <1>1, <1>3 DEF Forwarders
  <2>2. e - 1 \in Made /\ kind[e - 1] = "fwdThen"
    BY <2>1 DEF IInv, PairInv
  <2>3. e - 1 \in Fut
    <3>1. made \in 0..MaxFutures /\ e - 1 \in 1..made
      BY <2>2 DEF IInv, TypeOK, Made
    <3> QED BY <3>1, MaxFuturesAssumption, SMT DEF Fut
  <2> QED BY <2>2, <2>3, GrowFacts DEF Grows
<1>4. PairInv'
  BY <1>2, <1>3 DEF PairInv
<1>5. ForwardInv'
  BY <1>2 DEF IInv, ForwardInv
<1> QED BY <1>4, <1>5

\* A step that creates no forwarding lambdas keeps the invariant.
LEMMA GrowStep ==
  ASSUME IInv, NEW q, NEW list, NEW o, NEW D, NEW New,
         HandlesMove(q, list, o, D), Grows, Attaches(New), Delivers(New, list, o),
         Starts(D), Posts(New, D),
         \A b \in D : kind[b] \notin Forwarders,
         \A b \in Fut : Fresh(b) => kind'[b] \notin Forwarders
  PROVE  IInv'
<1>1. HandlesReady' /\ RunsInv'
  BY HandleStep
<1>2. TypeOK' /\ NeverFails' /\ UnmadeInv'
  BY GrowUnmade
<1>3. AttachInv'
  BY GrowAttach
<1>4. OwnInv' /\ CallInv'
  BY GrowOwn
<1>5. JobsInv'
  BY GrowJobs
<1>6. PairInv' /\ ForwardInv'
  BY GrowPairs
<1> QED BY <1>1, <1>2, <1>3, <1>4, <1>5, <1>6 DEF IInv

\* The future n of one step that creates nothing else.
Creates(n, k, p, s) ==
  /\ n = made + 1 /\ n \in Fut /\ made' = n /\ made' \in made..MaxFutures
  /\ \A b \in Fut : Fresh(b) <=> b = n
  /\ n \notin Made /\ n \in Made' /\ n \notin Range(queue)
  /\ Idle(n) /\ n \notin armed /\ runs[n] = 0 /\ actions[n] = <<>> /\ resolver[n] = Null
  /\ kind' \in [Fut -> Kinds] /\ parent' \in [Fut -> 0..MaxFutures]
  /\ subject' \in [Fut -> 0..MaxFutures]
  /\ \A b \in Fut : /\ kind'[b] = IF b = n THEN k ELSE kind[b]
                    /\ parent'[b] = IF b = n THEN p ELSE parent[b]
                    /\ subject'[b] = IF b = n THEN s ELSE subject[b]

\* A new FutureShared is none of the earlier ones.
LEMMA CreateFacts ==
  ASSUME IInv, NEW k \in Kinds, NEW p \in 0..MaxFutures, NEW s \in 0..MaxFutures,
         Create(k, p, s)
  PROVE  Creates(made + 1, k, p, s)
<1> DEFINE n == made + 1
<1>1. made \in Nat /\ n \in Fut /\ made' = n /\ made' \in made..MaxFutures
  <2>1. made \in 0..MaxFutures /\ made < MaxFutures /\ made' = made + 1
    BY DEF IInv, TypeOK, Create
  <2> QED BY <2>1, MaxFuturesAssumption, SMT DEF Fut
<1>2. /\ \A b \in Fut : Fresh(b) <=> b = n
      /\ n > made /\ n \notin Made /\ n \in Made'
  BY <1>1, SMT DEF Fresh, Fut, Made
<1>3. Idle(n) /\ n \notin armed /\ runs[n] = 0 /\ actions[n] = <<>> /\ resolver[n] = Null
  BY <1>1, <1>2 DEF IInv, UnmadeInv, Idle
<1>4. n \notin Range(queue)
  BY <1>1, <1>3 DEF IInv, HandlesReady
<1>5. /\ kind' = [kind EXCEPT ![n] = k] /\ parent' = [parent EXCEPT ![n] = p]
      /\ subject' = [subject EXCEPT ![n] = s]
      /\ kind \in [Fut -> Kinds] /\ parent \in [Fut -> 0..MaxFutures]
      /\ subject \in [Fut -> 0..MaxFutures]
  BY DEF Create, IInv, TypeOK
<1> HIDE DEF n
<1>6. /\ kind' \in [Fut -> Kinds] /\ parent' \in [Fut -> 0..MaxFutures]
      /\ subject' \in [Fut -> 0..MaxFutures]
      /\ \A b \in Fut : /\ kind'[b] = IF b = n THEN k ELSE kind[b]
                        /\ parent'[b] = IF b = n THEN p ELSE parent[b]
                        /\ subject'[b] = IF b = n THEN s ELSE subject[b]
  BY <1>1, <1>5
<1>7. n = made + 1
  BY DEF n
<1> QED BY <1>1, <1>2, <1>3, <1>4, <1>6, <1>7 DEF Creates

\* Nothing is started, and the handles that are called or closing stay.
LEMMA NoStart ==
  ASSUME IInv, NEW list, NEW o, EnqueuedTo(queue, list, o),
         UNCHANGED <<closing, running, runs>>,
         \A b \in Range(list) : o # Null /\ b \in Fut /\ b \notin armed /\ runs[b] = 0,
         \A b \in Range(list) : kind'[b] \notin {"none", "promise", "worker"},
         \A b \in armed : kind'[b] = kind[b]
  PROVE  HandlesMove(queue, list, o, {}) /\ Starts({}) /\ runs' \in [Fut -> Nat]
<1>1. HandlesMove(queue, list, o, {})
  BY DEF HandlesMove, IInv, TypeOK, HandlesReady
<1>2. (running # 0 => Calls(running, cbResolver[running]))'
  <2>1. ASSUME running # 0 PROVE Calls(running, cbResolver[running])'
    <3>1. running \in Fut /\ running \in armed /\ Calls(running, cbResolver[running])
      BY <2>1, RunningFacts
    <3>2. cbResolver'[running] = cbResolver[running] /\ kind'[running] = kind[running]
      BY <3>1 DEF EnqueuedTo
    <3> QED BY <3>1, <3>2 DEF Calls
  <2> QED BY <2>1
<1>3. runs' \in [Fut -> Nat]
  BY DEF IInv, TypeOK
<1> QED BY <1>1, <1>2, <1>3 DEF Starts

\* A future that no action of the loop settles.
LEMMA NewFutureInv ==
  ASSUME IInv, NEW k \in {"promise", "worker"}, Create(k, 0, 0),
         UNCHANGED <<resolver, actions, cbResolver, armed, queue, closing, running, runs, failed>>
  PROVE  IInv'
<1> DEFINE n == made + 1
<1>1. Creates(n, k, 0, 0)
  <2>1. 0 \in 0..MaxFutures
    BY MaxFuturesAssumption
  <2> QED BY <2>1, CreateFacts DEF Kinds
<1>2. UNCHANGED <<resolver, actions, cbResolver, armed, queue, closing, running, runs, failed>>
  OBVIOUS
<1> HIDE DEF n
<1>3. EnqueuedTo(queue, <<>>, Null)
  <2>1. Range(<<>>) = {}
    BY SMT DEF Range
  <2> QED BY <1>2, <2>1 DEF EnqueuedTo, IInv, TypeOK, HandlesReady, NeverFails
<1>4. Range(<<>>) = {}
  BY SMT DEF Range
<1>5. \A b \in armed : kind'[b] = kind[b]
  BY <1>1, Basics DEF Creates
<1>6. HandlesMove(queue, <<>>, Null, {}) /\ Starts({}) /\ runs' \in [Fut -> Nat]
  BY <1>2, <1>3, <1>4, <1>5, NoStart
<1>7. Grows
  BY <1>1, <1>2, <1>6 DEF Grows, Creates, IInv, TypeOK, Waiters, Handlers, Forwarders
<1>8. Attaches({})
  <2>1. \A b \in Fut : b > made' => actions'[b] = <<>>
    BY <1>2, <1>7, GrowFacts
  <2>2. \A b \in Fut : IsInjective(actions'[b])
    BY <1>2 DEF IInv, AttachInv
  <2> QED BY <1>2, <2>1, <2>2 DEF Attaches
<1>9. Delivers({}, <<>>, Null)
  BY <1>4 DEF Delivers
<1>10. Posts({}, {})
  BY <1>1 DEF Posts, Creates
<1>11. \A b \in Fut : Fresh(b) => kind'[b] \notin Forwarders
  BY <1>1 DEF Creates, Forwarders
<1> QED BY <1>6, <1>7, <1>8, <1>9, <1>10, <1>11, GrowStep

\* Promise<R>(loop).
LEMMA NewPromiseInv ==
  ASSUME IInv, NewPromise
  PROVE  IInv'
<1> QED BY NewFutureInv DEF NewPromise

\* native::async(loop, fn).
LEMMA AsyncInv ==
  ASSUME IInv, Async
  PROVE  IInv'
<1> DEFINE n == made + 1
           list == <<n>>
           o == Value(n)
<1>1. Creates(n, "async", 0, 0)
  <2>1. 0 \in 0..MaxFutures
    BY MaxFuturesAssumption
  <2> QED BY <2>1, CreateFacts DEF Async, Kinds, UserKinds
<1>2. UNCHANGED <<resolver, actions, closing, running, runs>> /\ Enqueue(queue, list, o)
  BY DEF Async
<1>3. n \in Fut /\ Idle(n) /\ n \notin armed /\ runs[n] = 0 /\ n \notin Range(queue)
  BY <1>1 DEF Creates
<1> HIDE DEF n
<1>4. Range(list) = {n} /\ list \in Seq(Fut) /\ IsInjective(list)
  BY <1>3, ShortLists
<1>5. o \in Outcomes /\ o # Null
  BY <1>3, OutcomeFacts
<1> HIDE DEF list, o
<1>6. EnqueuedTo(queue, list, o)
  <2>1. TypeOK /\ queue \in Seq(Fut) /\ IsInjective(queue)
    BY DEF IInv, TypeOK, HandlesReady
  <2>2. \A a \in Range(list) : Idle(a) /\ a \notin Range(queue)
    BY <1>3, <1>4
  <2> QED BY <1>2, <1>4, <1>5, <2>1, <2>2, EnqueueFacts
<1>7. \A b \in armed : kind'[b] = kind[b]
  BY <1>1, Basics DEF Creates
<1>8. HandlesMove(queue, list, o, {}) /\ Starts({}) /\ runs' \in [Fut -> Nat]
  <2>1. kind'[n] = "async"
    BY <1>1 DEF Creates
  <2> QED BY <1>2, <1>3, <1>4, <1>5, <1>6, <1>7, <2>1, NoStart
<1>9. Grows
  BY <1>1, <1>2, <1>8 DEF Grows, Creates, IInv, TypeOK, Waiters, Handlers, Forwarders
<1>10. Attaches({})
  <2>1. \A b \in Fut : b > made' => actions'[b] = <<>>
    BY <1>2, <1>9, GrowFacts
  <2>2. \A b \in Fut : IsInjective(actions'[b])
    BY <1>2 DEF IInv, AttachInv
  <2> QED BY <1>2, <2>1, <2>2 DEF Attaches
<1>11. Delivers({}, list, o)
  BY <1>1, <1>4 DEF Delivers, Creates, Waiters, Handlers, Forwarders
<1>12. Posts({}, {})
  BY <1>1 DEF Posts, Creates
<1>13. \A b \in Fut : Fresh(b) => kind'[b] \notin Forwarders
  BY <1>1 DEF Creates, Forwarders
<1> QED BY <1>8, <1>9, <1>10, <1>11, <1>12, <1>13, GrowStep

\* The immediate delivery of an action attached to a settled future.
Delivery(f, x) == IF Settled(f) THEN <<x>> ELSE <<>>

\* What push_back and the immediate delivery do.
Attached(q, f, x) ==
  /\ EnqueuedTo(q, Delivery(f, x), resolver[f])
  /\ Range(Delivery(f, x)) = IF Settled(f) THEN {x} ELSE {}
  /\ actions' \in [Fut -> Seq(Fut)]
  /\ \A g \in Fut : IsInjective(actions'[g])
  /\ \A g \in Fut : Range(actions'[g]) = Range(actions[g]) \cup (IF g = f THEN {x} ELSE {})
  /\ \A g \in Fut : g # f => actions'[g] = actions[g]

\* Attaching an action that was never enqueued fails no assertion.
LEMMA AttachFacts ==
  ASSUME IInv, NEW q \in Seq(Fut), IsInjective(q), Range(q) \subseteq Range(queue),
         NEW f \in Fut, NEW x \in Fut, Idle(x), x \notin Range(queue),
         x \notin Range(actions[f]), Attach(q, f, x)
  PROVE  Attached(q, f, x)
<1>1. /\ Delivery(f, x) \in Seq(Fut) /\ IsInjective(Delivery(f, x))
      /\ Range(Delivery(f, x)) = IF Settled(f) THEN {x} ELSE {}
  BY ShortLists DEF Delivery
<1>2. EnqueuedTo(q, Delivery(f, x), resolver[f])
  <2>1. TypeOK /\ resolver[f] \in Outcomes /\ Enqueue(q, Delivery(f, x), resolver[f])
    BY DEF IInv, TypeOK, Attach, Delivery
  <2>2. \A a \in Range(Delivery(f, x)) : Idle(a) /\ a \notin Range(q)
    BY <1>1
  <2> QED BY <1>1, <2>1, <2>2, EnqueueFacts
<1>3. actions[f] \in Seq(Fut) /\ IsInjective(actions[f]) /\ actions \in [Fut -> Seq(Fut)]
  BY DEF IInv, TypeOK, AttachInv
<1>4. /\ Append(actions[f], x) \in Seq(Fut) /\ IsInjective(Append(actions[f], x))
      /\ Range(Append(actions[f], x)) = Range(actions[f]) \cup {x}
  BY ONLY <1>3, x \in Fut, x \notin Range(actions[f]), AppendToList
<1> DEFINE l == Append(actions[f], x)
<1>5. actions' = [actions EXCEPT ![f] = l]
  BY DEF Attach
<1> HIDE DEF l
<1>6. l \in Seq(Fut) /\ IsInjective(l) /\ Range(l) = Range(actions[f]) \cup {x}
  BY <1>4 DEF l
<1>7. \A g \in Fut : actions'[g] = IF g = f THEN l ELSE actions[g]
  BY <1>3, <1>5
<1>8. actions' \in [Fut -> Seq(Fut)]
  BY <1>3, <1>5, <1>6
<1>9. \A g \in Fut : IsInjective(actions'[g])
  BY <1>6, <1>7 DEF IInv, AttachInv
<1>10. \A g \in Fut : Range(actions'[g]) = Range(actions[g]) \cup (IF g = f THEN {x} ELSE {})
  BY <1>6, <1>7
<1> QED BY <1>1, <1>2, <1>7, <1>8, <1>9, <1>10 DEF Attached

\* Future::then, error and finally on the loop thread.
LEMMA AttachHandlerInv ==
  ASSUME IInv, NEW f \in Fut, NEW k \in HandlerKinds, AttachHandler(f, k)
  PROVE  IInv'
<1> DEFINE n == made + 1
           list == Delivery(f, n)
           o == resolver[f]
<1>1. Creates(n, k, f, 0) /\ k \in Handlers
  <2>1. 0 \in 0..MaxFutures /\ f \in 0..MaxFutures
    BY MaxFuturesAssumption, SMT DEF Fut
  <2>2. k \in Handlers /\ k \in Kinds
    BY HandlerKindsAssumption DEF Kinds, UserKinds
  <2> QED BY <2>1, <2>2, CreateFacts DEF AttachHandler
<1>2. UNCHANGED <<resolver, closing, running, runs>> /\ Attach(queue, f, n) /\ f \in Made
  BY DEF AttachHandler
<1>3. /\ n \in Fut /\ Idle(n) /\ n \notin armed /\ runs[n] = 0 /\ n \notin Range(queue)
      /\ n \notin Made /\ n \in Made' /\ kind'[n] = k /\ parent'[n] = f
  BY <1>1 DEF Creates
<1> HIDE DEF n
<1>4. n \notin Range(actions[f])
  <2>1. kind[n] = "none"
    BY <1>3, SMT DEF IInv, UnmadeInv, Made, Fut, TypeOK
  <2> QED BY <2>1 DEF IInv, AttachInv, Waiters, Handlers, Forwarders
<1>5. Attached(queue, f, n)
  <2>1. queue \in Seq(Fut) /\ IsInjective(queue) /\ Range(queue) \subseteq Range(queue)
    BY DEF IInv, TypeOK, HandlesReady
  <2> QED BY <1>2, <1>3, <1>4, <2>1, AttachFacts
<1>6. EnqueuedTo(queue, list, o) /\ Range(list) = (IF Settled(f) THEN {n} ELSE {})
  BY <1>5 DEF Attached
<1> HIDE DEF list
<1>7. \A b \in armed : kind'[b] = kind[b]
  BY <1>1, <1>3, Basics DEF Creates
<1>8. HandlesMove(queue, list, o, {}) /\ Starts({}) /\ runs' \in [Fut -> Nat]
  <2>1. kind'[n] \notin {"none", "promise", "worker"}
    BY <1>1, <1>3 DEF Handlers
  <2>2. \A b \in Range(list) : b = n /\ o # Null
    BY <1>6 DEF Settled
  <2> HIDE DEF o
  <2> QED BY <1>2, <1>3, <1>6, <1>7, <2>1, <2>2, NoStart
<1>9. Grows
  <2>1. k \in Waiters /\ k \notin {"none", "worker"} /\ f \in Made'
    BY <1>1, <1>2, SMT DEF Waiters, Handlers, Creates, Made, IInv, TypeOK
  <2> QED BY <1>1, <1>2, <1>3, <1>5, <1>8, <2>1 DEF Grows, Creates, Attached
<1>10. Attaches({n})
  <2>1. \A b \in Fut : b > made' => actions'[b] = <<>>
    <3>1. \A b \in Fut : b > made' => actions[b] = <<>> /\ b # f
      BY <1>2, <1>9, GrowFacts
    <3> QED BY <3>1, <1>5 DEF Attached
  <2>2. \A g \in Fut : Range(actions'[g]) = Range(actions[g]) \cup {b \in {n} : parent'[b] = g}
    BY <1>3, <1>5 DEF Attached
  <2>3. k \in Waiters
    BY <1>1 DEF Waiters
  <2> QED BY <1>3, <1>4, <1>5, <2>1, <2>2, <2>3 DEF Attaches, Attached
<1>11. Delivers({n}, list, o)
  BY <1>3, <1>6 DEF Delivers
<1>12. Posts({n}, {})
  <2>1. \A j \in Fut : kind[j] = "attach" => subject[j] \in Made
    BY DEF IInv, JobsInv
  <2> QED BY <1>1, <1>3, <2>1 DEF Posts, Creates, Handlers
<1>13. \A b \in Fut : Fresh(b) => kind'[b] \notin Forwarders
  BY <1>1 DEF Creates, Forwarders, Handlers
<1> QED BY <1>8, <1>9, <1>10, <1>11, <1>12, <1>13, GrowStep

\* The two futures x and y of one step that creates nothing else.
CreatesTwo(x, y) ==
  /\ x = made + 1 /\ y = made + 2 /\ x \in Fut /\ y \in Fut /\ x # y /\ x + 1 = y
  /\ made' = y /\ made' \in made..MaxFutures
  /\ \A b \in Fut : Fresh(b) <=> b \in {x, y}
  /\ \A b \in {x, y} : /\ b \notin Made /\ b \in Made' /\ b \notin Range(queue)
                       /\ Idle(b) /\ b \notin armed /\ runs[b] = 0 /\ kind[b] = "none"
                       /\ actions[b] = <<>> /\ resolver[b] = Null
                       /\ parent[b] = 0 /\ subject[b] = 0
                       /\ \A g \in Fut : b \notin Range(actions[g])

\* Two new FutureShared objects are none of the earlier ones.
LEMMA CreateTwoFacts ==
  ASSUME IInv, made + 1 < MaxFutures, made' = made + 2
  PROVE  CreatesTwo(made + 1, made + 2)
<1> DEFINE x == made + 1
           y == made + 2
<1>1. /\ made \in Nat /\ x \in Fut /\ y \in Fut /\ x # y /\ x + 1 = y /\ made' = y
      /\ made' \in made..MaxFutures
  <2>1. made \in 0..MaxFutures
    BY DEF IInv, TypeOK
  <2> QED BY <2>1, MaxFuturesAssumption, SMT DEF Fut
<1>2. /\ \A b \in Fut : Fresh(b) <=> b \in {x, y}
      /\ \A b \in {x, y} : b > made /\ b \notin Made /\ b \in Made' /\ b \in Fut
  BY <1>1, SMT DEF Fresh, Fut, Made
<1> HIDE DEF x, y
<1>3. \A b \in {x, y} : /\ Idle(b) /\ b \notin armed /\ runs[b] = 0 /\ kind[b] = "none"
                        /\ actions[b] = <<>> /\ resolver[b] = Null
                        /\ parent[b] = 0 /\ subject[b] = 0
  BY <1>2 DEF IInv, UnmadeInv, Idle
<1>4. \A b \in {x, y} : b \notin Range(queue)
  BY <1>2, <1>3 DEF IInv, HandlesReady
<1>5. \A b \in {x, y} : \A g \in Fut : b \notin Range(actions[g])
  BY <1>3 DEF IInv, AttachInv, Waiters, Handlers, Forwarders
<1>6. x = made + 1 /\ y = made + 2
  BY DEF x, y
<1> QED BY <1>1, <1>2, <1>3, <1>4, <1>5, <1>6 DEF CreatesTwo

\* Future::then, error and finally on another thread.
LEMMA ForeignAttachInv ==
  ASSUME IInv, NEW f \in Fut, NEW k \in HandlerKinds, ForeignAttach(f, k)
  PROVE  IInv'
<1> DEFINE x == made + 1
           y == made + 2
           list == <<y>>
           o == Value(y)
<1>1. CreatesTwo(x, y)
  BY CreateTwoFacts DEF ForeignAttach
<1>2. /\ UNCHANGED <<resolver, actions, closing, running, runs>> /\ Enqueue(queue, list, o)
      /\ kind' = [kind EXCEPT ![x] = k, ![y] = "attach"]
      /\ parent' = [parent EXCEPT ![x] = f] /\ subject' = [subject EXCEPT ![y] = x]
      /\ f \in Made
  BY DEF ForeignAttach
<1>3. k \in Handlers /\ k \in Kinds /\ "attach" \in Kinds /\ k \in Waiters
  BY HandlerKindsAssumption DEF Kinds, UserKinds, Waiters
<1>4. x \in Fut /\ y \in Fut /\ x # y /\ x + 1 = y
  BY <1>1 DEF CreatesTwo
<1>5. Idle(y) /\ y \notin armed /\ runs[y] = 0 /\ y \notin Range(queue)
  BY <1>1 DEF CreatesTwo
<1> HIDE DEF x, y
<1>6. /\ kind' \in [Fut -> Kinds] /\ parent' \in [Fut -> 0..MaxFutures]
      /\ subject' \in [Fut -> 0..MaxFutures]
      /\ \A b \in Fut : /\ kind'[b] = IF b = y THEN "attach" ELSE IF b = x THEN k ELSE kind[b]
                        /\ parent'[b] = IF b = x THEN f ELSE parent[b]
                        /\ subject'[b] = IF b = y THEN x ELSE subject[b]
  <2>1. x \in 0..MaxFutures /\ f \in 0..MaxFutures
    BY <1>4, MaxFuturesAssumption, SMT DEF Fut
  <2>2. /\ kind \in [Fut -> Kinds] /\ parent \in [Fut -> 0..MaxFutures]
        /\ subject \in [Fut -> 0..MaxFutures]
    BY DEF IInv, TypeOK
  <2> QED BY <1>2, <1>3, <1>4, <2>1, <2>2
<1>7. Range(list) = {y} /\ list \in Seq(Fut) /\ IsInjective(list)
  BY <1>4, ShortLists
<1>8. o \in Outcomes /\ o # Null
  BY <1>4, OutcomeFacts
<1> HIDE DEF list, o
<1>9. EnqueuedTo(queue, list, o)
  <2>1. TypeOK /\ queue \in Seq(Fut) /\ IsInjective(queue)
    BY DEF IInv, TypeOK, HandlesReady
  <2>2. \A a \in Range(list) : Idle(a) /\ a \notin Range(queue)
    BY <1>5, <1>7
  <2> QED BY <1>2, <1>7, <1>8, <2>1, <2>2, EnqueueFacts
<1>10. \A b \in armed : kind'[b] = kind[b]
  BY <1>1, <1>6, Basics DEF CreatesTwo
<1>11. HandlesMove(queue, list, o, {}) /\ Starts({}) /\ runs' \in [Fut -> Nat]
  <2>1. kind'[y] = "attach"
    BY <1>4, <1>6
  <2> QED BY <1>2, <1>4, <1>5, <1>7, <1>8, <1>9, <1>10, <2>1, NoStart
<1>12. Grows
  <2>1. f \in Made' /\ made' \in made..MaxFutures
    BY <1>1, <1>2, SMT DEF Made, CreatesTwo, IInv, TypeOK
  <2>2. \A b \in Fut : Fresh(b) <=> b \in {x, y}
    BY <1>1 DEF CreatesTwo
  <2>3. k \notin {"none", "worker"} /\ "attach" \notin Waiters /\ parent[y] = 0
    BY <1>1, <1>3 DEF Handlers, Waiters, Forwarders, CreatesTwo
  <2> QED BY <1>2, <1>3, <1>4, <1>6, <1>11, <2>1, <2>2, <2>3 DEF Grows, IInv, TypeOK
<1>13. Attaches({})
  <2>1. \A b \in Fut : b > made' => actions'[b] = <<>>
    BY <1>2, <1>12, GrowFacts
  <2>2. \A b \in Fut : IsInjective(actions'[b])
    BY <1>2 DEF IInv, AttachInv
  <2> QED BY <1>2, <2>1, <2>2 DEF Attaches
<1>14. Delivers({}, list, o)
  BY <1>1, <1>4, <1>6, <1>7 DEF Delivers, CreatesTwo, Waiters, Handlers, Forwarders
<1>15. Posts({}, {})
  <2>1. \A b \in Fut : Fresh(b) <=> b \in {x, y}
    BY <1>1 DEF CreatesTwo
  <2>2. kind'[x] = k /\ k # "attach" /\ subject'[y] = x
    BY <1>3, <1>4, <1>6 DEF Handlers
  <2> QED BY <1>3, <1>4, <2>1, <2>2 DEF Posts
<1>16. \A b \in Fut : Fresh(b) => kind'[b] \notin Forwarders
  BY <1>1, <1>3, <1>6 DEF CreatesTwo, Forwarders, Handlers
<1> QED BY <1>11, <1>12, <1>13, <1>14, <1>15, <1>16, GrowStep

\* A user's function is called.
LEMMA CallUserInv ==
  ASSUME IInv, NEW a \in Fut, CallUser(a)
  PROVE  IInv'
<1> DEFINE q == Tail(queue)
<1>1. Started(a)
  BY BeginFacts DEF CallUser
<1>2. /\ UNCHANGED <<made, kind, parent, subject, resolver, actions, cbResolver,
                     armed, closing, failed>>
      /\ queue' = q /\ running' = a /\ kind[a] \in UserKinds /\ Calls(a, cbResolver[a])
  BY DEF CallUser
<1>3. /\ running = 0 /\ a \notin closing /\ a \in Range(queue) /\ q \in Seq(Fut)
      /\ IsInjective(q) /\ Range(q) = Range(queue) \ {a}
      /\ kind[a] \in Waiters => cbResolver[a] = resolver[parent[a]]
      /\ \A b \in Fut : runs'[b] = IF b \in {a} THEN 1 ELSE runs[b]
      /\ runs' \in [Fut -> Nat]
  BY <1>1 DEF Started
<1> HIDE DEF q
<1>4. Range(<<>>) = {}
  BY SMT DEF Range
<1>5. EnqueuedTo(q, <<>>, Null)
  BY <1>2, <1>3, <1>4 DEF EnqueuedTo, IInv, TypeOK, NeverFails
<1>6. HandlesMove(q, <<>>, Null, {a})
  <2>1. a \in 0..MaxFutures /\ closing \subseteq Fut /\ 0 \notin Fut
    BY Basics, MaxFuturesAssumption, SMT DEF Fut
  <2> QED BY <1>2, <1>3, <1>4, <1>5, <2>1 DEF HandlesMove
<1>7. Grows
  <2>1. made' \in made..MaxFutures /\ \A b \in Fut : ~Fresh(b)
    <3>1. made \in 0..MaxFutures /\ made' = made
      BY <1>2 DEF IInv, TypeOK
    <3> QED BY <3>1, MaxFuturesAssumption, SMT DEF Fresh, Fut
  <2> QED BY <1>2, <1>3, <2>1 DEF Grows, IInv, TypeOK
<1>8. \A b \in Fut : ~Fresh(b)
  BY <1>2, SMT DEF Fresh, Fut, IInv, TypeOK
<1>9. Attaches({})
  <2>1. \A b \in Fut : b > made' => actions'[b] = <<>>
    BY <1>2, <1>7, GrowFacts
  <2>2. \A b \in Fut : IsInjective(actions'[b])
    BY <1>2 DEF IInv, AttachInv
  <2> QED BY <1>2, <2>1, <2>2 DEF Attaches
<1>10. Delivers({}, <<>>, Null)
  BY <1>4 DEF Delivers
<1>11. Starts({a})
  BY <1>2, <1>3 DEF Starts, Calls
<1>12. Posts({}, {a})
  BY <1>8 DEF Posts
<1>13. \A b \in {a} : kind[b] \notin Forwarders
  BY <1>2 DEF UserKinds, Handlers, Forwarders
<1> QED BY <1>6, <1>7, <1>8, <1>9, <1>10, <1>11, <1>12, <1>13, GrowStep

\* The job of another thread attaches its action.
LEMMA CallAttachInv ==
  ASSUME IInv, NEW a \in Fut, CallAttach(a)
  PROVE  IInv'
<1> DEFINE q == Tail(queue)
           x == subject[a]
           f == parent[x]
           list == Delivery(f, x)
           o == resolver[f]
<1>1. Started(a)
  BY BeginFacts DEF CallAttach
<1>2. /\ UNCHANGED <<made, kind, parent, subject, resolver, closing>>
      /\ running' = a /\ kind[a] = "attach" /\ Attach(q, f, x)
  BY DEF CallAttach
<1>3. /\ running = 0 /\ a \notin closing /\ a \in Range(queue) /\ q \in Seq(Fut)
      /\ IsInjective(q) /\ Range(q) = Range(queue) \ {a} /\ runs[a] = 0
      /\ \A b \in Fut : runs'[b] = IF b \in {a} THEN 1 ELSE runs[b]
      /\ runs' \in [Fut -> Nat]
  BY <1>1 DEF Started
<1>4. /\ x \in Made /\ x + 1 = a /\ kind[x] \in Handlers /\ x \notin Range(actions[f])
  BY <1>2, <1>3 DEF IInv, JobsInv
<1>5. x \in Fut /\ kind[x] \in Waiters /\ f \in Fut
  <2>1. made \in 0..MaxFutures /\ x \in 1..made
    BY <1>4 DEF IInv, TypeOK, Made
  <2>2. x \in Fut
    BY <2>1, MaxFuturesAssumption, SMT DEF Fut
  <2>3. kind[x] \in Waiters
    BY <1>4 DEF Waiters
  <2> QED BY <2>2, <2>3, Basics
<1>6. /\ Idle(x) /\ runs[x] = 0 /\ x \notin Range(queue) /\ x \notin armed
  BY <1>4, <1>5, UntouchedFacts DEF Untouched
<1>7. Attached(q, f, x)
  <2>1. Range(q) \subseteq Range(queue)
    BY <1>3
  <2> HIDE DEF q, x, f
  <2>2. x \notin Range(actions[f])
    BY <1>4
  <2> QED BY ONLY IInv, <1>2, <1>3, <1>5, <1>6, <2>1, <2>2, AttachFacts
<1>8. EnqueuedTo(q, list, o) /\ Range(list) = (IF Settled(f) THEN {x} ELSE {})
  BY <1>7 DEF Attached
<1>9. f = parent'[x]
  BY <1>2
<1> HIDE DEF q, list, x, f
<1>10. HandlesMove(q, list, o, {a})
  <2>1. a \in 0..MaxFutures /\ closing \subseteq Fut /\ 0 \notin Fut
    BY Basics, MaxFuturesAssumption, SMT DEF Fut
  <2>2. \A b \in Range(list) : b = x /\ o # Null
    BY <1>8 DEF Settled
  <2>3. kind[x] \notin {"none", "promise", "worker"}
    BY <1>4 DEF Handlers
  <2> HIDE DEF o
  <2> QED BY <1>2, <1>3, <1>5, <1>6, <1>8, <2>1, <2>2, <2>3 DEF HandlesMove
<1>11. \A b \in Fut : ~Fresh(b)
  BY <1>2, SMT DEF Fresh, Fut, IInv, TypeOK
<1>12. Grows
  <2>1. made' \in made..MaxFutures
    <3>1. made \in 0..MaxFutures /\ made' = made
      BY <1>2 DEF IInv, TypeOK
    <3> QED BY <3>1, MaxFuturesAssumption, SMT
  <2> QED BY <1>2, <1>3, <1>7, <1>11, <2>1 DEF Grows, IInv, TypeOK, Attached
<1>13. Attaches({x})
  <2>1. \A b \in Fut : b > made' => actions'[b] = <<>>
    <3>1. f \in Made
      BY <1>5 DEF IInv, AttachInv, f
    <3>2. \A b \in Fut : b > made' => actions[b] = <<>> /\ b # f
      BY <3>1, <1>12, GrowFacts
    <3> QED BY <3>2, <1>7 DEF Attached
  <2>2. \A g \in Fut : Range(actions'[g]) = Range(actions[g]) \cup {b \in {x} : parent'[b] = g}
    BY <1>7, <1>9 DEF Attached
  <2>3. x \in Made' /\ kind'[x] \in Waiters
    BY <1>2, <1>4, <1>5 DEF Made
  <2> QED BY <1>4, <1>5, <1>6, <1>7, <1>9, <2>1, <2>2, <2>3 DEF Attaches, Attached
<1>14. Delivers({x}, list, o)
  <2>1. x \in Made'
    BY <1>2, <1>4 DEF Made
  <2> QED BY <1>8, <1>9, <2>1 DEF Delivers
<1>15. Starts({a})
  BY <1>2 DEF Starts, Calls, Waiters, Handlers, Forwarders
<1>16. Posts({x}, {a})
  <2>1. ASSUME NEW j \in Fut, kind[j] = "attach", subject[j] = x PROVE j = a
    <3>1. subject[j] + 1 = j
      BY <2>1 DEF IInv, JobsInv
    <3> QED BY <3>1, <2>1, <1>4
  <2> QED BY <1>11, <2>1 DEF Posts
<1>17. \A b \in {a} : kind[b] \notin Forwarders
  BY <1>2 DEF Forwarders
<1> QED BY <1>10, <1>11, <1>12, <1>13, <1>14, <1>15, <1>16, <1>17, GrowStep

\* A lambda on a returned Future settles the future of the action that got it.
LEMMA CallForwardInv ==
  ASSUME IInv, NEW a \in Fut, CallForward(a)
  PROVE  IInv'
<1> DEFINE q == Tail(queue)
           o == cbResolver[a]
           f == subject[a]
<1>1. Started(a)
  BY BeginFacts DEF CallForward
<1>2. /\ UNCHANGED <<made, kind, parent, subject, actions, closing>>
      /\ running' = a /\ kind[a] \in Forwarders /\ Calls(a, o) /\ Settle(q, f, o)
  BY DEF CallForward
<1>3. /\ running = 0 /\ a \notin closing /\ a \in Range(queue) /\ q \in Seq(Fut)
      /\ IsInjective(q) /\ Range(q) = Range(queue) \ {a} /\ runs[a] = 0
      /\ o # Null /\ o \in Outcomes /\ o = resolver[parent[a]]
      /\ \A b \in Fut : runs'[b] = IF b \in {a} THEN 1 ELSE runs[b]
      /\ runs' \in [Fut -> Nat]
  BY <1>1, <1>2 DEF Started, Waiters
<1>4. PICK t \in Fut : kind[t] = "fwdThen" /\ a \in {t, t + 1} /\ subject[t] = f
  <2>1. CASE kind[a] = "fwdThen"
    BY <2>1
  <2>2. CASE kind[a] = "fwdError"
    <3>1. a - 1 \in Made /\ kind[a - 1] = "fwdThen"
      BY <2>2 DEF IInv, PairInv
    <3>2. a - 1 \in Fut /\ (a - 1) + 1 = a
      <4>1. made \in 0..MaxFutures /\ a - 1 \in 1..made
        BY <3>1 DEF IInv, TypeOK, Made
      <4> QED BY <4>1, MaxFuturesAssumption, SMT DEF Fut
    <3>3. subject[a] = subject[a - 1]
      BY <3>1, <3>2 DEF IInv, PairInv
    <3> QED BY <3>1, <3>2, <3>3
  <2> QED BY <2>1, <2>2, <1>2 DEF Forwarders
<1> HIDE DEF q
<1>5. /\ f \in Fut /\ f # a /\ kind[f] \notin {"none", "promise", "fwdThen", "fwdError"}
      /\ kind[f] # "worker" => runs[f] = 1
      /\ t # t + 1 /\ t + 1 \in Fut /\ parent[t] \in Fut
      /\ runs[t] = 1 => Settled(parent[t])
      /\ PairState(t)
  BY <1>1, <1>4, PairFacts, StartedPairs
<1>6. ASSUME a = t + 1
      PROVE  /\ runs[t] = 1 /\ resolver[t] = o /\ resolver[parent[t]] = o
             /\ o.tag = "error" /\ kind[a] = "fwdError"
  <2>1. runs[t] = 1 /\ resolver[t] = o /\ kind[a] = "fwdError"
    BY <1>1, <1>4, <1>6, StartedPairs
  <2>2. o.tag = "error"
    BY <2>1, <1>2 DEF Calls
  <2>3. Calls(t, resolver[parent[t]]) \/ resolver[t] = resolver[parent[t]]
    BY <2>1, <1>4 DEF IInv, CallInv, Waiters, Forwarders
  <2>4. Calls(t, resolver[parent[t]]) => resolver[parent[t]].tag = "value"
    BY <1>4 DEF Calls
  <2>5. resolver[parent[t]].tag = "value" => resolver[t].tag = "value"
    BY <1>5, <2>1, <1>3 DEF PairState, Settled
  <2> QED BY <2>1, <2>2, <2>3, <2>4, <2>5
<1>7. ~Settled(f)
  <2>1. CASE a = t
    BY <2>1, <1>3, <1>4, <1>5 DEF PairState
  <2>2. CASE a = t + 1
    BY <2>2, <1>3, <1>4, <1>5, <1>6 DEF PairState
  <2> QED BY <2>1, <2>2, <1>4
<1> HIDE DEF f, o
<1>8. SettledTo(q, f, o)
  <2>1. Range(q) \subseteq Range(queue)
    BY <1>3
  <2> QED BY <1>2, <1>3, <1>5, <1>7, <2>1, SettleFacts
<1>9. /\ closing' \subseteq Fut /\ running' \in 0..MaxFutures /\ running' \notin closing'
      /\ \A b \in Fut : b \in closing' \cup {running'} <=> b \in closing \cup {running} \cup {a}
  <2>1. a \in 0..MaxFutures /\ closing \subseteq Fut /\ 0 \notin Fut
    BY Basics, MaxFuturesAssumption, SMT DEF Fut
  <2> QED BY <1>2, <1>3, <2>1
<1>10. HandlesMove(q, actions[f], o, {a})
  <2>1. closing \subseteq closing' /\ kind' = kind /\ {a} \subseteq Range(queue)
    BY <1>2, <1>3
  <2> QED BY <1>3, <1>5, <1>7, <1>8, <1>9, <2>1, SettleMoves
<1>11. /\ TypeOK' /\ NeverFails' /\ UnmadeInv' /\ HandlesReady' /\ RunsInv'
       /\ AttachInv' /\ JobsInv' /\ OwnInv' /\ CallInv' /\ PairInv'
  <2>1. kind[f] \in {"promise", "worker"} \/ (runs'[f] = 1 /\ f # running' /\ kind[f] # "none")
    BY <1>2, <1>3, <1>5
  <2>2. Calls(running', cbResolver[running'])
    BY <1>2 DEF o
  <2>3. Calls(a, resolver[parent[a]])
    BY <1>2, <1>3
  <2>4. UNCHANGED <<made, kind, parent, subject, actions>>
    BY <1>2
  <2> QED BY <1>3, <1>5, <1>7, <1>8, <1>10, <2>1, <2>2, <2>3, <2>4, SettleStep
<1>12. \A b \in Fut : resolver'[b] = IF b = f THEN o ELSE resolver[b]
  BY <1>8 DEF SettledTo
<1>13. ASSUME NEW u \in Fut, kind[u] = "fwdThen", u # t
       PROVE  PairState(u)'
  <2>1. Apart(u, f, o, {a})
    <3>1. u # a /\ u + 1 # a
      <4>1. kind[u + 1] = "fwdError" /\ kind[t + 1] = "fwdError"
        BY <1>4, <1>13, PairFacts
      <4>2. a = t + 1 /\ u + 1 = a => u = t
        BY <1>4, SMT DEF Fut
      <4> QED BY <4>1, <4>2, <1>4, <1>13
    <3>2. subject[u] # f
      BY <1>4, <1>13 DEF IInv, ForwardInv
    <3>3. subject[u] # a
      BY <1>1, <1>13, StartedPairs
    <3>4. u # f
      BY <1>5, <1>13
    <3> QED BY <3>1, <3>2, <3>3, <3>4, <1>2 DEF Apart
  <2>2. Advance(f, o, {a})
    BY <1>2, <1>3, <1>7, <1>12 DEF Advance, IInv, TypeOK
  <2> QED BY <1>13, <2>1, <2>2, PairFrame
<1>14. PairState(t)'
  <2>1. CASE a = t
    <3>1. o.tag = "value" /\ o = cbResolver[t] /\ f = subject[t]
      BY <2>1, <1>2, <1>4 DEF Calls, o
    <3>2. running' # subject[t] /\ UNCHANGED <<made, kind, parent, subject>>
      BY <1>2, <1>4, <1>5
    <3>3. Advance(f, o, {a})
      BY <1>2, <1>3, <1>7, <1>12 DEF Advance, IInv, TypeOK
    <3> QED BY <1>1, <1>4, <2>1, <3>1, <3>2, <3>3, PairStarts
  <2>2. CASE a = t + 1
    <3>1. /\ runs'[t] = 1 /\ runs'[t + 1] = 1 /\ runs'[f] = runs[f]
      BY <1>3, <1>5, <1>6, <2>2
    <3>2. resolver'[f] = o /\ resolver'[parent[t]] = o /\ o.tag = "error"
      <4>1. parent[t] # f
        BY <1>3, <1>6, <1>7, <2>2 DEF Settled
      <4> QED BY <4>1, <1>5, <1>6, <1>12, <2>2
    <3>3. (kind[subject[t]] \in Handlers => Calls(subject[t], resolver[parent[subject[t]]]))'
      <4>1. kind[subject[t]] \in Handlers => Calls(subject[t], resolver[parent[subject[t]]])
        BY <1>5 DEF PairState
      <4>2. kind[subject[t]] \in Handlers =>
              parent[subject[t]] \in Fut /\ Settled(parent[subject[t]])
        BY <1>4, PairFacts
      <4>3. kind[subject[t]] \in Handlers =>
              resolver'[parent[subject[t]]] = resolver[parent[subject[t]]]
        BY <4>2, <1>7, <1>12
      <4> QED BY <4>1, <4>3, <1>2 DEF Calls
    <3>4. /\ subject[t] \in Made' /\ subject[t] # running'
          /\ kind'[subject[t]] \in (UserKinds \ {"error"}) \cup {"worker"}
          /\ kind'[subject[t]] # "worker" => runs'[subject[t]] = 1
      BY <1>2, <1>4, <1>5, <3>1 DEF PairState, Made
    <3>5. subject'[t] = subject[t] /\ parent'[t] = parent[t] /\ f = subject[t]
      BY <1>2, <1>4
    <3> QED BY ONLY <3>1, <3>2, <3>3, <3>4, <3>5 DEF PairState, Settled
  <2> QED BY <2>1, <2>2, <1>4
<1>15. ForwardInv'
  BY <1>2, <1>13, <1>14 DEF IInv, ForwardInv
<1> QED BY <1>11, <1>15 DEF IInv

\* The lambdas put on Future g forward its outcome to r, which nothing has settled and
\* nothing else will: the action r has returned g, or the function of worker r has.
LEMMA ForwardStep ==
  ASSUME IInv, NEW g \in Fut, NEW r \in Fut, g \in Made, Forward(g, r),
         ~Settled(r), kind[r] \in (UserKinds \ {"error"}) \cup {"worker"},
         kind[r] # "worker" => runs[r] = 1,
         kind[r] \in Handlers => Calls(r, resolver[parent[r]]),
         \A u \in Fut : kind[u] = "fwdThen" => subject[u] # r,
         UNCHANGED <<resolver, runs>>, running' = 0,
         closing \subseteq closing', closing' \subseteq Fut,
         \A b \in Fut : b \in closing' \cup {running'} <=> b \in closing \cup {running} \cup {}
  PROVE  IInv'
<1> DEFINE t == made + 1
           e == made + 2
           list == Delivery(g, t)
           o == resolver[g]
<1>1. CreatesTwo(t, e)
  BY CreateTwoFacts DEF Forward
<1>2. /\ kind' = [kind EXCEPT ![t] = "fwdThen", ![e] = "fwdError"]
      /\ parent' = [parent EXCEPT ![t] = g, ![e] = t]
      /\ subject' = [subject EXCEPT ![t] = r, ![e] = r]
      /\ actions' = [actions EXCEPT ![g] = Append(@, t), ![t] = <<e>>]
      /\ Enqueue(queue, list, o)
      /\ resolver' = resolver /\ runs' = runs /\ running' = 0
  BY DEF Forward, Delivery
<1>3. r \in Fut /\ ~Settled(r) /\ r # 0
  BY SMT DEF Fut
<1>4. /\ t \in Fut /\ e \in Fut /\ t # e /\ t + 1 = e /\ e = t + 1 /\ made' \in made..MaxFutures
      /\ \A b \in Fut : Fresh(b) <=> b \in {t, e}
      /\ \A b \in {t, e} : /\ b \notin Made /\ b \in Made' /\ b \notin Range(queue)
                           /\ Idle(b) /\ b \notin armed /\ runs[b] = 0 /\ kind[b] = "none"
                           /\ actions[b] = <<>> /\ resolver[b] = Null
                           /\ \A h \in Fut : b \notin Range(actions[h])
  BY <1>1 DEF CreatesTwo
<1> HIDE DEF t, e
<1>5. /\ kind' \in [Fut -> Kinds] /\ parent' \in [Fut -> 0..MaxFutures]
      /\ subject' \in [Fut -> 0..MaxFutures]
      /\ \A b \in Fut : /\ kind'[b] = IF b = e THEN "fwdError" ELSE IF b = t THEN "fwdThen" ELSE kind[b]
                        /\ parent'[b] = IF b = e THEN t ELSE IF b = t THEN g ELSE parent[b]
                        /\ subject'[b] = IF b \in {t, e} THEN r ELSE subject[b]
  <2>1. t \in 0..MaxFutures /\ g \in 0..MaxFutures /\ r \in 0..MaxFutures
    BY <1>3, <1>4, MaxFuturesAssumption, SMT DEF Fut
  <2>2. /\ kind \in [Fut -> Kinds] /\ parent \in [Fut -> 0..MaxFutures]
        /\ subject \in [Fut -> 0..MaxFutures]
    BY DEF IInv, TypeOK
  <2>3. "fwdThen" \in Kinds /\ "fwdError" \in Kinds
    BY DEF Kinds, Forwarders
  <2> QED BY <1>2, <1>4, <2>1, <2>2, <2>3
<1>6. g # t /\ g # e
  BY <1>2, <1>4
<1>7. /\ actions' \in [Fut -> Seq(Fut)]
      /\ \A h \in Fut : IsInjective(actions'[h])
      /\ \A h \in Fut : Range(actions'[h]) =
           Range(actions[h]) \cup (IF h = g THEN {t} ELSE IF h = t THEN {e} ELSE {})
      /\ \A h \in Fut : h # g /\ h # t => actions'[h] = actions[h]
  <2> DEFINE l == Append(actions[g], t)
             m == <<e>>
  <2>1. actions \in [Fut -> Seq(Fut)] /\ \A h \in Fut : IsInjective(actions[h])
    BY DEF IInv, TypeOK, AttachInv
  <2>2. l \in Seq(Fut) /\ IsInjective(l) /\ Range(l) = Range(actions[g]) \cup {t}
    <3>1. actions[g] \in Seq(Fut) /\ IsInjective(actions[g]) /\ t \notin Range(actions[g])
      BY <1>4, <2>1
    <3> QED BY ONLY <3>1, <1>4, AppendToList
  <2>3. m \in Seq(Fut) /\ IsInjective(m) /\ Range(m) = {e} /\ Range(actions[t]) = {}
    BY <1>4, ShortLists
  <2>4. actions' = [actions EXCEPT ![g] = l, ![t] = m]
    BY <1>2
  <2> HIDE DEF l, m
  <2>5. \A h \in Fut : actions'[h] = IF h = t THEN m ELSE IF h = g THEN l ELSE actions[h]
    BY <1>4, <1>6, <2>1, <2>4
  <2>6. actions' \in [Fut -> Seq(Fut)]
    BY <2>1, <2>2, <2>3, <2>4
  <2>7. \A h \in Fut : IsInjective(actions'[h])
    BY <2>1, <2>2, <2>3, <2>5
  <2>8. \A h \in Fut : Range(actions'[h]) =
           Range(actions[h]) \cup (IF h = g THEN {t} ELSE IF h = t THEN {e} ELSE {})
    BY <1>6, <2>2, <2>3, <2>5
  <2> QED BY <2>5, <2>6, <2>7, <2>8
<1>8. EnqueuedTo(queue, list, o) /\ Range(list) = (IF Settled(g) THEN {t} ELSE {})
  <2>1. /\ list \in Seq(Fut) /\ IsInjective(list)
        /\ Range(list) = IF Settled(g) THEN {t} ELSE {}
    BY <1>4, ShortLists DEF Delivery
  <2>2. TypeOK /\ queue \in Seq(Fut) /\ IsInjective(queue) /\ o \in Outcomes
    BY DEF IInv, TypeOK, HandlesReady
  <2>3. \A a \in Range(list) : Idle(a) /\ a \notin Range(queue)
    BY <1>4, <2>1
  <2> HIDE DEF list, o
  <2> QED BY <1>2, <2>1, <2>2, <2>3, EnqueueFacts
<1>9. HandlesMove(queue, list, o, {})
  <2>1. closing \subseteq Fut /\ 0 \notin Fut /\ 0 \in 0..MaxFutures
    BY Basics, MaxFuturesAssumption, SMT DEF Fut
  <2>2. \A b \in Range(list) : b = t /\ o # Null
    BY <1>8 DEF Settled
  <2>3. kind'[t] = "fwdThen" /\ \A b \in armed : kind'[b] = kind[b]
    BY <1>4, <1>5, Basics
  <2>4. \A b \in Fut : b \in closing' \cup {running'} <=> b \in closing \cup {running} \cup {}
    OBVIOUS
  <2> HIDE DEF list, o
  <2> QED BY <1>2, <1>3, <1>4, <1>8, <2>1, <2>2, <2>3, <2>4 DEF HandlesMove
<1>10. Grows
  <2>1. g \in Made'
    BY <1>2, <1>4, SMT DEF Made, IInv, TypeOK
  <2>2. \A b \in {"fwdThen", "fwdError"} : b \in Waiters /\ b # "none"
    BY DEF Waiters, Forwarders
  <2>3. runs' \in [Fut -> Nat]
    BY <1>2 DEF IInv, TypeOK
  <2>4. made' \in made..MaxFutures /\ resolver' = resolver /\ actions' \in [Fut -> Seq(Fut)]
    BY <1>4, <1>7
  <2>5. \A b \in Fut : ~Fresh(b) =>
          kind'[b] = kind[b] /\ parent'[b] = parent[b] /\ subject'[b] = subject[b]
    BY <1>4, <1>5
  <2>6. ASSUME NEW b \in Fut, Fresh(b)
        PROVE  kind'[b] # "none" /\ kind'[b] \in Waiters /\ parent'[b] \in Made'
    <3>1. CASE b = t
      BY <1>4, <1>5, <2>1, <2>2, <3>1
    <3>2. CASE b = e
      BY <1>4, <1>5, <2>2, <3>2
    <3> QED BY <1>4, <2>6, <3>1, <3>2
  <2> QED BY <1>5, <2>3, <2>4, <2>5, <2>6 DEF Grows
<1>11. Attaches({t, e})
  <2>1. \A b \in Fut : b > made' => actions'[b] = <<>>
    <3>1. \A b \in Fut : b > made' => actions[b] = <<>> /\ b # g /\ b # t
      BY <1>2, <1>4, <1>10, GrowFacts
    <3> QED BY <3>1, <1>7
  <2>2. \A h \in Fut : Range(actions'[h]) = Range(actions[h]) \cup {b \in {t, e} : parent'[b] = h}
    BY <1>4, <1>5, <1>6, <1>7
  <2>3. parent'[t] = g /\ parent'[e] = t /\ kind'[t] \in Waiters /\ kind'[e] \in Waiters
    BY <1>4, <1>5 DEF Waiters, Forwarders
  <2> QED BY <1>4, <1>7, <2>1, <2>2, <2>3 DEF Attaches
<1>12. Delivers({t, e}, list, o)
  <2>1. parent'[t] = g /\ parent'[e] = t /\ ~Settled(t)
    BY <1>4, <1>5 DEF Settled
  <2> HIDE DEF list
  <2> QED BY <1>4, <1>8, <2>1 DEF Delivers
<1>13. Starts({})
  BY <1>2 DEF Starts
<1>14. Posts({t, e}, {})
  <2>1. \A j \in Fut : kind[j] = "attach" => subject[j] \in Made
    BY DEF IInv, JobsInv
  <2>2. \A j \in Fut : Fresh(j) => kind'[j] # "attach"
    BY <1>4, <1>5
  <2> QED BY <1>4, <2>1, <2>2 DEF Posts
<1> HIDE DEF list, o
<1>15. HandlesReady' /\ RunsInv'
  BY <1>9, HandleStep
<1>16. TypeOK' /\ NeverFails' /\ UnmadeInv'
  BY <1>9, <1>10, <1>11, <1>12, GrowUnmade
<1>17. AttachInv'
  BY <1>9, <1>10, <1>11, <1>12, GrowAttach
<1>18. OwnInv' /\ CallInv'
  BY <1>9, <1>10, <1>11, <1>12, <1>13, GrowOwn
<1>19. JobsInv'
  BY <1>9, <1>10, <1>11, <1>14, GrowJobs
<1>20. ASSUME NEW u \in Fut, kind'[u] = "fwdThen", ~Fresh(u)
       PROVE  /\ PairState(u)' /\ kind[u] = "fwdThen" /\ subject'[u] = subject[u]
              /\ u + 1 \in Made' /\ kind'[u + 1] = "fwdError"
              /\ parent'[u + 1] = u /\ subject'[u + 1] = subject'[u]
              /\ u \in Range(actions'[parent'[u]]) /\ u + 1 \in Range(actions'[u])
  <2>1. kind[u] = "fwdThen"
    BY <1>10, <1>20 DEF Grows
  <2>2. \A b \in {} : kind[b] \notin Forwarders
    OBVIOUS
  <2> QED BY <1>9, <1>10, <1>11, <2>1, <2>2, GrowOldPairs
<1>21. \A u \in Fut : kind'[u] = "fwdThen" /\ Fresh(u) => u = t
  BY <1>4, <1>5
<1>22. /\ kind'[t] = "fwdThen" /\ kind'[e] = "fwdError" /\ parent'[t] = g /\ parent'[e] = t
       /\ subject'[t] = r /\ subject'[e] = r /\ e \in Made' /\ t \in Made'
       /\ t \in Range(actions'[g]) /\ e \in Range(actions'[t])
  BY <1>4, <1>5, <1>6, <1>7
<1>23. ASSUME NEW d \in Fut, kind'[d] = "fwdError"
       PROVE  d - 1 \in Made' /\ kind'[d - 1] = "fwdThen"
  <2>1. CASE d = e
    <3>1. e - 1 = t
      BY <1>4, SMT DEF Fut
    <3> QED BY <2>1, <3>1, <1>22
  <2>2. CASE d # e
    <3>1. kind[d] = "fwdError"
      BY <1>5, <1>23, <2>2
    <3>2. d - 1 \in Made /\ kind[d - 1] = "fwdThen"
      BY <3>1 DEF IInv, PairInv
    <3>3. d - 1 \in Fut
      <4>1. made \in 0..MaxFutures /\ d - 1 \in 1..made
        BY <3>2 DEF IInv, TypeOK, Made
      <4> QED BY <4>1, MaxFuturesAssumption, SMT DEF Fut
    <3> QED BY <3>2, <3>3, <1>10, GrowFacts DEF Grows
  <2> QED BY <2>1, <2>2
<1>24. PairInv'
  BY <1>4, <1>20, <1>21, <1>22, <1>23 DEF PairInv
<1>25. r \in Made' /\ kind'[r] = kind[r] /\ parent'[r] = parent[r]
  <2>1. r \in Made
    BY <1>3, <1>10, GrowFacts
  <2> QED BY <2>1, <1>3, <1>10, GrowFacts DEF Grows
<1>26. ASSUME NEW u \in Fut, u = t
       PROVE  PairState(u)'
  <2>1. /\ subject'[u] = r /\ runs'[u] = 0 /\ resolver'[r] = Null /\ r # running'
        /\ kind'[r] # "worker" => runs'[r] = 1
    BY <1>2, <1>3, <1>4, <1>22, <1>25, <1>26 DEF Settled
  <2>2. kind[r] \in Handlers => Calls(r, resolver[parent[r]])
    OBVIOUS
  <2>3. (kind[subject[u]] \in Handlers => Calls(subject[u], resolver[parent[subject[u]]]))'
    BY <1>2, <1>25, <2>1, <2>2 DEF Calls
  <2>4. kind'[r] \in (UserKinds \ {"error"}) \cup {"worker"}
    BY <1>2, <1>25
  <2> QED BY ONLY <1>25, <2>1, <2>3, <2>4 DEF PairState, Settled
<1>27. ForwardInv'
  <2>1. \A u \in Fut : kind'[u] = "fwdThen" => PairState(u)'
    BY <1>20, <1>21, <1>26
  <2>2. \A u \in Fut : kind[u] = "fwdThen" => subject[u] # r
    OBVIOUS
  <2>3. ASSUME NEW u \in Fut, NEW v \in Fut, kind'[u] = "fwdThen", kind'[v] = "fwdThen",
               subject'[u] = subject'[v]
        PROVE  u = v
    <3>1. CASE Fresh(u) /\ Fresh(v)
      BY <3>1, <2>3, <1>21
    <3>2. CASE Fresh(u) /\ ~Fresh(v)
      BY <3>2, <2>2, <2>3, <1>20, <1>21, <1>22
    <3>3. CASE ~Fresh(u) /\ Fresh(v)
      BY <3>3, <2>2, <2>3, <1>20, <1>21, <1>22
    <3>4. CASE ~Fresh(u) /\ ~Fresh(v)
      BY <3>4, <2>3, <1>20 DEF IInv, ForwardInv
    <3> QED BY <3>1, <3>2, <3>3, <3>4
  <2> QED BY <2>1, <2>3 DEF ForwardInv
<1> QED BY <1>15, <1>16, <1>17, <1>18, <1>19, <1>24, <1>27 DEF IInv

\* A function returns Future g: its action's future waits for g.
LEMMA ReturnFutureInv ==
  ASSUME IInv, NEW g \in Fut, ReturnFuture(g)
  PROVE  IInv'
<1>1. /\ Forward(g, running) /\ g \in Made /\ running # 0
      /\ kind[running] \in UserKinds \ {"error"}
      /\ UNCHANGED <<resolver, runs>> /\ running' = 0 /\ closing' = closing \cup {running}
  BY DEF ReturnFuture
<1>2. /\ running \in Fut /\ running \in armed /\ runs[running] = 1 /\ ~Settled(running)
      /\ Calls(running, cbResolver[running])
  BY <1>1, RunningFacts
<1>3. kind[running] \in Handlers => Calls(running, resolver[parent[running]])
  BY <1>2 DEF IInv, OwnInv, Waiters
<1>4. \A u \in Fut : kind[u] = "fwdThen" => subject[u] # running
  BY PairFacts
<1>5. /\ closing \subseteq closing' /\ closing' \subseteq Fut
      /\ \A b \in Fut : b \in closing' \cup {running'} <=> b \in closing \cup {running} \cup {}
  BY <1>1, <1>2, Basics DEF Fut
<1> QED BY <1>1, <1>2, <1>3, <1>4, <1>5, ForwardStep

\* A handle's close callback.
LEMMA AsyncClosedInv ==
  ASSUME IInv, NEW a \in Fut, AsyncClosed(a)
  PROVE  IInv'
<1>1. /\ a \in closing /\ running = 0 /\ closing' = closing \ {a} /\ armed' = armed \ {a}
      /\ cbResolver' = [cbResolver EXCEPT ![a] = Null]
      /\ made' = made /\ kind' = kind /\ parent' = parent /\ subject' = subject
      /\ resolver' = resolver /\ actions' = actions /\ queue' = queue
      /\ running' = running /\ runs' = runs /\ failed' = failed
  BY DEF AsyncClosed
<1>2. /\ cbResolver' \in [Fut -> Outcomes]
      /\ \A b \in Fut : cbResolver'[b] = IF b = a THEN Null ELSE cbResolver[b]
  BY <1>1, OutcomeFacts DEF IInv, TypeOK
<1>3. runs[a] = 1 /\ a \notin Range(queue) /\ a # 0
  <2>1. a # 0
    BY SMT DEF Fut
  <2> QED BY <1>1, <2>1 DEF IInv, HandlesReady, RunsInv
<1>4. TypeOK' /\ NeverFails'
  BY <1>1, <1>2 DEF IInv, TypeOK, NeverFails
<1>5. UnmadeInv'
  BY <1>1, <1>2 DEF IInv, UnmadeInv, Idle
<1>6. HandlesReady'
  BY <1>1, <1>2, <1>3 DEF IInv, HandlesReady
<1>7. RunsInv'
  BY <1>1 DEF IInv, RunsInv, RunsOnce
<1>8. AttachInv'
  BY <1>1 DEF IInv, AttachInv, DeliveredIffSettled, Settled, Made
<1>9. JobsInv' /\ PairInv'
  BY <1>1 DEF IInv, JobsInv, PairInv, Made
<1>10. OwnInv'
  BY <1>1, <1>2 DEF IInv, OwnInv, Settled
<1>11. CallInv'
  BY <1>1 DEF IInv, CallInv, Calls
<1>12. ForwardInv'
  <2>1. \A t \in Fut : PairState(t) => PairState(t)'
    BY <1>1 DEF PairState, Made, Settled, Calls
  <2> QED BY <1>1, <2>1 DEF IInv, ForwardInv
<1> QED BY <1>4, <1>5, <1>6, <1>7, <1>8, <1>9, <1>10, <1>11, <1>12 DEF IInv

-----------------------------------------------------------------------------
(* The theorems. *)

\* The program starts in a state of the invariant.
LEMMA InitInv ==
  ASSUME Init
  PROVE  IInv
<1>1. /\ Range(<<>>) = {} /\ IsInjective(<<>>) /\ <<>> \in Seq(Fut)
  BY SMT DEF Range, IsInjective
<1>2. 0 \in 0..MaxFutures /\ 0 \notin Fut
  BY MaxFuturesAssumption, SMT DEF Fut
<1>3. /\ made = 0 /\ running = 0 /\ closing = {} /\ armed = {} /\ queue = <<>> /\ failed = FALSE
      /\ \A f \in Fut : /\ kind[f] = "none" /\ parent[f] = 0 /\ subject[f] = 0
                        /\ resolver[f] = Null /\ cbResolver[f] = Null
                        /\ actions[f] = <<>> /\ runs[f] = 0
  BY DEF Init
<1>4. TypeOK
  BY <1>1, <1>2 DEF Init, TypeOK, Kinds, Outcomes
<1>5. NeverFails /\ UnmadeInv
  BY <1>3 DEF NeverFails, UnmadeInv, Idle
<1>6. HandlesReady /\ RunsInv
  BY <1>1, <1>2, <1>3 DEF HandlesReady, RunsInv, RunsOnce
<1>7. AttachInv /\ JobsInv
  BY <1>1, <1>3 DEF AttachInv, JobsInv, DeliveredIffSettled, Waiters, Handlers, Forwarders
<1>8. OwnInv /\ CallInv
  BY <1>3 DEF OwnInv, CallInv, Settled, Waiters, Handlers, Forwarders
<1>9. PairInv /\ ForwardInv
  BY <1>3 DEF PairInv, ForwardInv
<1> QED BY <1>4, <1>5, <1>6, <1>7, <1>8, <1>9 DEF IInv

\* A step that changes none of the variables keeps the invariant.
LEMMA StutterInv ==
  ASSUME IInv, UNCHANGED vars
  PROVE  IInv'
<1>1. /\ made' = made /\ kind' = kind /\ parent' = parent /\ subject' = subject
      /\ resolver' = resolver /\ actions' = actions /\ queue' = queue
      /\ running' = running /\ runs' = runs /\ failed' = failed
      /\ cbResolver' = cbResolver /\ armed' = armed /\ closing' = closing
  BY DEF vars
<1>2. TypeOK' /\ NeverFails' /\ UnmadeInv'
  BY <1>1 DEF IInv, TypeOK, NeverFails, UnmadeInv, Idle
<1>3. HandlesReady' /\ RunsInv'
  BY <1>1 DEF IInv, HandlesReady, RunsInv, RunsOnce
<1>4. AttachInv' /\ JobsInv' /\ PairInv'
  BY <1>1 DEF IInv, AttachInv, DeliveredIffSettled, Settled, JobsInv, PairInv, Made
<1>5. OwnInv' /\ CallInv'
  BY <1>1 DEF IInv, OwnInv, CallInv, Calls, Settled
<1>6. ForwardInv'
  <2>1. \A t \in Fut : PairState(t) => PairState(t)'
    BY <1>1 DEF PairState, Made, Settled, Calls
  <2> QED BY <1>1, <2>1 DEF IInv, ForwardInv
<1> QED BY <1>2, <1>3, <1>4, <1>5, <1>6 DEF IInv

\* Every step of the loop, of its callbacks and of other threads.
LEMMA NextInv ==
  ASSUME IInv, [Next]_vars
  PROVE  IInv'
<1>1. CASE User
  <2>1. CASE NewPromise
    BY <2>1, NewPromiseInv
  <2>2. CASE Async
    BY <2>2, AsyncInv
  <2>3. ASSUME NEW f \in Fut, NEW tag \in Tags, PromiseSettle(f, tag) PROVE IInv'
    BY <2>3, PromiseSettleInv
  <2>4. ASSUME NEW f \in Fut, NEW k \in HandlerKinds, AttachHandler(f, k) PROVE IInv'
    BY <2>4, AttachHandlerInv
  <2>5. ASSUME NEW f \in Fut, NEW k \in HandlerKinds, ForeignAttach(f, k) PROVE IInv'
    BY <2>5, ForeignAttachInv
  <2> QED BY <1>1, <2>1, <2>2, <2>3, <2>4, <2>5 DEF User
<1>2. CASE Dispatch
  BY <1>2, PassOnInv, CallUserInv, CallForwardInv, CallAttachInv DEF Dispatch
<1>3. CASE Return
  <2>1. CASE ReturnValue
    <3>1. running # 0 /\ Finish(Value(running))
      BY <2>1 DEF ReturnValue
    <3>2. /\ Value(running) \in Outcomes /\ Value(running) # Null
          /\ Value(running).tag = "value"
      BY <3>1, RunningFacts, OutcomeFacts
    <3> QED BY <3>1, <3>2, FinishInv
  <2>2. CASE ReturnThrow
    <3>1. running # 0 /\ Finish(Error(running)) /\ kind[running] # "fwdThen"
      BY <2>2 DEF ReturnThrow, UserKinds, Handlers
    <3>2. Error(running) \in Outcomes /\ Error(running) # Null
      BY <3>1, RunningFacts, OutcomeFacts
    <3> QED BY <3>1, <3>2, FinishInv
  <2>3. ASSUME NEW g \in Fut, ReturnFuture(g) PROVE IInv'
    BY <2>3, ReturnFutureInv
  <2> QED BY <1>3, <2>1, <2>2, <2>3 DEF Return
<1>4. CASE Close
  BY <1>4, AsyncClosedInv DEF Close
<1>5. CASE UNCHANGED vars
  BY <1>5, StutterInv
<1> QED BY <1>1, <1>2, <1>3, <1>4, <1>5 DEF Next

\* The inductive invariant holds in every reachable state.
THEOREM Invariance == Spec => []IInv
<1>1. Init => IInv
  BY InitInv
<1>2. IInv /\ [Next]_vars => IInv'
  BY NextInv
<1> QED BY <1>1, <1>2, PTL DEF Spec

\* Types.
THEOREM TypeCorrect == Spec => []TypeOK
<1>1. IInv => TypeOK
  BY DEF IInv
<1> QED BY <1>1, Invariance, PTL

\* No assertion of the callback machinery fails and the library never settles a
\* future twice, for any number of futures and any interleaving.
THEOREM NoFailure == Spec => []NeverFails
<1>1. IInv => NeverFails
  BY DEF IInv
<1> QED BY <1>1, Invariance, PTL

\* executeAsync, AsyncClosed and closeAsync find the instance and the resolver
\* their assertions ask for.
THEOREM HandlesAreReady == Spec => []HandlesReady
<1>1. IInv => HandlesReady
  BY DEF IInv
<1> QED BY <1>1, Invariance, PTL

\* Every callback runs at most once.
THEOREM CallbacksRunOnce == Spec => []RunsOnce
<1>1. IInv => RunsOnce
  BY DEF IInv, RunsInv
<1> QED BY <1>1, Invariance, PTL

\* No wake-up is lost and none is early.
THEOREM NoLostWakeup == Spec => []DeliveredIffSettled
<1>1. IInv => DeliveredIffSettled
  BY DEF IInv, AttachInv
<1> QED BY <1>1, Invariance, PTL

\* A handler that does not apply passes the very outcome on.
THEOREM Transparency == Spec => []SkippedIsTransparent
<1>1. ASSUME IInv PROVE SkippedIsTransparent
  <2> SUFFICES ASSUME NEW a \in Fut, Settled(a),
                      \/ kind[a] = "then" /\ resolver[parent[a]].tag = "error"
                      \/ kind[a] = "error" /\ resolver[parent[a]].tag = "value"
               PROVE  resolver[a] = resolver[parent[a]]
    BY DEF SkippedIsTransparent
  <2>1. kind[a] \in Waiters /\ kind[a] \notin {"promise", "worker"}
    BY DEF Waiters, Handlers
  <2>2. runs[a] = 1
    BY <1>1, <2>1 DEF IInv, OwnInv
  <2>3. ~Calls(a, resolver[parent[a]])
    BY DEF Calls
  <2> QED BY <1>1, <2>1, <2>2, <2>3 DEF IInv, CallInv
<1> QED BY <1>1, Invariance, PTL

\* An action whose function returned a Future ends with that Future's outcome.
THEOREM Adoption == Spec => []AdoptsReturned
<1>1. ASSUME IInv PROVE AdoptsReturned
  <2> SUFFICES ASSUME NEW t \in Fut, kind[t] = "fwdThen", Settled(subject[t])
               PROVE  resolver[subject[t]] = resolver[parent[t]]
    BY DEF AdoptsReturned
  <2>1. PairState(t) /\ parent[t] \in Fut /\ (runs[t] = 1 => Settled(parent[t]))
    BY <1>1, PairFacts
  <2>2. runs[t] = 1
    BY <1>1, <2>1, Basics DEF PairState
  <2>3. resolver[parent[t]].tag \in {"value", "error"}
    <3>1. resolver[parent[t]] \in Outcomes /\ resolver[parent[t]] # Null
      BY <1>1, <2>1, <2>2 DEF IInv, TypeOK, Settled
    <3> QED BY <3>1, OutcomeFacts DEF Tags
  <2> QED BY <2>1, <2>2, <2>3 DEF PairState
<1> QED BY <1>1, Invariance, PTL

\* The outcome of a future never changes.
THEOREM OutcomesAreFinal == Spec => SettledForever
<1> DEFINE Final == \A f \in Fut : Settled(f) => resolver'[f] = resolver[f]
<1>1. ASSUME IInv, [Next]_vars PROVE Final
  <2>1. resolver \in [Fut -> Outcomes]
    BY <1>1 DEF IInv, TypeOK
  <2>2. ASSUME NEW q, NEW f, NEW o, Settle(q, f, o) PROVE Final
    BY <2>1, <2>2 DEF Settle
  <2>3. ASSUME resolver' = resolver PROVE Final
    BY <2>3
  <2>4. CASE User
    BY <2>2, <2>3, <2>4 DEF User, NewPromise, Async, PromiseSettle, AttachHandler, ForeignAttach
  <2>5. CASE Dispatch
    BY <2>2, <2>3, <2>5 DEF Dispatch, PassOn, CallUser, CallForward, CallAttach
  <2>6. CASE Return
    BY <2>2, <2>3, <2>6 DEF Return, ReturnValue, ReturnThrow, Finish, ReturnFuture
  <2>7. CASE Close \/ UNCHANGED vars
    BY <2>3, <2>7 DEF Close, AsyncClosed, vars
  <2> QED BY <1>1, <2>4, <2>5, <2>6, <2>7 DEF Next
<1> QED BY <1>1, Invariance, PTL DEF Spec, SettledForever

-----------------------------------------------------------------------------
(* The order of attachment. *)

LEMMA BeforeOutside ==
  ASSUME NEW s, NEW a, NEW b, a \notin Range(s) \/ b \notin Range(s)
  PROVE  Before(s, a, b)
BY DEF Before, Range

LEMMA BeforeTail ==
  ASSUME NEW S, NEW s \in Seq(S), s # <<>>, NEW a, NEW b, Before(s, a, b)
  PROVE  Before(Tail(s), a, b)
<1>1. /\ Tail(s) \in Seq(S) /\ Len(s) \in Nat /\ Len(s) >= 1
      /\ Len(Tail(s)) = Len(s) - 1
      /\ \A i \in 1..Len(Tail(s)) : Tail(s)[i] = s[i + 1]
  BY HeadTailProperties, EmptySeq, LenProperties, SMT
<1>2. DOMAIN s = 1..Len(s) /\ DOMAIN Tail(s) = 1..Len(Tail(s))
  BY <1>1, LenProperties
<1> QED BY <1>1, <1>2, SMT DEF Before

\* The oldest handle is behind no other.
LEMMA HeadIsFirst ==
  ASSUME NEW S, NEW s \in Seq(S), s # <<>>, NEW a, NEW b, Before(s, a, b), b = Head(s)
  PROVE  a \notin Range(s)
<1>1. /\ DOMAIN s = 1..Len(s) /\ Len(s) \in Nat /\ Len(s) >= 1 /\ Head(s) = s[1]
  BY HeadTailProperties, EmptySeq, LenProperties, SMT
<1> QED BY <1>1, SMT DEF Before, Range

LEMMA BeforeConcat ==
  ASSUME NEW S, NEW s \in Seq(S), NEW t \in Seq(S), NEW a, NEW b,
         Before(s, a, b), Before(t, a, b), ~(b \in Range(s) /\ a \in Range(t))
  PROVE  Before(s \o t, a, b)
<1>1. /\ s \o t \in Seq(S) /\ Len(s) \in Nat /\ Len(t) \in Nat
      /\ Len(s \o t) = Len(s) + Len(t)
      /\ \A i \in 1..Len(s) + Len(t) :
           (s \o t)[i] = IF i <= Len(s) THEN s[i] ELSE t[i - Len(s)]
  BY ConcatProperties, LenProperties, SMT
<1>2. /\ DOMAIN s = 1..Len(s) /\ DOMAIN t = 1..Len(t)
      /\ DOMAIN (s \o t) = 1..Len(s) + Len(t)
  BY <1>1, LenProperties
<1>3. ASSUME NEW p \in 1..Len(s) + Len(t), NEW q \in 1..Len(s) + Len(t),
             (s \o t)[p] = a, (s \o t)[q] = b
      PROVE  p < q
  <2>1. CASE p <= Len(s) /\ q <= Len(s)
    <3>1. p \in DOMAIN s /\ q \in DOMAIN s /\ s[p] = a /\ s[q] = b
      BY <1>1, <1>2, <1>3, <2>1, SMT
    <3> QED BY <3>1 DEF Before
  <2>2. CASE p > Len(s) /\ q > Len(s)
    <3>1. /\ p - Len(s) \in DOMAIN t /\ q - Len(s) \in DOMAIN t
          /\ t[p - Len(s)] = a /\ t[q - Len(s)] = b
      BY <1>1, <1>2, <1>3, <2>2, SMT
    <3>2. p - Len(s) < q - Len(s)
      BY <3>1 DEF Before
    <3> QED BY <1>1, <3>2, SMT
  <2>3. CASE p <= Len(s) /\ q > Len(s)
    BY <1>1, <2>3, SMT
  <2>4. CASE p > Len(s) /\ q <= Len(s)
    <3>1. q \in DOMAIN s /\ p - Len(s) \in DOMAIN t /\ s[q] = b /\ t[p - Len(s)] = a
      BY <1>1, <1>2, <1>3, <2>4, SMT
    <3> QED BY <3>1 DEF Range
  <2> QED BY <1>1, <2>1, <2>2, <2>3, <2>4, SMT
<1> QED BY <1>2, <1>3 DEF Before

LEMMA BeforeInList ==
  ASSUME NEW s, IsInjective(s), NEW i \in DOMAIN s, NEW j \in DOMAIN s, i < j
  PROVE  Before(s, s[i], s[j])
BY DEF Before, IsInjective

\* q is the queue, or what is left of it when its oldest action starts.
Dequeues(q) ==
  \/ q = queue /\ runs' = runs
  \/ \E a \in Fut : Begin(a) /\ q = Tail(queue)

LEMMA DequeueFacts ==
  ASSUME IInv, NEW q, Dequeues(q)
  PROVE  /\ q \in Seq(Fut) /\ Range(q) \subseteq Range(queue)
         /\ \A b \in Fut : b \notin Range(queue) => runs'[b] = runs[b]
<1>1. CASE q = queue /\ runs' = runs
  BY <1>1 DEF IInv, TypeOK
<1>2. ASSUME NEW a \in Fut, Begin(a), q = Tail(queue)
      PROVE  /\ q \in Seq(Fut) /\ Range(q) \subseteq Range(queue)
             /\ \A b \in Fut : b \notin Range(queue) => runs'[b] = runs[b]
  BY <1>2, BeginFacts DEF Started
<1> QED BY <1>1, <1>2 DEF Dequeues

\* The oldest action starts: those attached before it have run.
LEMMA OldPairs ==
  ASSUME IInv, OrderInv, NEW q, Dequeues(q),
         NEW f \in Fut, NEW i \in DOMAIN actions[f], NEW j \in DOMAIN actions[f], i < j
  PROVE  /\ runs'[actions[f][j]] > 0 => runs'[actions[f][i]] > 0
         /\ Before(q, actions[f][i], actions[f][j])
<1> DEFINE a == actions[f][i]
           b == actions[f][j]
<1>1. (runs[b] > 0 => runs[a] > 0) /\ Before(queue, a, b)
  BY DEF OrderInv
<1>2. a \in Range(actions[f]) /\ b \in Range(actions[f])
  BY DEF Range
<1>3. a \in Fut /\ b \in Fut
  BY <1>2, Basics
<1>4. CASE q = queue /\ runs' = runs
  BY <1>1, <1>4
<1>5. ASSUME NEW c \in Fut, Begin(c), q = Tail(queue)
      PROVE  (runs'[b] > 0 => runs'[a] > 0) /\ Before(q, a, b)
  <2> HIDE DEF a, b
  <2>1. queue \in Seq(Fut) /\ queue # <<>> /\ c = Head(queue)
    BY <1>5 DEF IInv, TypeOK, Begin
  <2>2. Before(q, a, b)
    BY ONLY <1>1, <1>5, <2>1, BeforeTail
  <2>3. /\ \A x \in Fut : runs'[x] = IF x = c THEN 1 ELSE runs[x]
        /\ c \in Range(queue)
    BY <1>5, BeginFacts DEF Started
  <2>4. CASE b = c
    <3>1. a \notin Range(queue)
      BY ONLY <1>1, <2>1, <2>4, HeadIsFirst
    <3>2. Settled(f)
      BY <1>2, <2>3, <2>4 DEF IInv, AttachInv, DeliveredIffSettled
    <3>3. runs[a] = 1
      BY <1>2, <3>1, <3>2 DEF IInv, AttachInv, DeliveredIffSettled
    <3> QED BY <1>3, <2>2, <2>3, <3>3
  <2>5. CASE b # c
    BY <1>1, <1>3, <2>2, <2>3, <2>5
  <2> QED BY <2>4, <2>5
<1> QED BY <1>4, <1>5 DEF Dequeues

\* The list that joins the queue: the actions of a future that was pending, or
\* actions that were attached to none.
Joins(list) ==
  \/ \E f \in Fut : ~Settled(f) /\ list = actions[f]
  \/ \A f \in Fut : Range(list) \cap Range(actions[f]) = {}

\* In _actions, b is behind what was there: it neither ran nor is in q.
Lists(q, list) ==
  \A f \in Fut : \A i, j \in DOMAIN actions'[f] : i < j =>
    \/ /\ i \in DOMAIN actions[f] /\ actions'[f][i] = actions[f][i]
       /\ j \in DOMAIN actions[f] /\ actions'[f][j] = actions[f][j]
    \/ /\ runs'[actions'[f][j]] = 0 /\ actions'[f][j] \notin Range(q)
       /\ actions'[f][i] \notin Range(list)

LEMMA OrderStep ==
  ASSUME IInv, OrderInv, NEW q, Dequeues(q), NEW list \in Seq(Fut), Joins(list),
         queue' = q \o list, Lists(q, list)
  PROVE  OrderInv'
<1>1. q \in Seq(Fut) /\ Range(q) \subseteq Range(queue)
  BY DequeueFacts
<1>2. ASSUME NEW f \in Fut, NEW i \in DOMAIN actions[f], NEW j \in DOMAIN actions[f], i < j
      PROVE  Before(queue', actions[f][i], actions[f][j])
  <2> DEFINE a == actions[f][i]
             b == actions[f][j]
  <2>1. Before(q, a, b)
    BY <1>2, OldPairs
  <2>2. a \in Range(actions[f]) /\ b \in Range(actions[f]) /\ IsInjective(actions[f])
    BY DEF Range, IInv, AttachInv
  <2>3. Before(list, a, b) /\ ~(b \in Range(q) /\ a \in Range(list))
    <3>1. CASE a \notin Range(list)
      <4> HIDE DEF a, b
      <4> QED BY <3>1, BeforeOutside
    <3>2. CASE a \in Range(list)
      <4>1. PICK g \in Fut : ~Settled(g) /\ list = actions[g]
        BY <2>2, <3>2 DEF Joins
      <4>2. g = f
        BY <2>2, <3>2, <4>1 DEF IInv, AttachInv
      <4>3. Before(list, a, b)
        BY <1>2, <2>2, <4>1, <4>2, BeforeInList
      <4>4. b \notin Range(queue)
        BY <2>2, <4>1, <4>2 DEF IInv, AttachInv, DeliveredIffSettled
      <4> QED BY <1>1, <4>3, <4>4
    <3> QED BY <3>1, <3>2
  <2> HIDE DEF a, b
  <2>4. Before(q \o list, a, b)
    BY ONLY <1>1, list \in Seq(Fut), <2>1, <2>3, BeforeConcat
  <2> QED BY <2>4 DEF a, b
<1>3. ASSUME NEW f \in Fut, NEW i \in DOMAIN actions'[f], NEW j \in DOMAIN actions'[f], i < j
      PROVE  /\ runs'[actions'[f][j]] > 0 => runs'[actions'[f][i]] > 0
             /\ Before(queue', actions'[f][i], actions'[f][j])
  <2>1. CASE /\ i \in DOMAIN actions[f] /\ actions'[f][i] = actions[f][i]
             /\ j \in DOMAIN actions[f] /\ actions'[f][j] = actions[f][j]
    BY <1>2, <1>3, <2>1, OldPairs
  <2>2. CASE /\ runs'[actions'[f][j]] = 0 /\ actions'[f][j] \notin Range(q)
             /\ actions'[f][i] \notin Range(list)
    <3> DEFINE a == actions'[f][i]
               b == actions'[f][j]
    <3>1. b \notin Range(q) /\ a \notin Range(list) /\ runs'[b] = 0
      BY <2>2
    <3> HIDE DEF a, b
    <3>2. Before(q, a, b) /\ Before(list, a, b)
      BY <3>1, BeforeOutside
    <3>3. Before(q \o list, a, b)
      BY ONLY <1>1, list \in Seq(Fut), <3>1, <3>2, BeforeConcat
    <3> QED BY <3>1, <3>3 DEF a, b
  <2> QED BY <1>3, <2>1, <2>2 DEF Lists
<1> QED BY <1>3 DEF OrderInv, Before

\* Nothing joins the queue, or one action that was attached to no future.
LEMMA PlainOrder ==
  ASSUME IInv, OrderInv, NEW q, Dequeues(q), actions' = actions,
         \/ queue' = q
         \/ \E x \in Fut : queue' = q \o <<x>> /\ \A f \in Fut : x \notin Range(actions[f])
  PROVE  OrderInv'
<1>1. q \in Seq(Fut)
  BY DequeueFacts
<1>2. \A list : Lists(q, list)
  BY DEF Lists
<1>3. CASE queue' = q
  <2>1. queue' = q \o <<>>
    BY <1>1, <1>3, ConcatEmptySeq
  <2>2. <<>> \in Seq(Fut) /\ Range(<<>>) = {}
    BY EmptySeq DEF Range
  <2>3. Joins(<<>>)
    BY <2>2 DEF Joins
  <2> QED BY <1>2, <2>1, <2>2, <2>3, OrderStep
<1>4. ASSUME NEW x \in Fut, queue' = q \o <<x>>, \A f \in Fut : x \notin Range(actions[f])
      PROVE  OrderInv'
  <2> DEFINE list == <<x>>
  <2>1. list \in Seq(Fut) /\ Range(list) = {x}
    BY ShortLists
  <2> HIDE DEF list
  <2>2. Joins(list)
    BY <1>4, <2>1 DEF Joins
  <2>3. queue' = q \o list
    BY <1>4 DEF list
  <2> QED BY <1>2, <2>1, <2>2, <2>3, OrderStep
<1> QED BY <1>3, <1>4

\* A future is settled: its actions join the queue as they were attached.
LEMMA SettleOrder ==
  ASSUME IInv, OrderInv, NEW q, Dequeues(q), actions' = actions,
         NEW f \in Fut, NEW o, Settle(q, f, o)
  PROVE  OrderInv'
<1>1. CASE Settled(f)
  <2>1. queue' = q
    BY <1>1 DEF Settle
  <2> QED BY <2>1, PlainOrder
<1>2. CASE ~Settled(f)
  <2>1. queue' = q \o actions[f]
    BY <1>2 DEF Settle, Enqueue
  <2>2. actions[f] \in Seq(Fut) /\ Joins(actions[f])
    BY <1>2 DEF Joins, IInv, TypeOK
  <2>3. Lists(q, actions[f])
    BY DEF Lists
  <2> QED BY <2>1, <2>2, <2>3, OrderStep
<1> QED BY <1>1, <1>2

\* push_back of x on the actions of f; the actions of another future h may be
\* made of one action.
LEMMA AppendOrder ==
  ASSUME IInv, OrderInv, NEW q, Dequeues(q), NEW f \in Fut, NEW x \in Fut, NEW H \in SUBSET Fut,
         x \notin Range(queue), runs[x] = 0, \A g \in Fut : x \notin Range(actions[g]),
         queue' = q \o Delivery(f, x), f \notin H,
         \A g \in Fut : \/ g \notin H
                        \/ \E e \in Fut : actions'[g] = <<e>>,
         \A g \in Fut \ H : actions'[g] = IF g = f THEN Append(actions[f], x) ELSE actions[g]
  PROVE  OrderInv'
<1> DEFINE list == Delivery(f, x)
<1>1. list \in Seq(Fut) /\ Range(list) \subseteq {x}
  BY ShortLists DEF Delivery
<1>2. runs'[x] = 0 /\ x \notin Range(q)
  BY DequeueFacts
<1> HIDE DEF list
<1>3. Joins(list)
  BY <1>1 DEF Joins
<1>4. Lists(q, list)
  <2> SUFFICES ASSUME NEW g \in Fut, NEW i \in DOMAIN actions'[g], NEW j \in DOMAIN actions'[g],
                      i < j
               PROVE  \/ /\ i \in DOMAIN actions[g] /\ actions'[g][i] = actions[g][i]
                         /\ j \in DOMAIN actions[g] /\ actions'[g][j] = actions[g][j]
                      \/ /\ runs'[actions'[g][j]] = 0 /\ actions'[g][j] \notin Range(q)
                         /\ actions'[g][i] \notin Range(list)
    BY DEF Lists
  <2>1. CASE g \in H
    <3>1. PICK e \in Fut : actions'[g] = <<e>>
      BY <2>1
    <3>2. i = 1 /\ j = 1
      BY <3>1, SMT
    <3> QED BY <3>2, SMT
  <2>2. CASE g \notin H /\ g # f
    BY <2>2
  <2>3. CASE g = f
    <3>1. actions'[g] = Append(actions[f], x) /\ actions[f] \in Seq(Fut)
      BY <2>3 DEF IInv, TypeOK
    <3> DEFINE l == actions[f]
               m == Append(l, x)
    <3>2. /\ m \in Seq(Fut) /\ Len(m) = Len(l) + 1 /\ Len(l) \in Nat
          /\ \A k \in 1..Len(l) : m[k] = l[k]
          /\ m[Len(l) + 1] = x
      BY <3>1, AppendProperties, LenProperties
    <3>3. DOMAIN m = 1..Len(m) /\ DOMAIN l = 1..Len(l)
      BY <3>1, <3>2, LenProperties
    <3>4. actions'[g] = m
      BY <3>1
    <3> HIDE DEF m
    <3>5. i \in 1..Len(l) /\ (j \in 1..Len(l) \/ j = Len(l) + 1)
      BY <3>2, <3>3, <3>4, SMT
    <3>6. m[i] = l[i] /\ l[i] \in Range(l) /\ i \in DOMAIN l
      BY <3>2, <3>3, <3>5 DEF Range
    <3>7. CASE j \in 1..Len(l)
      BY <2>3, <3>2, <3>3, <3>4, <3>6, <3>7
    <3>8. CASE j = Len(l) + 1
      <4>1. actions'[g][j] = x /\ actions'[g][i] # x
        BY <3>2, <3>4, <3>6, <3>8
      <4> QED BY <1>1, <1>2, <4>1
    <3> QED BY <3>5, <3>7, <3>8
  <2> QED BY <2>1, <2>2, <2>3
<1>5. queue' = q \o list
  BY DEF list
<1> QED BY <1>1, <1>3, <1>4, <1>5, OrderStep

LEMMA AttachOrder ==
  ASSUME IInv, OrderInv, NEW q, Dequeues(q), NEW f \in Fut, NEW x \in Fut,
         x \notin Range(queue), runs[x] = 0, \A g \in Fut : x \notin Range(actions[g]),
         Attach(q, f, x)
  PROVE  OrderInv'
<1>1. queue' = q \o Delivery(f, x)
  BY DEF Attach, Enqueue, Delivery
<1>2. \A g \in Fut : actions'[g] = IF g = f THEN Append(actions[f], x) ELSE actions[g]
  BY DEF Attach, IInv, TypeOK
<1> DEFINE H == {}
<1>3. /\ H \in SUBSET Fut /\ f \notin H
      /\ \A g \in Fut : g \notin H \/ \E e \in Fut : actions'[g] = <<e>>
  OBVIOUS
<1> HIDE DEF H
<1>4. \A g \in Fut \ H : actions'[g] = IF g = f THEN Append(actions[f], x) ELSE actions[g]
  BY <1>2
<1> QED BY <1>1, <1>3, <1>4, AppendOrder

LEMMA ForwardOrder ==
  ASSUME IInv, OrderInv, NEW g \in Fut, NEW f, Forward(g, f), runs' = runs, g \in Made
  PROVE  OrderInv'
<1> DEFINE t == made + 1
           e == made + 2
<1>1. CreatesTwo(t, e)
  BY CreateTwoFacts DEF Forward
<1>2. /\ actions' = [actions EXCEPT ![g] = Append(@, t), ![t] = <<e>>]
      /\ queue' = queue \o Delivery(g, t)
  BY DEF Forward, Enqueue, Delivery
<1> HIDE DEF t, e
<1>3. /\ t \in Fut /\ e \in Fut /\ t \notin Made /\ t \notin Range(queue) /\ runs[t] = 0
      /\ \A h \in Fut : t \notin Range(actions[h])
  BY <1>1 DEF CreatesTwo
<1>4. g # t
  BY <1>3
<1>5. /\ \A h \in Fut \ {t} : actions'[h] = IF h = g THEN Append(actions[g], t) ELSE actions[h]
      /\ actions'[t] = <<e>>
  BY <1>2, <1>3, <1>4 DEF IInv, TypeOK
<1>6. /\ {t} \in SUBSET Fut /\ g \notin {t}
      /\ \A h \in Fut : h \notin {t} \/ \E x \in Fut : actions'[h] = <<x>>
  BY <1>3, <1>4, <1>5
<1>7. Dequeues(queue)
  BY DEF Dequeues
<1> QED BY <1>2, <1>3, <1>5, <1>6, <1>7, AppendOrder

\* The action of a job posted by another thread was not touched.
LEMMA JobFacts ==
  ASSUME IInv, NEW a \in Fut, CallAttach(a)
  PROVE  LET x == subject[a] IN
         /\ x \in Fut /\ parent[x] \in Fut
         /\ Idle(x) /\ x \notin Range(queue) /\ runs[x] = 0
         /\ \A g \in Fut : x \notin Range(actions[g])
<1> DEFINE x == subject[a]
<1>1. Started(a) /\ kind[a] = "attach"
  BY BeginFacts DEF CallAttach
<1>2. runs[a] = 0
  BY <1>1 DEF Started
<1>3. x \in Made /\ kind[x] \in Handlers /\ x \notin Range(actions[parent[x]])
  BY <1>1, <1>2 DEF IInv, JobsInv
<1>4. x \in Fut
  <2>1. made \in 0..MaxFutures /\ x \in 1..made
    BY <1>3 DEF IInv, TypeOK, Made
  <2> QED BY <2>1, MaxFuturesAssumption, SMT DEF Fut
<1>5. kind[x] \in Waiters
  BY <1>3 DEF Waiters
<1>6. parent[x] \in Fut /\ Idle(x) /\ runs[x] = 0 /\ x \notin Range(queue)
  BY <1>3, <1>4, <1>5, Basics, UntouchedFacts DEF Untouched
<1>7. \A g \in Fut : x \notin Range(actions[g])
  BY <1>3 DEF IInv, AttachInv
<1> QED BY <1>4, <1>6, <1>7

\* The future a lambda settles.
LEMMA ForwarderFacts ==
  ASSUME IInv, NEW a \in Fut, kind[a] \in Forwarders
  PROVE  subject[a] \in Fut
<1>1. CASE kind[a] = "fwdThen"
  BY <1>1, PairFacts
<1>2. CASE kind[a] = "fwdError"
  <2>1. a - 1 \in Made /\ kind[a - 1] = "fwdThen"
    BY <1>2 DEF IInv, PairInv
  <2>2. a - 1 \in Fut /\ (a - 1) + 1 = a
    <3>1. a - 1 \in 1..made /\ made \in 0..MaxFutures
      BY <2>1 DEF IInv, TypeOK, Made
    <3> QED BY <3>1, MaxFuturesAssumption, SMT DEF Fut
  <2>3. subject[a] = subject[a - 1]
    BY <2>1, <2>2 DEF IInv, PairInv
  <2> QED BY <2>1, <2>2, <2>3, PairFacts
<1> QED BY <1>1, <1>2 DEF Forwarders

\* The next FutureShared.
LEMMA NextFuture ==
  ASSUME IInv, made < MaxFutures
  PROVE  LET n == made + 1 IN
         /\ n \in Fut /\ n \notin Range(queue) /\ runs[n] = 0
         /\ \A g \in Fut : n \notin Range(actions[g])
<1> DEFINE n == made + 1
<1>1. n \in Fut /\ n > made
  <2>1. made \in 0..MaxFutures
    BY DEF IInv, TypeOK
  <2> QED BY <2>1, MaxFuturesAssumption, SMT DEF Fut
<1> HIDE DEF n
<1>2. kind[n] = "none" /\ n \notin armed /\ runs[n] = 0
  BY <1>1 DEF IInv, UnmadeInv, Idle
<1>3. n \notin Range(queue)
  BY <1>1, <1>2 DEF IInv, HandlesReady
<1>4. \A g \in Fut : n \notin Range(actions[g])
  BY <1>2 DEF IInv, AttachInv, Waiters, Handlers, Forwarders
<1> QED BY <1>1, <1>2, <1>3, <1>4 DEF n

\* Every step keeps the order of attachment.
LEMMA NextOrder ==
  ASSUME IInv, OrderInv, [Next]_vars
  PROVE  OrderInv'
<1>2. CASE User
  <2>1. CASE NewPromise
    BY <2>1, PlainOrder DEF NewPromise, Dequeues
  <2>2. CASE Async
    <3>1. /\ made + 1 \in Fut /\ \A f \in Fut : made + 1 \notin Range(actions[f])
      BY <2>2, NextFuture DEF Async, Create
    <3> QED BY <2>2, <3>1, PlainOrder DEF Async, Enqueue, Dequeues
  <2>3. ASSUME NEW f \in Fut, NEW tag \in Tags, PromiseSettle(f, tag) PROVE OrderInv'
    BY <2>3, SettleOrder DEF PromiseSettle, Dequeues
  <2>4. ASSUME NEW f \in Fut, NEW k \in HandlerKinds, AttachHandler(f, k) PROVE OrderInv'
    <3>1. /\ made + 1 \in Fut /\ made + 1 \notin Range(queue) /\ runs[made + 1] = 0
          /\ \A g \in Fut : made + 1 \notin Range(actions[g])
      BY <2>4, NextFuture DEF AttachHandler, Create
    <3> QED BY <2>4, <3>1, AttachOrder DEF AttachHandler, Dequeues
  <2>5. ASSUME NEW f \in Fut, NEW k \in HandlerKinds, ForeignAttach(f, k) PROVE OrderInv'
    <3>1. CreatesTwo(made + 1, made + 2)
      BY <2>5, CreateTwoFacts DEF ForeignAttach
    <3>2. made + 2 \in Fut /\ \A g \in Fut : made + 2 \notin Range(actions[g])
      BY <3>1 DEF CreatesTwo
    <3> QED BY <2>5, <3>2, PlainOrder DEF ForeignAttach, Enqueue, Dequeues
  <2> QED BY <1>2, <2>1, <2>2, <2>3, <2>4, <2>5 DEF User
<1>3. CASE Dispatch
  <2>1. ASSUME NEW a \in Fut, PassOn(a) PROVE OrderInv'
    BY <2>1, SettleOrder DEF PassOn, Dequeues
  <2>2. ASSUME NEW a \in Fut, CallUser(a) PROVE OrderInv'
    BY <2>2, PlainOrder DEF CallUser, Dequeues
  <2>3. ASSUME NEW a \in Fut, CallForward(a) PROVE OrderInv'
    <3>1. subject[a] \in Fut
      BY <2>3, ForwarderFacts DEF CallForward
    <3> QED BY <2>3, <3>1, SettleOrder DEF CallForward, Dequeues
  <2>4. ASSUME NEW a \in Fut, CallAttach(a) PROVE OrderInv'
    <3>1. Dequeues(Tail(queue)) /\ Attach(Tail(queue), parent[subject[a]], subject[a])
      BY <2>4 DEF CallAttach, Dequeues
    <3> QED BY <2>4, <3>1, JobFacts, AttachOrder
  <2> QED BY <1>3, <2>1, <2>2, <2>3, <2>4 DEF Dispatch
<1>4. CASE Return
  <2>1. ASSUME running # 0, NEW o, Finish(o) PROVE OrderInv'
    BY <2>1, RunningFacts, SettleOrder DEF Finish, Dequeues
  <2>2. ASSUME NEW g \in Fut, ReturnFuture(g) PROVE OrderInv'
    BY <2>2, ForwardOrder DEF ReturnFuture
  <2> QED BY <1>4, <2>1, <2>2 DEF Return, ReturnValue, ReturnThrow
<1>5. CASE Close
  BY <1>5, PlainOrder DEF Close, AsyncClosed, Dequeues
<1>6. CASE UNCHANGED vars
  BY <1>6, PlainOrder DEF vars, Dequeues
<1> QED BY <1>2, <1>3, <1>4, <1>5, <1>6 DEF Next

-----------------------------------------------------------------------------
(* Every step is a step of Promises, or leaves its variables alone. *)

LEMMA RegisteredFacts ==
  ASSUME NEW f \in Fut
  PROVE  P!Registered(f) = Range(actions[f])
BY DEF P!Registered, Range

\* FutureShared::resolve/reject by the library itself, which never fails.
LEMMA SettleSettles ==
  ASSUME NEW q, NEW f \in Fut, NEW o, Settle(q, f, o), ~failed'
  PROVE  P!Settles(f, o)
BY DEF Settle, P!Settles, Settled

\* Nobody attached anywhere starts.
LEMMA ToldSame ==
  ASSUME IInv, actions' = actions,
         \A f \in Fut : \A b \in Range(actions[f]) : runs'[b] = runs[b]
  PROVE  ToldBy' = ToldBy
BY DEF ToldBy

\* An attached action starts: it is the next in line of its future.
LEMMA StartTells ==
  ASSUME IInv, OrderInv, NEW a \in Fut, Begin(a), kind[a] \in Waiters, actions' = actions
  PROVE  parent[a] \in Fut /\ P!Tells(parent[a])
<1> DEFINE f == parent[a]
<1>1. Started(a)
  BY BeginFacts
<1>2. /\ f \in Fut /\ Settled(f) /\ runs[a] = 0 /\ a \in armed
      /\ \A b \in Fut : runs'[b] = IF b = a THEN 1 ELSE runs[b]
  BY <1>1 DEF Started
<1>3. a \in Range(actions[f])
  BY <1>2 DEF IInv, AttachInv
<1> HIDE DEF f
<1>4. PICK i \in DOMAIN actions[f] : actions[f][i] = a
  BY <1>3 DEF Range
<1>5. ASSUME NEW j \in DOMAIN actions[f], j < i
      PROVE  actions[f][j] \in ToldBy[f]
  <2> DEFINE b == actions[f][j]
  <2>1. b \in Range(actions[f]) /\ b \in Fut
    BY <1>2, Basics DEF Range
  <2>2. b # a
    <3>1. i # j /\ IsInjective(actions[f])
      <4>1. actions[f] \in Seq(Fut) /\ IsInjective(actions[f])
        BY <1>2 DEF IInv, TypeOK, AttachInv
      <4>2. i \in Nat /\ j \in Nat
        BY <4>1
      <4> QED BY <1>5, <4>1, <4>2, SMT
    <3> QED BY <1>4, <3>1 DEF IsInjective
  <2>3. runs'[a] > 0 => runs'[b] > 0
    <3>1. Dequeues(Tail(queue))
      BY DEF Dequeues
    <3> QED BY <1>2, <1>4, <1>5, <3>1, OldPairs
  <2> QED BY <1>2, <2>1, <2>2, <2>3 DEF ToldBy
<1>6. a \notin ToldBy[f]
  BY <1>2 DEF ToldBy
<1>7. ToldBy' = [ToldBy EXCEPT ![f] = @ \cup {a}]
  <2>1. ASSUME NEW g \in Fut
        PROVE  ToldBy'[g] = IF g = f THEN ToldBy[f] \cup {a} ELSE ToldBy[g]
    <3>1. CASE g = f
      <4>1. \A b \in Range(actions[f]) : b \in Fut
        BY <1>2, Basics
      <4> QED BY <1>2, <1>3, <3>1, <4>1 DEF ToldBy
    <3>2. CASE g # f
      <4>1. a \notin Range(actions[g]) /\ \A b \in Range(actions[g]) : b \in Fut
        BY <3>2, Basics DEF IInv, AttachInv, f
      <4> QED BY <1>2, <3>2, <4>1 DEF ToldBy
    <3> QED BY <3>1, <3>2
  <2>2. ToldBy' = [g \in Fut |-> ToldBy'[g]] /\ ToldBy = [g \in Fut |-> ToldBy[g]]
    BY DEF ToldBy
  <2> QED BY <2>1, <2>2, Zenon
<1>8. resolver[f] # Null
  BY <1>2 DEF Settled
<1>9. P!Tells(f)
  BY <1>4, <1>5, <1>6, <1>7, <1>8 DEF P!Tells
<1> QED BY <1>2, <1>9 DEF f

\* A job or a function given to async() starts: no future is concerned.
LEMMA StartTellsNobody ==
  ASSUME IInv, NEW a \in Fut, Begin(a), kind[a] \notin Waiters, actions' = actions
  PROVE  ToldBy' = ToldBy
<1>1. \A b \in Fut : runs'[b] = IF b = a THEN 1 ELSE runs[b]
  BY BeginFacts DEF Started
<1>2. \A f \in Fut : \A b \in Range(actions[f]) : b \in Fut /\ b # a
  BY Basics DEF IInv, AttachInv
<1> QED BY <1>1, <1>2, ToldSame

LEMMA AttachRegisters ==
  ASSUME IInv, NEW q, Dequeues(q), NEW f \in Fut, NEW x \in Fut, Attach(q, f, x),
         x \notin Range(queue), runs[x] = 0, \A g \in Fut : x \notin Range(actions[g]),
         \A g \in Fut : \A b \in Range(actions[g]) : runs'[b] = runs[b]
  PROVE  P!Registers(f, x) /\ ToldBy' = ToldBy
<1>1. actions' = [actions EXCEPT ![f] = Append(@, x)]
  BY DEF Attach
<1>2. P!Registers(f, x)
  BY <1>1, RegisteredFacts DEF P!Registers
<1>3. runs'[x] = 0
  BY DequeueFacts
<1>4. actions[f] \in Seq(Fut) /\ IsInjective(actions[f]) /\ actions \in [Fut -> Seq(Fut)]
  BY DEF IInv, TypeOK, AttachInv
<1>5. Range(Append(actions[f], x)) = Range(actions[f]) \cup {x}
  BY ONLY <1>4, x \in Fut, x \notin Range(actions[f]), AppendToList
<1>6. \A g \in Fut : Range(actions'[g]) = Range(actions[g]) \cup (IF g = f THEN {x} ELSE {})
  BY <1>1, <1>4, <1>5
<1>7. ASSUME NEW g \in Fut
      PROVE  {b \in Range(actions'[g]) : runs'[b] > 0} = {b \in Range(actions[g]) : runs[b] > 0}
  <2>1. CASE g = f
    BY <1>3, <1>6, <2>1
  <2>2. CASE g # f
    BY <1>6, <2>2
  <2> QED BY <2>1, <2>2
<1>8. ToldBy' = ToldBy
  BY <1>7 DEF ToldBy
<1> QED BY <1>2, <1>8

\* The pair of lambdas on a Future.
LEMMA ForwardRegisters ==
  ASSUME IInv, NEW g \in Fut, g \in Made, NEW f, Forward(g, f), runs' = runs, resolver' = resolver
  PROVE  P!PNext
<1> DEFINE t == made + 1
           e == made + 2
<1>1. CreatesTwo(t, e)
  BY CreateTwoFacts DEF Forward
<1>2. actions' = [actions EXCEPT ![g] = Append(@, t), ![t] = <<e>>]
  BY DEF Forward
<1> HIDE DEF t, e
<1>3. /\ t \in Fut /\ e \in Fut /\ t \notin Made /\ runs[t] = 0 /\ runs[e] = 0
      /\ actions[t] = <<>> /\ \A h \in Fut : t \notin Range(actions[h])
  BY <1>1 DEF CreatesTwo
<1>4. g # t
  BY <1>3
<1>5. actions[g] \in Seq(Fut) /\ IsInjective(actions[g]) /\ actions \in [Fut -> Seq(Fut)]
  BY DEF IInv, TypeOK, AttachInv
<1>6. /\ Range(Append(actions[g], t)) = Range(actions[g]) \cup {t}
      /\ Range(<<e>>) = {e} /\ Range(<<>>) = {}
  <2>1. t \notin Range(actions[g])
    BY <1>3
  <2> QED BY ONLY <1>3, <1>5, <2>1, AppendToList, ShortLists
<1>7. \A h \in Fut : actions'[h] = IF h = t THEN <<e>> ELSE
                                   IF h = g THEN Append(actions[g], t) ELSE actions[h]
  BY <1>2, <1>3, <1>4, <1>5
<1>8. \A h \in Fut : Range(actions'[h]) = Range(actions[h]) \cup
                        (IF h = g THEN {t} ELSE IF h = t THEN {e} ELSE {})
  BY <1>3, <1>4, <1>6, <1>7
<1>9. ToldBy' = ToldBy
  <2>1. ASSUME NEW h \in Fut
        PROVE  {b \in Range(actions'[h]) : runs'[b] > 0} = {b \in Range(actions[h]) : runs[b] > 0}
    <3>1. ~(runs[t] > 0) /\ ~(runs[e] > 0)
      BY <1>3, SMT
    <3> QED BY <1>8, <3>1
  <2> QED BY <2>1 DEF ToldBy
<1>10. t \notin P!Registered(g)
  BY <1>3, RegisteredFacts
<1> QED BY <1>2, <1>3, <1>4, <1>9, <1>10 DEF P!PNext

\* The futures, and what workers do to them, step as Promises does.
Simulated == P!PNext \/ UNCHANGED <<resolver, actions, ToldBy>>

LEMMA QuietSimulated ==
  ASSUME IInv, UNCHANGED <<resolver, actions, runs>>
  PROVE  Simulated
<1>1. ToldBy' = ToldBy
  BY ToldSame
<1> QED BY <1>1 DEF Simulated

LEMMA SettleSimulated ==
  ASSUME IInv, IInv', NEW q, NEW f \in Fut, NEW o \in Outcomes \ {Null}, Settle(q, f, o),
         UNCHANGED <<actions, runs>>
  PROVE  Simulated
<1>1. P!Settles(f, o)
  BY SettleSettles DEF IInv, NeverFails
<1>2. ToldBy' = ToldBy
  BY ToldSame
<1> QED BY <1>1, <1>2 DEF Simulated, P!PNext

\* An attached action starts and settles a future.
LEMMA TellSettleSimulated ==
  ASSUME IInv, IInv', OrderInv, NEW a \in Fut, Begin(a), kind[a] \in Waiters,
         NEW f \in Fut, NEW q, Settle(q, f, cbResolver[a]), actions' = actions
  PROVE  Simulated
<1>1. parent[a] \in Fut /\ P!Tells(parent[a])
  BY StartTells
<1>2. P!Settles(f, cbResolver[a])
  BY SettleSettles DEF IInv, NeverFails
<1>3. cbResolver[a] \in Outcomes \ {Null}
  BY BeginFacts DEF Started
<1> QED BY <1>1, <1>2, <1>3 DEF Simulated, P!PNext

LEMMA UserSimulated ==
  ASSUME IInv, IInv', User
  PROVE  Simulated
<1>1. CASE NewPromise
  BY <1>1, QuietSimulated DEF NewPromise
<1>2. CASE Async
  BY <1>2, QuietSimulated DEF Async
<1>3. ASSUME NEW f \in Fut, NEW tag \in Tags, PromiseSettle(f, tag) PROVE Simulated
  <2>1. [tag |-> tag, from |-> f] \in Outcomes \ {Null}
    BY OutcomeFacts
  <2> QED BY <1>3, <2>1, SettleSimulated DEF PromiseSettle
<1>4. ASSUME NEW f \in Fut, NEW k \in HandlerKinds, AttachHandler(f, k) PROVE Simulated
  <2>1. /\ made + 1 \in Fut /\ made + 1 \notin Range(queue) /\ runs[made + 1] = 0
        /\ \A g \in Fut : made + 1 \notin Range(actions[g])
    BY <1>4, NextFuture DEF AttachHandler, Create
  <2>2. Attach(queue, f, made + 1) /\ runs' = runs /\ resolver' = resolver
    BY <1>4 DEF AttachHandler
  <2>3. Dequeues(queue)
    BY <2>2 DEF Dequeues
  <2>4. P!Registers(f, made + 1) /\ ToldBy' = ToldBy
    BY <2>1, <2>2, <2>3, AttachRegisters
  <2> QED BY <2>1, <2>2, <2>4 DEF Simulated, P!PNext
<1>5. ASSUME NEW f \in Fut, NEW k \in HandlerKinds, ForeignAttach(f, k) PROVE Simulated
  BY <1>5, QuietSimulated DEF ForeignAttach
<1> QED BY <1>1, <1>2, <1>3, <1>4, <1>5 DEF User

LEMMA DispatchSimulated ==
  ASSUME IInv, IInv', OrderInv, Dispatch
  PROVE  Simulated
<1>1. ASSUME NEW a \in Fut, PassOn(a) PROVE Simulated
  <2>1. kind[a] \in Waiters
    BY <1>1 DEF PassOn, Calls, Waiters, Handlers, Forwarders
  <2> QED BY <1>1, <2>1, TellSettleSimulated DEF PassOn
<1>2. ASSUME NEW a \in Fut, CallUser(a) PROVE Simulated
  <2>1. Begin(a) /\ actions' = actions /\ resolver' = resolver
    BY <1>2 DEF CallUser
  <2>2. CASE kind[a] \in Waiters
    <3>1. parent[a] \in Fut /\ P!Tells(parent[a])
      BY <2>1, <2>2, StartTells
    <3> QED BY <2>1, <3>1 DEF Simulated, P!PNext
  <2>3. CASE kind[a] \notin Waiters
    BY <2>1, <2>3, StartTellsNobody DEF Simulated
  <2> QED BY <2>2, <2>3
<1>3. ASSUME NEW a \in Fut, CallForward(a) PROVE Simulated
  <2>1. subject[a] \in Fut /\ kind[a] \in Waiters
    BY <1>3, ForwarderFacts DEF CallForward, Waiters
  <2> QED BY <1>3, <2>1, TellSettleSimulated DEF CallForward
<1>4. ASSUME NEW a \in Fut, CallAttach(a) PROVE Simulated
  <2> DEFINE x == subject[a]
             f == parent[x]
             q == Tail(queue)
  <2>1. Begin(a) /\ Attach(q, f, x) /\ resolver' = resolver /\ kind[a] = "attach"
    BY <1>4 DEF CallAttach
  <2>2. /\ x \in Fut /\ f \in Fut /\ x \notin Range(queue) /\ runs[x] = 0
        /\ \A g \in Fut : x \notin Range(actions[g])
    BY <1>4, JobFacts
  <2>3. Dequeues(q)
    BY <2>1 DEF Dequeues
  <2>4. \A g \in Fut : \A b \in Range(actions[g]) : runs'[b] = runs[b]
    <3>1. \A b \in Fut : runs'[b] = IF b = a THEN 1 ELSE runs[b]
      BY <2>1, BeginFacts DEF Started
    <3>2. kind[a] \notin Waiters
      BY <2>1 DEF Waiters, Handlers, Forwarders
    <3> QED BY <3>1, <3>2, Basics DEF IInv, AttachInv
  <2> HIDE DEF x, f, q
  <2>5. P!Registers(f, x) /\ ToldBy' = ToldBy
    BY <2>1, <2>2, <2>3, <2>4, AttachRegisters
  <2> QED BY <2>1, <2>2, <2>5 DEF Simulated, P!PNext
<1> QED BY <1>1, <1>2, <1>3, <1>4 DEF Dispatch

LEMMA ReturnSimulated ==
  ASSUME IInv, IInv', Return
  PROVE  Simulated
<1>1. ASSUME running # 0, NEW o \in Outcomes \ {Null}, Finish(o) PROVE Simulated
  BY <1>1, RunningFacts, SettleSimulated DEF Finish
<1>2. running # 0 => /\ Value(running) \in Outcomes \ {Null}
                     /\ Error(running) \in Outcomes \ {Null}
  BY RunningFacts, OutcomeFacts
<1>3. ASSUME NEW g \in Fut, ReturnFuture(g) PROVE Simulated
  BY <1>3, ForwardRegisters DEF ReturnFuture, Simulated
<1> QED BY <1>1, <1>2, <1>3 DEF Return, ReturnValue, ReturnThrow

LEMMA NextSimulated ==
  ASSUME IInv, IInv', OrderInv, [Next]_vars
  PROVE  Simulated
<1>1. CASE Close
  BY <1>1, QuietSimulated DEF Close, AsyncClosed
<1>2. CASE UNCHANGED vars
  BY <1>2, QuietSimulated DEF vars
<1> QED BY <1>1, <1>2, UserSimulated, DispatchSimulated, ReturnSimulated DEF Next

LEMMA InitOrder ==
  ASSUME Init
  PROVE  OrderInv /\ P!PInit
<1>1. /\ actions = [f \in Fut |-> <<>>] /\ resolver = [f \in Fut |-> Null]
  BY DEF Init
<1>2. OrderInv
  BY <1>1 DEF OrderInv
<1>3. ToldBy = [f \in Fut |-> {}]
  BY <1>1 DEF ToldBy, Range
<1> QED BY <1>1, <1>2, <1>3 DEF P!PInit

\* The order of attachment is kept, with the invariant of the futures.
THEOREM OrderInvariance == Spec => [](IInv /\ OrderInv)
<1>1. Init => IInv /\ OrderInv
  BY InitInv, InitOrder
<1>2. IInv /\ OrderInv /\ [Next]_vars => (IInv /\ OrderInv)'
  BY NextInv, NextOrder
<1> QED BY <1>1, <1>2, PTL DEF Spec

\* The actions of one future run in the order they were attached: executeAsync is
\* never called for a handler before those attached ahead of it.
THEOREM OrderKept == Spec => []AttachmentOrder
<1>1. OrderInv => AttachmentOrder
  BY DEF OrderInv, AttachmentOrder
<1> QED BY <1>1, OrderInvariance, PTL

\* The callback machinery implements Promises, for any number of futures: each step
\* of the loop, of a callback or of another thread settles a pending future, puts a
\* handler behind the others, tells the next handler in line, or is not seen.
THEOREM Refinement == Spec => ImplementsPromises
<1>1. Init => P!PInit
  BY InitOrder
<1>2. IInv /\ (IInv)' /\ OrderInv /\ [Next]_vars => [P!PNext]_(P!pvars)
  BY NextSimulated DEF Simulated, P!pvars
<1> QED BY <1>1, <1>2, OrderInvariance, PTL DEF Spec, ImplementsPromises, P!PSpec
=============================================================================
