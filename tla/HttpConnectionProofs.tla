------------------------ MODULE HttpConnectionProofs ------------------------
(***************************************************************************)
(* Proofs about module HttpConnection, for any number of callbacks and     *)
(* requests, any events of the stream and any kind of handlers.            *)
(*                                                                         *)
(* The invariant speaks of the response and of the loop's queue at once:   *)
(* a write, or the job that its end enqueues, is there only while the      *)
(* response it belongs to is the connection's, and has ended.  With it, a  *)
(* complete request without an answer is always in somebody's hands.       *)
(***************************************************************************)
EXTENDS HttpConnection, Integers, SequenceTheorems, FiniteSetTheorems, TLAPS

JobsOf(s) == [act : Acts, i : 0..Callbacks, ok : BOOLEAN, of : 0..s]
Pendings == [i : 1..Callbacks, n : Nat, answers : BOOLEAN]

\* A job of a callback names the callback.
Names(j) == j.act \in {"callback", "forward", "forwardError"} => j.i # 0

\* No job of the queue is the then of endData; at most one is.
Quiet(q) == \A i \in 1..Len(q) : q[i].act # "sent"
Single(q) ==
  \A i, j \in 1..Len(q) : q[i].act = "sent" /\ q[j].act = "sent" => i = j

\* A queue while the last response made is s.
QueueFits(q, s) ==
  /\ q \in Seq(JobsOf(s))
  /\ \A i \in 1..Len(q) : Names(q[i])
  /\ \A i \in 1..Len(q) : q[i].act = "sent" => q[i].of = s
  /\ Single(q)

\* The response, with the queue q: what is on its way belongs to a response that has
\* ended, and to the connection's.
ResponseFits(q) ==
  /\ response \in ResponseStates /\ keep \in BOOLEAN
  /\ serial \in Nat /\ answered \in Nat /\ failed \in BOOLEAN
  /\ QueueFits(q, serial)
  /\ \/ writes = <<>>
     \/ writes = <<serial>> /\ response = "ended" /\ Quiet(q)
  /\ response # "ended" => Quiet(q)
  /\ response # "none" => serial # 0

\* The client, the socket and the handlers; the client sends only requests it may.
RestFits ==
  /\ client \in {"idle", "head", "body", "broken"}
  /\ asked \in 0..MaxRequests
  /\ client \in {"head", "body"} => asked < MaxRequests
  /\ sock \in {"open", "closing", "closed"}
  /\ request \in [headers : BOOLEAN, complete : BOOLEAN]
  /\ waiting \in SUBSET Pendings
  /\ processed \in Nat

ConnInv == ResponseFits(jobs) /\ RestFits

-----------------------------------------------------------------------------
(* The queue. *)

LEMMA TailFits ==
  ASSUME NEW s \in Nat, NEW q, QueueFits(q, s), q # <<>>
  PROVE  /\ QueueFits(Tail(q), s)
         /\ Quiet(q) => Quiet(Tail(q))
         /\ Head(q).act = "sent" => Quiet(Tail(q)) /\ ~Quiet(q) /\ Head(q).of = s
         /\ Head(q) \in JobsOf(s) /\ Names(Head(q))
<1>1. q \in Seq(JobsOf(s))
  BY DEF QueueFits
<1>2. /\ Len(q) \in Nat /\ 1 \in 1..Len(q)
      /\ Tail(q) \in Seq(JobsOf(s)) /\ Len(Tail(q)) = Len(q) - 1
      /\ \A i \in 1..Len(Tail(q)) : Tail(q)[i] = q[i + 1]
      /\ Head(q) = q[1] /\ q[1] \in JobsOf(s)
  <2>1. Len(q) \in Nat /\ Len(q) # 0
    BY <1>1, EmptySeq
  <2>2. /\ Tail(q) \in Seq(JobsOf(s)) /\ Len(Tail(q)) = Len(q) - 1
        /\ \A i \in 1..Len(Tail(q)) : Tail(q)[i] = q[i + 1]
    BY <1>1, HeadTailProperties
  <2>3. 1 \in 1..Len(q)
    BY <2>1, SMT
  <2> QED  BY <1>1, <2>1, <2>2, <2>3, ElementOfSeq
<1> DEFINE t == Tail(q)
<1> HIDE DEF t
<1>3. ASSUME NEW i \in 1..Len(t)  PROVE i + 1 \in 1..Len(q) /\ i + 1 # 1 /\ t[i] = q[i + 1]
  <2>1. i + 1 \in 1..Len(q) /\ i + 1 # 1
    BY <1>2, SMT DEF t
  <2> QED  BY <1>2, <2>1 DEF t
<1>4. (\A i \in 1..Len(t) : Names(t[i])) /\ (\A i \in 1..Len(t) : t[i].act = "sent" => t[i].of = s)
  BY <1>3 DEF QueueFits
<1>5. Single(t)
  <2> SUFFICES ASSUME NEW i \in 1..Len(t), NEW j \in 1..Len(t), t[i].act = "sent", t[j].act = "sent"
               PROVE  i = j
    BY DEF Single
  <2>1. i + 1 = j + 1
    BY <1>3 DEF QueueFits, Single
  <2> QED  BY <1>2, <2>1, SMT
<1>6. Quiet(q) => Quiet(t)
  BY <1>3 DEF Quiet
<1>7. ASSUME Head(q).act = "sent"  PROVE Quiet(t) /\ ~Quiet(q) /\ Head(q).of = s
  <2>1. ~Quiet(q) /\ Head(q).of = s
    BY <1>2, <1>7 DEF Quiet, QueueFits
  <2>2. ASSUME NEW i \in 1..Len(t)  PROVE t[i].act # "sent"
    BY <1>2, <1>3, <1>7 DEF QueueFits, Single
  <2> QED  BY <2>1, <2>2 DEF Quiet
<1>8. t \in Seq(JobsOf(s))
  BY <1>2 DEF t
<1> QED  BY <1>2, <1>4, <1>5, <1>6, <1>7, <1>8 DEF QueueFits, t

LEMMA AppendFits ==
  ASSUME NEW s \in Nat, NEW q, QueueFits(q, s), NEW j \in JobsOf(s), Names(j),
         j.act = "sent" => Quiet(q) /\ j.of = s
  PROVE  /\ QueueFits(Append(q, j), s)
         /\ j.act # "sent" /\ Quiet(q) => Quiet(Append(q, j))
<1> DEFINE a == Append(q, j)
           n == Len(q)
<1>1. /\ n \in Nat /\ a \in Seq(JobsOf(s)) /\ Len(a) = n + 1
      /\ \A i \in 1..n : a[i] = q[i]
      /\ a[n + 1] = j
  <2>1. q \in Seq(JobsOf(s))
    BY DEF QueueFits
  <2>2. n \in Nat
    BY <2>1, LenProperties
  <2> QED  BY <2>1, <2>2, AppendProperties
<1> HIDE DEF a, n
<1>2. ASSUME NEW i \in 1..Len(a)  PROVE i = n + 1 \/ i \in 1..n
  BY <1>1, SMT
<1>3. \A i \in 1..n : Names(q[i]) /\ (q[i].act = "sent" => q[i].of = s)
  BY DEF QueueFits, n
<1>4. ASSUME NEW i \in 1..Len(a)  PROVE Names(a[i]) /\ (a[i].act = "sent" => a[i].of = s)
  BY <1>1, <1>2, <1>3
<1>5. Single(a)
  <2> SUFFICES ASSUME NEW i \in 1..Len(a), NEW k \in 1..Len(a), a[i].act = "sent", a[k].act = "sent"
               PROVE  i = k
    BY DEF Single
  <2>1. CASE i \in 1..n /\ k \in 1..n
    BY <1>1, <2>1 DEF QueueFits, Single, n
  <2>2. CASE i = n + 1 /\ k \in 1..n
    BY <1>1, <2>2 DEF Quiet, n
  <2>3. CASE i \in 1..n /\ k = n + 1
    BY <1>1, <2>3 DEF Quiet, n
  <2> QED  BY <1>2, <2>1, <2>2, <2>3
<1>6. ASSUME j.act # "sent", Quiet(q)  PROVE Quiet(a)
  BY <1>1, <1>2, <1>6 DEF Quiet, n
<1> QED  BY <1>1, <1>4, <1>5, <1>6 DEF QueueFits, a

LEMMA QueueGrows ==
  ASSUME NEW s \in Nat, NEW q, QueueFits(q, s), Quiet(q)
  PROVE  QueueFits(q, s + 1)
<1>1. JobsOf(s) \subseteq JobsOf(s + 1)
  <2>1. 0..s \subseteq 0..s + 1
    BY SMT
  <2> QED  BY <2>1 DEF JobsOf
<1>2. q \in Seq(JobsOf(s + 1))
  BY <1>1, SeqMonotonic DEF QueueFits
<1> QED  BY <1>2 DEF QueueFits, Quiet

-----------------------------------------------------------------------------
(* The jobs. *)

LEMMA JobFacts ==
  ASSUME NEW s \in Nat, NEW act \in Acts, NEW i \in 0..Callbacks, NEW ok \in BOOLEAN
  PROVE  Job(act, i, ok) \in JobsOf(s) /\ Job(act, i, ok).act = act /\ Job(act, i, ok).i = i
<1>1. 0 \in 0..s
  BY SMT
<1> QED  BY <1>1 DEF Job, JobsOf

LEMMA SentFacts ==
  ASSUME NEW s \in Nat
  PROVE  Sent(s) \in JobsOf(s) /\ Sent(s).act = "sent" /\ Sent(s).of = s
<1>1. 0 \in 0..Callbacks /\ s \in 0..s /\ "sent" \in Acts
  BY BoundsAssumption, SMT DEF Acts
<1> QED  BY <1>1 DEF Sent, JobsOf

\* The jobs of the chain are no thens of endData.
LEMMA FollowerFacts ==
  ASSUME NEW s \in Nat, NEW i \in 1..Callbacks, NEW ok \in BOOLEAN
  PROVE  /\ Follower(i, ok) \in JobsOf(s) /\ Names(Follower(i, ok))
         /\ Follower(i, ok).act # "sent"
<1>0. Callbacks \in Nat
  BY BoundsAssumption
<1>1. CASE i < Callbacks
  <2>1. i + 1 \in 0..Callbacks /\ i + 1 # 0 /\ "callback" \in Acts
    BY <1>0, <1>1, SMT DEF Acts
  <2>2. Follower(i, ok) = Job("callback", i + 1, ok)
    BY <1>1 DEF Follower
  <2> QED  BY <2>1, <2>2, JobFacts DEF Names
<1>2. CASE ~(i < Callbacks)
  <2>1. 0 \in 0..Callbacks /\ "notFound" \in Acts
    BY <1>0, SMT DEF Acts
  <2>2. Follower(i, ok) = Job("notFound", 0, ok)
    BY <1>2 DEF Follower
  <2> QED  BY <2>1, <2>2, JobFacts DEF Names
<1> QED  BY <1>1, <1>2

LEMMA SettlesFacts ==
  ASSUME NEW s \in Nat, NEW i \in 1..Callbacks, NEW ok \in BOOLEAN
  PROVE  /\ Settles(i, ok) \in JobsOf(s) /\ Names(Settles(i, ok))
         /\ Settles(i, ok).act # "sent"
<1>1. CASE i = 1
  BY <1>1, FollowerFacts DEF Settles
<1>2. CASE i # 1
  <2>1. i \in 0..Callbacks /\ i # 0 /\ "forward" \in Acts
    BY BoundsAssumption, SMT DEF Acts
  <2>2. Settles(i, ok) = Job("forward", i, ok)
    BY <1>2 DEF Settles
  <2> QED  BY <2>1, <2>2, JobFacts DEF Names
<1> QED  BY <1>1, <1>2

-----------------------------------------------------------------------------
(* The response. *)

\* The queue changes and the response does not.
LEMMA ResponseKept ==
  ASSUME NEW p, NEW q, ResponseFits(p), QueueFits(q, serial), Quiet(p) => Quiet(q),
         UNCHANGED responseVars, jobs' = q
  PROVE  ResponseFits(jobs)'
<1> QED  BY DEF ResponseFits, responseVars, QueueFits, Quiet, Single

\* A queue that fits, in place of another.
LEMMA QueueStep ==
  ASSUME NEW p, NEW q, ResponseFits(p), QueueFits(q, serial), Quiet(p) => Quiet(q)
  PROVE  ResponseFits(q)
<1> QED  BY DEF ResponseFits

LEMMA ResponseUnchanged ==
  ASSUME NEW q, ResponseFits(q), UNCHANGED responseVars, jobs' = q
  PROVE  ResponseFits(jobs)'
<1> QED  BY ResponseKept DEF ResponseFits

LEMMA EndFits ==
  ASSUME NEW q, NEW k \in BOOLEAN, ResponseFits(q), End(k), jobs' = q
  PROVE  ResponseFits(jobs)'
<1>1. CASE isSent
  <2>1. failed' = TRUE /\ UNCHANGED <<response, keep, serial, writes, answered>>
    BY <1>1 DEF End
  <2> QED  BY <2>1 DEF ResponseFits, QueueFits, Quiet, Single
<1>2. CASE ~isSent
  <2>1. /\ response' = "ended" /\ keep' = k /\ serial' = Current /\ answered' = answered + 1
        /\ failed' = FALSE
        /\ writes' = IF sock' = "open" THEN Append(writes, Current) ELSE writes
    BY <1>2 DEF End
  <2>2. writes = <<>> /\ Quiet(q) /\ QueueFits(q, serial) /\ serial \in Nat /\ answered \in Nat
        /\ response \in ResponseStates
    BY <1>2 DEF ResponseFits, isSent
  <2>3. Current \in Nat /\ QueueFits(q, Current)
    BY <2>2, QueueGrows DEF Current
  <2>4. writes' = <<>> \/ writes' = <<Current>>
    BY <2>1, <2>2
  <2>5. Current # 0
    BY <2>2 DEF Current, ResponseFits
  <2>6. QueueFits(jobs, serial)' /\ Quiet(jobs)'
    BY <2>1, <2>2, <2>3
  <2>7. /\ response' \in ResponseStates /\ keep' \in BOOLEAN /\ serial' \in Nat /\ answered' \in Nat
        /\ failed' \in BOOLEAN /\ serial' # 0
    <3>1. serial' \in Nat /\ answered' \in Nat /\ serial' # 0
      BY <2>1, <2>2, <2>3, <2>5
    <3> QED  BY <2>1, <3>1 DEF ResponseStates
  <2>8. writes' = <<>> \/ writes' = <<serial'>>
    BY <2>1, <2>4
  <2> QED  BY <2>1, <2>6, <2>7, <2>8 DEF ResponseFits
<1> QED  BY <1>1, <1>2

LEMMA LookFits ==
  ASSUME NEW q, ResponseFits(q), Look, jobs' = q
  PROVE  ResponseFits(jobs)'
<1>1. CASE response = "none"
  <2>1. /\ response' = "made" /\ keep' = TRUE /\ serial' = serial + 1
        /\ UNCHANGED <<writes, answered, failed>>
    BY <1>1 DEF Look, Current
  <2>2. writes = <<>> /\ Quiet(q) /\ QueueFits(q, serial) /\ serial \in Nat
        /\ answered \in Nat /\ failed \in BOOLEAN
    BY <1>1 DEF ResponseFits
  <2>3. QueueFits(q, serial + 1) /\ serial + 1 \in Nat /\ serial + 1 # 0
    BY <2>2, QueueGrows
  <2> QED  BY <2>1, <2>2, <2>3 DEF ResponseFits, ResponseStates
<1>2. CASE response # "none"
  <2>1. UNCHANGED responseVars
    BY <1>2 DEF Look, Current, responseVars
  <2> QED  BY <2>1, ResponseUnchanged
<1> QED  BY <1>1, <1>2

LEMMA EndUnlessSentFits ==
  ASSUME NEW q, ResponseFits(q), EndUnlessSent(TRUE), jobs' = q
  PROVE  ResponseFits(jobs)'
<1> QED  BY LookFits, EndFits DEF EndUnlessSent

\* What a callback does fits: it adds no then of endData to the queue, and a response
\* is ended that had not been.
LEMMA ExecuteFits ==
  ASSUME NEW q, ResponseFits(q), NEW i \in 1..Callbacks, NEW n \in Nat, Execute(i, n, q),
         waiting \in SUBSET Pendings
  PROVE  ResponseFits(jobs)' /\ waiting' \in SUBSET Pendings
<1>1. ASSUME NEW ok \in BOOLEAN  PROVE ResponseFits(Append(q, Settles(i, ok)))
  <2>1. /\ Settles(i, ok) \in JobsOf(serial) /\ Names(Settles(i, ok))
        /\ Settles(i, ok).act # "sent"
    BY SettlesFacts DEF ResponseFits
  <2>2. /\ QueueFits(Append(q, Settles(i, ok)), serial)
        /\ Quiet(q) => Quiet(Append(q, Settles(i, ok)))
    <3>1. serial \in Nat /\ QueueFits(q, serial)
      BY DEF ResponseFits
    <3> QED  BY <2>1, <3>1, AppendFits
  <2> QED  BY <2>2, QueueStep
<1>2. ASSUME NEW b \in BOOLEAN  PROVE waiting \cup {Pending(i, n, b)} \in SUBSET Pendings
  BY DEF Pending, Pendings
<1>3. CASE /\ \E k \in BOOLEAN : End(k)
           /\ jobs' = Append(q, Settles(i, TRUE))
           /\ UNCHANGED waiting
  BY <1>1, <1>3, EndFits
<1>4. CASE /\ \E ok \in BOOLEAN : jobs' = Append(q, Settles(i, ok))
           /\ UNCHANGED <<waiting, responseVars>>
  BY <1>1, <1>4, ResponseUnchanged
<1>5. CASE /\ waiting' = waiting \cup {Pending(i, n, TRUE)}
           /\ jobs' = q
           /\ UNCHANGED responseVars
  BY <1>2, <1>5, ResponseUnchanged
<1>6. CASE /\ \E k \in BOOLEAN : End(k)
           /\ waiting' = waiting \cup {Pending(i, n, FALSE)}
           /\ jobs' = q
  BY <1>2, <1>6, EndFits
<1>7. CASE /\ failed' = TRUE /\ jobs' = q
           /\ UNCHANGED <<waiting, response, keep, serial, writes, answered>>
  BY <1>7 DEF ResponseFits, QueueFits, Quiet, Single
<1>8. CASE /\ (\E k \in BOOLEAN : End(k)) \/ UNCHANGED responseVars
           /\ jobs' = Append(q, Follower(i, FALSE))
           /\ UNCHANGED waiting
  <2>1. /\ Follower(i, FALSE) \in JobsOf(serial) /\ Names(Follower(i, FALSE))
        /\ Follower(i, FALSE).act # "sent" /\ serial \in Nat /\ QueueFits(q, serial)
    BY FollowerFacts DEF ResponseFits
  <2>2. ResponseFits(Append(q, Follower(i, FALSE)))
    BY <2>1, AppendFits, QueueStep
  <2> QED  BY <1>8, <2>2, EndFits, ResponseUnchanged
<1> QED  BY <1>3, <1>4, <1>5, <1>6, <1>7, <1>8 DEF Execute

-----------------------------------------------------------------------------
(* The steps. *)

\* The invariant of one step's two halves.
LEMMA RestKept ==
  ASSUME RestFits, UNCHANGED <<clientVars, sock, request, waiting, processed>>
  PROVE  RestFits'
<1> QED  BY DEF RestFits, clientVars

LEMMA ProcessFits ==
  ASSUME ConnInv, ProcessRequest
  PROVE  ResponseFits(jobs)' /\ waiting' \in SUBSET Pendings /\ processed' \in Nat
<1>1. 1 \in 1..Callbacks
  BY BoundsAssumption, SMT
<1>2. processed + 1 \in Nat /\ waiting \in SUBSET Pendings /\ ResponseFits(jobs)
  BY DEF ConnInv, RestFits
<1>3. Execute(1, processed + 1, jobs) /\ processed' = processed + 1
  BY DEF ProcessRequest
<1> QED  BY <1>1, <1>2, <1>3, ExecuteFits

LEMMA SockStep ==
  ASSUME RestFits, CloseSocket
  PROVE  sock' \in {"open", "closing", "closed"}
<1> QED  BY DEF RestFits, CloseSocket

LEMMA ReceiveFits ==
  ASSUME ConnInv, NEW headers \in BOOLEAN, NEW complete \in BOOLEAN, NEW accepted,
         Receive(headers, complete, accepted)
  PROVE  /\ ResponseFits(jobs)' /\ waiting' \in SUBSET Pendings /\ processed' \in Nat
         /\ request' \in [headers : BOOLEAN, complete : BOOLEAN]
         /\ sock' \in {"open", "closing", "closed"}
<1>1. request' \in [headers : BOOLEAN, complete : BOOLEAN]
  BY Zenon DEF Receive
<1>2. ProcessRequest \/ UNCHANGED <<processed, jobs, waiting, responseVars>>
  BY DEF Receive
<1>3. sock' \in {"open", "closing", "closed"}
  <2>1. UNCHANGED sock \/ CloseSocket
    BY DEF Receive
  <2> QED  BY <2>1, SockStep DEF ConnInv, RestFits
<1>4. CASE UNCHANGED <<processed, jobs, waiting, responseVars>>
  <2>1. ResponseFits(jobs)'
    BY <1>4, ResponseUnchanged DEF ConnInv
  <2> QED  BY <1>1, <1>3, <1>4, <2>1 DEF ConnInv, RestFits
<1> QED  BY <1>1, <1>2, <1>3, <1>4, ProcessFits

LEMMA StreamStep ==
  ASSUME ConnInv, Stream
  PROVE  ConnInv'
<1>0. ResponseFits(jobs) /\ RestFits
  BY DEF ConnInv
<1>1. CASE ReceiveSome
  <2>1. Receive(FALSE, FALSE, TRUE) /\ client' = "head" /\ asked < MaxRequests /\ UNCHANGED asked
    BY <1>1 DEF ReceiveSome, MaySend
  <2> QED  BY <1>0, <2>1, ReceiveFits DEF ConnInv, RestFits
<1>2. CASE ReceiveHead
  <2>1. Receive(TRUE, FALSE, TRUE) /\ client' = "body" /\ asked < MaxRequests /\ UNCHANGED asked
    BY <1>0, <1>2 DEF ReceiveHead, MaySend, RestFits, Reading
  <2> QED  BY <1>0, <2>1, ReceiveFits DEF ConnInv, RestFits
<1>3. CASE ReceiveEnd
  <2>1. /\ Receive(client # "body", TRUE, TRUE) /\ client' = "idle" /\ asked' = asked + 1
        /\ asked < MaxRequests
    BY <1>0, <1>3 DEF ReceiveEnd, MaySend, RestFits, Reading
  <2>2. asked + 1 \in 0..MaxRequests
    BY <1>0, <2>1, BoundsAssumption, SMT DEF RestFits
  <2>3. (client # "body") \in BOOLEAN
    OBVIOUS
  <2>4. /\ ResponseFits(jobs)' /\ waiting' \in SUBSET Pendings /\ processed' \in Nat
        /\ request' \in [headers : BOOLEAN, complete : BOOLEAN]
        /\ sock' \in {"open", "closing", "closed"}
    BY <2>1, <2>3, ReceiveFits
  <2> QED  BY <1>0, <2>1, <2>2, <2>4 DEF ConnInv, RestFits
<1>4. CASE ReceiveBad
  <2>1. PICK headers \in BOOLEAN, complete \in BOOLEAN :
          /\ Receive(headers, complete, FALSE)
          /\ asked' = IF complete THEN asked + 1 ELSE asked
    BY <1>4 DEF ReceiveBad
  <2>2. client' = "broken" /\ asked < MaxRequests
    BY <1>0, <1>4 DEF ReceiveBad, MaySend, RestFits, Reading
  <2>3. asked' \in 0..MaxRequests
    BY <1>0, <2>1, <2>2, BoundsAssumption, SMT DEF RestFits
  <2>4. /\ ResponseFits(jobs)' /\ waiting' \in SUBSET Pendings /\ processed' \in Nat
        /\ request' \in [headers : BOOLEAN, complete : BOOLEAN]
        /\ sock' \in {"open", "closing", "closed"}
    BY <2>1, ReceiveFits
  <2> QED  BY <1>0, <2>2, <2>3, <2>4 DEF ConnInv, RestFits
<1>5. CASE ReadEof
  <2>1. client' = "broken" /\ UNCHANGED <<asked, sock, request, responseVars, jobs, waiting, processed>>
    BY <1>5 DEF ReadEof
  <2> QED  BY <1>0, <2>1, ResponseUnchanged DEF ConnInv, RestFits
<1>6. CASE ReadReset
  <2>1. /\ client' = "broken" /\ CloseSocket
        /\ UNCHANGED <<asked, request, responseVars, jobs, waiting, processed>>
    BY <1>6 DEF ReadReset
  <2>2. sock' \in {"open", "closing", "closed"}
    BY <1>0, <2>1, SockStep
  <2> QED  BY <1>0, <2>1, <2>2, ResponseUnchanged DEF ConnInv, RestFits
<1>7. CASE ReadError
  <2>1. /\ client' = "broken" /\ EndUnlessSent(TRUE)
        /\ UNCHANGED <<asked, sock, request, jobs, waiting, processed>>
    BY <1>7 DEF ReadError
  <2> QED  BY <1>0, <2>1, EndUnlessSentFits DEF ConnInv, RestFits
<1>8. CASE ReceiveBadUrl
  <2>1. /\ client' = "broken" /\ failed' = TRUE
        /\ UNCHANGED <<asked, sock, request, response, keep, serial, writes, answered, jobs,
                       waiting, processed>>
    BY <1>8 DEF ReceiveBadUrl
  <2>2. ResponseFits(jobs)'
    BY <1>0, <2>1 DEF ResponseFits, QueueFits, Quiet, Single
  <2> QED  BY <1>0, <2>1, <2>2 DEF ConnInv, RestFits
<1> QED  BY <1>1, <1>2, <1>3, <1>4, <1>5, <1>6, <1>7, <1>8 DEF Stream

LEMMA CloseStep ==
  ASSUME ConnInv, Close
  PROVE  ConnInv'
<1>1. CloseSocket /\ UNCHANGED <<clientVars, request, responseVars, jobs, waiting, processed>>
  BY DEF Close
<1>2. sock' \in {"open", "closing", "closed"}
  BY <1>1, SockStep DEF ConnInv
<1>3. ResponseFits(jobs)'
  BY <1>1, ResponseUnchanged DEF ConnInv
<1> QED  BY <1>1, <1>2, <1>3 DEF ConnInv, RestFits, clientVars

\* A job that is no then of endData may be added.
LEMMA AddFits ==
  ASSUME NEW q, ResponseFits(q), NEW j \in JobsOf(serial), Names(j), j.act # "sent"
  PROVE  ResponseFits(Append(q, j))
<1>1. serial \in Nat /\ QueueFits(q, serial)
  BY DEF ResponseFits
<1>2. /\ QueueFits(Append(q, j), serial)
      /\ Quiet(q) => Quiet(Append(q, j))
  BY <1>1, AppendFits
<1> QED  BY <1>2, QueueStep

\* The first job may be taken from the queue.
LEMMA TakeFits ==
  ASSUME NEW q, ResponseFits(q), q # <<>>
  PROVE  ResponseFits(Tail(q)) /\ Head(q) \in JobsOf(serial) /\ Names(Head(q))
<1>1. serial \in Nat /\ QueueFits(q, serial)
  BY DEF ResponseFits
<1>2. /\ QueueFits(Tail(q), serial) /\ (Quiet(q) => Quiet(Tail(q)))
      /\ Head(q) \in JobsOf(serial) /\ Names(Head(q))
  BY <1>1, TailFits
<1> QED  BY <1>2, QueueStep

LEMMA WriteStep ==
  ASSUME ConnInv, NEW ok \in BOOLEAN, AfterWrite(ok)
  PROVE  ConnInv'
<1>1. /\ writes # <<>> /\ writes' = Tail(writes)
      /\ jobs' = IF ok THEN Append(jobs, Sent(Head(writes))) ELSE jobs
      /\ UNCHANGED <<clientVars, sock, request, response, keep, serial, answered,
                     failed, waiting, processed>>
  BY DEF AfterWrite
<1>2. RestFits'
  BY <1>1, RestKept DEF ConnInv
<1>3. ResponseFits(jobs)
  BY DEF ConnInv
<1>4. /\ writes = <<serial>> /\ response = "ended" /\ Quiet(jobs)
      /\ serial \in Nat /\ QueueFits(jobs, serial)
  BY <1>1, <1>3 DEF ResponseFits
<1>5. Head(writes) = serial /\ writes' = <<>>
  BY <1>1, <1>4
<1>6. QueueFits(jobs', serial)
  <2>1. Sent(serial) \in JobsOf(serial) /\ Names(Sent(serial)) /\ Sent(serial).of = serial
    BY <1>4, SentFacts DEF Names
  <2>2. QueueFits(Append(jobs, Sent(serial)), serial)
    BY <1>4, <2>1, AppendFits
  <2> QED  BY <1>1, <1>4, <1>5, <2>2
<1>7. ResponseFits(jobs)'
  BY <1>1, <1>3, <1>4, <1>5, <1>6 DEF ResponseFits
<1> QED  BY <1>2, <1>7 DEF ConnInv

LEMMA ClosedJobStep ==
  ASSUME ConnInv, SocketClosed
  PROVE  ConnInv'
<1>1. /\ jobs' = Append(jobs, Job("closed", 0, TRUE))
      /\ UNCHANGED <<clientVars, sock, request, responseVars, waiting, processed>>
  BY DEF SocketClosed
<1>2. ResponseFits(jobs) /\ serial \in Nat
  BY DEF ConnInv, ResponseFits
<1>3. 0 \in 0..Callbacks /\ "closed" \in Acts
  BY BoundsAssumption, SMT DEF Acts
<1>4. ResponseFits(Append(jobs, Job("closed", 0, TRUE)))
  <2>1. /\ Job("closed", 0, TRUE) \in JobsOf(serial) /\ Names(Job("closed", 0, TRUE))
        /\ Job("closed", 0, TRUE).act # "sent"
    BY <1>2, <1>3, JobFacts DEF Names
  <2> QED  BY <1>2, <2>1, AddFits
<1>5. ResponseFits(jobs)'
  BY <1>1, <1>4, ResponseUnchanged
<1> QED  BY <1>1, <1>5, RestKept DEF ConnInv

LEMMA HandlerStep ==
  ASSUME ConnInv, NEW w \in waiting, HandlerDone(w)
  PROVE  ConnInv'
<1>1. /\ waiting' = waiting \ {w}
      /\ \/ /\ \E k \in BOOLEAN : End(k)
            /\ jobs' = Append(jobs, Settles(w.i, TRUE))
         \/ /\ \E ok \in BOOLEAN : jobs' = Append(jobs, Settles(w.i, ok))
            /\ UNCHANGED responseVars
      /\ UNCHANGED <<clientVars, sock, request, processed>>
  BY DEF HandlerDone
<1>2. ResponseFits(jobs) /\ serial \in Nat /\ w.i \in 1..Callbacks
  BY DEF ConnInv, ResponseFits, RestFits, Pendings
<1>3. ASSUME NEW ok \in BOOLEAN  PROVE ResponseFits(Append(jobs, Settles(w.i, ok)))
  BY <1>2, SettlesFacts, AddFits
<1>4. ResponseFits(jobs)'
  <2>1. CASE (\E k \in BOOLEAN : End(k)) /\ jobs' = Append(jobs, Settles(w.i, TRUE))
    BY <1>3, <2>1, EndFits
  <2>2. CASE /\ \E ok \in BOOLEAN : jobs' = Append(jobs, Settles(w.i, ok))
             /\ UNCHANGED responseVars
    BY <1>3, <2>2, ResponseUnchanged
  <2> QED  BY <1>1, <2>1, <2>2
<1>5. waiting' \in SUBSET Pendings
  BY <1>1 DEF ConnInv, RestFits
<1>6. RestFits'
  BY <1>1, <1>5 DEF ConnInv, RestFits, clientVars
<1> QED  BY <1>4, <1>6 DEF ConnInv

LEMMA CallbackStep ==
  ASSUME ConnInv, RunCallback
  PROVE  ConnInv'
<1> DEFINE i == Head(jobs).i
<1>1. /\ jobs # <<>> /\ Head(jobs).act = "callback"
      /\ \/ /\ jobs' = Append(Tail(jobs), Follower(i, FALSE))
            /\ UNCHANGED <<waiting, responseVars>>
         \/ /\ jobs' = Append(Tail(jobs), Settles(i, TRUE))
            /\ UNCHANGED <<waiting, responseVars>>
         \/ Execute(i, processed, Tail(jobs))
      /\ UNCHANGED <<clientVars, sock, request, processed>>
  BY DEF RunCallback, NextJob
<1>2. ResponseFits(Tail(jobs)) /\ serial \in Nat /\ i \in 0..Callbacks /\ i # 0
  <2>1. ResponseFits(jobs) /\ serial \in Nat
    BY DEF ConnInv, ResponseFits
  <2>2. ResponseFits(Tail(jobs)) /\ Head(jobs) \in JobsOf(serial) /\ Names(Head(jobs))
    BY <1>1, <2>1, TakeFits
  <2> QED  BY <1>1, <2>1, <2>2 DEF JobsOf, Names
<1>3. i \in 1..Callbacks
  BY <1>2, BoundsAssumption, SMT
<1> HIDE DEF i
<1>4. ResponseFits(Append(Tail(jobs), Follower(i, FALSE)))
  BY <1>2, <1>3, FollowerFacts, AddFits
<1>5. ResponseFits(Append(Tail(jobs), Settles(i, TRUE)))
  BY <1>2, <1>3, SettlesFacts, AddFits
<1>6. processed \in Nat /\ waiting \in SUBSET Pendings
  BY DEF ConnInv, RestFits
<1>7. ResponseFits(jobs)' /\ waiting' \in SUBSET Pendings
  BY <1>1, <1>2, <1>3, <1>4, <1>5, <1>6, ResponseUnchanged, ExecuteFits
<1>8. RestFits'
  BY <1>1, <1>7 DEF ConnInv, RestFits, clientVars
<1> QED  BY <1>7, <1>8 DEF ConnInv

LEMMA ForwardStep ==
  ASSUME ConnInv, RunForward
  PROVE  ConnInv'
<1> DEFINE h == Head(jobs)
           j == IF h.ok \/ h.act = "forwardError"
                  THEN Follower(h.i, h.ok)
                  ELSE Job("forwardError", h.i, FALSE)
<1>1. /\ jobs # <<>> /\ h.act \in {"forward", "forwardError"}
      /\ jobs' = Append(Tail(jobs), j)
      /\ UNCHANGED <<clientVars, sock, request, responseVars, waiting, processed>>
  BY DEF RunForward, NextJob
<1>2. /\ ResponseFits(Tail(jobs)) /\ serial \in Nat
      /\ h.i \in 0..Callbacks /\ h.i # 0 /\ h.ok \in BOOLEAN
  <2>1. ResponseFits(jobs) /\ serial \in Nat
    BY DEF ConnInv, ResponseFits
  <2>2. ResponseFits(Tail(jobs)) /\ h \in JobsOf(serial) /\ Names(h)
    BY <1>1, <2>1, TakeFits
  <2> QED  BY <1>1, <2>1, <2>2 DEF JobsOf, Names
<1>3. h.i \in 1..Callbacks
  BY <1>2, BoundsAssumption, SMT
<1> HIDE DEF h
<1>4. j \in JobsOf(serial) /\ Names(j) /\ j.act # "sent"
  <2>1. /\ Follower(h.i, h.ok) \in JobsOf(serial) /\ Names(Follower(h.i, h.ok))
        /\ Follower(h.i, h.ok).act # "sent"
    BY <1>2, <1>3, FollowerFacts
  <2>2. /\ Job("forwardError", h.i, FALSE) \in JobsOf(serial)
        /\ Names(Job("forwardError", h.i, FALSE))
        /\ Job("forwardError", h.i, FALSE).act # "sent"
    <3>1. "forwardError" \in Acts
      BY DEF Acts
    <3> QED  BY <1>2, <3>1, JobFacts DEF Names
  <2> QED  BY <2>1, <2>2
<1> HIDE DEF j
<1>5. ResponseFits(Append(Tail(jobs), j))
  BY <1>2, <1>4, AddFits
<1>6. ResponseFits(jobs)'
  BY <1>1, <1>5, ResponseUnchanged
<1> QED  BY <1>1, <1>6, RestKept DEF ConnInv

LEMMA NotFoundStep ==
  ASSUME ConnInv, RunNotFound
  PROVE  ConnInv'
<1>1. /\ jobs # <<>>
      /\ \/ jobs' = Tail(jobs) /\ EndUnlessSent(TRUE)
         \/ jobs' = Tail(jobs) /\ UNCHANGED responseVars
         \/ jobs' = Append(Tail(jobs), Job("error", 0, FALSE)) /\ UNCHANGED responseVars
      /\ UNCHANGED <<clientVars, sock, request, waiting, processed>>
  BY DEF RunNotFound, NextJob
<1>2. ResponseFits(Tail(jobs)) /\ serial \in Nat
  BY <1>1, TakeFits DEF ConnInv, ResponseFits
<1>3. ResponseFits(Append(Tail(jobs), Job("error", 0, FALSE)))
  <2>1. 0 \in 0..Callbacks /\ "error" \in Acts
    BY BoundsAssumption, SMT DEF Acts
  <2>2. /\ Job("error", 0, FALSE) \in JobsOf(serial) /\ Names(Job("error", 0, FALSE))
        /\ Job("error", 0, FALSE).act # "sent"
    BY <1>2, <2>1, JobFacts DEF Names
  <2> QED  BY <1>2, <2>2, AddFits
<1>4. ResponseFits(jobs)'
  BY <1>1, <1>2, <1>3, EndUnlessSentFits, ResponseUnchanged
<1> QED  BY <1>1, <1>4, RestKept DEF ConnInv

LEMMA ErrorStep ==
  ASSUME ConnInv, RunError
  PROVE  ConnInv'
<1>1. /\ jobs # <<>> /\ jobs' = Tail(jobs)
      /\ EndUnlessSent(TRUE) \/ UNCHANGED responseVars
      /\ UNCHANGED <<clientVars, sock, request, waiting, processed>>
  BY DEF RunError, NextJob
<1>2. ResponseFits(Tail(jobs))
  BY <1>1, TakeFits DEF ConnInv
<1>3. ResponseFits(jobs)'
  BY <1>1, <1>2, EndUnlessSentFits, ResponseUnchanged
<1> QED  BY <1>1, <1>3, RestKept DEF ConnInv

LEMMA ClosedStep ==
  ASSUME ConnInv, RunClosed
  PROVE  ConnInv'
<1>1. /\ jobs # <<>> /\ jobs' = Tail(jobs) /\ sock' = "closed"
      /\ UNCHANGED <<clientVars, request, responseVars, waiting, processed>>
  BY DEF RunClosed, NextJob
<1>2. ResponseFits(Tail(jobs))
  BY <1>1, TakeFits DEF ConnInv
<1>3. ResponseFits(jobs)'
  BY <1>1, <1>2, ResponseUnchanged
<1>4. RestFits'
  BY <1>1 DEF ConnInv, RestFits, clientVars
<1> QED  BY <1>3, <1>4 DEF ConnInv

\* The one then of endData runs: no other is on its way when the response is dropped.
LEMMA SentStep ==
  ASSUME ConnInv, RunSent
  PROVE  ConnInv'
<1>1. /\ jobs # <<>> /\ Head(jobs).act = "sent" /\ jobs' = Tail(jobs)
      /\ failed' = (response = "none")
      /\ \/ /\ request' = NoRequest
            /\ response' = "none" /\ keep' = TRUE
            /\ UNCHANGED sock
         \/ /\ CloseSocket
            /\ UNCHANGED <<request, response, keep>>
      /\ UNCHANGED <<clientVars, serial, writes, answered, waiting, processed>>
  BY DEF RunSent, NextJob
<1>2. ResponseFits(jobs) /\ QueueFits(jobs, serial) /\ serial \in Nat /\ RestFits
  BY DEF ConnInv, ResponseFits
<1>3. QueueFits(Tail(jobs), serial) /\ Quiet(Tail(jobs)) /\ ~Quiet(jobs)
  BY <1>1, <1>2, TailFits
<1>4. writes = <<>> /\ answered \in Nat /\ response \in ResponseStates /\ keep \in BOOLEAN
      /\ (response # "none" => serial # 0)
  BY <1>2, <1>3 DEF ResponseFits
<1>5. QueueFits(jobs, serial)' /\ Quiet(jobs)' /\ writes' = <<>>
  BY <1>1, <1>3, <1>4
<1>6. /\ response' \in ResponseStates /\ keep' \in BOOLEAN /\ failed' \in BOOLEAN
      /\ (response' # "none" => serial' # 0)
  BY <1>1, <1>4 DEF ResponseStates
<1>7. ResponseFits(jobs)'
  BY <1>1, <1>2, <1>4, <1>5, <1>6 DEF ResponseFits
<1>8. /\ sock' \in {"open", "closing", "closed"}
      /\ request' \in [headers : BOOLEAN, complete : BOOLEAN]
  <2>1. CASE request' = NoRequest /\ UNCHANGED sock
    BY <1>2, <2>1 DEF RestFits, NoRequest
  <2>2. CASE CloseSocket /\ UNCHANGED request
    BY <1>2, <2>2, SockStep DEF RestFits
  <2> QED  BY <1>1, <2>1, <2>2
<1>9. RestFits'
  BY <1>1, <1>2, <1>8 DEF RestFits, clientVars
<1> QED  BY <1>7, <1>9 DEF ConnInv

-----------------------------------------------------------------------------
(* The theorems. *)

LEMMA InitConn ==
  ASSUME Init
  PROVE  ConnInv
<1>1. QueueFits(<<>>, 0) /\ Quiet(<<>>)
  <2>1. <<>> \in Seq(JobsOf(0)) /\ 1..Len(<<>>) = {}
    OBVIOUS
  <2> QED  BY <2>1 DEF QueueFits, Quiet, Single
<1>2. ResponseFits(jobs)
  BY <1>1 DEF Init, ResponseFits, ResponseStates
<1>3. RestFits
  <2>1. 0 \in 0..MaxRequests
    BY BoundsAssumption, SMT
  <2> QED  BY <2>1 DEF Init, RestFits, NoRequest
<1> QED  BY <1>2, <1>3 DEF ConnInv

LEMMA StutterConn ==
  ASSUME ConnInv, UNCHANGED vars
  PROVE  ConnInv'
<1>1. ResponseFits(jobs)'
  BY ResponseUnchanged DEF ConnInv, vars, responseVars
<1>2. RestFits'
  BY RestKept DEF ConnInv, vars, clientVars
<1> QED  BY <1>1, <1>2 DEF ConnInv

LEMMA NextConn ==
  ASSUME ConnInv, [Next]_vars
  PROVE  ConnInv'
<1>1. CASE Stream
  BY <1>1, StreamStep
<1>2. CASE Close
  BY <1>2, CloseStep
<1>3. CASE Run
  BY <1>3, CallbackStep, ForwardStep, NotFoundStep, ErrorStep, SentStep, ClosedStep DEF Run
<1>4. CASE Handler
  BY <1>4, HandlerStep DEF Handler
<1>5. CASE \E ok \in BOOLEAN : AfterWrite(ok)
  BY <1>5, WriteStep
<1>6. CASE SocketClosed
  BY <1>6, ClosedJobStep
<1>7. CASE UNCHANGED vars
  BY <1>7, StutterConn
<1> QED  BY <1>1, <1>2, <1>3, <1>4, <1>5, <1>6, <1>7 DEF Next

\* While a connection lives, whatever its stream does and however its handlers settle:
\* a write of endData or the job of its then() exists only for the connection's present
\* response, which is ended, and one of them at a time.
THEOREM ConnectionInvariance == Spec => []ConnInv
<1>1. Init => ConnInv
  BY InitConn
<1>2. ConnInv /\ [Next]_vars => ConnInv'
  BY NextConn
<1> QED  BY <1>1, <1>2, PTL DEF Spec

LEMMA ConnTypes ==
  ASSUME ConnInv
  PROVE  TypeOK
<1>1. ResponseFits(jobs) /\ RestFits /\ serial \in Nat
  BY DEF ConnInv, ResponseFits
<1>2. writes \in Seq(1..serial)
  <2>1. CASE writes = <<>>
    BY <2>1
  <2>2. CASE writes # <<>>
    <3>1. writes = <<serial>> /\ serial # 0
      BY <1>1, <2>2 DEF ResponseFits
    <3>2. serial \in 1..serial
      BY <1>1, <3>1, SMT
    <3> QED  BY <3>1, <3>2
  <2> QED  BY <2>1, <2>2
<1>3. /\ response \in ResponseStates /\ keep \in BOOLEAN /\ answered \in Nat /\ failed \in BOOLEAN
      /\ jobs \in Seq([act : Acts, i : 0..Callbacks, ok : BOOLEAN, of : 0..serial])
  BY <1>1 DEF ResponseFits, QueueFits, JobsOf
<1> QED  BY <1>1, <1>2, <1>3 DEF TypeOK, RestFits, Pendings

\* TypeOK holds for any number of callbacks and requests: a write names a response that
\* was made, a job a callback of the chain.
THEOREM ConnectionTypeCorrect == Spec => []TypeOK
<1> QED  BY ConnectionInvariance, ConnTypes, PTL

LEMMA ConnStays ==
  ASSUME ConnInv
  PROVE  ResponseStays
<1> DEFINE S == {i \in DOMAIN jobs : jobs[i].act = "sent"}
<1>1. ResponseFits(jobs) /\ QueueFits(jobs, serial) /\ serial \in Nat
  BY DEF ConnInv, ResponseFits
<1>2. DOMAIN jobs = 1..Len(jobs)
  BY <1>1 DEF QueueFits
<1>3. S = {} \/ \E i : S = {i}
  BY <1>1, <1>2 DEF QueueFits, Single
<1>4. Cardinality(S) \in {0, 1} /\ (S = {} => Cardinality(S) = 0)
  BY <1>3, FS_EmptySet, FS_Singleton
<1>5. Quiet(jobs) => S = {}
  BY <1>2 DEF Quiet
<1> HIDE DEF S
<1>6. Len(writes) + Cardinality(S) <= 1
  <2>1. CASE writes = <<>>
    <3>1. Len(writes) = 0
      BY <2>1
    <3> QED  BY <1>4, <3>1, SMT
  <2>2. CASE writes = <<serial>> /\ Quiet(jobs)
    <3>1. Len(writes) = 1 /\ Cardinality(S) = 0
      BY <1>4, <1>5, <2>2
    <3> QED  BY <3>1, SMT
  <2> QED  BY <1>1, <2>1, <2>2 DEF ResponseFits
<1>7. \A i \in DOMAIN writes : response = "ended" /\ writes[i] = serial
  BY <1>1 DEF ResponseFits
<1>8. \A i \in DOMAIN jobs : jobs[i].act = "sent" => response = "ended" /\ jobs[i].of = serial
  BY <1>1, <1>2 DEF ResponseFits, QueueFits, Quiet
<1> QED  BY <1>6, <1>7, <1>8 DEF ResponseStays, S

\* ResponseStays holds for any number of callbacks and requests: the then() of endData
\* never finds another response than the one that was sent, nor none.
THEOREM ResponseNotReplaced == Spec => []ResponseStays
<1> QED  BY ConnectionInvariance, ConnStays, PTL

\* What runs when the response is written uses no null _response, and is about the
\* response it was made for.
SentFinds == RunSent => ~failed' /\ Head(jobs).of = serial /\ response = "ended"

LEMMA SentJobFinds ==
  ASSUME ConnInv, RunSent
  PROVE  ~failed' /\ Head(jobs).of = serial /\ response = "ended"
<1>1. jobs # <<>> /\ Head(jobs).act = "sent" /\ failed' = (response = "none")
  BY DEF RunSent, NextJob
<1>2. ResponseFits(jobs) /\ QueueFits(jobs, serial) /\ serial \in Nat
  BY DEF ConnInv, ResponseFits
<1>3. ~Quiet(jobs) /\ Head(jobs).of = serial
  BY <1>1, <1>2, TailFits
<1>4. response = "ended"
  BY <1>2, <1>3 DEF ResponseFits
<1> QED  BY <1>1, <1>3, <1>4

\* In every step that runs the then() of endData, that callback finds a response, and the
\* one it was made for: _response is dereferenced without a test in ServerResponse.
THEOREM SentFindsItsResponse == Spec => [][SentFinds]_vars
<1>1. ConnInv /\ [Next]_vars => [SentFinds]_vars
  BY SentJobFinds DEF SentFinds
<1> QED  BY <1>1, ConnectionInvariance, PTL DEF Spec

-----------------------------------------------------------------------------
(* No request is forgotten: the part of EveryRequestAnswered that does not  *)
(* need fairness.                                                           *)

\* The jobs of a chain: each of them hands on to the next one, or ends the response.
ChainActs == {"callback", "forward", "forwardError", "notFound", "error"}
Carries(q) == \E i \in 1..Len(q) : q[i].act \in ChainActs

\* A complete request whose response is not ended is in the hands of a handler or of a
\* job of a chain, unless the connection is closed or the program has ended.  The chain
\* may be that of an earlier request: every chain ends the response the connection has
\* then.
Held == failed \/ response = "ended" \/ sock = "closed" \/ waiting # {} \/ Carries(jobs)
NoneForgotten == request.complete => Held

LEMMA AppendCarries ==
  ASSUME NEW s, NEW q \in Seq(JobsOf(s)), NEW j \in JobsOf(s)
  PROVE  j.act \in ChainActs \/ Carries(q) => Carries(Append(q, j))
<1> DEFINE a == Append(q, j)
           n == Len(q)
<1>1. /\ n \in Nat /\ Len(a) = n + 1 /\ a[n + 1] = j
      /\ \A i \in 1..n : a[i] = q[i]
  <2>1. n \in Nat
    BY LenProperties
  <2> QED  BY <2>1, AppendProperties
<1> HIDE DEF a, n
<1>2. n + 1 \in 1..Len(a) /\ \A i \in 1..n : i \in 1..Len(a)
  BY <1>1, SMT
<1>3. CASE j.act \in ChainActs
  BY <1>1, <1>2, <1>3 DEF Carries, a
<1>4. CASE Carries(q)
  <2>1. PICK i \in 1..n : q[i].act \in ChainActs
    BY <1>4 DEF Carries, n
  <2>2. i \in 1..Len(a) /\ a[i].act \in ChainActs
    BY <1>1, <1>2, <2>1
  <2> QED  BY <2>2 DEF Carries, a
<1> QED  BY <1>3, <1>4

\* What follows a callback of the chain is of the chain.
LEMMA FollowerCarries ==
  ASSUME NEW i \in 1..Callbacks, NEW ok \in BOOLEAN
  PROVE  Follower(i, ok).act \in ChainActs /\ Settles(i, ok).act \in ChainActs
<1>1. Follower(i, ok).act \in ChainActs
  BY DEF Follower, Job, ChainActs
<1>2. Job("forward", i, ok).act \in ChainActs
  BY DEF Job, ChainActs
<1> QED  BY <1>1, <1>2 DEF Settles, Follower

LEMMA EndEnds ==
  ASSUME NEW k, End(k) \/ EndUnlessSent(k)
  PROVE  response' = "ended"
<1> QED  BY DEF End, EndUnlessSent, Look, isSent

\* The queue that a callback is executed with may have lost every other job of a chain:
\* the callback answers, waits, or adds one, or what it throws ends the program.
LEMMA ExecuteHolds ==
  ASSUME NEW q, ResponseFits(q), NEW i \in 1..Callbacks, NEW n, Execute(i, n, q)
  PROVE  Held'
<1>1. q \in Seq(JobsOf(serial)) /\ serial \in Nat
  BY DEF ResponseFits, QueueFits
<1>2. ASSUME NEW ok \in BOOLEAN, jobs' = Append(q, Settles(i, ok))  PROVE Carries(jobs)'
  <2>1. Settles(i, ok) \in JobsOf(serial) /\ Settles(i, ok).act \in ChainActs
    BY <1>1, SettlesFacts, FollowerCarries
  <2>2. Carries(Append(q, Settles(i, ok)))
    BY <1>1, <2>1, AppendCarries
  <2> QED  BY <1>2, <2>2 DEF Carries
<1>3. CASE \E k \in BOOLEAN : End(k)
  BY <1>3, EndEnds DEF Held
<1>4. CASE \E ok \in BOOLEAN : jobs' = Append(q, Settles(i, ok))
  BY <1>2, <1>4 DEF Held
<1>5. CASE waiting' = waiting \cup {Pending(i, n, TRUE)}
  BY <1>5 DEF Held
<1>6. CASE failed' = TRUE
  BY <1>6 DEF Held
<1>7. CASE jobs' = Append(q, Follower(i, FALSE))
  <2>1. Follower(i, FALSE) \in JobsOf(serial) /\ Follower(i, FALSE).act \in ChainActs
    BY <1>1, FollowerFacts, FollowerCarries
  <2>2. Carries(Append(q, Follower(i, FALSE)))
    BY <1>1, <2>1, AppendCarries
  <2> QED  BY <1>7, <2>2 DEF Held, Carries
<1> QED  BY <1>3, <1>4, <1>5, <1>6, <1>7 DEF Execute

LEMMA ProcessHolds ==
  ASSUME ConnInv, ProcessRequest
  PROVE  Held'
<1>1. 1 \in 1..Callbacks
  BY BoundsAssumption, SMT
<1> QED  BY <1>1, ExecuteHolds DEF ConnInv, ProcessRequest

\* A chunk makes a request complete only if it is processed in the same call.
LEMMA ReceiveHolds ==
  ASSUME ConnInv, NoneForgotten, NEW headers \in BOOLEAN, NEW complete \in BOOLEAN,
         NEW accepted, Receive(headers, complete, accepted)
  PROVE  NoneForgotten'
<1>1. CASE ProcessRequest
  BY <1>1, ProcessHolds DEF NoneForgotten
<1>2. CASE ~ProcessRequest
  <2>1. ~request'.complete
    BY <1>2, Zenon DEF Receive
  <2> QED  BY <2>1 DEF NoneForgotten
<1> QED  BY <1>1, <1>2

LEMMA StreamHolds ==
  ASSUME ConnInv, NoneForgotten, Stream
  PROVE  NoneForgotten'
<1>1. CASE ReceiveSome
  BY <1>1, ReceiveHolds DEF ReceiveSome
<1>2. CASE ReceiveHead
  BY <1>2, ReceiveHolds DEF ReceiveHead
<1>3. CASE ReceiveEnd
  BY <1>3, ReceiveHolds DEF ReceiveEnd
<1>4. CASE ReceiveBad
  BY <1>4, ReceiveHolds DEF ReceiveBad
<1>5. CASE ReadEof
  BY <1>5 DEF ReadEof, NoneForgotten, Held, Carries, responseVars
<1>6. CASE ReadReset
  BY <1>6 DEF ReadReset, CloseSocket, NoneForgotten, Held, Carries, responseVars
<1>7. CASE ReadError
  BY <1>7, EndEnds DEF ReadError, NoneForgotten, Held
<1>8. CASE ReceiveBadUrl
  BY <1>8 DEF ReceiveBadUrl, NoneForgotten, Held
<1> QED  BY <1>1, <1>2, <1>3, <1>4, <1>5, <1>6, <1>7, <1>8 DEF Stream

\* A job of the chain is followed by another.
LEMMA AddHolds ==
  ASSUME NEW q, ResponseFits(q), NEW j \in JobsOf(serial), j.act \in ChainActs,
         jobs' = Append(q, j)
  PROVE  Held'
<1>1. Carries(Append(q, j))
  BY AppendCarries DEF ResponseFits, QueueFits
<1> QED  BY <1>1 DEF Held, Carries

LEMMA HandlerHolds ==
  ASSUME ConnInv, NEW w \in waiting, HandlerDone(w)
  PROVE  Held'
<1>1. ResponseFits(jobs) /\ serial \in Nat /\ w.i \in 1..Callbacks
  BY DEF ConnInv, ResponseFits, RestFits, Pendings
<1>2. \E ok \in BOOLEAN : jobs' = Append(jobs, Settles(w.i, ok))
  BY DEF HandlerDone
<1> QED  BY <1>1, <1>2, SettlesFacts, FollowerCarries, AddHolds

LEMMA CallbackHolds ==
  ASSUME ConnInv, RunCallback
  PROVE  Held'
<1> DEFINE i == Head(jobs).i
<1>1. /\ jobs # <<>> /\ Head(jobs).act = "callback"
      /\ \/ jobs' = Append(Tail(jobs), Follower(i, FALSE))
         \/ jobs' = Append(Tail(jobs), Settles(i, TRUE))
         \/ Execute(i, processed, Tail(jobs))
  BY DEF RunCallback, NextJob
<1>2. ResponseFits(Tail(jobs)) /\ serial \in Nat /\ i \in 0..Callbacks /\ i # 0
  <2>1. ResponseFits(jobs) /\ serial \in Nat
    BY DEF ConnInv, ResponseFits
  <2>2. ResponseFits(Tail(jobs)) /\ Head(jobs) \in JobsOf(serial) /\ Names(Head(jobs))
    BY <1>1, <2>1, TakeFits
  <2> QED  BY <1>1, <2>1, <2>2 DEF JobsOf, Names
<1>3. i \in 1..Callbacks
  BY <1>2, BoundsAssumption, SMT
<1> HIDE DEF i
<1>4. CASE jobs' = Append(Tail(jobs), Follower(i, FALSE))
  BY <1>2, <1>3, <1>4, FollowerFacts, FollowerCarries, AddHolds
<1>5. CASE jobs' = Append(Tail(jobs), Settles(i, TRUE))
  BY <1>2, <1>3, <1>5, SettlesFacts, FollowerCarries, AddHolds
<1> QED  BY <1>1, <1>2, <1>3, <1>4, <1>5, ExecuteHolds

LEMMA ForwardHolds ==
  ASSUME ConnInv, RunForward
  PROVE  Held'
<1> DEFINE h == Head(jobs)
<1>1. /\ jobs # <<>> /\ h.act \in {"forward", "forwardError"}
      /\ \/ jobs' = Append(Tail(jobs), Follower(h.i, h.ok))
         \/ jobs' = Append(Tail(jobs), Job("forwardError", h.i, FALSE))
  BY DEF RunForward, NextJob
<1>2. /\ ResponseFits(Tail(jobs)) /\ serial \in Nat
      /\ h.i \in 0..Callbacks /\ h.i # 0 /\ h.ok \in BOOLEAN
  <2>1. ResponseFits(jobs) /\ serial \in Nat
    BY DEF ConnInv, ResponseFits
  <2>2. ResponseFits(Tail(jobs)) /\ h \in JobsOf(serial) /\ Names(h)
    BY <1>1, <2>1, TakeFits
  <2> QED  BY <1>1, <2>1, <2>2 DEF JobsOf, Names
<1>3. h.i \in 1..Callbacks
  BY <1>2, BoundsAssumption, SMT
<1> HIDE DEF h
<1>4. CASE jobs' = Append(Tail(jobs), Follower(h.i, h.ok))
  BY <1>2, <1>3, <1>4, FollowerFacts, FollowerCarries, AddHolds
<1>5. CASE jobs' = Append(Tail(jobs), Job("forwardError", h.i, FALSE))
  <2>1. "forwardError" \in Acts /\ "forwardError" \in ChainActs
    BY DEF Acts, ChainActs
  <2>2. /\ Job("forwardError", h.i, FALSE) \in JobsOf(serial)
        /\ Job("forwardError", h.i, FALSE).act = "forwardError"
    BY <1>2, <2>1, JobFacts
  <2> QED  BY <1>2, <1>5, <2>1, <2>2, AddHolds
<1> QED  BY <1>1, <1>4, <1>5

LEMMA NotFoundHolds ==
  ASSUME ConnInv, RunNotFound
  PROVE  Held'
<1>1. /\ jobs # <<>>
      /\ \/ EndUnlessSent(TRUE)
         \/ sock = "closed"
         \/ jobs' = Append(Tail(jobs), Job("error", 0, FALSE))
      /\ UNCHANGED sock
  BY DEF RunNotFound, NextJob
<1>2. CASE EndUnlessSent(TRUE)
  BY <1>2, EndEnds DEF Held
<1>3. CASE sock = "closed"
  BY <1>1, <1>3 DEF Held
<1>4. CASE jobs' = Append(Tail(jobs), Job("error", 0, FALSE))
  <2>1. ResponseFits(Tail(jobs)) /\ serial \in Nat
    BY <1>1, TakeFits DEF ConnInv, ResponseFits
  <2>2. 0 \in 0..Callbacks /\ "error" \in Acts /\ "error" \in ChainActs
    BY BoundsAssumption, SMT DEF Acts, ChainActs
  <2>3. Job("error", 0, FALSE) \in JobsOf(serial) /\ Job("error", 0, FALSE).act \in ChainActs
    BY <2>1, <2>2, JobFacts
  <2> QED  BY <1>4, <2>1, <2>3, AddHolds
<1> QED  BY <1>1, <1>2, <1>3, <1>4

LEMMA ErrorHolds ==
  ASSUME RunError
  PROVE  Held'
<1>1. (EndUnlessSent(TRUE) \/ sock = "closed") /\ UNCHANGED sock
  BY DEF RunError
<1> QED  BY <1>1, EndEnds DEF Held

\* With keep-alive the request goes together with its response; otherwise the response
\* that was sent stays.
LEMMA SentHolds ==
  ASSUME ConnInv, RunSent
  PROVE  NoneForgotten'
<1>1. request' = NoRequest \/ UNCHANGED response
  BY DEF RunSent
<1>2. CASE request' = NoRequest
  BY <1>2 DEF NoneForgotten, NoRequest
<1>3. CASE UNCHANGED response
  BY <1>3, SentJobFinds DEF NoneForgotten, Held
<1> QED  BY <1>1, <1>2, <1>3

LEMMA WriteHolds ==
  ASSUME ConnInv, NoneForgotten, NEW ok \in BOOLEAN, AfterWrite(ok)
  PROVE  NoneForgotten'
<1>1. writes # <<>> /\ UNCHANGED response
  BY DEF AfterWrite
<1>2. response = "ended"
  BY <1>1 DEF ConnInv, ResponseFits
<1> QED  BY <1>1, <1>2 DEF NoneForgotten, Held

LEMMA NextHolds ==
  ASSUME ConnInv, NoneForgotten, [Next]_vars
  PROVE  NoneForgotten'
<1>1. CASE Stream
  BY <1>1, StreamHolds
<1>2. CASE Close
  BY <1>2 DEF Close, CloseSocket, NoneForgotten, Held, Carries, responseVars
<1>3. CASE Run
  <2>1. CASE RunClosed
    BY <2>1 DEF RunClosed, NoneForgotten, Held
  <2> QED  BY <1>3, <2>1, CallbackHolds, ForwardHolds, NotFoundHolds, ErrorHolds, SentHolds
           DEF Run, NoneForgotten
<1>4. CASE Handler
  BY <1>4, HandlerHolds DEF Handler, NoneForgotten
<1>5. CASE \E ok \in BOOLEAN : AfterWrite(ok)
  BY <1>5, WriteHolds
<1>6. CASE SocketClosed
  <2>1. /\ jobs' = Append(jobs, Job("closed", 0, TRUE))
        /\ UNCHANGED <<request, response, failed, waiting, sock>>
    BY <1>6 DEF SocketClosed, responseVars
  <2>2. 0 \in 0..Callbacks /\ "closed" \in Acts /\ serial \in Nat
    BY BoundsAssumption, SMT DEF Acts, ConnInv, ResponseFits
  <2>3. Carries(jobs) => Carries(Append(jobs, Job("closed", 0, TRUE)))
    BY <2>2, JobFacts, AppendCarries DEF ConnInv, ResponseFits, QueueFits
  <2> QED  BY <2>1, <2>3 DEF NoneForgotten, Held, Carries
<1>7. CASE UNCHANGED vars
  BY <1>7 DEF vars, NoneForgotten, Held, Carries
<1> QED  BY <1>1, <1>2, <1>3, <1>4, <1>5, <1>6, <1>7 DEF Next

\* NoneForgotten holds for any number of callbacks, requests and handlers, whatever the
\* stream does: while a complete request has no answer, the connection is not closed and
\* no exception has ended the program, a handler is pending or a job of
\* ServerPlugin::execute's chain is in the loop, and the last of these is the 404 or 500 of
\* processRequest.
THEOREM NoRequestForgotten == Spec => []NoneForgotten
<1>1. Init => NoneForgotten
  BY DEF Init, NoneForgotten, NoRequest
<1>2. ConnInv /\ NoneForgotten /\ [Next]_vars => NoneForgotten'
  BY NextHolds
<1> QED  BY <1>1, <1>2, ConnectionInvariance, PTL DEF Spec
=============================================================================
