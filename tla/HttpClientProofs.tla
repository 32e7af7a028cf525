-------------------------- MODULE HttpClientProofs --------------------------
(***************************************************************************)
(* Proofs about module HttpClient, for any set of requests that share a    *)
(* loop and whatever may happen on the network.                            *)
(*                                                                         *)
(* The proofs follow a request through the places it can be in: connecting *)
(* until libuv's callback, a job of the loop, reading until Finish, a job  *)
(* again, and its result.  The invariant says that these exclude each      *)
(* other, and what the request keeps in each of them.                      *)
(***************************************************************************)
EXTENDS HttpClient, SequenceTheorems, FiniteSetTheorems, TLAPS

JobSet == [act : {"write", "read", "forward", "forwardError"}, r : Requests, ok : BOOLEAN]

\* What a request keeps while its callbacks can be called, and has given up after.
Kept(r) == instance[r] /\ sock[r] = "open" /\ response[r] # "none"
Gone(r) == ~instance[r] /\ ~reading[r] /\ sock[r] \in {"closing", "closed"}

Queued == {jobs[i] : i \in 1..Len(jobs)}
HasJob(r) == \E j \in Queued : j.r = r

\* A job is about a request that is nowhere else.
JobFits(j) ==
  /\ result[j.r] = "pending" /\ ~reading[j.r]
  /\ j.act \in {"write", "read"} =>
       Kept(j.r) /\ conn[j.r] = IF j.ok THEN "connected" ELSE "failed"
  /\ j.act \in {"forward", "forwardError"} => Gone(j.r) /\ conn[j.r] = "connected"

JobsFit == \A j \in Queued : JobFits(j)

OneJobEach == \A i, k \in 1..Len(jobs) : jobs[i].r = jobs[k].r => i = k

RequestFits(r) ==
  /\ conn[r] \in {"new", "connecting"} => ~reading[r] /\ result[r] = "pending" /\ ~HasJob(r)
  /\ conn[r] = "connecting" => Kept(r)
  /\ reading[r] => Kept(r) /\ conn[r] = "connected" /\ result[r] = "pending"
  /\ result[r] # "pending" /\ conn[r] = "connected" => Gone(r)

RequestsFit == \A r \in Requests : RequestFits(r)

\* A request that was begun is not lost.
Somewhere ==
  \A r \in Requests :
    conn[r] \in {"connected", "failed"} => reading[r] \/ result[r] # "pending" \/ HasJob(r)

ClientInv == TypeOK /\ JobsFit /\ OneJobEach /\ RequestsFit /\ Somewhere

-----------------------------------------------------------------------------
(* The loop's queue. *)

LEMMA QueueAppend ==
  ASSUME jobs \in Seq(JobSet), OneJobEach, NEW e \in JobSet, ~HasJob(e.r),
         jobs' = Append(jobs, e)
  PROVE  /\ jobs' \in Seq(JobSet) /\ OneJobEach'
         /\ Queued' = Queued \cup {e}
<1>1. /\ Len(jobs) \in Nat
      /\ jobs' \in Seq(JobSet) /\ Len(jobs') = Len(jobs) + 1
      /\ \A i \in 1..Len(jobs) : jobs'[i] = jobs[i]
      /\ jobs'[Len(jobs) + 1] = e
  BY AppendProperties, LenProperties, SMT
<1>2. OneJobEach'
  BY ONLY OneJobEach, ~HasJob(e.r), <1>1, SMT DEF OneJobEach, HasJob, Queued
<1>3. Queued' = Queued \cup {e}
  <2>1. ASSUME NEW j \in Queued'  PROVE j \in Queued \cup {e}
    BY ONLY <1>1, <2>1, SMT DEF Queued
  <2>2. ASSUME NEW j \in Queued \cup {e}  PROVE j \in Queued'
    <3>1. CASE j = e
      BY ONLY <1>1, <3>1, SMT DEF Queued
    <3>2. CASE j \in Queued
      <4>1. PICK i \in 1..Len(jobs) : j = jobs[i]
        BY <3>2 DEF Queued
      <4>2. i \in 1..Len(jobs') /\ j = jobs'[i]
        BY <1>1, <4>1, SMT
      <4> QED  BY <4>2 DEF Queued
    <3> QED  BY <2>2, <3>1, <3>2
  <2> QED  BY <2>1, <2>2
<1> QED  BY <1>1, <1>2, <1>3

LEMMA QueueHead ==
  ASSUME jobs \in Seq(JobSet), jobs # <<>>
  PROVE  Head(jobs) \in JobSet /\ Head(jobs) \in Queued
<1>1. Len(jobs) \in Nat /\ Len(jobs) >= 1 /\ Head(jobs) = jobs[1] /\ Head(jobs) \in JobSet
  BY HeadTailProperties, EmptySeq, LenProperties, SMT
<1> QED  BY ONLY <1>1, SMT DEF Queued

LEMMA QueueTail ==
  ASSUME jobs \in Seq(JobSet), OneJobEach, jobs # <<>>, jobs' = Tail(jobs)
  PROVE  /\ jobs' \in Seq(JobSet) /\ OneJobEach'
         /\ Queued' = {j \in Queued : j.r # Head(jobs).r}
<1>1. /\ Len(jobs) \in Nat /\ Len(jobs) >= 1 /\ Head(jobs) = jobs[1]
      /\ jobs' \in Seq(JobSet) /\ Len(jobs') = Len(jobs) - 1
      /\ \A i \in 1..Len(jobs') : jobs'[i] = jobs[i + 1]
  BY HeadTailProperties, EmptySeq, LenProperties, SMT
<1>2. OneJobEach'
  BY ONLY OneJobEach, <1>1, SMT DEF OneJobEach
<1>3. ASSUME NEW j \in Queued'  PROVE j \in Queued /\ j.r # Head(jobs).r
  <2>1. PICK i \in 1..Len(jobs') : j = jobs'[i]
    BY <1>3 DEF Queued
  <2>2. i + 1 \in 1..Len(jobs) /\ j = jobs[i + 1] /\ 1 \in 1..Len(jobs) /\ i + 1 # 1
    BY <1>1, <2>1, SMT
  <2> QED  BY <1>1, <2>2 DEF Queued, OneJobEach
<1>4. ASSUME NEW j \in Queued, j.r # Head(jobs).r  PROVE j \in Queued'
  <2>1. PICK i \in 1..Len(jobs) : j = jobs[i]
    BY <1>4 DEF Queued
  <2>2. i # 1
    BY <1>1, <1>4, <2>1
  <2>3. i - 1 \in 1..Len(jobs') /\ jobs'[i - 1] = j
    BY <1>1, <2>1, <2>2, SMT
  <2> QED  BY <2>3 DEF Queued
<1> QED  BY <1>1, <1>2, <1>3, <1>4

\* The oldest element is replaced by one at the end.
LEMMA TailAppend ==
  ASSUME NEW S, NEW s \in Seq(S), s # <<>>, NEW e \in S
  PROVE  /\ Append(Tail(s), e) \in Seq(S)
         /\ Len(Append(Tail(s), e)) = Len(s)
         /\ Append(Tail(s), e)[Len(s)] = e
         /\ \A i \in 1..Len(s) : i # Len(s) => Append(Tail(s), e)[i] = s[i + 1]
<1> DEFINE q == Tail(s)
           p == Append(q, e)
<1>1. q \in Seq(S) /\ \A i \in 1..Len(q) : q[i] = s[i + 1]
  BY HeadTailProperties
<1>2. Len(s) \in Nat /\ Len(s) >= 1 /\ Len(q) = Len(s) - 1
  BY HeadTailProperties, EmptySeq, LenProperties, SMT
<1>3. /\ p \in Seq(S) /\ Len(p) = Len(q) + 1 /\ p[Len(q) + 1] = e
      /\ \A i \in 1..Len(q) : p[i] = q[i]
  BY <1>1, AppendProperties
<1> HIDE DEF p, q
<1>4. Len(q) + 1 = Len(s)
  BY ONLY <1>2, SMT
<1>5. ASSUME NEW i \in 1..Len(s), i # Len(s)
      PROVE  p[i] = s[i + 1]
  <2>1. i \in 1..Len(q)
    BY ONLY <1>2, <1>5, SMT
  <2> QED  BY <1>1, <1>3, <2>1
<1>6. /\ p \in Seq(S) /\ Len(p) = Len(s) /\ p[Len(s)] = e
      /\ \A i \in 1..Len(s) : i # Len(s) => p[i] = s[i + 1]
  BY <1>3, <1>4, <1>5
<1> QED  BY <1>6 DEF p, q

\* A job whose successor is about the same request.
LEMMA QueueMove ==
  ASSUME jobs \in Seq(JobSet), OneJobEach, jobs # <<>>,
         NEW e \in JobSet, e.r = Head(jobs).r, jobs' = Append(Tail(jobs), e)
  PROVE  /\ jobs' \in Seq(JobSet) /\ OneJobEach'
         /\ Queued' = {j \in Queued : j.r # e.r} \cup {e}
<1>1. Len(jobs) \in Nat /\ Len(jobs) >= 1
  BY EmptySeq, LenProperties, SMT
<1>2. Head(jobs) = jobs[1]
  BY SMT
<1>3. /\ jobs' \in Seq(JobSet) /\ Len(jobs') = Len(jobs) /\ jobs'[Len(jobs)] = e
      /\ \A i \in 1..Len(jobs) : i # Len(jobs) => jobs'[i] = jobs[i + 1]
  BY TailAppend
<1>4. OneJobEach'
  <2>1. ASSUME NEW i \in 1..Len(jobs), NEW k \in 1..Len(jobs), i < k
        PROVE  jobs'[i].r # jobs'[k].r
    <3>1. i # Len(jobs) /\ i + 1 \in 1..Len(jobs) /\ i + 1 # 1 /\ 1 \in 1..Len(jobs)
      BY <1>1, <2>1, SMT
    <3>2. jobs'[i] = jobs[i + 1]
      BY <1>3, <3>1
    <3>3. CASE k = Len(jobs)
      <4>1. jobs'[k].r = jobs[1].r
        BY <1>2, <1>3, <3>3, Zenon
      <4> QED  BY <3>1, <3>2, <4>1, Zenon DEF OneJobEach
    <3>4. CASE k # Len(jobs)
      <4>1. k + 1 \in 1..Len(jobs) /\ k + 1 # i + 1
        BY <1>1, <2>1, <3>4, SMT
      <4>2. jobs'[k] = jobs[k + 1]
        BY <1>3, <3>4
      <4> QED  BY <3>1, <3>2, <4>1, <4>2, Zenon DEF OneJobEach
    <3> QED  BY <3>3, <3>4
  <2>2. \A i, k \in 1..Len(jobs) : i < k \/ k < i \/ i = k
    BY <1>1, SMT
  <2>3. ASSUME NEW i \in 1..Len(jobs), NEW k \in 1..Len(jobs), jobs'[i].r = jobs'[k].r
        PROVE  i = k
    BY ONLY <2>1, <2>2, <2>3, i \in 1..Len(jobs), k \in 1..Len(jobs), Zenon
  <2>4. Len(jobs') = Len(jobs)
    BY <1>3
  <2> QED  BY ONLY <2>3, <2>4, Zenon DEF OneJobEach
<1>5. ASSUME NEW j \in Queued'
      PROVE  j = e \/ (j \in Queued /\ j.r # e.r)
  <2>1. PICK i \in 1..Len(jobs) : j = jobs'[i]
    BY <1>3, <1>5 DEF Queued
  <2>2. CASE i = Len(jobs)
    BY <1>3, <2>1, <2>2
  <2>3. CASE i # Len(jobs)
    <3>1. i + 1 \in 1..Len(jobs) /\ 1 \in 1..Len(jobs) /\ i + 1 # 1
      BY <1>1, <2>3, SMT
    <3>2. j = jobs[i + 1]
      BY <1>3, <2>1, <2>3
    <3> QED  BY <1>2, <3>1, <3>2 DEF Queued, OneJobEach
  <2> QED  BY <2>2, <2>3
<1>6. ASSUME NEW j \in Queued, j.r # e.r  PROVE j \in Queued'
  <2>1. PICK i \in 1..Len(jobs) : j = jobs[i]
    BY <1>6 DEF Queued
  <2>2. i # 1
    BY <1>2, <1>6, <2>1
  <2>3. i - 1 \in 1..Len(jobs) /\ i - 1 # Len(jobs) /\ (i - 1) + 1 = i
    BY <1>1, <2>2, SMT
  <2>4. jobs'[i - 1] = j
    BY <1>3, <2>1, <2>3
  <2> QED  BY <1>3, <2>3, <2>4 DEF Queued
<1>7. e \in Queued'
  <2>1. Len(jobs) \in 1..Len(jobs)
    BY <1>1, SMT
  <2> QED  BY <1>3, <2>1 DEF Queued
<1> QED  BY <1>3, <1>4, <1>5, <1>6, <1>7

-----------------------------------------------------------------------------
(* One step of each action. *)

LEMMA QueuedJobs == TypeOK => jobs \in Seq(JobSet) /\ Queued \subseteq JobSet
<1> SUFFICES ASSUME TypeOK  PROVE jobs \in Seq(JobSet) /\ Queued \subseteq JobSet
  OBVIOUS
<1>1. jobs \in Seq(JobSet)
  BY DEF TypeOK, JobSet
<1>2. jobs \in [1..Len(jobs) -> JobSet]
  BY <1>1, LenProperties
<1> QED  BY <1>1, <1>2 DEF Queued

\* uv_tcp_connect is under way.
LEMMA GetConnectingStep ==
  ASSUME ClientInv,
         NEW r \in Requests,
         Get(r),
         conn' = [conn EXCEPT ![r] = "connecting"],
         UNCHANGED jobs
  PROVE  ClientInv'
<1> USE DEF ClientInv
<1>0. jobs \in Seq(JobSet) /\ Queued \subseteq JobSet
  BY QueuedJobs
<1>1. /\ conn[r] = "new"
      /\ instance' = [instance EXCEPT ![r] = TRUE]
      /\ response' = [response EXCEPT ![r] = "empty"]
      /\ sock' = [sock EXCEPT ![r] = "open"]
      /\ conn' = [conn EXCEPT ![r] = "connecting"]
      /\ UNCHANGED <<jobs, reading, writing, result, failed>>
  BY DEF Get, End
<1>2. jobs' \in Seq(JobSet) /\ OneJobEach' /\ Queued' = Queued
  BY <1>0, <1>1 DEF OneJobEach, Queued
<1>3. TypeOK'
  BY <1>1, <1>2, SMT DEF TypeOK, JobSet, ConnStates, SockStates, Results, Progress
<1>4. JobsFit'
  BY <1>0, <1>1, <1>2, SMT DEF TypeOK, JobsFit, JobFits, RequestsFit, RequestFits, Kept,
     Gone, HasJob, JobSet, Job
<1>5. RequestsFit'
  BY <1>0, <1>1, <1>2, SMT DEF TypeOK, JobsFit, JobFits, RequestsFit, RequestFits, Kept,
     Gone, HasJob, JobSet, Job
<1>6. Somewhere'
  BY <1>0, <1>1, <1>2, SMT DEF TypeOK, JobsFit, JobFits, RequestsFit, RequestFits,
     Somewhere, Kept, Gone, HasJob, JobSet, Job
<1> QED  BY <1>2, <1>3, <1>4, <1>5, <1>6

\* The connect is rejected at once.
LEMMA GetRefusedStep ==
  ASSUME ClientInv,
         NEW r \in Requests,
         Get(r),
         conn' = [conn EXCEPT ![r] = "failed"],
         Enqueue(Job("write", r, FALSE))
  PROVE  ClientInv'
<1> USE DEF ClientInv
<1>0. jobs \in Seq(JobSet) /\ Queued \subseteq JobSet
  BY QueuedJobs
<1>1. /\ conn[r] = "new"
      /\ instance' = [instance EXCEPT ![r] = TRUE]
      /\ response' = [response EXCEPT ![r] = "empty"]
      /\ sock' = [sock EXCEPT ![r] = "open"]
      /\ conn' = [conn EXCEPT ![r] = "failed"]
      /\ UNCHANGED <<reading, writing, result, failed>>
  BY DEF Get, End, Enqueue
<1>q. jobs' = Append(jobs, Job("write", r, FALSE))
  BY DEF Get, End, Enqueue
<1>2. jobs' \in Seq(JobSet) /\ OneJobEach' /\ Queued' = Queued \cup {Job("write", r, FALSE)}
  <2>1. Job("write", r, FALSE) \in JobSet
    BY SMT DEF Job, JobSet
  <2>2. ~HasJob(Job("write", r, FALSE).r)
    BY <1>1, SMT DEF Job, RequestsFit, RequestFits
  <2> QED  BY <1>0, <1>q, <2>1, <2>2, QueueAppend
<1>3. TypeOK'
  BY <1>1, <1>2, SMT DEF TypeOK, JobSet, ConnStates, SockStates, Results, Progress
<1>4. JobsFit'
  BY <1>0, <1>1, <1>2, SMT DEF TypeOK, JobsFit, JobFits, RequestsFit, RequestFits, Kept,
     Gone, HasJob, JobSet, Job
<1>5. RequestsFit'
  BY <1>0, <1>1, <1>2, SMT DEF TypeOK, JobsFit, JobFits, RequestsFit, RequestFits, Kept,
     Gone, HasJob, JobSet, Job
<1>6. Somewhere'
  BY <1>0, <1>1, <1>2, SMT DEF TypeOK, JobsFit, JobFits, RequestsFit, RequestFits,
     Somewhere, Kept, Gone, HasJob, JobSet, Job
<1> QED  BY <1>2, <1>3, <1>4, <1>5, <1>6

LEMMA ConnectedOkStep ==
  ASSUME ClientInv,
         NEW r \in Requests,
         Connected(r),
         conn' = [conn EXCEPT ![r] = "connected"],
         Enqueue(Job("write", r, TRUE))
  PROVE  ClientInv'
<1> USE DEF ClientInv
<1>0. jobs \in Seq(JobSet) /\ Queued \subseteq JobSet
  BY QueuedJobs
<1>1. /\ conn[r] = "connecting"
      /\ conn' = [conn EXCEPT ![r] = "connected"]
      /\ UNCHANGED <<sock, instance, response, reading, writing, result, failed>>
  BY DEF Connected, Enqueue
<1>q. jobs' = Append(jobs, Job("write", r, TRUE))
  BY DEF Connected, Enqueue
<1>2. jobs' \in Seq(JobSet) /\ OneJobEach' /\ Queued' = Queued \cup {Job("write", r, TRUE)}
  <2>1. Job("write", r, TRUE) \in JobSet
    BY SMT DEF Job, JobSet
  <2>2. ~HasJob(Job("write", r, TRUE).r)
    BY <1>1, SMT DEF Job, RequestsFit, RequestFits
  <2> QED  BY <1>0, <1>q, <2>1, <2>2, QueueAppend
<1>3. TypeOK'
  BY <1>1, <1>2, SMT DEF TypeOK, JobSet, ConnStates, SockStates, Results, Progress
<1>4. JobsFit'
  BY <1>0, <1>1, <1>2, SMT DEF TypeOK, JobsFit, JobFits, RequestsFit, RequestFits, Kept,
     Gone, HasJob, JobSet, Job
<1>5. RequestsFit'
  BY <1>0, <1>1, <1>2, SMT DEF TypeOK, JobsFit, JobFits, RequestsFit, RequestFits, Kept,
     Gone, HasJob, JobSet, Job
<1>6. Somewhere'
  BY <1>0, <1>1, <1>2, SMT DEF TypeOK, JobsFit, JobFits, RequestsFit, RequestFits,
     Somewhere, Kept, Gone, HasJob, JobSet, Job
<1> QED  BY <1>2, <1>3, <1>4, <1>5, <1>6

LEMMA ConnectedFailedStep ==
  ASSUME ClientInv,
         NEW r \in Requests,
         Connected(r),
         conn' = [conn EXCEPT ![r] = "failed"],
         Enqueue(Job("write", r, FALSE))
  PROVE  ClientInv'
<1> USE DEF ClientInv
<1>0. jobs \in Seq(JobSet) /\ Queued \subseteq JobSet
  BY QueuedJobs
<1>1. /\ conn[r] = "connecting"
      /\ conn' = [conn EXCEPT ![r] = "failed"]
      /\ UNCHANGED <<sock, instance, response, reading, writing, result, failed>>
  BY DEF Connected, Enqueue
<1>q. jobs' = Append(jobs, Job("write", r, FALSE))
  BY DEF Connected, Enqueue
<1>2. jobs' \in Seq(JobSet) /\ OneJobEach' /\ Queued' = Queued \cup {Job("write", r, FALSE)}
  <2>1. Job("write", r, FALSE) \in JobSet
    BY SMT DEF Job, JobSet
  <2>2. ~HasJob(Job("write", r, FALSE).r)
    BY <1>1, SMT DEF Job, RequestsFit, RequestFits
  <2> QED  BY <1>0, <1>q, <2>1, <2>2, QueueAppend
<1>3. TypeOK'
  BY <1>1, <1>2, SMT DEF TypeOK, JobSet, ConnStates, SockStates, Results, Progress
<1>4. JobsFit'
  BY <1>0, <1>1, <1>2, SMT DEF TypeOK, JobsFit, JobFits, RequestsFit, RequestFits, Kept,
     Gone, HasJob, JobSet, Job
<1>5. RequestsFit'
  BY <1>0, <1>1, <1>2, SMT DEF TypeOK, JobsFit, JobFits, RequestsFit, RequestFits, Kept,
     Gone, HasJob, JobSet, Job
<1>6. Somewhere'
  BY <1>0, <1>1, <1>2, SMT DEF TypeOK, JobsFit, JobFits, RequestsFit, RequestFits,
     Somewhere, Kept, Gone, HasJob, JobSet, Job
<1> QED  BY <1>2, <1>3, <1>4, <1>5, <1>6

LEMMA RunWriteStep ==
  ASSUME ClientInv,
         RunWrite
  PROVE  ClientInv'
<1> USE DEF ClientInv
<1>0. jobs \in Seq(JobSet) /\ Queued \subseteq JobSet
  BY QueuedJobs
<1>1. /\ jobs # <<>> /\ Head(jobs) \in Queued /\ Head(jobs) \in JobSet
      /\ Head(jobs).act = "write"
      /\ writing' = [writing EXCEPT ![Head(jobs).r] = Head(jobs).ok]
      /\ UNCHANGED <<conn, sock, instance, response, reading, result, failed>>
  BY <1>0, QueueHead, SMT DEF RunWrite, NextJob
<1>q. jobs' = Append(Tail(jobs), Job("read", Head(jobs).r, Head(jobs).ok))
  BY <1>0, QueueHead, SMT DEF RunWrite, NextJob
<1>2. jobs' \in Seq(JobSet) /\ OneJobEach' /\ Queued' = {j \in Queued : j.r # Head(jobs).r} \cup {Job("read", Head(jobs).r, Head(jobs).ok)}
  <2>1. Job("read", Head(jobs).r, Head(jobs).ok) \in JobSet /\ Job("read", Head(jobs).r, Head(jobs).ok).r = Head(jobs).r
    BY <1>1, SMT DEF Job, JobSet
  <2> QED  BY <1>0, <1>1, <1>q, <2>1, QueueMove
<1>3. TypeOK'
  BY <1>1, <1>2, SMT DEF TypeOK, JobSet, ConnStates, SockStates, Results, Progress
<1>4. JobsFit'
  BY <1>0, <1>1, <1>2, SMT DEF TypeOK, JobsFit, JobFits, RequestsFit, RequestFits, Kept,
     Gone, HasJob, JobSet, Job
<1>5. RequestsFit'
  BY <1>0, <1>1, <1>2, SMT DEF TypeOK, JobsFit, JobFits, RequestsFit, RequestFits, Kept,
     Gone, HasJob, JobSet, Job
<1>6. Somewhere'
  <2>1. ASSUME NEW x \in Requests, HasJob(x)  PROVE HasJob(x)'
    <3>1. CASE x = Head(jobs).r
      <4>1. Job("read", Head(jobs).r, Head(jobs).ok) \in Queued' /\ Job("read", Head(jobs).r, Head(jobs).ok).r = x
        BY <1>2, <3>1, SMT DEF Job
      <4> QED  BY <4>1, Zenon DEF HasJob
    <3>2. CASE x # Head(jobs).r
      BY <1>2, <2>1, <3>2, Zenon DEF HasJob
    <3> QED  BY <3>1, <3>2
  <2> QED  BY <1>1, <2>1, SMT DEF TypeOK, Somewhere
<1> QED  BY <1>2, <1>3, <1>4, <1>5, <1>6

\* The response is read.
LEMMA RunReadOkStep ==
  ASSUME ClientInv,
         RunRead,
         Head(jobs).ok
  PROVE  ClientInv'
<1> USE DEF ClientInv
<1>0. jobs \in Seq(JobSet) /\ Queued \subseteq JobSet
  BY QueuedJobs
<1>1. /\ jobs # <<>> /\ Head(jobs) \in Queued /\ Head(jobs) \in JobSet
      /\ Head(jobs).act = "read"
      /\ reading' = [reading EXCEPT ![Head(jobs).r] = TRUE]
      /\ UNCHANGED <<conn, sock, instance, response, writing, result, failed>>
  BY <1>0, QueueHead, SMT DEF RunRead, NextJob
<1>q. jobs' = Tail(jobs)
  BY <1>0, QueueHead, SMT DEF RunRead, NextJob
<1>2. jobs' \in Seq(JobSet) /\ OneJobEach' /\ Queued' = {j \in Queued : j.r # Head(jobs).r}
  BY <1>0, <1>1, <1>q, QueueTail
<1>3. TypeOK'
  BY <1>1, <1>2, SMT DEF TypeOK, JobSet, ConnStates, SockStates, Results, Progress
<1>4. JobsFit'
  BY <1>0, <1>1, <1>2, SMT DEF TypeOK, JobsFit, JobFits, RequestsFit, RequestFits, Kept,
     Gone, HasJob, JobSet, Job
<1>5. RequestsFit'
  BY <1>0, <1>1, <1>2, SMT DEF TypeOK, JobsFit, JobFits, RequestsFit, RequestFits, Kept,
     Gone, HasJob, JobSet, Job
<1>6. Somewhere'
  BY <1>0, <1>1, <1>2, SMT DEF TypeOK, JobsFit, JobFits, RequestsFit, RequestFits,
     Somewhere, Kept, Gone, HasJob, JobSet, Job
<1> QED  BY <1>2, <1>3, <1>4, <1>5, <1>6

\* The connect has failed.
LEMMA RunReadErrorStep ==
  ASSUME ClientInv,
         RunRead,
         ~Head(jobs).ok
  PROVE  ClientInv'
<1> USE DEF ClientInv
<1>0. jobs \in Seq(JobSet) /\ Queued \subseteq JobSet
  BY QueuedJobs
<1>1. /\ jobs # <<>> /\ Head(jobs) \in Queued /\ Head(jobs) \in JobSet
      /\ Head(jobs).act = "read"
      /\ result' = [result EXCEPT ![Head(jobs).r] = "error"]
      /\ UNCHANGED <<conn, sock, instance, response, reading, writing, failed>>
  BY <1>0, QueueHead, SMT DEF RunRead, NextJob
<1>q. jobs' = Tail(jobs)
  BY <1>0, QueueHead, SMT DEF RunRead, NextJob
<1>2. jobs' \in Seq(JobSet) /\ OneJobEach' /\ Queued' = {j \in Queued : j.r # Head(jobs).r}
  BY <1>0, <1>1, <1>q, QueueTail
<1>3. TypeOK'
  BY <1>1, <1>2, SMT DEF TypeOK, JobSet, ConnStates, SockStates, Results, Progress
<1>4. JobsFit'
  BY <1>0, <1>1, <1>2, SMT DEF TypeOK, JobsFit, JobFits, RequestsFit, RequestFits, Kept,
     Gone, HasJob, JobSet, Job
<1>5. RequestsFit'
  BY <1>0, <1>1, <1>2, SMT DEF TypeOK, JobsFit, JobFits, RequestsFit, RequestFits, Kept,
     Gone, HasJob, JobSet, Job
<1>6. Somewhere'
  BY <1>0, <1>1, <1>2, SMT DEF TypeOK, JobsFit, JobFits, RequestsFit, RequestFits,
     Somewhere, Kept, Gone, HasJob, JobSet, Job
<1> QED  BY <1>2, <1>3, <1>4, <1>5, <1>6

\* The future of end() is settled.
LEMMA RunForwardDoneStep ==
  ASSUME ClientInv,
         RunForward,
         Head(jobs).ok \/ Head(jobs).act = "forwardError"
  PROVE  ClientInv'
<1> USE DEF ClientInv
<1>0. jobs \in Seq(JobSet) /\ Queued \subseteq JobSet
  BY QueuedJobs
<1>1. /\ jobs # <<>> /\ Head(jobs) \in Queued /\ Head(jobs) \in JobSet
      /\ Head(jobs).act \in {"forward", "forwardError"}
      /\ result' = [result EXCEPT ![Head(jobs).r] = IF Head(jobs).ok THEN "response" ELSE "error"]
      /\ UNCHANGED <<conn, sock, instance, response, reading, writing, failed>>
  BY <1>0, QueueHead, Zenon DEF RunForward, NextJob
<1>q. jobs' = Tail(jobs)
  BY <1>0, QueueHead, Zenon DEF RunForward, NextJob
<1>2. jobs' \in Seq(JobSet) /\ OneJobEach' /\ Queued' = {j \in Queued : j.r # Head(jobs).r}
  BY <1>0, <1>1, <1>q, QueueTail
<1>3. TypeOK'
  BY <1>1, <1>2, SMT DEF TypeOK, JobSet, ConnStates, SockStates, Results, Progress
<1>4. JobsFit'
  BY <1>0, <1>1, <1>2, SMT DEF TypeOK, JobsFit, JobFits, RequestsFit, RequestFits, Kept,
     Gone, HasJob, JobSet, Job
<1>5. RequestsFit'
  BY <1>0, <1>1, <1>2, SMT DEF TypeOK, JobsFit, JobFits, RequestsFit, RequestFits, Kept,
     Gone, HasJob, JobSet, Job
<1>6. Somewhere'
  BY <1>0, <1>1, <1>2, SMT DEF TypeOK, JobsFit, JobFits, RequestsFit, RequestFits,
     Somewhere, Kept, Gone, HasJob, JobSet, Job
<1> QED  BY <1>2, <1>3, <1>4, <1>5, <1>6

\* An error goes on to the next lambda.
LEMMA RunForwardAgainStep ==
  ASSUME ClientInv,
         RunForward,
         ~(Head(jobs).ok \/ Head(jobs).act = "forwardError")
  PROVE  ClientInv'
<1> USE DEF ClientInv
<1>0. jobs \in Seq(JobSet) /\ Queued \subseteq JobSet
  BY QueuedJobs
<1>1. /\ jobs # <<>> /\ Head(jobs) \in Queued /\ Head(jobs) \in JobSet
      /\ Head(jobs).act \in {"forward", "forwardError"}
      /\ UNCHANGED <<conn, sock, instance, response, reading, writing, result, failed>>
  BY <1>0, QueueHead, Zenon DEF RunForward, NextJob
<1>q. jobs' = Append(Tail(jobs), Job("forwardError", Head(jobs).r, FALSE))
  BY <1>0, QueueHead, Zenon DEF RunForward, NextJob
<1>2. jobs' \in Seq(JobSet) /\ OneJobEach' /\ Queued' = {j \in Queued : j.r # Head(jobs).r} \cup {Job("forwardError", Head(jobs).r, FALSE)}
  <2>1. Job("forwardError", Head(jobs).r, FALSE) \in JobSet /\ Job("forwardError", Head(jobs).r, FALSE).r = Head(jobs).r
    BY <1>1, SMT DEF Job, JobSet
  <2> QED  BY <1>0, <1>1, <1>q, <2>1, QueueMove
<1>3. TypeOK'
  BY <1>1, <1>2, SMT DEF TypeOK, JobSet, ConnStates, SockStates, Results, Progress
<1>4. JobsFit'
  BY <1>0, <1>1, <1>2, SMT DEF TypeOK, JobsFit, JobFits, RequestsFit, RequestFits, Kept,
     Gone, HasJob, JobSet, Job
<1>5. RequestsFit'
  BY <1>0, <1>1, <1>2, SMT DEF TypeOK, JobsFit, JobFits, RequestsFit, RequestFits, Kept,
     Gone, HasJob, JobSet, Job
<1>6. Somewhere'
  <2>1. ASSUME NEW x \in Requests, HasJob(x)  PROVE HasJob(x)'
    <3>1. CASE x = Head(jobs).r
      <4>1. Job("forwardError", Head(jobs).r, FALSE) \in Queued' /\ Job("forwardError", Head(jobs).r, FALSE).r = x
        BY <1>2, <3>1, SMT DEF Job
      <4> QED  BY <4>1, Zenon DEF HasJob
    <3>2. CASE x # Head(jobs).r
      BY <1>2, <2>1, <3>2, Zenon DEF HasJob
    <3> QED  BY <3>1, <3>2
  <2> QED  BY <1>1, <2>1, SMT DEF TypeOK, Somewhere
<1> QED  BY <1>2, <1>3, <1>4, <1>5, <1>6

LEMMA AfterWriteStep ==
  ASSUME ClientInv,
         NEW r \in Requests,
         AfterWrite(r)
  PROVE  ClientInv'
<1> USE DEF ClientInv
<1>0. jobs \in Seq(JobSet) /\ Queued \subseteq JobSet
  BY QueuedJobs
<1>1. /\ writing' = [writing EXCEPT ![r] = FALSE]
      /\ UNCHANGED <<conn, sock, instance, response, reading, jobs, result, failed>>
  BY DEF AfterWrite
<1>2. jobs' \in Seq(JobSet) /\ OneJobEach' /\ Queued' = Queued
  BY <1>0, <1>1 DEF OneJobEach, Queued
<1>3. TypeOK'
  BY <1>1, <1>2, SMT DEF TypeOK, JobSet, ConnStates, SockStates, Results, Progress
<1>4. JobsFit'
  BY <1>0, <1>1, <1>2, SMT DEF TypeOK, JobsFit, JobFits, RequestsFit, RequestFits, Kept,
     Gone, HasJob, JobSet, Job
<1>5. RequestsFit'
  BY <1>0, <1>1, <1>2, SMT DEF TypeOK, JobsFit, JobFits, RequestsFit, RequestFits, Kept,
     Gone, HasJob, JobSet, Job
<1>6. Somewhere'
  BY <1>0, <1>1, <1>2, SMT DEF TypeOK, JobsFit, JobFits, RequestsFit, RequestFits,
     Somewhere, Kept, Gone, HasJob, JobSet, Job
<1> QED  BY <1>2, <1>3, <1>4, <1>5, <1>6

LEMMA SocketClosedStep ==
  ASSUME ClientInv,
         NEW r \in Requests,
         SocketClosed(r)
  PROVE  ClientInv'
<1> USE DEF ClientInv
<1>0. jobs \in Seq(JobSet) /\ Queued \subseteq JobSet
  BY QueuedJobs
<1>1. /\ sock[r] = "closing"
      /\ sock' = [sock EXCEPT ![r] = "closed"]
      /\ UNCHANGED <<conn, instance, response, reading, writing, jobs, result, failed>>
  BY DEF SocketClosed
<1>2. jobs' \in Seq(JobSet) /\ OneJobEach' /\ Queued' = Queued
  BY <1>0, <1>1 DEF OneJobEach, Queued
<1>3. TypeOK'
  BY <1>1, <1>2, SMT DEF TypeOK, JobSet, ConnStates, SockStates, Results, Progress
<1>4. JobsFit'
  BY <1>0, <1>1, <1>2, SMT DEF TypeOK, JobsFit, JobFits, RequestsFit, RequestFits, Kept,
     Gone, HasJob, JobSet, Job
<1>5. RequestsFit'
  BY <1>0, <1>1, <1>2, SMT DEF TypeOK, JobsFit, JobFits, RequestsFit, RequestFits, Kept,
     Gone, HasJob, JobSet, Job
<1>6. Somewhere'
  BY <1>0, <1>1, <1>2, SMT DEF TypeOK, JobsFit, JobFits, RequestsFit, RequestFits,
     Somewhere, Kept, Gone, HasJob, JobSet, Job
<1> QED  BY <1>2, <1>3, <1>4, <1>5, <1>6

\* Whatever ends the reading: the promise is settled and everything is given up.
LEMMA FinishStep ==
  ASSUME ClientInv,
         NEW r \in Requests,
         NEW ok \in BOOLEAN,
         NEW p \in {"none"} \cup Progress,
         reading[r],
         Finish(r, ok),
         response' = [response EXCEPT ![r] = p],
         failed' \in BOOLEAN,
         UNCHANGED <<conn, writing, result>>
  PROVE  ClientInv'
<1> USE DEF ClientInv
<1>0. jobs \in Seq(JobSet) /\ Queued \subseteq JobSet
  BY QueuedJobs
<1>1. /\ instance' = [instance EXCEPT ![r] = FALSE]
      /\ reading' = [reading EXCEPT ![r] = FALSE]
      /\ sock' = [sock EXCEPT ![r] = "closing"]
  BY DEF Finish, Enqueue
<1>q. jobs' = Append(jobs, Job("forward", r, ok))
  BY DEF Finish, Enqueue
<1>2. jobs' \in Seq(JobSet) /\ OneJobEach' /\ Queued' = Queued \cup {Job("forward", r, ok)}
  <2>1. Job("forward", r, ok) \in JobSet
    BY SMT DEF Job, JobSet
  <2>2. ~HasJob(Job("forward", r, ok).r)
    BY <1>0, SMT DEF Job, HasJob, JobsFit, JobFits, RequestsFit, RequestFits
  <2> QED  BY <1>0, <1>q, <2>1, <2>2, QueueAppend
<1>3. TypeOK'
  BY <1>1, <1>2, SMT DEF TypeOK, JobSet, ConnStates, SockStates, Results, Progress
<1>4. JobsFit'
  BY <1>0, <1>1, <1>2, SMT DEF TypeOK, JobsFit, JobFits, RequestsFit, RequestFits, Kept,
     Gone, HasJob, JobSet, Job
<1>5. RequestsFit'
  BY <1>0, <1>1, <1>2, SMT DEF TypeOK, JobsFit, JobFits, RequestsFit, RequestFits, Kept,
     Gone, HasJob, JobSet, Job
<1>6. Somewhere'
  <2>1. ASSUME NEW x \in Requests, HasJob(x) \/ x = r  PROVE HasJob(x)'
    <3>1. CASE x = r
      <4>1. Job("forward", r, ok) \in Queued' /\ Job("forward", r, ok).r = x
        BY <1>2, <3>1, SMT DEF Job
      <4> QED  BY <4>1, Zenon DEF HasJob
    <3>2. CASE x # r
      BY <1>2, <2>1, <3>2, Zenon DEF HasJob
    <3> QED  BY <3>1, <3>2
  <2> QED  BY <1>1, <2>1, SMT DEF TypeOK, Somewhere
<1> QED  BY <1>2, <1>3, <1>4, <1>5, <1>6

\* A part of the response that is not its end.
LEMMA ProgressStep ==
  ASSUME ClientInv,
         NEW r \in Requests,
         NEW p \in Progress,
         reading[r],
         response' = [response EXCEPT ![r] = p],
         UNCHANGED <<jobs, instance, reading, sock, failed, conn, writing, result>>
  PROVE  ClientInv'
<1> USE DEF ClientInv
<1>0. jobs \in Seq(JobSet) /\ Queued \subseteq JobSet
  BY QueuedJobs
<1>1. /\ "none" \notin Progress
  BY SMT DEF Progress
<1>2. jobs' \in Seq(JobSet) /\ OneJobEach' /\ Queued' = Queued
  BY <1>0, <1>1 DEF OneJobEach, Queued
<1>3. TypeOK'
  BY <1>1, <1>2, SMT DEF TypeOK, JobSet, ConnStates, SockStates, Results, Progress
<1>4. JobsFit'
  BY <1>0, <1>1, <1>2, SMT DEF TypeOK, JobsFit, JobFits, RequestsFit, RequestFits, Kept,
     Gone, HasJob, JobSet, Job
<1>5. RequestsFit'
  BY <1>0, <1>1, <1>2, SMT DEF TypeOK, JobsFit, JobFits, RequestsFit, RequestFits, Kept,
     Gone, HasJob, JobSet, Job
<1>6. Somewhere'
  BY <1>0, <1>1, <1>2, SMT DEF TypeOK, JobsFit, JobFits, RequestsFit, RequestFits,
     Somewhere, Kept, Gone, HasJob, JobSet, Job
<1> QED  BY <1>2, <1>3, <1>4, <1>5, <1>6

LEMMA GetStep ==
  ASSUME ClientInv, NEW r \in Requests, Get(r)
  PROVE  ClientInv'
BY GetConnectingStep, GetRefusedStep DEF Get, End, Connect

LEMMA ConnectedStep ==
  ASSUME ClientInv, NEW r \in Requests, Connected(r)
  PROVE  ClientInv'
<1>0. ({TRUE} \cup (IF "refused" \in Events THEN {FALSE} ELSE {})) \subseteq BOOLEAN
  OBVIOUS
<1>1. PICK ok \in BOOLEAN :
        /\ conn' = [conn EXCEPT ![r] = IF ok THEN "connected" ELSE "failed"]
        /\ Enqueue(Job("write", r, ok))
  BY <1>0, Zenon DEF Connected
<1>2. CASE ok = TRUE
  BY <1>1, <1>2, ConnectedOkStep, Zenon
<1>3. CASE ok = FALSE
  BY <1>1, <1>3, ConnectedFailedStep, Zenon
<1> QED  BY <1>2, <1>3

LEMMA RunStep == ClientInv /\ Run => ClientInv'
<1> SUFFICES ASSUME ClientInv, Run  PROVE ClientInv'
  OBVIOUS
<1>1. CASE RunWrite
  BY <1>1, RunWriteStep
<1>2. CASE RunRead
  BY <1>2, RunReadOkStep, RunReadErrorStep
<1>3. CASE RunForward
  BY <1>3, RunForwardDoneStep, RunForwardAgainStep
<1> QED  BY <1>1, <1>2, <1>3 DEF Run

\* What follows parse(), whatever it returned.
LEMMA ParsedStep ==
  ASSUME ClientInv, NEW r \in Requests, NEW p \in Progress, NEW accepted \in BOOLEAN,
         reading[r], Parsed(r, p, accepted), UNCHANGED <<conn, writing, result>>
  PROVE  ClientInv'
<1>1. failed \in BOOLEAN
  BY DEF ClientInv, TypeOK
<1>2. CASE Finish(r, FALSE) /\ response' = [response EXCEPT ![r] = p] /\ failed' \in BOOLEAN
  BY <1>2, FinishStep
<1>3. CASE Finish(r, TRUE) /\ response' = [response EXCEPT ![r] = "none"] /\ UNCHANGED failed
  BY <1>1, <1>3, FinishStep
<1>4. CASE /\ response' = [response EXCEPT ![r] = p]
           /\ UNCHANGED <<jobs, instance, reading, sock, failed>>
  BY <1>4, ProgressStep
<1> QED  BY <1>2, <1>3, <1>4 DEF Parsed

LEMMA ServerStep ==
  ASSUME ClientInv, NEW r \in Requests, Server(r)
  PROVE  ClientInv'
<1>1. reading[r] => response[r] \in Progress
  BY SMT DEF ClientInv, TypeOK, RequestsFit, RequestFits, Kept
<1>2. CASE Receive(r)
  <2>1. reading[r] /\ UNCHANGED <<conn, writing, result>>
    BY <1>2 DEF Receive
  <2>2. PICK p \in Parses(response[r]) : Parsed(r, p, TRUE) \/ Parsed(r, p, FALSE)
    BY <1>2 DEF Receive
  <2>3. p \in Progress
    BY <1>1, <2>1, <2>2, SMT DEF Parses, Progress
  <2> QED  BY <2>1, <2>2, <2>3, ParsedStep
<1>3. CASE ReceiveEmpty(r)
  <2>1. reading[r] /\ UNCHANGED <<conn, writing, result>>
    BY <1>3 DEF ReceiveEmpty
  <2>2. "empty" \in Progress /\ "complete" \in Progress
    BY DEF Progress
  <2>3. \E p \in Progress : Parsed(r, p, TRUE) \/ Parsed(r, p, FALSE)
    <3>1. CASE response[r] = "empty"
      BY <1>3, <2>2, <3>1 DEF ReceiveEmpty
    <3>2. CASE response[r] = "untilEof"
      BY <1>3, <2>2, <3>2 DEF ReceiveEmpty
    <3>3. CASE response[r] \notin {"empty", "untilEof"}
      BY <1>1, <1>3, <2>1, <3>3 DEF ReceiveEmpty
    <3> QED  BY <3>1, <3>2, <3>3
  <2> QED  BY <2>1, <2>3, ParsedStep
<1>4. CASE ReadEof(r) \/ ReadError(r)
  <2>1. /\ reading[r] /\ UNCHANGED <<conn, response, writing, result, failed>>
        /\ \E ok \in BOOLEAN : Finish(r, ok)
    BY <1>4 DEF ReadEof, ReadError
  <2>2. response' = [response EXCEPT ![r] = response[r]] /\ failed' \in BOOLEAN
    BY <2>1, SMT DEF ClientInv, TypeOK
  <2>3. response[r] \in {"none"} \cup Progress
    BY <1>1, <2>1
  <2> QED  BY <2>1, <2>2, <2>3, FinishStep
<1> QED  BY <1>2, <1>3, <1>4 DEF Server

-----------------------------------------------------------------------------
(* The invariant. *)

LEMMA ClientInvInit == Init => ClientInv
<1> SUFFICES ASSUME Init  PROVE ClientInv
  OBVIOUS
<1>1. Len(jobs) = 0 /\ jobs \in Seq(JobSet)
  BY EmptySeq DEF Init
<1>2. Queued = {} /\ OneJobEach
  BY <1>1, SMT DEF Queued, OneJobEach
<1>3. TypeOK
  <2>1. /\ conn \in [Requests -> ConnStates] /\ sock \in [Requests -> SockStates]
        /\ instance \in [Requests -> BOOLEAN] /\ response \in [Requests -> {"none"} \cup Progress]
        /\ reading \in [Requests -> BOOLEAN] /\ writing \in [Requests -> BOOLEAN]
        /\ result \in [Requests -> Results] /\ failed \in BOOLEAN
    BY DEF Init, ConnStates, SockStates, Results
  <2> QED  BY <1>1, <2>1 DEF TypeOK, JobSet
<1>4. JobsFit /\ RequestsFit /\ Somewhere
  BY <1>2, SMT DEF Init, JobsFit, RequestsFit, RequestFits, Somewhere, HasJob
<1> QED  BY <1>2, <1>3, <1>4 DEF ClientInv

LEMMA ClientInvStep == ClientInv /\ [Next]_vars => ClientInv'
<1> SUFFICES ASSUME ClientInv, [Next]_vars  PROVE ClientInv'
  OBVIOUS
<1>1. CASE UNCHANGED vars
  BY <1>1 DEF vars, ClientInv, TypeOK, JobsFit, JobFits, OneJobEach, RequestsFit,
     RequestFits, Somewhere, HasJob, Queued, Kept, Gone
<1>2. CASE Run
  BY <1>2, RunStep
<1>3. ASSUME NEW r \in Requests, Get(r) \/ Network(r) \/ Server(r)
      PROVE  ClientInv'
  BY <1>3, GetStep, ConnectedStep, AfterWriteStep, SocketClosedStep, ServerStep DEF Network
<1> QED  BY <1>1, <1>2, <1>3 DEF Next

\* Where every request is and what it keeps there.
THEOREM ClientInvariance == Spec => []ClientInv
BY ClientInvInit, ClientInvStep, PTL DEF Spec

\* The fields of ClientRequest, Tcp and Stream keep their types, and the loop's queue
\* holds jobs of the client only.
THEOREM ClientTypeCorrect == Spec => []TypeOK
<1>1. ClientInv => TypeOK
  BY DEF ClientInv
<1> QED  BY <1>1, ClientInvariance, PTL

\* _instance keeps the request, its socket and its response as long as a callback of
\* end(), sendData() or readStart can be called.
THEOREM CallbacksFindTheirRequest == Spec => []KeptAlive
<1>1. ClientInv => KeptAlive
  <2> SUFFICES ASSUME ClientInv, NEW r \in Requests,
                      \/ conn[r] = "connecting"
                      \/ reading[r]
                      \/ \E i \in DOMAIN jobs : jobs[i].r = r /\ jobs[i].act \in {"write", "read"}
               PROVE  Kept(r)
    BY DEF KeptAlive, Kept
  <2>1. ASSUME NEW i \in DOMAIN jobs, jobs[i].r = r, jobs[i].act \in {"write", "read"}
        PROVE  Kept(r)
    <3>1. DOMAIN jobs = 1..Len(jobs)
      BY QueuedJobs, LenProperties DEF ClientInv
    <3>2. jobs[i] \in Queued
      BY <3>1 DEF Queued
    <3> QED  BY <2>1, <3>2 DEF ClientInv, JobsFit, JobFits
  <2>2. CASE conn[r] = "connecting" \/ reading[r]
    BY <2>2 DEF ClientInv, RequestsFit, RequestFits
  <2> QED  BY <2>1, <2>2
<1> QED  BY <1>1, ClientInvariance, PTL

\* A request that was begun is in one place: nothing is forwarded twice and nothing
\* is lost between two callbacks.
THEOREM NothingLostOrDoubled == Spec => []OneContinuation
<1>1. ClientInv => OneContinuation
  <2> SUFFICES ASSUME ClientInv, NEW r \in Requests
               PROVE  Continuations(r) = IF conn[r] = "new" THEN 0 ELSE 1
    BY DEF OneContinuation
  <2> DEFINE D == {i \in DOMAIN jobs : jobs[i].r = r}
             P == {s \in {"connecting", "reading", "result"} :
                     \/ s = "connecting" /\ conn[r] = "connecting"
                     \/ s = "reading" /\ reading[r]
                     \/ s = "result" /\ result[r] # "pending"}
  <2>0. Cardinality({}) = 0 /\ \A x : Cardinality({x}) = 1
    BY FS_EmptySet, FS_Singleton
  <2>1. DOMAIN jobs = 1..Len(jobs)
    BY QueuedJobs, LenProperties DEF ClientInv
  <2> HIDE DEF D, P
  <2>c. Continuations(r) = Cardinality(D) + Cardinality(P)
    BY DEF Continuations, D, P
  <2>2. CASE HasJob(r)
    <3>1. PICK i \in 1..Len(jobs) : jobs[i].r = r /\ jobs[i] \in Queued
      BY <2>2 DEF HasJob, Queued
    <3>2. D = {i}
      BY <2>1, <3>1 DEF ClientInv, OneJobEach, D
    <3>3. /\ ~reading[r] /\ result[r] = "pending" /\ conn[r] \notin {"new", "connecting"}
      BY <2>2, <3>1 DEF ClientInv, JobsFit, JobFits, RequestsFit, RequestFits
    <3>4. P = {}
      BY <3>3, SMT DEF P
    <3>c. Cardinality(D) = 1 /\ Cardinality(P) = 0
      BY <2>0, <3>2, <3>3, <3>4
    <3> QED  BY <2>c, <3>c, <3>2, <3>3, <3>4, SMT
  <2>3. CASE ~HasJob(r)
    <3>1. D = {}
      BY <2>1, <2>3 DEF HasJob, Queued, D
    <3>2. CASE conn[r] = "new"
      <4>1. P = {}
        BY <3>2, SMT DEF ClientInv, RequestsFit, RequestFits, P
      <4>c. Cardinality(D) = 0 /\ Cardinality(P) = 0
        BY <2>0, <3>1, <3>2, <4>1
      <4> QED  BY <2>c, <4>c, <3>1, <3>2, <4>1, SMT
    <3>3. CASE conn[r] = "connecting"
      <4>1. P = {"connecting"}
        BY <3>3, SMT DEF ClientInv, RequestsFit, RequestFits, P
      <4>c. Cardinality(D) = 0 /\ Cardinality(P) = 1
        BY <2>0, <3>1, <3>3, <4>1
      <4> QED  BY <2>c, <4>c, <3>1, <3>3, <4>1, SMT
    <3>4. CASE reading[r]
      <4>1. P = {"reading"} /\ conn[r] # "new"
        BY <3>4, SMT DEF ClientInv, RequestsFit, RequestFits, P
      <4>c. Cardinality(D) = 0 /\ Cardinality(P) = 1
        BY <2>0, <3>1, <4>1
      <4> QED  BY <2>c, <4>c, <3>1, <4>1, SMT
    <3>5. CASE conn[r] \notin {"new", "connecting"} /\ ~reading[r]
      <4>1. result[r] # "pending"
        BY <2>3, <3>5, SMT DEF ClientInv, TypeOK, ConnStates, Somewhere
      <4>2. P = {"result"}
        BY <3>5, <4>1, SMT DEF P
      <4>c. Cardinality(D) = 0 /\ Cardinality(P) = 1
        BY <2>0, <3>1, <3>5, <4>2
      <4> QED  BY <2>c, <4>c, <3>1, <3>5, <4>2, SMT
    <3> QED  BY <3>2, <3>3, <3>4, <3>5
  <2> QED  BY <2>2, <2>3
<1> QED  BY <1>1, ClientInvariance, PTL

\* After a request that was connected nothing of it is left: _instance and _socket are
\* reset and the socket is closing.
THEOREM NothingKeptAfterTheEnd == Spec => []Released
<1>1. ClientInv => Released
  BY SMT DEF ClientInv, RequestsFit, RequestFits, Gone, Released
<1> QED  BY <1>1, ClientInvariance, PTL
=============================================================================
