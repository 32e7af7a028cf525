----------------------------- MODULE HttpClient -----------------------------
(***************************************************************************)
(* http::get() and http::request(): ClientRequest::end connects a          *)
(* net::Tcp, writes the request and reads the response, by a chain of      *)
(* callbacks on futures.                                                   *)
(*                                                                         *)
(* Several requests run on one loop.  Each has its own socket and keeps    *)
(* itself alive by _instance while it waits for the network; its callbacks *)
(* hold weak pointers only.  Callbacks on futures are jobs of the loop, in *)
(* the order in which FutureLoop enqueues them.                            *)
(***************************************************************************)
EXTENDS Naturals, Sequences, FiniteSets

CONSTANTS
  Requests,  \* the ClientRequest objects
  Events     \* what may go wrong or be unusual on the network

ASSUME RequestsAssumption == IsFiniteSet(Requests)
ASSUME EventsAssumption == Events \subseteq {"refused", "split", "bad", "empty", "eof", "error"}

VARIABLES
  conn,      \* Tcp::connect: not called, under way, or its outcome
  sock,      \* the uv_tcp_t; ClientRequest::_socket points to it while it is open
  instance,  \* ClientRequest::_instance is set
  response,  \* ClientRequest::_response: how far its parser has come
  reading,   \* Stream::_readCb is set
  writing,   \* the uv_write of the request is not done
  jobs,      \* the loop's queue
  result,    \* the future that end() returned
  failed     \* a destroyed object was used

vars == <<conn, sock, instance, response, reading, writing, jobs, result, failed>>

\* The response's parser: nothing read, in the header, in a body that has a length,
\* in a body that ends with the connection, done.
Progress == {"empty", "header", "body", "untilEof", "complete"}

\* Tcp::_connecting and _connected, and how the connect ended.
ConnStates == {"new", "connecting", "connected", "failed"}

\* The handle: not initialized, open, isClosing(), closed.
SockStates == {"none", "open", "closing", "closed"}

\* What end() returned: a future of the response.
Results == {"pending", "response", "error"}

Job(act, r, ok) == [act |-> act, r |-> r, ok |-> ok]

TypeOK ==
  /\ conn \in [Requests -> ConnStates]
  /\ sock \in [Requests -> SockStates]
  /\ instance \in [Requests -> BOOLEAN]
  /\ response \in [Requests -> {"none"} \cup Progress]
  /\ reading \in [Requests -> BOOLEAN]
  /\ writing \in [Requests -> BOOLEAN]
  /\ jobs \in Seq([act : {"write", "read", "forward", "forwardError"}, r : Requests, ok : BOOLEAN])
  /\ result \in [Requests -> Results]
  /\ failed \in BOOLEAN

\* ClientRequest::Create
Init ==
  /\ conn = [r \in Requests |-> "new"]
  /\ sock = [r \in Requests |-> "none"]
  /\ instance = [r \in Requests |-> FALSE]
  /\ response = [r \in Requests |-> "none"]
  /\ reading = [r \in Requests |-> FALSE]
  /\ writing = [r \in Requests |-> FALSE]
  /\ jobs = <<>>
  /\ result = [r \in Requests |-> "pending"]
  /\ failed = FALSE

Enqueue(job) == jobs' = Append(jobs, job)

-----------------------------------------------------------------------------
(* Sending. *)

\* Tcp::connect, called by sendData: it is rejected at once when the host is not an
\* address or uv_tcp_connect fails.
Connect(r) ==
  \/ /\ conn' = [conn EXCEPT ![r] = "connecting"]
     /\ UNCHANGED jobs
  \/ /\ "refused" \in Events
     /\ conn' = [conn EXCEPT ![r] = "failed"]
     /\ Enqueue(Job("write", r, FALSE))

\* ClientRequest::end: the request keeps itself, gets a response and a socket, and is
\* sent.
End(r) ==
  /\ instance' = [instance EXCEPT ![r] = TRUE]
  /\ response' = [response EXCEPT ![r] = "empty"]
  /\ sock' = [sock EXCEPT ![r] = "open"]
  /\ Connect(r)
  /\ UNCHANGED <<reading, writing, result, failed>>

\* http::get and http::request.
Get(r) ==
  /\ ~failed /\ conn[r] = "new"
  /\ End(r)

\* Tcp::Connect, libuv's callback.
Connected(r) ==
  /\ ~failed /\ conn[r] = "connecting"
  /\ \E ok \in {TRUE} \cup (IF "refused" \in Events THEN {FALSE} ELSE {}) :
       /\ conn' = [conn EXCEPT ![r] = IF ok THEN "connected" ELSE "failed"]
       /\ Enqueue(Job("write", r, ok))
  /\ UNCHANGED <<sock, instance, response, reading, writing, result, failed>>

NextJob(act) == ~failed /\ jobs # <<>> /\ Head(jobs).act = act

\* The then of sendData writes the request and drops the future of the write.
RunWrite ==
  /\ NextJob("write")
  /\ LET r == Head(jobs).r
     IN /\ writing' = [writing EXCEPT ![r] = Head(jobs).ok]
        /\ jobs' = Append(Tail(jobs), Job("read", r, Head(jobs).ok))
  /\ UNCHANGED <<conn, sock, instance, response, reading, result, failed>>

\* Variant: after an error nobody is told.
RunReadDropsError ==
  /\ NextJob("read")
  /\ jobs' = Tail(jobs)
  /\ reading' = [reading EXCEPT ![Head(jobs).r] = Head(jobs).ok]
  /\ UNCHANGED <<conn, sock, instance, response, writing, result, failed>>

\* The then of end() starts to read; after an error it is skipped and the future
\* that end() returned is rejected.  The socket of a failed connect stays open and
\* _instance stays set.
RunRead ==
  /\ NextJob("read")
  /\ jobs' = Tail(jobs)
  /\ LET r == Head(jobs).r
     IN IF Head(jobs).ok
          THEN reading' = [reading EXCEPT ![r] = TRUE] /\ UNCHANGED result
          ELSE result' = [result EXCEPT ![r] = "error"] /\ UNCHANGED reading
  /\ UNCHANGED <<conn, sock, instance, response, writing, failed>>

\* Stream::AfterWrite: nothing is attached to the future of the write.
AfterWrite(r) ==
  /\ ~failed /\ writing[r]
  /\ writing' = [writing EXCEPT ![r] = FALSE]
  /\ UNCHANGED <<conn, sock, instance, response, reading, jobs, result, failed>>

-----------------------------------------------------------------------------
(* Reading: the callback of readStart. *)

\* Variant: the callback goes on being called.
FinishReadsOn(r, ok) ==
  /\ Enqueue(Job("forward", r, ok))
  /\ instance' = [instance EXCEPT ![r] = FALSE]
  /\ sock' = [sock EXCEPT ![r] = "closing"]
  /\ UNCHANGED reading

\* Variant: the socket is left to the destructor.
FinishNoClose(r, ok) ==
  /\ Enqueue(Job("forward", r, ok))
  /\ instance' = [instance EXCEPT ![r] = FALSE]
  /\ reading' = [reading EXCEPT ![r] = FALSE]
  /\ UNCHANGED sock

\* The promise is settled, which enqueues the lambda that forwards it to the future
\* of end(); _instance is reset, readStop, close, and _socket is reset.
Finish(r, ok) ==
  /\ Enqueue(Job("forward", r, ok))
  /\ instance' = [instance EXCEPT ![r] = FALSE]
  /\ reading' = [reading EXCEPT ![r] = FALSE]
  /\ sock' = [sock EXCEPT ![r] = "closing"]

\* How far one chunk can bring the parser (external: http_parser).
Parses(p) ==
  CASE p \in {"empty", "header"} -> (Progress \ {"empty"}) \ (IF "split" \in Events THEN {} ELSE {"header"})
    [] p = "body" -> {"body", "complete"}
    [] OTHER -> {p}

\* The values isUpgrade() can have: _upgrade is set by on_headers_complete and not
\* initialized before.
Upgrade(p) == IF p \in {"empty", "header"} THEN BOOLEAN ELSE {FALSE}

\* What follows parse(): accepted tells whether it took the whole chunk.  In the
\* error path the lambda reads instanceWeak after readStop has destroyed it.
Parsed(r, p, accepted) ==
  \E upgrade \in Upgrade(p) :
    \/ /\ ~upgrade /\ ~accepted
       /\ Finish(r, FALSE)
       /\ response' = [response EXCEPT ![r] = p]
       /\ failed' \in BOOLEAN
    \/ /\ upgrade \/ (accepted /\ p = "complete")
       /\ Finish(r, TRUE)
       /\ response' = [response EXCEPT ![r] = "none"]
       /\ UNCHANGED failed
    \/ /\ ~upgrade /\ accepted /\ p # "complete"
       /\ response' = [response EXCEPT ![r] = p]
       /\ UNCHANGED <<jobs, instance, reading, sock, failed>>

\* A chunk of the response.
Receive(r) ==
  /\ ~failed /\ reading[r]
  /\ \E p \in Parses(response[r]) :
       Parsed(r, p, TRUE) \/ ("bad" \in Events /\ Parsed(r, p, FALSE))
  /\ UNCHANGED <<conn, writing, result>>

\* libuv reports a read of length 0 (EAGAIN).  To the parser it is the end of the
\* input: nothing before a response, the end of a body without length, and an error
\* anywhere else.
ReceiveEmpty(r) ==
  /\ ~failed /\ reading[r] /\ "empty" \in Events
  /\ CASE response[r] = "empty" -> Parsed(r, "empty", TRUE)
       [] response[r] = "untilEof" -> Parsed(r, "complete", TRUE)
       [] OTHER -> Parsed(r, response[r], FALSE)
  /\ UNCHANGED <<conn, writing, result>>

\* UV_EOF: what there is of the response is the result.
ReadEof(r) ==
  /\ ~failed /\ reading[r] /\ "eof" \in Events
  /\ Finish(r, response[r] # "complete")
  /\ UNCHANGED <<conn, response, writing, result, failed>>

\* Any other error.
ReadError(r) ==
  /\ ~failed /\ reading[r] /\ "error" \in Events
  /\ Finish(r, FALSE)
  /\ UNCHANGED <<conn, response, writing, result, failed>>

\* The handle is closed, after libuv has cancelled its write.
SocketClosed(r) ==
  /\ ~failed /\ sock[r] = "closing" /\ ~writing[r]
  /\ sock' = [sock EXCEPT ![r] = "closed"]
  /\ UNCHANGED <<conn, instance, response, reading, writing, jobs, result, failed>>

\* Variant: only values are forwarded.
RunForwardValues ==
  /\ NextJob("forward")
  /\ jobs' = Tail(jobs)
  /\ result' = IF Head(jobs).ok THEN [result EXCEPT ![Head(jobs).r] = "response"] ELSE result
  /\ UNCHANGED <<conn, sock, instance, response, reading, writing, failed>>

\* Variant: the lambda takes the request's _response, which may be reset.
RunForwardMember ==
  /\ NextJob("forward")
  /\ jobs' = Tail(jobs)
  /\ result' = [result EXCEPT ![Head(jobs).r] = IF Head(jobs).ok THEN response[Head(jobs).r] ELSE "error"]
  /\ UNCHANGED <<conn, sock, instance, response, reading, writing, failed>>

\* The lambdas that forward the promise; an error takes one job more.
RunForward ==
  /\ NextJob("forward") \/ NextJob("forwardError")
  /\ LET j == Head(jobs)
     IN IF j.ok \/ j.act = "forwardError"
          THEN /\ jobs' = Tail(jobs)
               /\ result' = [result EXCEPT ![j.r] = IF j.ok THEN "response" ELSE "error"]
          ELSE /\ jobs' = Append(Tail(jobs), Job("forwardError", j.r, FALSE))
               /\ UNCHANGED result
  /\ UNCHANGED <<conn, sock, instance, response, reading, writing, failed>>

-----------------------------------------------------------------------------
Run == RunWrite \/ RunRead \/ RunForward

Network(r) == Connected(r) \/ AfterWrite(r) \/ SocketClosed(r)

Server(r) == Receive(r) \/ ReceiveEmpty(r) \/ ReadEof(r) \/ ReadError(r)

Next ==
  \/ Run
  \/ \E r \in Requests : Get(r) \/ Network(r) \/ Server(r)

Spec == Init /\ [][Next]_vars

\* The loop runs its jobs; libuv ends every connect and close.  The server owes
\* nothing: the client has no timeout.
FairSpec ==
  Spec /\ WF_vars(Run) /\ \A r \in Requests : WF_vars(Connected(r))

-----------------------------------------------------------------------------
(* Safety. *)

\* What the callbacks of a request dereference is there whenever one of them can
\* still be called: the weak pointer to the request, its socket and its response.
KeptAlive ==
  \A r \in Requests :
    \/ conn[r] = "connecting"
    \/ reading[r]
    \/ \E i \in DOMAIN jobs : jobs[i].r = r /\ jobs[i].act \in {"write", "read"}
    => instance[r] /\ sock[r] = "open" /\ response[r] # "none"

\* The places that can go on with r.
Continuations(r) ==
  Cardinality({i \in DOMAIN jobs : jobs[i].r = r})
  + Cardinality({s \in {"connecting", "reading", "result"} :
      \/ s = "connecting" /\ conn[r] = "connecting"
      \/ s = "reading" /\ reading[r]
      \/ s = "result" /\ result[r] # "pending"})

\* A request that was begun is in exactly one place: it is not lost between
\* connecting, writing, reading and forwarding, and its future is settled once.
OneContinuation ==
  \A r \in Requests : Continuations(r) = IF conn[r] = "new" THEN 0 ELSE 1

\* A request that was connected and is over keeps neither itself nor its socket.
Released ==
  \A r \in Requests :
    result[r] # "pending" /\ conn[r] = "connected" =>
      ~instance[r] /\ ~reading[r] /\ sock[r] \in {"closing", "closed"}

(* Liveness, under FairSpec. *)

\* The user is told, whatever happens on the way, unless the request waits for the
\* server or the program has failed.
Told ==
  \A r \in Requests :
    conn[r] # "new" /\ ~reading[r] ~> result[r] # "pending" \/ reading[r] \/ failed
=============================================================================
