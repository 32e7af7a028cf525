--------------------------- MODULE HttpConnection ---------------------------
(***************************************************************************)
(* One http::ServerConnection: reading requests, the chain of callbacks    *)
(* that ServerPlugin::execute builds for a request, the response, and      *)
(* keep-alive.                                                             *)
(*                                                                         *)
(* Callbacks on futures are jobs of the loop, run in the order in which    *)
(* FutureLoop enqueues them: a handler's future enqueues the next callback *)
(* of the chain when it settles, and a future returned by a callback of    *)
(* the chain takes the extra jobs of the lambdas that forward it.          *)
(*                                                                         *)
(* The client sends a request, waits for a response, and sends the next    *)
(* one on the same connection.                                             *)
(***************************************************************************)
EXTENDS Naturals, Sequences, FiniteSets

CONSTANTS
  Callbacks,    \* registered callbacks and plugins that match every request
  MaxRequests,  \* bound on the requests a client sends
  Events,       \* what may happen to the stream besides whole requests
  Handlers      \* how callbacks behave: "sync" ones return a settled future,
                \* "later" ones answer when their future settles, "early" ones
                \* answer first and settle their future later, "throws" ones throw
                \* a FutureError

ASSUME BoundsAssumption == {Callbacks, MaxRequests} \subseteq Nat \ {0}
ASSUME EventsAssumption == Events \subseteq {"split", "eof", "reset", "error", "bad", "url"}
ASSUME HandlersAssumption == Handlers \subseteq {"sync", "later", "early", "throws"}

VARIABLES
  client,    \* what the client has sent of its current request
  asked,     \* requests it has sent completely
  sock,      \* ServerConnection::_socket
  request,   \* ServerConnection::_request: on_headers_complete and
             \* on_message_complete have run for it
  response,  \* ServerConnection::_response
  keep,      \* its _shouldKeepAlive
  serial,    \* history: number of ServerResponse objects ever made
  writes,    \* the responses whose uv_write is not done
  jobs,      \* the loop's queue
  waiting,   \* handlers whose future is pending
  processed, \* history: calls of processRequest
  answered,  \* history: responses ended with end()
  failed     \* an NNATIVE_ASSERT has thrown, a null pointer was used, or an exception
             \* has left the read callback: the program ends

vars == <<client, asked, sock, request, response, keep, serial, writes, jobs,
          waiting, processed, answered, failed>>
clientVars == <<client, asked>>
responseVars == <<response, keep, serial, writes, answered, failed>>

NoRequest == [headers |-> FALSE, complete |-> FALSE]

\* i is the callback's place in the chain; of is the response that was sent.
Job(act, i, ok) == [act |-> act, i |-> i, ok |-> ok, of |-> 0]
Sent(s) == [act |-> "sent", i |-> 0, ok |-> TRUE, of |-> s]

\* _response: null, not sent, or with _closed and _sent set.
ResponseStates == {"none", "made", "ended"}

Acts == {"callback", "forward", "forwardError", "notFound", "error", "sent", "closed"}

TypeOK ==
  /\ client \in {"idle", "head", "body", "broken"}
  /\ asked \in 0..MaxRequests
  /\ sock \in {"open", "closing", "closed"}
  /\ request \in [headers : BOOLEAN, complete : BOOLEAN]
  /\ response \in ResponseStates
  /\ keep \in BOOLEAN
  /\ serial \in Nat
  /\ writes \in Seq(1..serial)
  /\ jobs \in Seq([act : Acts, i : 0..Callbacks, ok : BOOLEAN, of : 0..serial])
  /\ waiting \in SUBSET [i : 1..Callbacks, n : Nat, answers : BOOLEAN]
  /\ processed \in Nat
  /\ answered \in Nat
  /\ failed \in BOOLEAN

Init ==
  /\ client = "idle" /\ asked = 0
  /\ sock = "open"
  /\ request = NoRequest
  /\ response = "none" /\ keep = TRUE /\ serial = 0
  /\ writes = <<>> /\ jobs = <<>> /\ waiting = {}
  /\ processed = 0 /\ answered = 0
  /\ failed = FALSE

-----------------------------------------------------------------------------
(* ServerResponse. *)

\* The object getResponse() returns: the present one, or a new one.
Current == IF response = "none" THEN serial + 1 ELSE serial

isSent == response = "ended"

\* Variant: end() does not look at _closed.
EndNoAssert(k) ==
  /\ response' = "ended" /\ keep' = k /\ serial' = Current
  /\ writes' = IF sock' = "open" THEN Append(writes, Current) ELSE writes
  /\ answered' = answered + 1
  /\ failed' = FALSE

\* getResponse().end(): NNATIVE_ASSERT(!_closed), header and body in one uv_write,
\* and _closed and _sent are set.  On a closing socket, also when it was closed in this
\* step, uv_write fails.
\* k is FALSE for the statuses 204 and 304.
End(k) ==
  /\ failed' = isSent
  /\ IF isSent
       THEN UNCHANGED <<response, keep, serial, writes, answered>>
       ELSE /\ response' = "ended" /\ keep' = k /\ serial' = Current
            /\ writes' = IF sock' = "open" THEN Append(writes, Current) ELSE writes
            /\ answered' = answered + 1

\* getResponse() without end().
Look ==
  /\ response' = IF response = "none" THEN "made" ELSE response
  /\ serial' = Current
  /\ keep' = IF response = "none" THEN TRUE ELSE keep
  /\ UNCHANGED <<writes, answered, failed>>

\* if (!getResponse().isSent()) getResponse().end()
EndUnlessSent(k) == IF isSent THEN Look ELSE End(k)

\* uv_close, once.
CloseSocket == sock' = IF sock = "open" THEN "closing" ELSE sock

-----------------------------------------------------------------------------
(* The chain: callback 1 is called by execute() itself, the others and the  *)
(* 404 and 500 handlers of processRequest by then() and error().            *)

\* Variant: one callback too many.
FollowerBeyond(i, ok) ==
  IF i <= Callbacks THEN Job("callback", i + 1, ok) ELSE Job("notFound", 0, ok)

\* The job that callback i's future enqueues when it settles.
Follower(i, ok) ==
  IF i < Callbacks THEN Job("callback", i + 1, ok) ELSE Job("notFound", 0, ok)

\* The future returned by callback i is that future for callback 1, and is
\* forwarded to it for the others.
Settles(i, ok) == IF i = 1 THEN Follower(1, ok) ELSE Job("forward", i, ok)

Pending(i, n, answers) == [i |-> i, n |-> n, answers |-> answers]

\* Callback i is executed in the n-th call of processRequest; q is the queue it adds
\* to.  A FutureError is caught by callFn of the lambda, which rejects its future; but
\* callback 1 is called by execute() itself, and the exception leaves the read callback.
Execute(i, n, q) ==
  \/ /\ "sync" \in Handlers
     /\ \E k \in BOOLEAN : End(k)
     /\ jobs' = Append(q, Settles(i, TRUE))
     /\ UNCHANGED waiting
  \/ /\ "sync" \in Handlers
     /\ \E ok \in BOOLEAN : jobs' = Append(q, Settles(i, ok))
     /\ UNCHANGED <<waiting, responseVars>>
  \/ /\ "later" \in Handlers
     /\ waiting' = waiting \cup {Pending(i, n, TRUE)}
     /\ jobs' = q
     /\ UNCHANGED responseVars
  \/ /\ "early" \in Handlers
     /\ \E k \in BOOLEAN : End(k)
     /\ waiting' = waiting \cup {Pending(i, n, FALSE)}
     /\ jobs' = q
  \/ /\ "throws" \in Handlers /\ i = 1
     /\ failed' = TRUE
     /\ jobs' = q
     /\ UNCHANGED <<waiting, response, keep, serial, writes, answered>>
  \/ /\ "throws" \in Handlers /\ i # 1
     /\ (\E k \in BOOLEAN : End(k)) \/ UNCHANGED responseVars
     /\ jobs' = Append(q, Follower(i, FALSE))
     /\ UNCHANGED waiting

\* A pending handler ends: it answers, if it has not done so, or fails.
HandlerDone(w) ==
  /\ ~failed /\ w \in waiting
  /\ UNCHANGED <<clientVars, sock, request, processed>>
  /\ waiting' = waiting \ {w}
  /\ \/ /\ w.answers /\ sock # "closed"
        /\ \E k \in BOOLEAN : End(k)
        /\ jobs' = Append(jobs, Settles(w.i, TRUE))
     \/ /\ \E ok \in BOOLEAN : (ok => ~w.answers) /\ jobs' = Append(jobs, Settles(w.i, ok))
        /\ UNCHANGED responseVars

\* ServerConnection::processRequest: execute() and the handlers behind it.
ProcessRequest ==
  /\ processed' = processed + 1
  /\ Execute(1, processed + 1, jobs)

-----------------------------------------------------------------------------
(* The read callback of parse(). *)

Reading == ~failed /\ sock = "open" /\ client # "broken"

\* The values isUpgrade() can have: _upgrade is set by on_headers_complete and not
\* initialized before.  Requests to upgrade are not modelled.
Upgrade(headers) == IF headers THEN {FALSE} ELSE BOOLEAN

\* A chunk is parsed; headers and complete: the parser calls on_headers_complete,
\* on_message_complete; accepted: it takes all of the chunk.  _messageComplete stays set
\* for the life of the request.
Receive(headers, complete, accepted) ==
  LET r == [headers  |-> request.headers \/ headers,
            complete |-> request.complete \/ complete]
  IN /\ request' = r
     /\ \E upgrade \in Upgrade(r.headers) :
          /\ IF accepted \/ upgrade THEN UNCHANGED sock ELSE CloseSocket
          /\ IF upgrade \/ r.complete
               THEN ProcessRequest
               ELSE UNCHANGED <<processed, jobs, waiting, responseVars>>

\* The client may begin a request when it has the answers to all earlier ones.
MaySend == client # "idle" \/ (asked < MaxRequests /\ asked <= answered)

\* The headers end in a later chunk.
ReceiveSome ==
  /\ Reading /\ "split" \in Events
  /\ MaySend /\ client = "idle"
  /\ client' = "head"
  /\ Receive(FALSE, FALSE, TRUE)
  /\ UNCHANGED asked

\* The headers end in this chunk, the body does not.
ReceiveHead ==
  /\ Reading
  /\ MaySend /\ client # "body"
  /\ client' = "body"
  /\ Receive(TRUE, FALSE, TRUE)
  /\ UNCHANGED asked

\* The request ends in this chunk.
ReceiveEnd ==
  /\ Reading
  /\ MaySend
  /\ client' = "idle"
  /\ asked' = asked + 1
  /\ Receive(client # "body", TRUE, TRUE)

\* The parser refuses something in the chunk, behind what may still end the headers or
\* the request: the connection is closed, unless _upgrade has been read as TRUE, and a
\* request that is complete is processed, also again.  The client sends nothing more.
ReceiveBad ==
  /\ Reading /\ "bad" \in Events
  /\ MaySend
  /\ client' = "broken"
  /\ \E headers, complete \in BOOLEAN :
       /\ headers => client # "body"
       /\ complete => headers \/ client = "body"
       /\ asked' = IF complete THEN asked + 1 ELSE asked
       /\ Receive(headers, complete, FALSE)

\* UrlObject::parse throws in on_url, through the parser and the read callback.
ReceiveBadUrl ==
  /\ Reading /\ "url" \in Events
  /\ MaySend /\ client # "body"
  /\ client' = "broken"
  /\ failed' = TRUE
  /\ UNCHANGED <<asked, sock, request, response, keep, serial, writes, answered, jobs,
                 waiting, processed>>

\* UV_EOF: nothing is done.
ReadEof ==
  /\ Reading /\ "eof" \in Events
  /\ client' = "broken"
  /\ UNCHANGED <<asked, sock, request, responseVars, jobs, waiting, processed>>

\* UV_ECONNRESET: the connection is closed.
ReadReset ==
  /\ Reading /\ "reset" \in Events
  /\ client' = "broken"
  /\ CloseSocket
  /\ UNCHANGED <<asked, request, responseVars, jobs, waiting, processed>>

\* Any other error is answered with status 500.
ReadError ==
  /\ Reading /\ "error" \in Events
  /\ client' = "broken"
  /\ UNCHANGED <<asked, sock, request, jobs, waiting, processed>>
  /\ EndUnlessSent(TRUE)

\* ServerConnection::close called by Server::close or the user.
Close ==
  /\ ~failed /\ sock = "open"
  /\ CloseSocket
  /\ UNCHANGED <<clientVars, request, responseVars, jobs, waiting, processed>>

-----------------------------------------------------------------------------
(* The loop. *)

\* Stream::AfterWrite; closing the socket cancels its writes.  When a write fails
\* the then-callback of endData is skipped.
AfterWrite(ok) ==
  /\ ~failed /\ writes # <<>>
  /\ sock # "open" => ~ok
  /\ writes' = Tail(writes)
  /\ jobs' = IF ok THEN Append(jobs, Sent(Head(writes))) ELSE jobs
  /\ UNCHANGED <<clientVars, sock, request, response, keep, serial, answered,
                 failed, waiting, processed>>

\* The socket is closed: the then-callback of ServerConnection::close is enqueued.
SocketClosed ==
  /\ ~failed /\ sock = "closing" /\ writes = <<>>
  /\ \A i \in DOMAIN jobs : jobs[i].act # "closed"
  /\ jobs' = Append(jobs, Job("closed", 0, TRUE))
  /\ UNCHANGED <<clientVars, sock, request, responseVars, waiting, processed>>

NextJob(act) == ~failed /\ jobs # <<>> /\ Head(jobs).act = act

\* The lambda of execute() for callback i: skipped after an error; it executes the
\* callback unless the response is sent.
RunCallback ==
  /\ NextJob("callback")
  /\ UNCHANGED <<clientVars, sock, request, processed>>
  /\ LET i == Head(jobs).i
     IN \/ /\ ~Head(jobs).ok
           /\ jobs' = Append(Tail(jobs), Follower(i, FALSE))
           /\ UNCHANGED <<waiting, responseVars>>
        \/ /\ Head(jobs).ok /\ isSent
           /\ jobs' = Append(Tail(jobs), Settles(i, TRUE))
           /\ UNCHANGED <<waiting, responseVars>>
        \/ /\ Head(jobs).ok /\ ~isSent
           /\ Execute(i, processed, Tail(jobs))

\* The lambdas that forward a returned Future; an error takes one job more.
RunForward ==
  /\ NextJob("forward") \/ NextJob("forwardError")
  /\ LET j == Head(jobs)
     IN jobs' = Append(Tail(jobs),
                       IF j.ok \/ j.act = "forwardError"
                         THEN Follower(j.i, j.ok)
                         ELSE Job("forwardError", j.i, FALSE))
  /\ UNCHANGED <<clientVars, sock, request, responseVars, waiting, processed>>

\* Variant: an error of the chain is not handed on.
RunNotFoundDropsError ==
  /\ NextJob("notFound")
  /\ UNCHANGED <<clientVars, sock, request, waiting, processed>>
  /\ jobs' = Tail(jobs)
  /\ IF Head(jobs).ok THEN EndUnlessSent(TRUE) ELSE UNCHANGED responseVars

\* The then of processRequest: 404 unless the response is sent; an error is passed
\* on to the error handler.  The connection may be destroyed when it is closed.
RunNotFound ==
  /\ NextJob("notFound")
  /\ UNCHANGED <<clientVars, sock, request, waiting, processed>>
  /\ \/ /\ Head(jobs).ok
        /\ jobs' = Tail(jobs)
        /\ EndUnlessSent(TRUE)
     \/ /\ Head(jobs).ok /\ sock = "closed"
        /\ jobs' = Tail(jobs)
        /\ UNCHANGED responseVars
     \/ /\ ~Head(jobs).ok
        /\ jobs' = Append(Tail(jobs), Job("error", 0, FALSE))
        /\ UNCHANGED responseVars

\* The error handler of processRequest: 500 unless the response is sent.
RunError ==
  /\ NextJob("error")
  /\ UNCHANGED <<clientVars, sock, request, waiting, processed>>
  /\ jobs' = Tail(jobs)
  /\ \/ EndUnlessSent(TRUE)
     \/ sock = "closed" /\ UNCHANGED responseVars

\* The then of endData, on the connection's response: with keep-alive request and
\* response are dropped, otherwise the connection is closed.
RunSent ==
  /\ NextJob("sent")
  /\ jobs' = Tail(jobs)
  /\ failed' = (response = "none")
  /\ \/ /\ keep
        /\ request' = NoRequest
        /\ response' = "none" /\ keep' = TRUE
        /\ UNCHANGED sock
     \/ /\ ~keep
        /\ CloseSocket
        /\ UNCHANGED <<request, response, keep>>
  /\ UNCHANGED <<clientVars, serial, writes, answered, waiting, processed>>

\* The then of close: the connection leaves Server::_connections.
RunClosed ==
  /\ NextJob("closed")
  /\ jobs' = Tail(jobs)
  /\ sock' = "closed"
  /\ UNCHANGED <<clientVars, request, responseVars, waiting, processed>>

-----------------------------------------------------------------------------
Stream ==
  \/ ReceiveSome \/ ReceiveHead \/ ReceiveEnd
  \/ ReceiveBad \/ ReceiveBadUrl
  \/ ReadEof \/ ReadReset \/ ReadError

Run ==
  \/ RunCallback \/ RunForward \/ RunNotFound \/ RunError
  \/ RunSent \/ RunClosed

Handler == \E w \in waiting : HandlerDone(w)

Next ==
  \/ Stream
  \/ Close
  \/ Run
  \/ Handler
  \/ \E ok \in BOOLEAN : AfterWrite(ok)
  \/ SocketClosed

Spec == Init /\ [][Next]_vars

\* The loop runs its jobs and libuv ends every write; a handler settles the future
\* it returned.
FairSpec ==
  Spec /\ WF_vars(Run) /\ WF_vars(Handler) /\ WF_vars(\E ok \in BOOLEAN : AfterWrite(ok))

-----------------------------------------------------------------------------
(* Safety. *)

\* The then of endData finds the response it was made for: _response is not replaced
\* while its write or its job is under way, and there is one of these at a time.
ResponseStays ==
  /\ Len(writes) + Cardinality({i \in DOMAIN jobs : jobs[i].act = "sent"}) <= 1
  /\ \A i \in DOMAIN writes : response = "ended" /\ writes[i] = serial
  /\ \A i \in DOMAIN jobs : jobs[i].act = "sent" =>
       response = "ended" /\ jobs[i].of = serial

\* No NNATIVE_ASSERT of endData fails, no null _response is used and no exception leaves
\* the read callback.
AssertionsHold == ~failed

\* A request is answered once.
AnsweredOnce == answered <= asked

(* Liveness, under FairSpec. *)

\* A request that was read completely, and found no response that had ended, gets one,
\* with 404 or 500 when no callback sends one, unless the connection is closed or the
\* program ends: an assertion fails, or the first callback or a URL throws.  (That it may
\* find an ended one is AssertionsHold.)
EveryRequestAnswered ==
  request.complete /\ response # "ended" ~> response = "ended" \/ sock # "open" \/ failed
=============================================================================
