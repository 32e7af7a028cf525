----------------------------- MODULE HttpServer -----------------------------
(***************************************************************************)
(* http::Server: its connections, their idle and response timeouts, and    *)
(* closing.                                                                *)
(*                                                                         *)
(* One loop, so at most one LoopTimeoutEntries object: it exists when its  *)
(* timer is on.  Times are kept as the time left until they are reached, 0 *)
(* once they are: the code only compares an end time with now() and with   *)
(* the end time of an entry that was just set in the future.               *)
(*                                                                         *)
(* A connection is a name that is used again once the ServerConnection is  *)
(* destroyed.  What happens between a request and its response is          *)
(* HttpConnection's subject; here both may be reported at any time.        *)
(***************************************************************************)
EXTENDS Integers, FiniteSets, SequencesExt

CONSTANTS
  Connections,      \* names of connections
  IdleTimeout,      \* Server::_idleConnectionTimeoutSeconds
  ResponseTimeout,  \* Server::_responseTimeoutSeconds
  Second,           \* 1000 ms in the unit of the two timeouts
  MaxCloses         \* bound on the close() calls made while the socket closes

ASSUME TimesAssumption == {IdleTimeout, ResponseTimeout, Second} \subseteq Nat \ {0}
ASSUME MaxClosesAssumption == MaxCloses \in Nat \ {0}

VARIABLES
  server,    \* the listening socket
  conn,      \* the socket of each connection
  closes,    \* then-callbacks on its Handle::_closingPromise still to run
  entries,   \* LoopTimeoutEntries::_connectionEntries
  timer,     \* LoopTimeoutEntries::_timer
  left,      \* history: time left until the documented timeout of a connection
  crashed    \* a null pointer was dereferenced

vars == <<server, conn, closes, entries, timer, left, crashed>>
serverVars == <<server, conn, closes, crashed>>

Times == 0..Max({IdleTimeout, ResponseTimeout, Second})

\* The listening socket: not yet listening, listening, closed.
ServerStates == {"new", "listening", "closing", "closed"}

\* A connection: its name is free, its socket, its end.
ConnStates == {"none", "open", "closing", "closed", "gone"}

\* A timer: active, the time left until it fires, its repeat.
Timers == [on : BOOLEAN, due : Times, repeat : Times]

\* "gone": the close callback has removed the connection from _connections.
Live == {c \in Connections : conn[c] \in {"open", "closing", "closed"}}

TypeOK ==
  /\ server \in ServerStates
  /\ conn \in [Connections -> ConnStates]
  /\ closes \in [Connections -> 0..MaxCloses]
  /\ entries \in Seq([conn : Connections, left : Times])
  /\ timer \in Timers
  /\ left \in [Connections -> Times]
  /\ crashed \in BOOLEAN

-----------------------------------------------------------------------------
(* The timer, as Timer and libuv implement it. *)

Off == [on |-> FALSE, due |-> 0, repeat |-> 0]
Started(timeout, repeat) == [on |-> TRUE, due |-> timeout, repeat |-> repeat]

\* FindOrCreateEntry: the timer of the existing object, or of a new one.
FindOrCreateEntry == IF timer.on THEN timer ELSE Started(0, Second)

\* `timeNow < end ? end - timeNow : 1000`
Wait(t) == IF t > 0 THEN t ELSE Second

Init ==
  /\ server = "new"
  /\ conn = [c \in Connections |-> "none"]
  /\ closes = [c \in Connections |-> 0]
  /\ entries = <<>>
  /\ timer = Off
  /\ left = [c \in Connections |-> 0]
  /\ crashed = FALSE

-----------------------------------------------------------------------------
(* LoopTimeoutEntries. *)

\* Where insertConnection's loop stops: before the first entry that does not end
\* earlier, wherever in the list that is.
Place(list, t) ==
  CHOOSE i \in 1..Len(list) + 1 :
    /\ i <= Len(list) => t <= list[i].left
    /\ \A j \in 1..i - 1 : t > list[j].left

\* insertConnection restarts the timer when the entry becomes the first of
\* several.
Restarted(list, t, tm) ==
  IF list # <<>> /\ Place(list, t) = 1 THEN Started(Wait(t), Second) ELSE tm

Entry(c, t) == [conn |-> c, left |-> t]

Watched(c) == \E i \in DOMAIN entries : entries[i].conn = c

\* Variant: the end time is the sum of both timeouts.
AddConnectionBoth(c, t) ==
  LET end == IdleTimeout + ResponseTimeout + Second
  IN /\ entries' = InsertAt(entries, Place(entries, end), Entry(c, end))
     /\ timer' = Restarted(entries, end, FindOrCreateEntry)
     /\ left' = [left EXCEPT ![c] = end]

AddConnection(c, t) ==
  /\ entries' = InsertAt(entries, Place(entries, t), Entry(c, t))
  /\ timer' = Restarted(entries, t, FindOrCreateEntry)
  /\ left' = [left EXCEPT ![c] = t]

\* Variants of RestartTime: the copy is inserted and the old entry stays; the
\* time is changed in the connection's copy only.
RestartTimeNoErase(c, t) ==
  LET i == SelectInSeq(entries, LAMBDA e : e.conn = c)
      list == [entries EXCEPT ![i].left = t]
  IN /\ IF i = 0
          THEN timer' = FindOrCreateEntry /\ UNCHANGED entries
          ELSE /\ timer' = Restarted(list, t, timer)
               /\ entries' = InsertAt(list, Place(list, t), list[i])
     /\ left' = [left EXCEPT ![c] = t]

RestartTimeLost(c, t) ==
  LET i == SelectInSeq(entries, LAMBDA e : e.conn = c)
  IN /\ timer' = IF i = 0 THEN FindOrCreateEntry ELSE Restarted(entries, t, timer)
     /\ left' = [left EXCEPT ![c] = t]
     /\ UNCHANGED entries

\* The entry's time is set, a copy of it is inserted, then the entry is erased. The
\* scan for the copy's place meets the entry itself, so the copy never goes behind
\* it.  A connection that is not in the list is not put back.
RestartTime(c, t) ==
  LET i == SelectInSeq(entries, LAMBDA e : e.conn = c)
      list == [entries EXCEPT ![i].left = t]
  IN /\ IF i = 0
          THEN timer' = FindOrCreateEntry /\ UNCHANGED entries
          ELSE /\ timer' = Restarted(list, t, timer)
               /\ entries' = RemoveAt(InsertAt(list, Place(list, t), list[i]), i + 1)
     /\ left' = [left EXCEPT ![c] = t]

\* list::remove_if: the entries of the other connections, in their order.
Without(list, c) ==
  LET kept == {i \in DOMAIN list : list[i].conn # c}
      Nth(n) == CHOOSE i \in kept : Cardinality({j \in kept : j <= i}) = n
  IN [n \in 1..Cardinality(kept) |-> list[Nth(n)]]

\* Variant: the timer is closed although other entries are left.
RemoveConnectionCloses(c) ==
  /\ entries' = Without(entries, c)
  /\ timer' = Off

RemoveConnection(c) ==
  /\ entries' = Without(entries, c)
  /\ timer' = IF entries' = <<>> THEN Off ELSE FindOrCreateEntry

\* The entries that are left when the loop over the expired ones stops.
Unexpired(list) ==
  LET n == SelectInSeq(list, LAMBDA e : e.left > 0)
  IN IF n = 0 THEN <<>> ELSE SubSeq(list, n, Len(list))

\* Variants of OnTimeout: the first entry is erased without a look at its time;
\* the timer stays when the list is empty.
OnTimeoutEarly ==
  /\ ~crashed /\ timer.on /\ timer.due = 0
  /\ entries' = IF entries = <<>> THEN <<>> ELSE Unexpired(Tail(entries))
  /\ timer' = IF entries' = <<>>
                THEN Off
                ELSE Started(timer.repeat, Wait(Head(entries').left))
  /\ UNCHANGED <<left, serverVars>>

OnTimeoutNoClose ==
  /\ ~crashed /\ timer.on /\ timer.due = 0
  /\ entries' = Unexpired(entries)
  /\ timer' = Started(timer.repeat, Second)
  /\ UNCHANGED <<left, serverVars>>

\* Timer::OnTimeout and the callback of FindOrCreateEntry.  libuv has started the
\* timer again, with the repeat it had, before it calls them.
OnTimeout ==
  /\ ~crashed /\ timer.on /\ timer.due = 0
  /\ entries' = Unexpired(entries)
  /\ timer' = IF entries' = <<>>
                THEN Off
                ELSE Started(timer.repeat, Wait(Head(entries').left))
  /\ UNCHANGED <<left, serverVars>>

-----------------------------------------------------------------------------
(* Server and ServerConnection. *)

\* Server::listen.
Listen ==
  /\ ~crashed /\ server = "new"
  /\ server' = "listening"
  /\ UNCHANGED <<conn, closes, entries, timer, left, crashed>>

\* The listen callback: createConnection and parse.
CreateConnection(c) ==
  /\ ~crashed /\ server = "listening" /\ conn[c] = "none"
  /\ conn' = [conn EXCEPT ![c] = "open"]
  /\ AddConnection(c, IdleTimeout)
  /\ UNCHANGED <<server, closes, crashed>>

\* The onRequestReceived callback, from processRequest; also in the read callback
\* that has just closed the connection.
RequestReceived(c) ==
  /\ ~crashed /\ conn[c] \in {"open", "closing"}
  /\ RestartTime(c, ResponseTimeout)
  /\ UNCHANGED <<server, conn, closes, crashed>>

\* Handle::close on the sockets of C, and the then-callback on its future.  Once a
\* socket is closed, that future is one of a fresh promise: its callback never runs.
CloseSockets(C) ==
  /\ \A c \in C : conn[c] = "closing" => closes[c] < MaxCloses
  /\ conn' = [c \in Connections |->
       IF c \in C /\ conn[c] = "open" THEN "closing" ELSE conn[c]]
  /\ closes' = [c \in Connections |->
       IF c \in C /\ conn[c] \in {"open", "closing"} THEN closes[c] + 1 ELSE closes[c]]

\* The last write is done: the onResponseSent callback, then the connection waits
\* for the next request or is closed.
ResponseSent(c, shouldKeepAlive) ==
  /\ ~crashed /\ c \in Live
  /\ RestartTime(c, IdleTimeout)
  /\ IF shouldKeepAlive THEN UNCHANGED <<conn, closes>> ELSE CloseSockets({c})
  /\ UNCHANGED <<server, crashed>>

\* ServerConnection::close: after a read error, a parser error, or by the user.
CloseConnection(c) ==
  /\ ~crashed /\ c \in Live
  /\ CloseSockets({c})
  /\ UNCHANGED <<server, entries, timer, left, crashed>>

\* libuv calls the close callback of the connection's socket: the promise of the
\* then-callbacks is resolved.
SocketClosed(c) ==
  /\ ~crashed /\ conn[c] = "closing"
  /\ conn' = [conn EXCEPT ![c] = "closed"]
  /\ UNCHANGED <<server, closes, entries, timer, left, crashed>>

\* The first then-callback runs the onClose callback: the connection leaves
\* _connections and the timeout list.  Nothing owns it any more, unless a handler
\* still holds it.
Closed(c) ==
  /\ ~crashed /\ conn[c] = "closed"
  /\ closes' = [closes EXCEPT ![c] = @ - 1]
  /\ conn' = [conn EXCEPT ![c] = IF closes[c] = 1 THEN "none" ELSE "gone"]
  /\ RemoveConnection(c)
  /\ UNCHANGED <<server, left, crashed>>

\* A second then-callback: connectionWeak.lock() is null, or the onClose callback
\* runs again because a handler still holds the connection.
ClosedAgain(c) ==
  /\ ~crashed /\ conn[c] = "gone"
  /\ \/ /\ crashed' = TRUE
        /\ UNCHANGED <<conn, closes, entries, timer>>
     \/ /\ closes' = [closes EXCEPT ![c] = @ - 1]
        /\ conn' = [conn EXCEPT ![c] = IF closes[c] = 1 THEN "none" ELSE "gone"]
        /\ RemoveConnection(c)
        /\ UNCHANGED crashed
  /\ UNCHANGED <<server, left>>

\* Variant: the connections are not closed.
CloseServerSocketOnly ==
  /\ ~crashed /\ server \in {"new", "listening"}
  /\ server' = "closing"
  /\ UNCHANGED <<conn, closes, entries, timer, left, crashed>>

\* Server::close: every connection, then the listening socket.  Called once.
CloseServer ==
  /\ ~crashed /\ server \in {"new", "listening"}
  /\ server' = "closing"
  /\ CloseSockets(Live)
  /\ UNCHANGED <<entries, timer, left, crashed>>

\* The future of Server::close is resolved.
ServerClosed ==
  /\ ~crashed /\ server = "closing"
  /\ server' = "closed"
  /\ UNCHANGED <<conn, closes, entries, timer, left, crashed>>

Less(t) == IF t > 0 THEN t - 1 ELSE 0

\* Time passes between two callbacks.
Tick ==
  /\ ~crashed
  /\ left' = [c \in Connections |-> Less(left[c])]
  /\ entries' = [i \in DOMAIN entries |-> [entries[i] EXCEPT !.left = Less(@)]]
  /\ timer' = [timer EXCEPT !.due = Less(@)]
  /\ UNCHANGED serverVars

-----------------------------------------------------------------------------
Traffic ==
  \E c \in Connections :
    \/ CreateConnection(c)
    \/ RequestReceived(c)
    \/ \E keep \in BOOLEAN : ResponseSent(c, keep)

Closing ==
  \/ ServerClosed
  \/ \E c \in Connections : SocketClosed(c) \/ Closed(c) \/ ClosedAgain(c)

Next ==
  \/ Listen
  \/ Traffic
  \/ \E c \in Connections : CloseConnection(c)
  \/ CloseServer
  \/ Closing
  \/ OnTimeout
  \/ Tick

Spec == Init /\ [][Next]_vars

\* Time goes on and the loop runs: a timer that is due fires, sockets that close
\* are closed and the callbacks of their futures run.  Clients and handlers owe
\* nothing.
Fairness ==
  /\ WF_vars(Tick)
  /\ WF_vars(OnTimeout)
  /\ WF_vars(ServerClosed)
  /\ \A c \in Connections : WF_vars(SocketClosed(c) \/ Closed(c) \/ ClosedAgain(c))

FairSpec == Spec /\ Fairness

-----------------------------------------------------------------------------
(* Safety. *)

\* A connection has at most one entry in the timeout list, also after RestartTime
\* inserted a copy of it, and no entry outlives its connection.
WatchedOnce ==
  /\ \A i, j \in DOMAIN entries : entries[i].conn = entries[j].conn => i = j
  /\ \A i \in DOMAIN entries : entries[i].conn \in Live

\* An entry carries the time of the connection's last event: the time that
\* RestartTime copied is not lost when the entry moves.
EntryIsDeadline ==
  \A i \in DOMAIN entries : entries[i].left = left[entries[i].conn]

\* While a connection is watched the timer is running, and will run again: a repeat
\* of 0 would make Timer::OnTimeout close it.
TimerWatches ==
  /\ entries # <<>> => timer.on
  /\ timer.on => timer.repeat > 0

(* Action properties. *)

\* A connection that is not closed is dropped from the list only when its time is
\* over.
NeverEarly ==
  [][\A c \in Connections :
       Watched(c) /\ ~Watched(c)' => left[c] = 0 \/ conn[c] = "closed"]_vars

(* Liveness, under FairSpec. *)

\* When no connection is made and no request or response comes any more, the
\* timeout list runs empty and the timer is closed: it does not keep the loop alive.
TimerEnds ==
  <>[][~Traffic]_vars => <>[](~crashed => entries = <<>> /\ ~timer.on)

\* After Server::close nothing is left of the connections and of the timer, if no
\* second close callback meets a connection that is gone.
NothingLeft ==
  [](~crashed) =>
    (server = "closing" ~>
       /\ server = "closed"
       /\ \A c \in Connections : conn[c] = "none"
       /\ ~timer.on)

(* What the documentation says. *)

Overdue(c) == conn[c] = "open" /\ left[c] = 0

\* "If the timeout is reached, the connection is closed."
TimeoutCloses == \A c \in Connections : Overdue(c) ~> ~Overdue(c)
=============================================================================
