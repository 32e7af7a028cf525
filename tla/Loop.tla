-------------------------------- MODULE Loop --------------------------------
(***************************************************************************)
(* The loops of a program with several threads: creating, finding, running *)
(* and destroying them (Loop.cpp), and the question every then() asks,     *)
(* isOnEventLoopThread().                                                  *)
(*                                                                         *)
(* A loop is destroyed when the last reference to it goes.  References are *)
(* kept by the code of threads, by the objects of open handles (Handle,    *)
(* AsyncBase and WorkerBase have a member _loop and keep themselves alive  *)
(* until their handle is closed), and, for a moment, by deregisterLoop,    *)
(* which takes one of every loop it passes.                                *)
(***************************************************************************)
EXTENDS Naturals, FiniteSets

CONSTANTS
  Threads, NoThread,
  Loops, NoLoop,
  MaxHandles,  \* bound on the open handles of a loop
  MaxRuns      \* bound on the calls of run(), run_once() and run_nowait()

ASSUME ThreadsAssumption == NoThread \notin Threads
ASSUME LoopsAssumption == NoLoop \notin Loops
ASSUME BoundsAssumption == {MaxHandles, MaxRuns} \subseteq Nat

VARIABLES
  loopMap,   \* the entries of _loopMap, weak pointers: they outlive their loop
  lock,      \* the thread that has _mutexloopMap for writing
  life,      \* of each loop; "dying" is in ~Loop
  holds,     \* the loops to which the code of a thread has shared pointers
  handles,   \* the number of open handles of each loop
  started,   \* Loop::_started
  threadId,  \* Loop::_threadId
  running,   \* the loop whose uv_run is on the stack of each thread
  runs,      \* how often a loop was run
  pc,        \* where each thread is
  mine,      \* history: the loop each thread registered last
  last       \* history: the thread that began to register each loop last

vars == <<loopMap, lock, life, holds, handles, started, threadId, running, runs,
          pc, mine, last>>
fieldVars == <<started, threadId>>
runVars == <<running, runs>>
historyVars == <<mine, last>>

\* at: "user" code; the two stores of run(); deregisterLoop waiting for the lock
\* ("erase"), between two entries ("scan"), with a reference to the loop of an entry
\* ("held"); the rest of registerLoop ("add"); HandleDeleter ("close"); a thread
\* that locks what it has locked ("stuck"); then() inside a future ("attach").
Places == {"user", "store", "erase", "scan", "held", "add", "close", "stuck", "attach"}
Reasons == {"none", "create", "run", "destroy", "early", "inRun"}

\* loop is what the code is about, todo the entries deregisterLoop has not seen,
\* entry the one it is at.
At(place, why, l) ==
  [at |-> place, why |-> why, loop |-> l, todo |-> {}, entry |-> NoThread]
User == At("user", "none", NoLoop)

TypeOK ==
  /\ loopMap \in [Threads -> Loops \cup {NoLoop}]
  /\ lock \in Threads \cup {NoThread}
  /\ life \in [Loops -> {"new", "alive", "dying", "dead"}]
  /\ holds \in [Threads -> SUBSET Loops]
  /\ handles \in [Loops -> 0..MaxHandles]
  /\ started \in [Loops -> BOOLEAN]
  /\ threadId \in [Loops -> Threads \cup {NoThread}]
  /\ running \in [Threads -> Loops \cup {NoLoop}]
  /\ runs \in 0..MaxRuns
  /\ pc \in [Threads -> [at : Places, why : Reasons, loop : Loops \cup {NoLoop},
                         todo : SUBSET Threads, entry : Threads \cup {NoThread}]]
  /\ mine \in [Threads -> Loops \cup {NoLoop}]
  /\ last \in [Loops -> Threads \cup {NoThread}]

Init ==
  /\ loopMap = [t \in Threads |-> NoLoop]
  /\ lock = NoThread
  /\ life = [l \in Loops |-> "new"]
  /\ holds = [t \in Threads |-> {}]
  /\ handles = [l \in Loops |-> 0]
  /\ started = [l \in Loops |-> FALSE]
  /\ threadId = [l \in Loops |-> NoThread]
  /\ running = [t \in Threads |-> NoLoop]
  /\ runs = 0
  /\ pc = [t \in Threads |-> User]
  /\ mine = [t \in Threads |-> NoLoop]
  /\ last = [l \in Loops |-> NoThread]

-----------------------------------------------------------------------------
(* References. *)

Goto(t, place) == pc' = [pc EXCEPT ![t] = place]
InUser(t) == pc[t].at = "user"

\* The loop of an entry, if its weak pointer has not expired.
Alive(u) == loopMap[u] \in {l \in Loops : life[l] = "alive"}

\* The thread that has a reference to l inside deregisterLoop.
Held(t, l) == pc[t].at = "held" /\ loopMap[pc[t].entry] = l

\* Variant: the handles of a loop do not keep it alive.
LastReferenceButHandles(t, l) ==
  \A u \in Threads \ {t} : l \notin holds[u] /\ ~Held(u, l)

\* The reference that thread t gives up is the last one to l.
LastReference(t, l) ==
  /\ handles[l] = 0
  /\ \A u \in Threads \ {t} : l \notin holds[u] /\ ~Held(u, l)

-----------------------------------------------------------------------------
(* The registry. *)

\* deregisterLoop(l), called by registerLoop or ~Loop.
Deregister(t, why, l) ==
  /\ Goto(t, At("erase", why, l))
  /\ last' = IF why = "destroy" THEN last ELSE [last EXCEPT ![l] = t]
  /\ UNCHANGED mine

\* Variant: the uv loop is not closed.
ReturnedNoClose(t) ==
  IF pc[t].why = "destroy" THEN User ELSE At("add", pc[t].why, pc[t].loop)

\* What follows deregisterLoop: the second half of registerLoop, or, in ~Loop, the
\* deleter of the uv loop.
Returned(t) ==
  At(IF pc[t].why = "destroy" THEN "close" ELSE "add", pc[t].why, pc[t].loop)

\* The write lock is taken.
Lock(t) ==
  /\ pc[t].at = "erase" /\ lock = NoThread
  /\ lock' = t
  /\ Goto(t, [pc[t] EXCEPT !.at = "scan", !.todo = {u \in Threads : loopMap[u] # NoLoop}])
  /\ UNCHANGED <<loopMap, life, holds, handles, fieldVars, runVars, historyVars>>

\* An entry that has not expired: it->second.lock().  The order of the entries is
\* that of the thread ids.
Visit(t, u) ==
  /\ pc[t].at = "scan" /\ u \in pc[t].todo
  /\ Goto(t, [pc[t] EXCEPT !.todo = @ \ {u},
                           !.entry = u,
                           !.at = IF Alive(u) THEN "held" ELSE "scan"])
  /\ UNCHANGED <<loopMap, lock, life, holds, handles, fieldVars, runVars, historyVars>>

\* The comparison, at the end of which the reference goes.  When it was the last
\* one, ~Loop is called here and waits for the lock this thread has.
Compare(t) ==
  /\ pc[t].at = "held"
  /\ LET u == pc[t].entry
         l == loopMap[u]
     IN \/ /\ l \notin holds[t] /\ LastReference(t, l)
           /\ life' = [life EXCEPT ![l] = "dying"]
           /\ Goto(t, [pc[t] EXCEPT !.at = "stuck"])
           /\ UNCHANGED <<loopMap, lock>>
        \/ /\ l \in holds[t] \/ ~LastReference(t, l)
           /\ l = pc[t].loop
           /\ loopMap' = [loopMap EXCEPT ![u] = NoLoop]
           /\ lock' = NoThread
           /\ Goto(t, Returned(t))
           /\ UNCHANGED life
        \/ /\ l \in holds[t] \/ ~LastReference(t, l)
           /\ l # pc[t].loop
           /\ Goto(t, [pc[t] EXCEPT !.at = "scan", !.entry = NoThread])
           /\ UNCHANGED <<loopMap, lock, life>>
  /\ UNCHANGED <<holds, handles, fieldVars, runVars, historyVars>>

\* No entry is left.
NotFound(t) ==
  /\ pc[t].at = "scan" /\ pc[t].todo = {}
  /\ lock' = NoThread
  /\ Goto(t, Returned(t))
  /\ UNCHANGED <<loopMap, life, holds, handles, fieldVars, runVars, historyVars>>

\* The second half of registerLoop, under a lock of its own.  In run(), uv_run
\* follows.
Add(t) ==
  /\ pc[t].at = "add" /\ lock = NoThread
  /\ LET l == pc[t].loop
     IN /\ loopMap' = [loopMap EXCEPT ![t] = l]
        /\ mine' = [mine EXCEPT ![t] = l]
        /\ running' = IF pc[t].why = "run" THEN [running EXCEPT ![t] = l] ELSE running
  /\ Goto(t, User)
  /\ UNCHANGED <<lock, life, holds, handles, fieldVars, runs, last>>

\* Loop::GetInstance(u), under the read lock.
GetInstance(t, u) ==
  /\ InUser(t) /\ lock = NoThread
  /\ Alive(u)
  /\ holds' = [holds EXCEPT ![t] = @ \cup {loopMap[u]}]
  /\ UNCHANGED <<loopMap, lock, life, handles, fieldVars, runVars, pc, historyVars>>

-----------------------------------------------------------------------------
(* The life of a loop. *)

\* Loop::Create(): the loop is registered for the thread that creates it.
Create(t) ==
  /\ InUser(t)
  /\ \E l \in Loops :
       /\ life[l] = "new"
       /\ life' = [life EXCEPT ![l] = "alive"]
       /\ holds' = [holds EXCEPT ![t] = @ \cup {l}]
       /\ Deregister(t, "create", l)
  /\ UNCHANGED <<loopMap, lock, handles, fieldVars, runVars>>

\* A shared pointer goes; with the last one ~Loop is called.
Release(t, l) ==
  /\ InUser(t)
  /\ l \in holds[t] /\ running[t] # l
  /\ holds' = [holds EXCEPT ![t] = @ \ {l}]
  /\ IF LastReference(t, l)
       THEN /\ life' = [life EXCEPT ![l] = "dying"]
            /\ Deregister(t, "destroy", l)
       ELSE UNCHANGED <<life, pc, historyVars>>
  /\ UNCHANGED <<loopMap, lock, handles, fieldVars, runVars>>

\* HandleDeleter: uv_loop_close succeeds when no handle is open; until then it is
\* called again and again.
Close(t) ==
  /\ pc[t].at = "close"
  /\ handles[pc[t].loop] = 0
  /\ life' = [life EXCEPT ![pc[t].loop] = "dead"]
  /\ Goto(t, User)
  /\ UNCHANGED <<loopMap, lock, holds, handles, fieldVars, runVars, historyVars>>

\* A handle is opened in l: any object of the library, or the job of async().
Open(t, l) ==
  /\ InUser(t) /\ l \in holds[t]
  /\ handles[l] < MaxHandles
  /\ handles' = [handles EXCEPT ![l] = @ + 1]
  /\ UNCHANGED <<loopMap, lock, life, holds, fieldVars, runVars, pc, historyVars>>

\* Variant: the close callback gives up two references.
ClosedTwice(t) ==
  /\ InUser(t) /\ running[t] # NoLoop
  /\ handles[running[t]] > 0
  /\ handles' = [handles EXCEPT ![running[t]] = @ - 2]
  /\ UNCHANGED <<loopMap, lock, life, holds, fieldVars, runVars, pc, historyVars>>

\* uv_run calls the close callback of a handle, and its object goes.
Closed(t) ==
  /\ InUser(t) /\ running[t] # NoLoop
  /\ handles[running[t]] > 0
  /\ handles' = [handles EXCEPT ![running[t]] = @ - 1]
  /\ UNCHANGED <<loopMap, lock, life, holds, fieldVars, runVars, pc, historyVars>>

-----------------------------------------------------------------------------
(* Running. *)

\* libuv allows one thread at a time to run a loop.
Runs(u, l) == running[u] = l \/ (pc[u].why = "run" /\ pc[u].loop = l)

\* run(), run_once() or run_nowait().  _started and _threadId are plain members, so
\* other threads may see one of the two stores before the other.
Run(t, l) ==
  /\ InUser(t) /\ running[t] = NoLoop /\ l \in holds[t]
  /\ \A u \in Threads : ~Runs(u, l)
  /\ runs < MaxRuns /\ runs' = runs + 1
  /\ \/ started' = [started EXCEPT ![l] = TRUE] /\ UNCHANGED threadId
     \/ threadId' = [threadId EXCEPT ![l] = t] /\ UNCHANGED started
  /\ Goto(t, At("store", "run", l))
  /\ UNCHANGED <<loopMap, lock, life, holds, handles, running, historyVars>>

\* Variant: the thread is the one that ran the loop first.
RunRegisterFirstThread(t) ==
  /\ pc[t].at = "store"
  /\ started' = [started EXCEPT ![pc[t].loop] = TRUE]
  /\ threadId' = [threadId EXCEPT ![pc[t].loop] = IF @ = NoThread THEN t ELSE @]
  /\ Deregister(t, "run", pc[t].loop)
  /\ UNCHANGED <<loopMap, lock, life, holds, handles, runVars>>

\* Variant: the old entry of the loop stays.
RunRegisterKeepsOld(t) ==
  /\ pc[t].at = "store"
  /\ started' = [started EXCEPT ![pc[t].loop] = TRUE]
  /\ threadId' = [threadId EXCEPT ![pc[t].loop] = t]
  /\ last' = [last EXCEPT ![pc[t].loop] = t]
  /\ Goto(t, At("add", "run", pc[t].loop))
  /\ UNCHANGED <<loopMap, lock, life, holds, handles, runVars, mine>>

\* Both stores are done, and registerLoop is called.
RunRegister(t) ==
  /\ pc[t].at = "store"
  /\ started' = [started EXCEPT ![pc[t].loop] = TRUE]
  /\ threadId' = [threadId EXCEPT ![pc[t].loop] = t]
  /\ Deregister(t, "run", pc[t].loop)
  /\ UNCHANGED <<loopMap, lock, life, holds, handles, runVars>>

\* uv_run returns.
RunEnd(t) ==
  /\ InUser(t) /\ running[t] # NoLoop
  /\ started' = [started EXCEPT ![running[t]] = FALSE]
  /\ running' = [running EXCEPT ![t] = NoLoop]
  /\ UNCHANGED <<loopMap, lock, life, holds, handles, threadId, runs, pc, historyVars>>

isOnEventLoopThread(t, l) == ~started[l] \/ threadId[l] = t

\* then(), error() or finally() on a future of l: on the loop's thread it goes on
\* with _actions and _resolver, on another one it posts a job.
Then(t, l) ==
  /\ InUser(t) /\ l \in holds[t]
  /\ \/ /\ isOnEventLoopThread(t, l)
        /\ Goto(t, At("attach", IF \E u \in Threads : running[u] = l
                                  THEN "inRun" ELSE "early", l))
        /\ UNCHANGED handles
     \/ /\ ~isOnEventLoopThread(t, l)
        /\ handles[l] < MaxHandles
        /\ handles' = [handles EXCEPT ![l] = @ + 1]
        /\ UNCHANGED pc
  /\ UNCHANGED <<loopMap, lock, life, holds, fieldVars, runVars, historyVars>>

\* It returns.
ThenDone(t) ==
  /\ pc[t].at = "attach"
  /\ Goto(t, User)
  /\ UNCHANGED <<loopMap, lock, life, holds, handles, fieldVars, runVars, historyVars>>

-----------------------------------------------------------------------------
\* The steps of the library itself.
Registry(t) ==
  \/ Lock(t) \/ (\E u \in Threads : Visit(t, u)) \/ Compare(t) \/ NotFound(t) \/ Add(t)
  \/ Close(t)
  \/ RunRegister(t)
  \/ ThenDone(t)

UserCode(t) ==
  \/ Create(t)
  \/ \E u \in Threads : GetInstance(t, u)
  \/ \E l \in Loops : Release(t, l) \/ Open(t, l) \/ Run(t, l) \/ Then(t, l)
  \/ Closed(t)
  \/ RunEnd(t)

Next == \E t \in Threads : Registry(t) \/ UserCode(t)

Spec == Init /\ [][Next]_vars

\* Every thread goes on in the code of the library; its own code owes nothing.
FairSpec == Spec /\ \A t \in Threads : WF_vars(Registry(t))

-----------------------------------------------------------------------------
(* Safety. *)

\* A loop that is alive is registered for one thread at most, and for the thread that
\* registered it last, unless that thread has registered another one since: no scan
\* by another thread removes the entry, and it is missing only while the thread
\* itself is inside registerLoop.
RegistryExact ==
  \A l \in Loops : life[l] = "alive" =>
    LET found == {u \in Threads : loopMap[u] = l}
        t == last[l]
    IN /\ Cardinality(found) <= 1
       /\ pc[t].why \notin {"create", "run"} => found = {u \in {t} : mine[u] = l}

\* A loop is destroyed when no thread uses it and no handle is open: HandleDeleter
\* never waits for a handle that nobody will close.
NothingOpenAtEnd ==
  \A l \in Loops : life[l] = "dying" =>
    /\ handles[l] = 0
    /\ \A t \in Threads : l \notin holds[t] /\ running[t] # l

\* Two threads are inside the futures of one loop only if one of them asked
\* isOnEventLoopThread when the loop was not running yet, or not any more.
RaceOnlyOutsideRun ==
  \A t, u \in Threads :
    /\ t # u
    /\ pc[t].at = "attach" /\ pc[u].at = "attach" /\ pc[t].loop = pc[u].loop
    => "early" \in {pc[t].why, pc[u].why}

(* Liveness, under FairSpec. *)

\* A loop whose last reference has gone is destroyed, and the registry's lock with
\* which it is done is free again, unless a thread has locked itself out.
LoopsEnd ==
  \A l \in Loops : life[l] = "dying" ~>
    \/ life[l] = "dead"
    \/ \E t \in Threads : pc[t].at = "stuck"
=============================================================================
