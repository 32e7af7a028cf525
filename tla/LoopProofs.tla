----------------------------- MODULE LoopProofs -----------------------------
(***************************************************************************)
(* Proofs about module Loop, for any set of threads and of loops, and for  *)
(* any bounds on the handles and the runs.                                 *)
(*                                                                         *)
(* None of the properties is inductive as it stands.  What the proofs need *)
(* is who may hold what: a reference is to a loop that is alive, a thread  *)
(* that registers or runs a loop holds it, one thread at a time registers, *)
(* runs or destroys a loop, and deregisterLoop has the lock from the first *)
(* entry it looks at to the last.                                          *)
(***************************************************************************)
EXTENDS Loop, FiniteSetTheorems, TLAPS

\* Thread t is inside registerLoop(l).
Registering(t, l) ==
  /\ pc[t].at \in {"erase", "scan", "held", "add", "stuck"}
  /\ pc[t].why \in {"create", "run"}
  /\ pc[t].loop = l

\* Which code can be called from where.
PlacesFit ==
  \A t \in Threads :
    /\ pc[t].at = "user" => pc[t] = User
    /\ pc[t].at # "user" => pc[t].loop \in Loops
    /\ pc[t].at = "store" => pc[t].why = "run"
    /\ pc[t].at \in {"erase", "scan", "held", "stuck"} => pc[t].why \in {"create", "run", "destroy"}
    /\ pc[t].at = "add" => pc[t].why \in {"create", "run"}
    /\ pc[t].at = "close" => pc[t].why = "destroy"
    /\ pc[t].at = "attach" => pc[t].why \in {"early", "inRun"}

\* The lock is that of the thread that goes through the entries.
LockFits ==
  \A t \in Threads : lock = t <=> pc[t].at \in {"scan", "held", "stuck"}

\* A reference keeps its loop alive; only a loop that is alive has handles.
ReferencesFit ==
  /\ \A t \in Threads :
       /\ \A l \in holds[t] : life[l] = "alive"
       /\ running[t] # NoLoop => running[t] \in holds[t]
       /\ pc[t].why \in {"create", "run"} => pc[t].loop \in holds[t]
       /\ pc[t].at = "held" => /\ pc[t].entry \in Threads
                               /\ Alive(pc[t].entry)
  /\ \A l \in Loops : life[l] # "alive" => handles[l] = 0

\* One thread runs a loop, and its two fields say so while uv_run is on the stack.
RunFits ==
  /\ \A t, u \in Threads, l \in Loops : Runs(t, l) /\ Runs(u, l) => t = u
  /\ \A t \in Threads :
       /\ running[t] # NoLoop => started[running[t]] /\ threadId[running[t]] = t
       /\ pc[t].why = "run" => running[t] = NoLoop
       /\ pc[t].why = "run" /\ pc[t].at # "store" =>
            started[pc[t].loop] /\ threadId[pc[t].loop] = t
       /\ pc[t].why = "inRun" => running[t] = pc[t].loop

\* One thread destroys a loop; one that is being created is nobody else's yet.
OwnersFit ==
  /\ \A t \in Threads : pc[t].why = "destroy" => life[pc[t].loop] = "dying"
  /\ \A t, u \in Threads :
       pc[t].why = "destroy" /\ pc[u].why = "destroy" /\ pc[t].loop = pc[u].loop => t = u
  /\ \A t, u \in Threads :
       pc[t].why = "create" => /\ loopMap[u] # pc[t].loop
                               /\ pc[t].loop \in holds[u] => t = u
  /\ \A t \in Threads, l \in Loops : Registering(t, l) => last[l] = t

\* The entries of a loop that is alive: one at most, gone when registerLoop adds the
\* new one, not behind the place where deregisterLoop is, and otherwise that of the
\* thread that registered the loop last.
EntriesOf(l) ==
  /\ last[l] \in Threads
  /\ \A u, v \in Threads : loopMap[u] = l /\ loopMap[v] = l => u = v
  /\ ~Registering(last[l], l) =>
       \A u \in Threads : loopMap[u] = l <=> u = last[l] /\ mine[u] = l
  /\ \A t \in Threads : pc[t].at = "add" /\ pc[t].loop = l =>
       \A u \in Threads : loopMap[u] # l
  /\ \A t, u \in Threads :
       pc[t].at \in {"scan", "held"} /\ pc[t].loop = l /\ loopMap[u] = l =>
         \/ u \in pc[t].todo
         \/ pc[t].at = "held" /\ pc[t].entry = u

EntriesFit ==
  \A l \in Loops :
    /\ life[l] = "new" => \A u \in Threads : loopMap[u] # l
    /\ life[l] = "alive" => EntriesOf(l)

LoopInv ==
  /\ TypeOK
  /\ PlacesFit
  /\ LockFits
  /\ ReferencesFit
  /\ RunFits
  /\ OwnersFit
  /\ EntriesFit

-----------------------------------------------------------------------------
(* Where the threads are. *)

\* What the type invariant says of pc.
Spots == [at : Places, why : Reasons, loop : Loops \cup {NoLoop},
          todo : SUBSET Threads, entry : Threads \cup {NoThread}]

LEMMA SpotOfGoto ==
  ASSUME TypeOK, NEW t \in Threads, NEW r \in Spots
  PROVE  [pc EXCEPT ![t] = r] \in [Threads -> Spots]
BY SMT DEF TypeOK, Spots

LEMMA SpotOfAt ==
  ASSUME NEW place \in Places, NEW why \in Reasons, NEW l \in Loops \cup {NoLoop}
  PROVE  At(place, why, l) \in Spots
BY SMT DEF At, Spots

LEMMA SpotOfUser == User \in Spots
BY SpotOfAt, SMT DEF User, Places, Reasons

\* deregisterLoop changes where the thread is and which entry it looks at.
LEMMA SpotOfScan ==
  ASSUME TypeOK, NEW t \in Threads, NEW place \in Places, NEW todo \in SUBSET Threads,
         NEW entry \in Threads \cup {NoThread}
  PROVE  /\ [pc[t] EXCEPT !.at = place, !.todo = todo] \in Spots
         /\ [pc[t] EXCEPT !.todo = todo, !.entry = entry, !.at = place] \in Spots
         /\ [pc[t] EXCEPT !.at = place, !.entry = entry] \in Spots
         /\ [pc[t] EXCEPT !.at = place] \in Spots
<1>1. pc[t] \in Spots
  BY SMT DEF TypeOK, Spots
<1>2. \A r \in Spots : [r EXCEPT !.at = place] \in Spots
  BY SMT DEF Spots
<1>3. \A r \in Spots : [r EXCEPT !.todo = todo] \in Spots
  BY SMT DEF Spots
<1>4. \A r \in Spots : [r EXCEPT !.entry = entry] \in Spots
  BY SMT DEF Spots
<1> QED  BY ONLY <1>1, <1>2, <1>3, <1>4, Zenon

LEMMA SpotOfReturned ==
  ASSUME TypeOK, PlacesFit, NEW t \in Threads, pc[t].at # "user"
  PROVE  Returned(t) \in Spots
<1>1. pc[t].loop \in Loops /\ pc[t].why \in Reasons
  BY SMT DEF TypeOK, PlacesFit
<1> QED  BY <1>1, SpotOfAt, SMT DEF Returned, Places

-----------------------------------------------------------------------------
(* One step of each action. *)

LEMMA LockStep ==
  ASSUME LoopInv, NEW t \in Threads, Lock(t)
  PROVE  LoopInv'
<1> USE ThreadsAssumption, LoopsAssumption, BoundsAssumption DEF LoopInv
<1>1. TypeOK'
  <2>1. [pc[t] EXCEPT !.at = "scan", !.todo = {u \in Threads : loopMap[u] # NoLoop}] \in Spots
    <3>1. {u \in Threads : loopMap[u] # NoLoop} \in SUBSET Threads
      OBVIOUS
    <3>2. "scan" \in Places
      BY DEF Places
    <3> QED  BY <3>1, <3>2, SpotOfScan, Zenon
  <2>2. pc' \in [Threads -> Spots]
    BY <2>1, SpotOfGoto, SMT DEF Lock, Goto
  <2> QED  BY <2>2, SMT DEF TypeOK, PlacesFit, Spots, Lock, fieldVars, runVars, historyVars
<1>2. PlacesFit'
  BY SMT DEF TypeOK, PlacesFit, User, At, Lock, Goto, fieldVars, runVars, historyVars
<1>3. LockFits'
  BY SMT DEF TypeOK, PlacesFit, User, At, LockFits, Lock, Goto, fieldVars, runVars,
     historyVars
<1>4. ReferencesFit'
  BY SMT DEF TypeOK, PlacesFit, User, At, ReferencesFit, Alive, Lock, Goto, fieldVars,
     runVars, historyVars
<1>5. RunFits'
  BY SMT DEF TypeOK, PlacesFit, User, At, RunFits, Runs, Lock, Goto, fieldVars, runVars,
     historyVars
<1>6. OwnersFit'
  BY SMT DEF TypeOK, PlacesFit, User, At, OwnersFit, Registering, Lock, Goto, fieldVars,
     runVars, historyVars
<1>7. EntriesFit'
  BY SMT DEF TypeOK, PlacesFit, User, At, OwnersFit, Registering, EntriesFit, EntriesOf,
     Lock, Goto, fieldVars, runVars, historyVars
<1> QED  BY <1>1, <1>2, <1>3, <1>4, <1>5, <1>6, <1>7

LEMMA VisitStep ==
  ASSUME LoopInv, NEW t \in Threads, NEW u \in Threads, Visit(t, u)
  PROVE  LoopInv'
<1> USE ThreadsAssumption, LoopsAssumption, BoundsAssumption DEF LoopInv
<1>1. TypeOK'
  <2>1. [pc[t] EXCEPT !.todo = @ \ {u}, !.entry = u, !.at = IF Alive(u) THEN "held" ELSE "scan"] \in Spots
    <3>1. pc[t].todo \ {u} \in SUBSET Threads
      BY SMT DEF TypeOK
    <3>2. (IF Alive(u) THEN "held" ELSE "scan") \in Places
      BY SMT DEF Places
    <3> QED  BY <3>1, <3>2, SpotOfScan, Zenon
  <2>2. pc' \in [Threads -> Spots]
    BY <2>1, SpotOfGoto, SMT DEF Visit, Goto
  <2> QED  BY <2>2, SMT DEF TypeOK, PlacesFit, Spots, Visit, fieldVars, runVars, historyVars
<1>2. PlacesFit'
  BY SMT DEF TypeOK, PlacesFit, User, At, Visit, Goto, Alive, fieldVars, runVars,
     historyVars
<1>3. LockFits'
  BY SMT DEF TypeOK, PlacesFit, User, At, LockFits, Visit, Goto, Alive, fieldVars,
     runVars, historyVars
<1>4. ReferencesFit'
  BY SMT DEF TypeOK, PlacesFit, User, At, ReferencesFit, Alive, Visit, Goto, fieldVars,
     runVars, historyVars
<1>5. RunFits'
  BY SMT DEF TypeOK, PlacesFit, User, At, RunFits, Runs, Visit, Goto, Alive, fieldVars,
     runVars, historyVars
<1>6. OwnersFit'
  BY SMT DEF TypeOK, PlacesFit, User, At, OwnersFit, Registering, Visit, Goto, Alive,
     fieldVars, runVars, historyVars
<1>7. EntriesFit'
  BY SMT DEF TypeOK, PlacesFit, User, At, OwnersFit, Registering, EntriesFit, EntriesOf,
     Visit, Goto, Alive, fieldVars, runVars, historyVars
<1> QED  BY <1>1, <1>2, <1>3, <1>4, <1>5, <1>6, <1>7

\* The reference was the last one.
LEMMA CompareStuckStep ==
  ASSUME LoopInv, NEW t \in Threads, Compare(t), loopMap[pc[t].entry] \notin holds[t] /\
         LastReference(t, loopMap[pc[t].entry])
  PROVE  LoopInv'
<1> USE ThreadsAssumption, LoopsAssumption, BoundsAssumption DEF LoopInv
<1>0. /\ pc[t].at = "held"
      /\ pc' = [pc EXCEPT ![t] = [pc[t] EXCEPT !.at = "stuck"]]
      /\ life' = [life EXCEPT ![loopMap[pc[t].entry]] = "dying"]
      /\ UNCHANGED <<loopMap, lock, holds, handles, started, threadId, running, runs, mine, last>>
  BY SMT DEF Compare, Goto, fieldVars, runVars, historyVars
<1>1. TypeOK'
  <2>1. [pc[t] EXCEPT !.at = "stuck"] \in Spots
    BY SpotOfScan, Zenon DEF Places
  <2>2. pc' \in [Threads -> Spots]
    BY <1>0, <2>1, SpotOfGoto, SMT
  <2> QED  BY <1>0, <2>2, SMT DEF TypeOK, PlacesFit, ReferencesFit, Alive, Spots
<1>2. PlacesFit'
  BY <1>0, SMT DEF TypeOK, PlacesFit, User, At, LastReference, Held
<1>3. LockFits'
  BY <1>0, SMT DEF TypeOK, PlacesFit, User, At, LockFits, LastReference, Held
<1>4. ReferencesFit'
  BY <1>0, SMT DEF TypeOK, PlacesFit, User, At, ReferencesFit, Alive, LastReference,
     Held
<1>5. RunFits'
  BY <1>0, SMT DEF TypeOK, PlacesFit, User, At, RunFits, Runs, LastReference, Held
<1>6. OwnersFit'
  BY <1>0, SMT DEF TypeOK, PlacesFit, User, At, OwnersFit, Registering, LastReference,
     Held
<1>7. EntriesFit'
  BY <1>0, SMT DEF TypeOK, PlacesFit, User, At, OwnersFit, Registering, EntriesFit,
     EntriesOf, LastReference, Held
<1> QED  BY <1>1, <1>2, <1>3, <1>4, <1>5, <1>6, <1>7

\* The entry of the loop is removed.
LEMMA CompareFoundStep ==
  ASSUME LoopInv, NEW t \in Threads, Compare(t), loopMap[pc[t].entry] \in holds[t] \/
         ~LastReference(t, loopMap[pc[t].entry]), loopMap[pc[t].entry] = pc[t].loop
  PROVE  LoopInv'
<1> USE ThreadsAssumption, LoopsAssumption, BoundsAssumption DEF LoopInv
<1>0. /\ pc[t].at = "held"
      /\ pc' = [pc EXCEPT ![t] = Returned(t)]
      /\ loopMap' = [loopMap EXCEPT ![pc[t].entry] = NoLoop]
      /\ lock' = NoThread
      /\ UNCHANGED <<life, holds, handles, started, threadId, running, runs, mine, last>>
  BY SMT DEF Compare, Goto, fieldVars, runVars, historyVars
<1>1. TypeOK'
  <2>1. Returned(t) \in Spots
    BY <1>0, SpotOfReturned, SMT
  <2>2. pc' \in [Threads -> Spots]
    BY <1>0, <2>1, SpotOfGoto, SMT
  <2> QED  BY <1>0, <2>2, SMT DEF TypeOK, PlacesFit, ReferencesFit, Alive, Spots
<1>2. PlacesFit'
  BY <1>0, SMT DEF TypeOK, PlacesFit, User, At, Returned, LastReference, Held
<1>3. LockFits'
  BY <1>0, SMT DEF TypeOK, PlacesFit, User, At, LockFits, Returned, LastReference, Held
<1>4. ReferencesFit'
  BY <1>0, SMT DEF TypeOK, PlacesFit, User, At, LockFits, ReferencesFit, Alive,
     Returned, LastReference, Held
<1>5. RunFits'
  BY <1>0, SMT DEF TypeOK, PlacesFit, User, At, RunFits, Runs, Returned, LastReference,
     Held
<1>6. OwnersFit'
  BY <1>0, SMT DEF TypeOK, PlacesFit, User, At, OwnersFit, Registering, Returned,
     LastReference, Held
<1>7. EntriesFit'
  BY <1>0, SMT DEF TypeOK, PlacesFit, User, At, ReferencesFit, Alive, OwnersFit,
     Registering, EntriesFit, EntriesOf, Returned, LastReference, Held
<1> QED  BY <1>1, <1>2, <1>3, <1>4, <1>5, <1>6, <1>7

\* The scan goes on.
LEMMA CompareOtherStep ==
  ASSUME LoopInv, NEW t \in Threads, Compare(t), loopMap[pc[t].entry] \in holds[t] \/
         ~LastReference(t, loopMap[pc[t].entry]), loopMap[pc[t].entry] # pc[t].loop
  PROVE  LoopInv'
<1> USE ThreadsAssumption, LoopsAssumption, BoundsAssumption DEF LoopInv
<1>0. /\ pc[t].at = "held"
      /\ pc' = [pc EXCEPT ![t] = [pc[t] EXCEPT !.at = "scan", !.entry = NoThread]]
      /\ UNCHANGED <<loopMap, lock, life, holds, handles, started, threadId, running, runs, mine, last>>
  BY SMT DEF Compare, Goto, fieldVars, runVars, historyVars
<1>1. TypeOK'
  <2>1. [pc[t] EXCEPT !.at = "scan", !.entry = NoThread] \in Spots
    BY SpotOfScan, Zenon DEF Places
  <2>2. pc' \in [Threads -> Spots]
    BY <1>0, <2>1, SpotOfGoto, SMT
  <2> QED  BY <1>0, <2>2, SMT DEF TypeOK, PlacesFit, ReferencesFit, Alive, Spots
<1>2. PlacesFit'
  BY <1>0, SMT DEF TypeOK, PlacesFit, User, At, LastReference, Held
<1>3. LockFits'
  BY <1>0, SMT DEF TypeOK, PlacesFit, User, At, LockFits, LastReference, Held
<1>4. ReferencesFit'
  BY <1>0, SMT DEF TypeOK, PlacesFit, User, At, ReferencesFit, Alive, LastReference,
     Held
<1>5. RunFits'
  BY <1>0, SMT DEF TypeOK, PlacesFit, User, At, RunFits, Runs, LastReference, Held
<1>6. OwnersFit'
  BY <1>0, SMT DEF TypeOK, PlacesFit, User, At, OwnersFit, Registering, LastReference,
     Held
<1>7. EntriesFit'
  BY <1>0, SMT DEF TypeOK, PlacesFit, User, At, OwnersFit, Registering, EntriesFit,
     EntriesOf, LastReference, Held
<1> QED  BY <1>1, <1>2, <1>3, <1>4, <1>5, <1>6, <1>7

LEMMA CompareStep ==
  ASSUME LoopInv, NEW t \in Threads, Compare(t)
  PROVE  LoopInv'
BY CompareStuckStep, CompareFoundStep, CompareOtherStep

LEMMA NotFoundStep ==
  ASSUME LoopInv, NEW t \in Threads, NotFound(t)
  PROVE  LoopInv'
<1> USE ThreadsAssumption, LoopsAssumption, BoundsAssumption DEF LoopInv
<1>1. TypeOK'
  <2>1. Returned(t) \in Spots
    BY SpotOfReturned, SMT DEF NotFound
  <2>2. pc' \in [Threads -> Spots]
    BY <2>1, SpotOfGoto, SMT DEF NotFound, Goto
  <2> QED  BY <2>2, SMT DEF TypeOK, PlacesFit, Spots, NotFound, fieldVars, runVars, historyVars
<1>2. PlacesFit'
  BY SMT DEF TypeOK, PlacesFit, User, At, NotFound, Goto, Returned, fieldVars, runVars,
     historyVars
<1>3. LockFits'
  BY SMT DEF TypeOK, PlacesFit, User, At, LockFits, NotFound, Goto, Returned, fieldVars,
     runVars, historyVars
<1>4. ReferencesFit'
  BY SMT DEF TypeOK, PlacesFit, User, At, ReferencesFit, Alive, NotFound, Goto,
     Returned, fieldVars, runVars, historyVars
<1>5. RunFits'
  BY SMT DEF TypeOK, PlacesFit, User, At, RunFits, Runs, NotFound, Goto, Returned,
     fieldVars, runVars, historyVars
<1>6. OwnersFit'
  BY SMT DEF TypeOK, PlacesFit, User, At, OwnersFit, Registering, NotFound, Goto,
     Returned, fieldVars, runVars, historyVars
<1>7. EntriesFit'
  BY SMT DEF TypeOK, PlacesFit, User, At, OwnersFit, Registering, EntriesFit, EntriesOf,
     NotFound, Goto, Returned, fieldVars, runVars, historyVars
<1> QED  BY <1>1, <1>2, <1>3, <1>4, <1>5, <1>6, <1>7

\* uv_run follows.
LEMMA AddRunStep ==
  ASSUME LoopInv, NEW t \in Threads, Add(t), pc[t].why = "run"
  PROVE  LoopInv'
<1> USE ThreadsAssumption, LoopsAssumption, BoundsAssumption DEF LoopInv
<1>0. /\ pc[t].at = "add" /\ lock = NoThread
      /\ loopMap' = [loopMap EXCEPT ![t] = pc[t].loop]
      /\ mine' = [mine EXCEPT ![t] = pc[t].loop]
      /\ pc' = [pc EXCEPT ![t] = User]
      /\ running' = [running EXCEPT ![t] = pc[t].loop]
      /\ UNCHANGED <<lock, life, holds, handles, started, threadId, runs, last>>
  BY SMT DEF Add, Goto, fieldVars
<1>1. TypeOK'
  <2>1. User \in Spots
    BY SpotOfUser
  <2>2. pc' \in [Threads -> Spots]
    BY <1>0, <2>1, SpotOfGoto, SMT
  <2> QED  BY <1>0, <2>2, SMT DEF TypeOK, PlacesFit, ReferencesFit, Alive, Spots
<1>2. PlacesFit'
  BY <1>0, SMT DEF TypeOK, PlacesFit, User, At
<1>3. LockFits'
  BY <1>0, SMT DEF TypeOK, PlacesFit, User, At, LockFits
<1>4. ReferencesFit'
  BY <1>0, SMT DEF TypeOK, PlacesFit, User, At, ReferencesFit, Alive
<1>5. RunFits'
  BY <1>0, SMT DEF TypeOK, PlacesFit, User, At, RunFits, Runs
<1>6. OwnersFit'
  BY <1>0, SMT DEF TypeOK, PlacesFit, User, At, ReferencesFit, Alive, OwnersFit,
     Registering
<1>7. EntriesFit'
  <2> SUFFICES ASSUME NEW k \in Loops
               PROVE  /\ life[k] = "new" => \A u \in Threads : loopMap'[u] # k
                      /\ life[k] = "alive" => EntriesOf(k)'
    BY <1>0, SMT DEF EntriesFit, EntriesOf, Registering
  <2>1. CASE k = pc[t].loop
    BY <1>0, <2>1, SMT DEF TypeOK, PlacesFit, LockFits, ReferencesFit, OwnersFit, EntriesFit, EntriesOf, Registering, User, At
  <2>2. CASE k # pc[t].loop
    BY <1>0, <2>2, SMT DEF TypeOK, PlacesFit, LockFits, ReferencesFit, OwnersFit, EntriesFit, EntriesOf, Registering, User, At
  <2> QED  BY <2>1, <2>2
<1> QED  BY <1>1, <1>2, <1>3, <1>4, <1>5, <1>6, <1>7

\* Create() returns.
LEMMA AddCreateStep ==
  ASSUME LoopInv, NEW t \in Threads, Add(t), pc[t].why # "run"
  PROVE  LoopInv'
<1> USE ThreadsAssumption, LoopsAssumption, BoundsAssumption DEF LoopInv
<1>0. /\ pc[t].at = "add" /\ lock = NoThread
      /\ loopMap' = [loopMap EXCEPT ![t] = pc[t].loop]
      /\ mine' = [mine EXCEPT ![t] = pc[t].loop]
      /\ pc' = [pc EXCEPT ![t] = User]
      /\ UNCHANGED <<running, lock, life, holds, handles, started, threadId, runs, last>>
  BY SMT DEF Add, Goto, fieldVars
<1>1. TypeOK'
  <2>1. User \in Spots
    BY SpotOfUser
  <2>2. pc' \in [Threads -> Spots]
    BY <1>0, <2>1, SpotOfGoto, SMT
  <2> QED  BY <1>0, <2>2, SMT DEF TypeOK, PlacesFit, ReferencesFit, Alive, Spots
<1>2. PlacesFit'
  BY <1>0, SMT DEF TypeOK, PlacesFit, User, At
<1>3. LockFits'
  BY <1>0, SMT DEF TypeOK, PlacesFit, User, At, LockFits
<1>4. ReferencesFit'
  BY <1>0, SMT DEF TypeOK, PlacesFit, User, At, ReferencesFit, Alive
<1>5. RunFits'
  BY <1>0, SMT DEF TypeOK, PlacesFit, User, At, RunFits, Runs
<1>6. OwnersFit'
  BY <1>0, SMT DEF TypeOK, PlacesFit, User, At, ReferencesFit, Alive, OwnersFit,
     Registering
<1>7. EntriesFit'
  BY <1>0, SMT DEF TypeOK, PlacesFit, User, At, ReferencesFit, Alive, OwnersFit,
     Registering, EntriesFit, EntriesOf
<1> QED  BY <1>1, <1>2, <1>3, <1>4, <1>5, <1>6, <1>7

LEMMA AddStep ==
  ASSUME LoopInv, NEW t \in Threads, Add(t)
  PROVE  LoopInv'
BY AddRunStep, AddCreateStep

LEMMA GetInstanceStep ==
  ASSUME LoopInv, NEW t \in Threads, NEW u \in Threads, GetInstance(t, u)
  PROVE  LoopInv'
<1> USE ThreadsAssumption, LoopsAssumption, BoundsAssumption DEF LoopInv
<1>1. TypeOK'
  BY SMT DEF TypeOK, GetInstance, InUser, Alive, fieldVars, runVars, historyVars
<1>2. PlacesFit'
  BY SMT DEF TypeOK, PlacesFit, User, At, GetInstance, InUser, Alive, fieldVars,
     runVars, historyVars
<1>3. LockFits'
  BY SMT DEF TypeOK, PlacesFit, User, At, LockFits, GetInstance, InUser, Alive,
     fieldVars, runVars, historyVars
<1>4. ReferencesFit'
  BY SMT DEF TypeOK, PlacesFit, User, At, ReferencesFit, Alive, GetInstance, InUser,
     fieldVars, runVars, historyVars
<1>5. RunFits'
  BY SMT DEF TypeOK, PlacesFit, User, At, RunFits, Runs, GetInstance, InUser, Alive,
     fieldVars, runVars, historyVars
<1>6. OwnersFit'
  BY SMT DEF TypeOK, PlacesFit, User, At, OwnersFit, Registering, GetInstance, InUser,
     Alive, fieldVars, runVars, historyVars
<1>7. EntriesFit'
  BY SMT DEF TypeOK, PlacesFit, User, At, OwnersFit, Registering, EntriesFit, EntriesOf,
     GetInstance, InUser, Alive, fieldVars, runVars, historyVars
<1> QED  BY <1>1, <1>2, <1>3, <1>4, <1>5, <1>6, <1>7

LEMMA CreateStep ==
  ASSUME LoopInv, NEW t \in Threads, Create(t)
  PROVE  LoopInv'
<1> USE ThreadsAssumption, LoopsAssumption, BoundsAssumption DEF LoopInv
<1>1. TypeOK'
  <2>0. PICK l \in Loops :
         /\ life[l] = "new"
         /\ life' = [life EXCEPT ![l] = "alive"]
         /\ holds' = [holds EXCEPT ![t] = @ \cup {l}]
         /\ Deregister(t, "create", l)
    BY DEF Create
  <2>1. At("erase", "create", l) \in Spots
    BY SpotOfAt, SMT DEF Places, Reasons
  <2>2. pc' \in [Threads -> Spots]
    BY <2>0, <2>1, SpotOfGoto, SMT DEF Deregister, Goto
  <2>3. last' = [last EXCEPT ![l] = t] /\ UNCHANGED mine
    BY <2>0, SMT DEF Deregister
  <2>4. UNCHANGED <<loopMap, lock, handles, started, threadId, running, runs>>
    BY SMT DEF Create, fieldVars, runVars
  <2>5. life' \in [Loops -> {"new", "alive", "dying", "dead"}] /\ holds' \in [Threads -> SUBSET Loops]
    BY <2>0, SMT DEF TypeOK
  <2>6. last' \in [Loops -> Threads \cup {NoThread}] /\ mine' \in [Threads -> Loops \cup {NoLoop}]
    BY <2>3, SMT DEF TypeOK
  <2> QED  BY <2>2, <2>4, <2>5, <2>6, SMT DEF TypeOK, Spots
<1>2. PlacesFit'
  BY SMT DEF TypeOK, PlacesFit, User, At, Create, InUser, Deregister, fieldVars,
     runVars, Goto
<1>3. LockFits'
  BY SMT DEF TypeOK, PlacesFit, User, At, LockFits, Create, InUser, Deregister,
     fieldVars, runVars, Goto
<1>4. ReferencesFit'
  BY SMT DEF TypeOK, PlacesFit, User, At, ReferencesFit, Alive, Create, InUser,
     Deregister, fieldVars, runVars, Goto
<1>5. RunFits'
  BY SMT DEF TypeOK, PlacesFit, User, At, RunFits, Runs, Create, InUser, Deregister,
     fieldVars, runVars, Goto
<1>6. OwnersFit'
  BY SMT DEF TypeOK, PlacesFit, User, At, ReferencesFit, Alive, OwnersFit, Registering,
     EntriesFit, EntriesOf, Create, InUser, Deregister, fieldVars, runVars, Goto
<1>7. EntriesFit'
  BY SMT DEF TypeOK, PlacesFit, User, At, OwnersFit, Registering, EntriesFit, EntriesOf,
     Create, InUser, Deregister, fieldVars, runVars, Goto
<1> QED  BY <1>1, <1>2, <1>3, <1>4, <1>5, <1>6, <1>7

\* ~Loop is called.
LEMMA ReleaseLastStep ==
  ASSUME LoopInv, NEW t \in Threads, NEW l \in Loops, Release(t, l), LastReference(t, l)
  PROVE  LoopInv'
<1> USE ThreadsAssumption, LoopsAssumption, BoundsAssumption DEF LoopInv
<1>0. /\ pc[t].at = "user" /\ l \in holds[t] /\ running[t] # l
      /\ holds' = [holds EXCEPT ![t] = @ \ {l}]
      /\ pc' = [pc EXCEPT ![t] = At("erase", "destroy", l)]
      /\ life' = [life EXCEPT ![l] = "dying"]
      /\ UNCHANGED <<loopMap, lock, handles, started, threadId, running, runs, mine, last>>
  BY SMT DEF Release, Deregister, InUser, Goto, fieldVars, runVars, historyVars
<1>1. TypeOK'
  <2>1. At("erase", "destroy", l) \in Spots
    BY SpotOfAt, SMT DEF Places, Reasons
  <2>2. pc' \in [Threads -> Spots]
    BY <1>0, <2>1, SpotOfGoto, SMT
  <2> QED  BY <1>0, <2>2, SMT DEF TypeOK, PlacesFit, ReferencesFit, Alive, Spots
<1>2. PlacesFit'
  BY <1>0, SMT DEF TypeOK, PlacesFit, User, At, LastReference, Held
<1>3. LockFits'
  BY <1>0, SMT DEF TypeOK, PlacesFit, User, At, LockFits, LastReference, Held
<1>4. ReferencesFit'
  BY <1>0, SMT DEF TypeOK, PlacesFit, User, At, ReferencesFit, Alive, LastReference,
     Held
<1>5. RunFits'
  BY <1>0, SMT DEF TypeOK, PlacesFit, User, At, RunFits, Runs, LastReference, Held
<1>6. OwnersFit'
  BY <1>0, SMT DEF TypeOK, PlacesFit, User, At, ReferencesFit, Alive, OwnersFit,
     Registering, LastReference, Held
<1>7. EntriesFit'
  BY <1>0, SMT DEF TypeOK, PlacesFit, User, At, OwnersFit, Registering, EntriesFit,
     EntriesOf, LastReference, Held
<1> QED  BY <1>1, <1>2, <1>3, <1>4, <1>5, <1>6, <1>7

\* Others have references.
LEMMA ReleaseKeptStep ==
  ASSUME LoopInv, NEW t \in Threads, NEW l \in Loops, Release(t, l), ~LastReference(t,
         l)
  PROVE  LoopInv'
<1> USE ThreadsAssumption, LoopsAssumption, BoundsAssumption DEF LoopInv
<1>0. /\ pc[t].at = "user" /\ l \in holds[t] /\ running[t] # l
      /\ holds' = [holds EXCEPT ![t] = @ \ {l}]
      /\ UNCHANGED <<pc, life, loopMap, lock, handles, started, threadId, running, runs, mine, last>>
  BY SMT DEF Release, Deregister, InUser, Goto, fieldVars, runVars, historyVars
<1>1. TypeOK'
  BY <1>0, SMT DEF TypeOK, LastReference, Held
<1>2. PlacesFit'
  BY <1>0, SMT DEF TypeOK, PlacesFit, User, At, LastReference, Held
<1>3. LockFits'
  BY <1>0, SMT DEF TypeOK, PlacesFit, User, At, LockFits, LastReference, Held
<1>4. ReferencesFit'
  BY <1>0, SMT DEF TypeOK, PlacesFit, User, At, ReferencesFit, Alive, LastReference,
     Held
<1>5. RunFits'
  BY <1>0, SMT DEF TypeOK, PlacesFit, User, At, RunFits, Runs, LastReference, Held
<1>6. OwnersFit'
  BY <1>0, SMT DEF TypeOK, PlacesFit, User, At, OwnersFit, Registering, LastReference,
     Held
<1>7. EntriesFit'
  BY <1>0, SMT DEF TypeOK, PlacesFit, User, At, OwnersFit, Registering, EntriesFit,
     EntriesOf, LastReference, Held
<1> QED  BY <1>1, <1>2, <1>3, <1>4, <1>5, <1>6, <1>7

LEMMA ReleaseStep ==
  ASSUME LoopInv, NEW t \in Threads, NEW l \in Loops, Release(t, l)
  PROVE  LoopInv'
BY ReleaseLastStep, ReleaseKeptStep

LEMMA CloseStep ==
  ASSUME LoopInv, NEW t \in Threads, Close(t)
  PROVE  LoopInv'
<1> USE ThreadsAssumption, LoopsAssumption, BoundsAssumption DEF LoopInv
<1>1. TypeOK'
  <2>1. User \in Spots
    BY SpotOfUser
  <2>2. pc' \in [Threads -> Spots]
    BY <2>1, SpotOfGoto, SMT DEF Close, Goto
  <2> QED  BY <2>2, SMT DEF TypeOK, PlacesFit, Spots, Close, fieldVars, runVars, historyVars
<1>2. PlacesFit'
  BY SMT DEF TypeOK, PlacesFit, User, At, Close, Goto, fieldVars, runVars, historyVars
<1>3. LockFits'
  BY SMT DEF TypeOK, PlacesFit, User, At, LockFits, Close, Goto, fieldVars, runVars,
     historyVars
<1>4. ReferencesFit'
  BY SMT DEF TypeOK, PlacesFit, User, At, LockFits, ReferencesFit, Alive, OwnersFit,
     Registering, Close, Goto, fieldVars, runVars, historyVars
<1>5. RunFits'
  BY SMT DEF TypeOK, PlacesFit, User, At, RunFits, Runs, Close, Goto, fieldVars,
     runVars, historyVars
<1>6. OwnersFit'
  BY SMT DEF TypeOK, PlacesFit, User, At, OwnersFit, Registering, Close, Goto,
     fieldVars, runVars, historyVars
<1>7. EntriesFit'
  BY SMT DEF TypeOK, PlacesFit, User, At, OwnersFit, Registering, EntriesFit, EntriesOf,
     Close, Goto, fieldVars, runVars, historyVars
<1> QED  BY <1>1, <1>2, <1>3, <1>4, <1>5, <1>6, <1>7

LEMMA OpenStep ==
  ASSUME LoopInv, NEW t \in Threads, NEW l \in Loops, Open(t, l)
  PROVE  LoopInv'
<1> USE ThreadsAssumption, LoopsAssumption, BoundsAssumption DEF LoopInv
<1>1. TypeOK'
  BY SMT DEF TypeOK, Open, InUser, fieldVars, runVars, historyVars
<1>2. PlacesFit'
  BY SMT DEF TypeOK, PlacesFit, User, At, Open, InUser, fieldVars, runVars, historyVars
<1>3. LockFits'
  BY SMT DEF TypeOK, PlacesFit, User, At, LockFits, Open, InUser, fieldVars, runVars,
     historyVars
<1>4. ReferencesFit'
  BY SMT DEF TypeOK, PlacesFit, User, At, ReferencesFit, Alive, Open, InUser, fieldVars,
     runVars, historyVars
<1>5. RunFits'
  BY SMT DEF TypeOK, PlacesFit, User, At, RunFits, Runs, Open, InUser, fieldVars,
     runVars, historyVars
<1>6. OwnersFit'
  BY SMT DEF TypeOK, PlacesFit, User, At, OwnersFit, Registering, Open, InUser,
     fieldVars, runVars, historyVars
<1>7. EntriesFit'
  BY SMT DEF TypeOK, PlacesFit, User, At, OwnersFit, Registering, EntriesFit, EntriesOf,
     Open, InUser, fieldVars, runVars, historyVars
<1> QED  BY <1>1, <1>2, <1>3, <1>4, <1>5, <1>6, <1>7

LEMMA ClosedStep ==
  ASSUME LoopInv, NEW t \in Threads, Closed(t)
  PROVE  LoopInv'
<1> USE ThreadsAssumption, LoopsAssumption, BoundsAssumption DEF LoopInv
<1>1. TypeOK'
  BY SMT DEF TypeOK, Closed, InUser, fieldVars, runVars, historyVars
<1>2. PlacesFit'
  BY SMT DEF TypeOK, PlacesFit, User, At, Closed, InUser, fieldVars, runVars,
     historyVars
<1>3. LockFits'
  BY SMT DEF TypeOK, PlacesFit, User, At, LockFits, Closed, InUser, fieldVars, runVars,
     historyVars
<1>4. ReferencesFit'
  BY SMT DEF TypeOK, PlacesFit, User, At, ReferencesFit, Alive, Closed, InUser,
     fieldVars, runVars, historyVars
<1>5. RunFits'
  BY SMT DEF TypeOK, PlacesFit, User, At, RunFits, Runs, Closed, InUser, fieldVars,
     runVars, historyVars
<1>6. OwnersFit'
  BY SMT DEF TypeOK, PlacesFit, User, At, OwnersFit, Registering, Closed, InUser,
     fieldVars, runVars, historyVars
<1>7. EntriesFit'
  BY SMT DEF TypeOK, PlacesFit, User, At, OwnersFit, Registering, EntriesFit, EntriesOf,
     Closed, InUser, fieldVars, runVars, historyVars
<1> QED  BY <1>1, <1>2, <1>3, <1>4, <1>5, <1>6, <1>7

\* _started is stored first.
LEMMA RunStartedStep ==
  ASSUME LoopInv, NEW t \in Threads, NEW l \in Loops, Run(t, l), started' # started
  PROVE  LoopInv'
<1> USE ThreadsAssumption, LoopsAssumption, BoundsAssumption DEF LoopInv
<1>0. /\ pc[t].at = "user" /\ running[t] = NoLoop /\ l \in holds[t]
      /\ \A u \in Threads : ~Runs(u, l)
      /\ runs < MaxRuns /\ runs' = runs + 1
      /\ pc' = [pc EXCEPT ![t] = At("store", "run", l)]
      /\ started' = [started EXCEPT ![l] = TRUE]
      /\ UNCHANGED <<threadId, loopMap, lock, life, holds, handles, running, mine, last>>
  BY SMT DEF Run, InUser, Goto, historyVars
<1>1. TypeOK'
  <2>1. At("store", "run", l) \in Spots
    BY SpotOfAt, SMT DEF Places, Reasons
  <2>2. pc' \in [Threads -> Spots]
    BY <1>0, <2>1, SpotOfGoto, SMT
  <2> QED  BY <1>0, <2>2, SMT DEF TypeOK, PlacesFit, ReferencesFit, Alive, Spots
<1>2. PlacesFit'
  BY <1>0, SMT DEF TypeOK, PlacesFit, User, At, Runs
<1>3. LockFits'
  BY <1>0, SMT DEF TypeOK, PlacesFit, User, At, LockFits, Runs
<1>4. ReferencesFit'
  BY <1>0, SMT DEF TypeOK, PlacesFit, User, At, ReferencesFit, Alive, Runs
<1>5. RunFits'
  BY <1>0, SMT DEF TypeOK, PlacesFit, User, At, RunFits, Runs
<1>6. OwnersFit'
  BY <1>0, SMT DEF TypeOK, PlacesFit, User, At, OwnersFit, Registering, Runs
<1>7. EntriesFit'
  BY <1>0, SMT DEF TypeOK, PlacesFit, User, At, OwnersFit, Registering, EntriesFit,
     EntriesOf, Runs
<1> QED  BY <1>1, <1>2, <1>3, <1>4, <1>5, <1>6, <1>7

\* _threadId is.
LEMMA RunThreadStep ==
  ASSUME LoopInv, NEW t \in Threads, NEW l \in Loops, Run(t, l), started' = started
  PROVE  LoopInv'
<1> USE ThreadsAssumption, LoopsAssumption, BoundsAssumption DEF LoopInv
<1>0. /\ pc[t].at = "user" /\ running[t] = NoLoop /\ l \in holds[t]
      /\ \A u \in Threads : ~Runs(u, l)
      /\ runs < MaxRuns /\ runs' = runs + 1
      /\ pc' = [pc EXCEPT ![t] = At("store", "run", l)]
      /\ threadId' = [threadId EXCEPT ![l] = t] \/ threadId' = threadId
      /\ UNCHANGED <<started, loopMap, lock, life, holds, handles, running, mine, last>>
  BY SMT DEF Run, InUser, Goto, historyVars
<1>1. TypeOK'
  <2>1. At("store", "run", l) \in Spots
    BY SpotOfAt, SMT DEF Places, Reasons
  <2>2. pc' \in [Threads -> Spots]
    BY <1>0, <2>1, SpotOfGoto, SMT
  <2> QED  BY <1>0, <2>2, SMT DEF TypeOK, PlacesFit, ReferencesFit, Alive, Spots
<1>2. PlacesFit'
  BY <1>0, SMT DEF TypeOK, PlacesFit, User, At, Runs
<1>3. LockFits'
  BY <1>0, SMT DEF TypeOK, PlacesFit, User, At, LockFits, Runs
<1>4. ReferencesFit'
  BY <1>0, SMT DEF TypeOK, PlacesFit, User, At, ReferencesFit, Alive, Runs
<1>5. RunFits'
  BY <1>0, SMT DEF TypeOK, PlacesFit, User, At, RunFits, Runs
<1>6. OwnersFit'
  BY <1>0, SMT DEF TypeOK, PlacesFit, User, At, OwnersFit, Registering, Runs
<1>7. EntriesFit'
  BY <1>0, SMT DEF TypeOK, PlacesFit, User, At, OwnersFit, Registering, EntriesFit,
     EntriesOf, Runs
<1> QED  BY <1>1, <1>2, <1>3, <1>4, <1>5, <1>6, <1>7

LEMMA RunStep ==
  ASSUME LoopInv, NEW t \in Threads, NEW l \in Loops, Run(t, l)
  PROVE  LoopInv'
BY RunStartedStep, RunThreadStep

LEMMA RunRegisterStep ==
  ASSUME LoopInv, NEW t \in Threads, RunRegister(t)
  PROVE  LoopInv'
<1> USE ThreadsAssumption, LoopsAssumption, BoundsAssumption DEF LoopInv
<1>1. TypeOK'
  <2>1. At("erase", "run", pc[t].loop) \in Spots
    <3>1. pc[t].loop \in Loops
      BY SMT DEF PlacesFit, RunRegister
    <3> QED  BY <3>1, SpotOfAt, SMT DEF Places, Reasons
  <2>2. pc' \in [Threads -> Spots]
    BY <2>1, SpotOfGoto, SMT DEF RunRegister, Deregister, Goto
  <2> QED  BY <2>2, SMT DEF TypeOK, PlacesFit, Spots, RunRegister, Deregister, runVars
<1>2. PlacesFit'
  BY SMT DEF TypeOK, PlacesFit, User, At, RunRegister, Deregister, runVars, Goto
<1>3. LockFits'
  BY SMT DEF TypeOK, PlacesFit, User, At, LockFits, RunRegister, Deregister, runVars,
     Goto
<1>4. ReferencesFit'
  BY SMT DEF TypeOK, PlacesFit, User, At, ReferencesFit, Alive, RunRegister, Deregister,
     runVars, Goto
<1>5. RunFits'
  BY SMT DEF TypeOK, PlacesFit, User, At, RunFits, Runs, RunRegister, Deregister,
     runVars, Goto
<1>6. OwnersFit'
  BY SMT DEF TypeOK, PlacesFit, User, At, ReferencesFit, Alive, RunFits, Runs,
     OwnersFit, Registering, RunRegister, Deregister, runVars, Goto
<1>7. EntriesFit'
  BY SMT DEF TypeOK, PlacesFit, User, At, OwnersFit, Registering, EntriesFit, EntriesOf,
     RunRegister, Deregister, runVars, Goto
<1> QED  BY <1>1, <1>2, <1>3, <1>4, <1>5, <1>6, <1>7

LEMMA RunEndStep ==
  ASSUME LoopInv, NEW t \in Threads, RunEnd(t)
  PROVE  LoopInv'
<1> USE ThreadsAssumption, LoopsAssumption, BoundsAssumption DEF LoopInv
<1>1. TypeOK'
  BY SMT DEF TypeOK, RunEnd, InUser, historyVars
<1>2. PlacesFit'
  BY SMT DEF TypeOK, PlacesFit, User, At, RunEnd, InUser, historyVars
<1>3. LockFits'
  BY SMT DEF TypeOK, PlacesFit, User, At, LockFits, RunEnd, InUser, historyVars
<1>4. ReferencesFit'
  BY SMT DEF TypeOK, PlacesFit, User, At, ReferencesFit, Alive, RunEnd, InUser,
     historyVars
<1>5. RunFits'
  BY SMT DEF TypeOK, PlacesFit, User, At, RunFits, Runs, RunEnd, InUser, historyVars
<1>6. OwnersFit'
  BY SMT DEF TypeOK, PlacesFit, User, At, OwnersFit, Registering, RunEnd, InUser,
     historyVars
<1>7. EntriesFit'
  BY SMT DEF TypeOK, PlacesFit, User, At, OwnersFit, Registering, EntriesFit, EntriesOf,
     RunEnd, InUser, historyVars
<1> QED  BY <1>1, <1>2, <1>3, <1>4, <1>5, <1>6, <1>7

\* In a callback of the loop.
LEMMA ThenInRunStep ==
  ASSUME LoopInv, NEW t \in Threads, NEW l \in Loops, Then(t, l), isOnEventLoopThread(t,
         l), \E u \in Threads : running[u] = l
  PROVE  LoopInv'
<1> USE ThreadsAssumption, LoopsAssumption, BoundsAssumption DEF LoopInv
<1>0. /\ pc[t].at = "user" /\ l \in holds[t]
      /\ pc' = [pc EXCEPT ![t] = At("attach", "inRun", l)]
      /\ UNCHANGED <<handles, loopMap, lock, life, holds, started, threadId, running, runs, mine, last>>
  BY SMT DEF Then, InUser, Goto, fieldVars, runVars, historyVars
<1>1. TypeOK'
  <2>1. At("attach", "inRun", l) \in Spots
    BY SpotOfAt, SMT DEF Places, Reasons
  <2>2. pc' \in [Threads -> Spots]
    BY <1>0, <2>1, SpotOfGoto, SMT
  <2> QED  BY <1>0, <2>2, SMT DEF TypeOK, PlacesFit, ReferencesFit, Alive, Spots
<1>2. PlacesFit'
  BY <1>0, SMT DEF TypeOK, PlacesFit, User, At, isOnEventLoopThread
<1>3. LockFits'
  BY <1>0, SMT DEF TypeOK, PlacesFit, User, At, LockFits, isOnEventLoopThread
<1>4. ReferencesFit'
  BY <1>0, SMT DEF TypeOK, PlacesFit, User, At, ReferencesFit, Alive,
     isOnEventLoopThread
<1>5. RunFits'
  BY <1>0, SMT DEF TypeOK, PlacesFit, User, At, RunFits, Runs, isOnEventLoopThread
<1>6. OwnersFit'
  BY <1>0, SMT DEF TypeOK, PlacesFit, User, At, OwnersFit, Registering,
     isOnEventLoopThread
<1>7. EntriesFit'
  BY <1>0, SMT DEF TypeOK, PlacesFit, User, At, OwnersFit, Registering, EntriesFit,
     EntriesOf, isOnEventLoopThread
<1> QED  BY <1>1, <1>2, <1>3, <1>4, <1>5, <1>6, <1>7

\* Nobody runs the loop.
LEMMA ThenEarlyStep ==
  ASSUME LoopInv, NEW t \in Threads, NEW l \in Loops, Then(t, l), isOnEventLoopThread(t,
         l), \A u \in Threads : running[u] # l
  PROVE  LoopInv'
<1> USE ThreadsAssumption, LoopsAssumption, BoundsAssumption DEF LoopInv
<1>0. /\ pc[t].at = "user" /\ l \in holds[t]
      /\ pc' = [pc EXCEPT ![t] = At("attach", "early", l)]
      /\ UNCHANGED <<handles, loopMap, lock, life, holds, started, threadId, running, runs, mine, last>>
  BY SMT DEF Then, InUser, Goto, fieldVars, runVars, historyVars
<1>1. TypeOK'
  <2>1. At("attach", "early", l) \in Spots
    BY SpotOfAt, SMT DEF Places, Reasons
  <2>2. pc' \in [Threads -> Spots]
    BY <1>0, <2>1, SpotOfGoto, SMT
  <2> QED  BY <1>0, <2>2, SMT DEF TypeOK, PlacesFit, ReferencesFit, Alive, Spots
<1>2. PlacesFit'
  BY <1>0, SMT DEF TypeOK, PlacesFit, User, At, isOnEventLoopThread
<1>3. LockFits'
  BY <1>0, SMT DEF TypeOK, PlacesFit, User, At, LockFits, isOnEventLoopThread
<1>4. ReferencesFit'
  BY <1>0, SMT DEF TypeOK, PlacesFit, User, At, ReferencesFit, Alive,
     isOnEventLoopThread
<1>5. RunFits'
  BY <1>0, SMT DEF TypeOK, PlacesFit, User, At, RunFits, Runs, isOnEventLoopThread
<1>6. OwnersFit'
  BY <1>0, SMT DEF TypeOK, PlacesFit, User, At, OwnersFit, Registering,
     isOnEventLoopThread
<1>7. EntriesFit'
  BY <1>0, SMT DEF TypeOK, PlacesFit, User, At, OwnersFit, Registering, EntriesFit,
     EntriesOf, isOnEventLoopThread
<1> QED  BY <1>1, <1>2, <1>3, <1>4, <1>5, <1>6, <1>7

\* On another thread.
LEMMA ThenPostedStep ==
  ASSUME LoopInv, NEW t \in Threads, NEW l \in Loops, Then(t, l),
         ~isOnEventLoopThread(t, l)
  PROVE  LoopInv'
<1> USE ThreadsAssumption, LoopsAssumption, BoundsAssumption DEF LoopInv
<1>0. /\ pc[t].at = "user" /\ l \in holds[t]
      /\ handles[l] < MaxHandles
      /\ handles' = [handles EXCEPT ![l] = @ + 1]
      /\ UNCHANGED <<pc, loopMap, lock, life, holds, started, threadId, running, runs, mine, last>>
  BY SMT DEF Then, InUser, Goto, fieldVars, runVars, historyVars
<1>1. TypeOK'
  BY <1>0, SMT DEF TypeOK, isOnEventLoopThread
<1>2. PlacesFit'
  BY <1>0, SMT DEF TypeOK, PlacesFit, User, At, isOnEventLoopThread
<1>3. LockFits'
  BY <1>0, SMT DEF TypeOK, PlacesFit, User, At, LockFits, isOnEventLoopThread
<1>4. ReferencesFit'
  BY <1>0, SMT DEF TypeOK, PlacesFit, User, At, ReferencesFit, Alive,
     isOnEventLoopThread
<1>5. RunFits'
  BY <1>0, SMT DEF TypeOK, PlacesFit, User, At, RunFits, Runs, isOnEventLoopThread
<1>6. OwnersFit'
  BY <1>0, SMT DEF TypeOK, PlacesFit, User, At, OwnersFit, Registering,
     isOnEventLoopThread
<1>7. EntriesFit'
  BY <1>0, SMT DEF TypeOK, PlacesFit, User, At, OwnersFit, Registering, EntriesFit,
     EntriesOf, isOnEventLoopThread
<1> QED  BY <1>1, <1>2, <1>3, <1>4, <1>5, <1>6, <1>7

LEMMA ThenStep ==
  ASSUME LoopInv, NEW t \in Threads, NEW l \in Loops, Then(t, l)
  PROVE  LoopInv'
BY ThenInRunStep, ThenEarlyStep, ThenPostedStep

LEMMA ThenDoneStep ==
  ASSUME LoopInv, NEW t \in Threads, ThenDone(t)
  PROVE  LoopInv'
<1> USE ThreadsAssumption, LoopsAssumption, BoundsAssumption DEF LoopInv
<1>1. TypeOK'
  <2>1. User \in Spots
    BY SpotOfUser
  <2>2. pc' \in [Threads -> Spots]
    BY <2>1, SpotOfGoto, SMT DEF ThenDone, Goto
  <2> QED  BY <2>2, SMT DEF TypeOK, PlacesFit, Spots, ThenDone, fieldVars, runVars, historyVars
<1>2. PlacesFit'
  BY SMT DEF TypeOK, PlacesFit, User, At, ThenDone, Goto, fieldVars, runVars,
     historyVars
<1>3. LockFits'
  BY SMT DEF TypeOK, PlacesFit, User, At, LockFits, ThenDone, Goto, fieldVars, runVars,
     historyVars
<1>4. ReferencesFit'
  BY SMT DEF TypeOK, PlacesFit, User, At, ReferencesFit, Alive, ThenDone, Goto,
     fieldVars, runVars, historyVars
<1>5. RunFits'
  BY SMT DEF TypeOK, PlacesFit, User, At, RunFits, Runs, ThenDone, Goto, fieldVars,
     runVars, historyVars
<1>6. OwnersFit'
  BY SMT DEF TypeOK, PlacesFit, User, At, OwnersFit, Registering, ThenDone, Goto,
     fieldVars, runVars, historyVars
<1>7. EntriesFit'
  BY SMT DEF TypeOK, PlacesFit, User, At, OwnersFit, Registering, EntriesFit, EntriesOf,
     ThenDone, Goto, fieldVars, runVars, historyVars
<1> QED  BY <1>1, <1>2, <1>3, <1>4, <1>5, <1>6, <1>7

-----------------------------------------------------------------------------
(* The invariant. *)

LEMMA LoopInvInit == Init => LoopInv
<1> SUFFICES ASSUME Init  PROVE LoopInv
  OBVIOUS
<1> USE ThreadsAssumption, LoopsAssumption, BoundsAssumption DEF Init
<1>1. TypeOK
  <2>1. pc \in [Threads -> Spots]
    BY SpotOfUser, SMT
  <2> QED  BY <2>1, SMT DEF TypeOK, Spots
<1>2. PlacesFit
  BY SMT DEF PlacesFit, User, At
<1>3. LockFits
  BY SMT DEF LockFits, User, At
<1>4. ReferencesFit
  BY SMT DEF ReferencesFit, User, At
<1>5. RunFits
  BY SMT DEF RunFits, Runs, User, At
<1>6. OwnersFit
  BY SMT DEF OwnersFit, Registering, User, At
<1>7. EntriesFit
  BY SMT DEF EntriesFit
<1> QED  BY <1>1, <1>2, <1>3, <1>4, <1>5, <1>6, <1>7 DEF LoopInv

LEMMA LoopInvStep == LoopInv /\ [Next]_vars => LoopInv'
<1> SUFFICES ASSUME LoopInv, [Next]_vars  PROVE LoopInv'
  OBVIOUS
<1>1. CASE UNCHANGED vars
  BY <1>1, SMT DEF vars, LoopInv, TypeOK, PlacesFit, LockFits, ReferencesFit, RunFits,
     OwnersFit, EntriesFit, EntriesOf, Registering, Runs, Alive, User, At
<1>2. CASE Next
  <2> PICK t \in Threads : Registry(t) \/ UserCode(t)
    BY <1>2 DEF Next
  <2>1. CASE Registry(t)
    BY <2>1, LockStep, VisitStep, CompareStep, NotFoundStep, AddStep, CloseStep,
       RunRegisterStep, ThenDoneStep DEF Registry
  <2>2. CASE UserCode(t)
    BY <2>2, CreateStep, GetInstanceStep, ReleaseStep, OpenStep, RunStep, ThenStep,
       ClosedStep, RunEndStep DEF UserCode
  <2> QED  BY <2>1, <2>2
<1> QED  BY <1>1, <1>2

\* The registry of loops, their lives and who runs them, as the code keeps them in
\* every reachable state.
THEOREM LoopInvariance == Spec => []LoopInv
BY LoopInvInit, LoopInvStep, PTL DEF Spec

\* The variables of Loop.cpp keep their types: the handles stay within their bound,
\* and nothing is closed twice.
THEOREM LoopTypeCorrect == Spec => []TypeOK
<1>1. LoopInv => TypeOK
  BY DEF LoopInv
<1> QED  BY <1>1, LoopInvariance, PTL

\* ~Loop runs when no thread uses the loop and no handle is open.
THEOREM DestroyedWhenUnused == Spec => []NothingOpenAtEnd
<1>1. LoopInv => NothingOpenAtEnd
  BY LoopsAssumption, SMT DEF LoopInv, ReferencesFit, NothingOpenAtEnd
<1> QED  BY <1>1, LoopInvariance, PTL

\* registerLoop leaves one entry for a loop, that of the thread that called it last,
\* and deregisterLoop removes no other.
THEOREM RegisteredOnce == Spec => []RegistryExact
<1>1. LoopInv => RegistryExact
  <2> SUFFICES ASSUME LoopInv, NEW l \in Loops, life[l] = "alive"
               PROVE  LET found == {u \in Threads : loopMap[u] = l}
                          t == last[l]
                      IN /\ Cardinality(found) <= 1
                         /\ pc[t].why \notin {"create", "run"} =>
                              found = {u \in {t} : mine[u] = l}
    BY DEF RegistryExact
  <2> DEFINE found == {u \in Threads : loopMap[u] = l}
  <2>1. EntriesOf(l)
    BY DEF LoopInv, EntriesFit
  <2>2. Cardinality(found) <= 1
    <3>1. CASE found = {}
      BY <3>1, FS_EmptySet, SMT
    <3>2. CASE found # {}
      <4>1. PICK u \in Threads : found = {u}
        BY <2>1, <3>2, SMT DEF EntriesOf
      <4>2. Cardinality({u}) = 1
        BY FS_Singleton
      <4> QED  BY <4>1, <4>2, SMT
    <3> QED  BY <3>1, <3>2
  <2>3. ASSUME pc[last[l]].why \notin {"create", "run"}
        PROVE  found = {u \in {last[l]} : mine[u] = l}
    BY <2>1, <2>3, SMT DEF EntriesOf, Registering
  <2> QED  BY <2>2, <2>3
<1> QED  BY <1>1, LoopInvariance, PTL

\* Two threads are inside the futures of a loop only when isOnEventLoopThread was
\* asked while nobody ran it: as long as run() is on a stack, _started and _threadId
\* name that thread.
THEOREM RacesOutsideRun == Spec => []RaceOnlyOutsideRun
<1>1. LoopInv => RaceOnlyOutsideRun
  BY SMT DEF LoopInv, PlacesFit, RunFits, Runs, RaceOnlyOutsideRun
<1> QED  BY <1>1, LoopInvariance, PTL
=============================================================================
