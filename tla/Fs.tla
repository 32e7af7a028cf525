--------------------------------- MODULE Fs ---------------------------------
(***************************************************************************)
(* native::fs: calls that work on one file while other programs change it. *)
(*                                                                         *)
(* Every function has a form that does its work in the calling thread      *)
(* (...Sync) and one that returns a future.  The latter calls the former   *)
(* in worker(), on a thread of libuv's pool, or in async(), on the loop.   *)
(***************************************************************************)
EXTENDS Naturals, Sequences, FiniteSets

CONSTANTS
  Calls,       \* calls under way at the same time
  BlockSize,   \* kBlockSize
  MaxLength,   \* bound on the length of the file
  MaxChanges   \* bound on the changes that others make

ASSUME BoundsAssumption == {MaxLength, MaxChanges} \subseteq Nat /\ BlockSize \in Nat \ {0}

VARIABLES
  file,     \* its bytes: which change wrote it, and where
  sized,    \* it is a regular file and fstat tells its size
  changes,  \* number of changes
  call,     \* each call
  saw,      \* history: what the file has held during each call
  damaged,  \* history: the calls during which something of the file was lost,
  shrunk,   \* and those during which it got shorter
  died      \* an exception has left a thread's function or the loop

vars == <<file, sized, changes, call, saw, damaged, shrunk, died>>
historyVars == <<saw, damaged, shrunk>>
fileVars == <<file, sized, changes>>

\* readFile of a path and of a descriptor; the functions of one libuv call, of which
\* the asynchronous form uses worker() ("simple"), async() ("readdir") or async()
\* without turning an Error into a FutureError ("stat", and exists() on top of it).
Kinds == {"readPath", "readFd", "simple", "readdir", "stat"}
InWorker == {"readPath", "readFd", "simple"}
Reads == {"readPath", "readFd"}

NoCall == [kind |-> "simple", async |-> FALSE, hasLoop |-> TRUE, at |-> "idle",
           fd |-> FALSE, buf |-> <<>>, pos |-> 0, out |-> "none"]

\* What resize() puts into a string.
Zero == <<0, 0>>
Zeros(n) == [i \in 1..n |-> Zero]

Written(version, n) == [i \in 1..n |-> <<version, i>>]

Init ==
  /\ \E n \in 0..MaxLength : file = Written(1, n)
  /\ sized \in BOOLEAN
  /\ changes = 1
  /\ call = [c \in Calls |-> NoCall]
  /\ saw = [c \in Calls |-> {}]
  /\ damaged = {} /\ shrunk = {}
  /\ died = FALSE

Active(c) == call[c].at \notin {"idle", "done"}

-----------------------------------------------------------------------------
(* Others. *)

Becomes(content) ==
  /\ ~died /\ changes <= MaxChanges
  /\ file' = content
  /\ changes' = changes + 1
  /\ saw' = [c \in Calls |-> IF Active(c) THEN saw[c] \cup {content} ELSE saw[c]]
  /\ UNCHANGED <<sized, call, died>>

AppendTo ==
  /\ Len(file) < MaxLength
  /\ Becomes(Append(file, <<changes + 1, Len(file) + 1>>))
  /\ UNCHANGED <<damaged, shrunk>>

\* Somebody truncates the file, or writes it anew.
Shrink ==
  /\ \E n \in 0..Len(file) - 1 : Becomes(SubSeq(file, 1, n))
  /\ damaged' = damaged \cup {c \in Calls : Active(c)}
  /\ shrunk' = shrunk \cup {c \in Calls : Active(c)}

Overwrite ==
  /\ file # <<>>
  /\ Becomes(Written(changes + 1, Len(file)))
  /\ damaged' = damaged \cup {c \in Calls : Active(c)}
  /\ UNCHANGED shrunk

-----------------------------------------------------------------------------
(* A call. *)

Goto(c, r) == call' = [call EXCEPT ![c] = r]

\* It is made by a thread that may have no loop, or goes to one of the pool; async()
\* runs on the thread of a loop.
Begin(c, kind, async) ==
  /\ ~died /\ call[c].at = "idle"
  /\ \E hasLoop \in BOOLEAN :
       /\ async /\ kind \notin InWorker => hasLoop
       /\ Goto(c, [NoCall EXCEPT !.kind = kind, !.async = async, !.hasLoop = hasLoop,
                                 !.at = IF async THEN "queued" ELSE "enter"])
  /\ saw' = [saw EXCEPT ![c] = {file}]
  /\ UNCHANGED <<fileVars, damaged, shrunk, died>>

\* The pool or the loop runs the function.
Work(c) ==
  /\ ~died /\ call[c].at = "queued"
  /\ Goto(c, [call[c] EXCEPT !.at = "enter"])
  /\ UNCHANGED <<fileVars, historyVars, died>>

\* The function returns: to its caller, or as the value of the future.
Returns(c, r) == Goto(c, [r EXCEPT !.at = "done", !.out = "value"]) /\ UNCHANGED died

\* It throws an Error, or what NNATIVE_ASSERT throws.  The lambda in worker() or
\* async() makes a FutureError of an Error, but not for stat; nothing else may leave
\* it.
Throws(c, r, what) ==
  /\ died' = (r.async /\ (what # "Error" \/ r.kind = "stat"))
  /\ Goto(c, [r EXCEPT !.at = "done", !.out = "error"])

\* Where the work of a function begins.
Entry(kind) ==
  CASE kind = "readPath" -> "open" [] kind = "readFd" -> "fstat" [] OTHER -> "uv"

\* Loop::GetInstanceSafe(), for the calling thread.
Enter(c) ==
  /\ ~died /\ call[c].at = "enter"
  /\ \/ /\ ~call[c].hasLoop
        /\ Throws(c, call[c], "runtime_error")
     \/ /\ call[c].hasLoop
        /\ Goto(c, [call[c] EXCEPT !.at = Entry(call[c].kind)])
        /\ UNCHANGED died
  /\ UNCHANGED <<fileVars, historyVars>>

\* The one libuv call of most functions.
Uv(c, ok) ==
  /\ ~died /\ call[c].at = "uv"
  /\ IF ok THEN Returns(c, call[c]) ELSE Throws(c, call[c], "Error")
  /\ UNCHANGED <<fileVars, historyVars>>

\* openSync(path).
Open(c, ok) ==
  /\ ~died /\ call[c].at = "open"
  /\ IF ok
       THEN Goto(c, [call[c] EXCEPT !.at = "fstat", !.fd = TRUE]) /\ UNCHANGED died
       ELSE Throws(c, call[c], "Error")
  /\ UNCHANGED <<fileVars, historyVars>>

\* fstatSync(fd): with a size, a buffer of that size is filled; without one it is
\* read block by block.
Fstat(c, ok) ==
  /\ ~died /\ call[c].at = "fstat"
  /\ LET len == IF sized THEN Len(file) ELSE 0
     IN IF ok
          THEN /\ Goto(c, [call[c] EXCEPT !.at = IF len # 0 THEN "read" ELSE "readBlocks",
                                          !.buf = Zeros(len)])
               /\ UNCHANGED died
          ELSE Throws(c, call[c], "Error")
  /\ UNCHANGED <<fileVars, historyVars>>

\* uv_fs_read at pos: any number of bytes up to the end of the file, 0 only there.
Available(pos, want) ==
  LET rest == IF Len(file) > pos THEN Len(file) - pos ELSE 0
  IN IF rest = 0 THEN {0} ELSE 1..(IF rest < want THEN rest ELSE want)

Filled(buf, pos, n) ==
  [i \in DOMAIN buf |-> IF i \in pos + 1..pos + n THEN file[i] ELSE buf[i]]

\* The end of readFileSync(fd), after which readFileSync(path) closes the file.
ReadDone(c, r) ==
  IF r.kind = "readPath" THEN Goto(c, [r EXCEPT !.at = "close"]) /\ UNCHANGED died
                         ELSE Returns(c, r)

\* Variant: one more read, behind the end.
ReadBeyond(c) ==
  /\ ~died /\ call[c].at = "read"
  /\ \E n \in Available(call[c].pos, Len(call[c].buf) - call[c].pos + 1) :
       LET r == [call[c] EXCEPT !.buf = Filled(@, call[c].pos, n), !.pos = @ + n]
       IN IF r.pos > Len(r.buf) THEN ReadDone(c, r) ELSE Goto(c, r) /\ UNCHANGED died
  /\ UNCHANGED <<fileVars, historyVars>>

\* do ... while (pos < len)
Read(c) ==
  /\ ~died /\ call[c].at = "read"
  /\ \E n \in Available(call[c].pos, Len(call[c].buf) - call[c].pos) :
       LET r == [call[c] EXCEPT !.buf = Filled(@, call[c].pos, n), !.pos = @ + n]
       IN IF r.pos = Len(r.buf) THEN ReadDone(c, r) ELSE Goto(c, r) /\ UNCHANGED died
  /\ UNCHANGED <<fileVars, historyVars>>

\* Variant: a short read does not shorten the buffer.
ReadBlockKeepsLength(c) ==
  /\ ~died /\ call[c].at = "readBlocks"
  /\ LET buf == call[c].buf \o Zeros(BlockSize)
         pos == call[c].pos
     IN \E n \in Available(pos, Len(buf) - pos) :
          LET kept == IF n = 0 THEN BlockSize ELSE 0
              r == [call[c] EXCEPT !.buf = SubSeq(Filled(buf, pos, n), 1, Len(buf) - kept),
                                   !.pos = @ + n]
          IN IF n = 0 THEN ReadDone(c, r) ELSE Goto(c, r) /\ UNCHANGED died
  /\ UNCHANGED <<fileVars, historyVars>>

\* for (;;): the buffer grows by a block before the read and, when fewer bytes came,
\* is cut behind them.
ReadBlock(c) ==
  /\ ~died /\ call[c].at = "readBlocks"
  /\ LET buf == call[c].buf \o Zeros(BlockSize)
         pos == call[c].pos
     IN \E n \in Available(pos, Len(buf) - pos) :
          LET missing == IF n < BlockSize THEN BlockSize - n ELSE 0
              r == [call[c] EXCEPT !.buf = SubSeq(Filled(buf, pos, n), 1, Len(buf) - missing),
                                   !.pos = @ + n]
          IN IF n = 0 THEN ReadDone(c, r) ELSE Goto(c, r) /\ UNCHANGED died
  /\ UNCHANGED <<fileVars, historyVars>>

\* uv_fs_read fails; readFileSync(path) does not close its file then.
ReadFails(c) ==
  /\ ~died /\ call[c].at \in {"read", "readBlocks"}
  /\ Throws(c, call[c], "Error")
  /\ UNCHANGED <<fileVars, historyVars>>

\* closeSync(fd), which gives the descriptor up in any case.
CloseFile(c, ok) ==
  /\ ~died /\ call[c].at = "close"
  /\ LET r == [call[c] EXCEPT !.fd = FALSE]
     IN IF ok THEN Returns(c, r) ELSE Throws(c, r, "Error")
  /\ UNCHANGED <<fileVars, historyVars>>

-----------------------------------------------------------------------------
Others == AppendTo \/ Shrink \/ Overwrite

Run(c) ==
  \/ Work(c) \/ Enter(c)
  \/ \E ok \in BOOLEAN : Uv(c, ok) \/ Open(c, ok) \/ Fstat(c, ok) \/ CloseFile(c, ok)
  \/ Read(c) \/ ReadBlock(c) \/ ReadFails(c)

Next ==
  \/ Others
  \/ \E c \in Calls : Run(c) \/ \E kind \in Kinds, async \in BOOLEAN : Begin(c, kind, async)

Spec == Init /\ [][Next]_vars

\* A call goes on.  A read need not ever fail.
FairSpec == Spec /\ \A c \in Calls : WF_vars(Run(c) /\ ~ReadFails(c))

-----------------------------------------------------------------------------
(* Safety. *)

\* Though it takes many reads, of any length, what readFile returns is what the file
\* held at one moment of the call, unless something of it was lost meanwhile.
ReadIsSnapshot ==
  \A c \in Calls :
    call[c].kind \in Reads /\ call[c].out = "value" /\ c \notin damaged =>
      call[c].buf \in saw[c]

(* Liveness, under FairSpec. *)

\* Every call ends, and one that succeeds has closed what it opened, unless the file
\* got shorter under it or the program has ended.
CallsEnd ==
  \A c \in Calls : Active(c) ~>
    \/ call[c].at = "done" /\ (call[c].out = "value" => ~call[c].fd)
    \/ c \in shrunk
    \/ died
=============================================================================
