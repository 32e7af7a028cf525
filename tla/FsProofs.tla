------------------------------ MODULE FsProofs ------------------------------
(***************************************************************************)
(* Proofs about module Fs, for any number of calls, any block size, any    *)
(* length of the file and any number of changes.                           *)
(*                                                                         *)
(* The invariant follows one call: what its buffer has in common with the  *)
(* file, as long as the file has only grown since the call began.          *)
(***************************************************************************)
EXTENDS Fs, SequenceTheorems, TLAPS

Bytes == Nat \X Nat
Places ==
  {"idle", "queued", "enter", "uv", "open", "fstat", "read", "readBlocks", "close", "done"}

CallStates ==
  [kind : Kinds, async : BOOLEAN, hasLoop : BOOLEAN, at : Places, fd : BOOLEAN,
   buf : Seq(Bytes), pos : Nat, out : {"none", "value", "error"}]

FsTypeOK ==
  /\ file \in Seq(Bytes)
  /\ changes \in Nat
  /\ call \in [Calls -> CallStates]
  /\ saw \in [Calls -> SUBSET Seq(Bytes)]

\* s is what f began with.
BeginsWith(f, s) == Len(s) <= Len(f) /\ \A i \in 1..Len(s) : s[i] = f[i]

\* The first pos bytes were read, and they are what f begins with.
HasRead(r, f) ==
  /\ r.pos <= Len(f)
  /\ \A i \in 1..r.pos : r.buf[i] = f[i]

\* A call r while the file is f and has held the members of S, and nothing of it was
\* lost: what was read is what f begins with, and when the buffer's length was fixed
\* it was the length of something that f began with; in the end it is one of S.
Matches(r, f, S) ==
  /\ r.at = "read" =>
       HasRead(r, f) /\ \E s \in S : BeginsWith(f, s) /\ Len(s) = Len(r.buf)
  /\ r.at = "readBlocks" => HasRead(r, f)
  /\ r.at = "close" => r.buf \in S
  /\ r.kind \in Reads /\ r.out = "value" => r.buf \in S

\* Where a call is, how much it has read and what it has seen.
Underway(r, f, S) ==
  /\ r.at # "done" => r.out = "none"
  /\ r.at \in {"idle", "queued", "enter", "open", "fstat"} => r.pos = 0
  /\ r.at = "read" => r.pos <= Len(r.buf)
  /\ r.at = "readBlocks" => r.pos = Len(r.buf)
  /\ r.at = "uv" => r.kind \notin Reads
  /\ r.at \notin {"idle", "done"} => f \in S

CallFits(c) ==
  /\ Underway(call[c], file, saw[c])
  /\ c \notin damaged => Matches(call[c], file, saw[c])

FsInv == FsTypeOK /\ \A c \in Calls : CallFits(c)

-----------------------------------------------------------------------------
(* Records and sequences. *)

LEMMA IdleCall == NoCall \in CallStates
<1>1. <<>> \in Seq(Bytes) /\ "simple" \in Kinds /\ "idle" \in Places
  BY DEF Kinds, Places
<1> QED  BY <1>1 DEF NoCall, CallStates

\* What the assignments of the steps leave of a call.
LEMMA SetAt ==
  ASSUME NEW r \in CallStates, NEW p \in Places
  PROVE  [r EXCEPT !.at = p] \in CallStates
BY SMT DEF CallStates

LEMMA SetFd ==
  ASSUME NEW r \in CallStates, NEW b \in BOOLEAN
  PROVE  [r EXCEPT !.fd = b] \in CallStates
BY SMT DEF CallStates

LEMMA SetBuf ==
  ASSUME NEW r \in CallStates, NEW b \in Seq(Bytes)
  PROVE  [r EXCEPT !.buf = b] \in CallStates
BY SMT DEF CallStates

LEMMA SetPos ==
  ASSUME NEW r \in CallStates, NEW n \in Nat
  PROVE  [r EXCEPT !.pos = n] \in CallStates
BY SMT DEF CallStates

LEMMA SetOut ==
  ASSUME NEW r \in CallStates, NEW o \in {"value", "error"}
  PROVE  [r EXCEPT !.out = o] \in CallStates
BY SMT DEF CallStates

LEMMA MovedCall ==
  ASSUME NEW r \in CallStates, NEW p \in Places
  PROVE  /\ [r EXCEPT !.at = p] \in CallStates
         /\ [r EXCEPT !.at = p].kind = r.kind
         /\ [r EXCEPT !.at = p].at = p
         /\ [r EXCEPT !.at = p].buf = r.buf
         /\ [r EXCEPT !.at = p].pos = r.pos
         /\ [r EXCEPT !.at = p].out = r.out
BY SetAt, SMT DEF CallStates

LEMMA ClosedCall ==
  ASSUME NEW r \in CallStates
  PROVE  /\ [r EXCEPT !.fd = FALSE] \in CallStates
         /\ [r EXCEPT !.fd = FALSE].kind = r.kind
         /\ [r EXCEPT !.fd = FALSE].at = r.at
         /\ [r EXCEPT !.fd = FALSE].buf = r.buf
         /\ [r EXCEPT !.fd = FALSE].pos = r.pos
         /\ [r EXCEPT !.fd = FALSE].out = r.out
<1>1. \A b \in BOOLEAN : [r EXCEPT !.fd = b] \in CallStates
  BY SetFd
<1> QED  BY <1>1, Zenon DEF CallStates

LEMMA EndedCall ==
  ASSUME NEW r \in CallStates, NEW o \in {"value", "error"}
  PROVE  /\ [r EXCEPT !.at = "done", !.out = o] \in CallStates
         /\ [r EXCEPT !.at = "done", !.out = o].kind = r.kind
         /\ [r EXCEPT !.at = "done", !.out = o].at = "done"
         /\ [r EXCEPT !.at = "done", !.out = o].buf = r.buf
         /\ [r EXCEPT !.at = "done", !.out = o].out = o
<1>1. [r EXCEPT !.at = "done"] \in CallStates
  BY SetAt DEF Places
<1>2. [r EXCEPT !.at = "done", !.out = o] = [[r EXCEPT !.at = "done"] EXCEPT !.out = o]
  OBVIOUS
<1>3. [r EXCEPT !.at = "done", !.out = o] \in CallStates
  BY <1>1, <1>2, SetOut
<1> QED  BY <1>3, SMT DEF CallStates

LEMMA FilledCall ==
  ASSUME NEW r \in CallStates, NEW b \in Seq(Bytes), NEW n \in Nat
  PROVE  [r EXCEPT !.buf = b, !.pos = n] \in CallStates
<1>1. [r EXCEPT !.buf = b] \in CallStates
  BY SetBuf DEF Places
<1>2. [r EXCEPT !.buf = b, !.pos = n] = [[r EXCEPT !.buf = b] EXCEPT !.pos = n]
  OBVIOUS
<1> QED  BY <1>1, <1>2, SetPos

LEMMA SizedCall ==
  ASSUME NEW r \in CallStates, NEW b \in Seq(Bytes), NEW p \in Places
  PROVE  [r EXCEPT !.at = p, !.buf = b] \in CallStates
<1>1. [r EXCEPT !.at = p] \in CallStates
  BY SetAt DEF Places
<1>2. [r EXCEPT !.at = p, !.buf = b] = [[r EXCEPT !.at = p] EXCEPT !.buf = b]
  OBVIOUS
<1> QED  BY <1>1, <1>2, SetBuf

LEMMA OpenedCall ==
  ASSUME NEW r \in CallStates
  PROVE  /\ [r EXCEPT !.at = "fstat", !.fd = TRUE] \in CallStates
         /\ [r EXCEPT !.at = "fstat", !.fd = TRUE].kind = r.kind
         /\ [r EXCEPT !.at = "fstat", !.fd = TRUE].at = "fstat"
         /\ [r EXCEPT !.at = "fstat", !.fd = TRUE].pos = r.pos
         /\ [r EXCEPT !.at = "fstat", !.fd = TRUE].out = r.out
<1>1. [r EXCEPT !.at = "fstat"] \in CallStates
  BY SetAt DEF Places
<1>2. [r EXCEPT !.at = "fstat", !.fd = TRUE] = [[r EXCEPT !.at = "fstat"] EXCEPT !.fd = TRUE]
  OBVIOUS
<1>3. [r EXCEPT !.at = "fstat", !.fd = TRUE] \in CallStates
  BY <1>1, <1>2, SetFd
<1> QED  BY <1>3, SMT DEF CallStates

LEMMA BegunCall ==
  ASSUME NEW kind \in Kinds, NEW async \in BOOLEAN, NEW hasLoop \in BOOLEAN,
         NEW at \in {"queued", "enter"}
  PROVE  [NoCall EXCEPT !.kind = kind, !.async = async, !.hasLoop = hasLoop, !.at = at]
           \in CallStates
<1>1. NoCall \in CallStates
  BY IdleCall
<1> DEFINE a == [NoCall EXCEPT !.kind = kind]
           b == [a EXCEPT !.async = async]
           d == [b EXCEPT !.hasLoop = hasLoop]
<1>2. a \in CallStates
  BY <1>1, SMT DEF CallStates
<1>3. [NoCall EXCEPT !.kind = kind, !.async = async, !.hasLoop = hasLoop, !.at = at]
        = [d EXCEPT !.at = at]
  OBVIOUS
<1> HIDE DEF a
<1>4. b \in CallStates
  BY <1>2, SMT DEF CallStates
<1> HIDE DEF b
<1>5. d \in CallStates
  BY <1>4, SMT DEF CallStates
<1> HIDE DEF d
<1> QED  BY <1>3, <1>5, SetAt DEF Places

LEMMA ZerosFacts ==
  ASSUME NEW n \in Nat
  PROVE  Zeros(n) \in Seq(Bytes) /\ Len(Zeros(n)) = n
<1>1. Zero \in Bytes
  BY SMT DEF Zero, Bytes
<1>2. Zeros(n) \in [1..n -> Bytes]
  BY <1>1 DEF Zeros
<1> QED  BY <1>2

-----------------------------------------------------------------------------
(* One call. *)

\* A step of one call leaves the others and the file alone.
LEMMA CallStep ==
  ASSUME FsInv, NEW c \in Calls, NEW r \in CallStates, Goto(c, r),
         UNCHANGED <<fileVars, historyVars>>,
         Underway(r, file, saw[c]),
         c \notin damaged => Matches(r, file, saw[c])
  PROVE  FsInv'
<1>1. /\ call' = [call EXCEPT ![c] = r]
      /\ UNCHANGED <<file, changes, saw, damaged>>
  BY DEF Goto, fileVars, historyVars
<1>2. /\ call' \in [Calls -> CallStates]
      /\ \A d \in Calls : call'[d] = IF d = c THEN r ELSE call[d]
  BY <1>1 DEF FsInv, FsTypeOK
<1>3. FsTypeOK'
  BY <1>1, <1>2 DEF FsInv, FsTypeOK
<1>4. ASSUME NEW d \in Calls  PROVE CallFits(d)'
  <2>1. CASE d = c
    BY <1>1, <1>2, <2>1 DEF CallFits
  <2>2. CASE d # c
    <3>1. CallFits(d) /\ call'[d] = call[d]
      BY <1>2, <2>2 DEF FsInv
    <3> QED  BY <1>1, <3>1 DEF CallFits
  <2> QED  BY <2>1, <2>2
<1> QED  BY <1>3, <1>4 DEF FsInv

LEMMA CallTyped ==
  ASSUME FsInv, NEW c \in Calls
  PROVE  /\ call[c] \in CallStates /\ CallFits(c)
         /\ call[c].buf \in Seq(Bytes) /\ call[c].pos \in Nat /\ call[c].kind \in Kinds
         /\ saw[c] \in SUBSET Seq(Bytes)
         /\ file \in Seq(Bytes) /\ Len(file) \in Nat
<1>1. call[c] \in CallStates /\ file \in Seq(Bytes)
  BY DEF FsInv, FsTypeOK
<1>2. Len(file) \in Nat
  BY <1>1, LenProperties
<1> QED  BY <1>1, <1>2 DEF FsInv, FsTypeOK, CallStates

LEMMA ReturnsFits ==
  ASSUME FsInv, NEW c \in Calls, NEW r \in CallStates, Returns(c, r),
         UNCHANGED <<fileVars, historyVars>>,
         c \notin damaged /\ r.kind \in Reads => r.buf \in saw[c]
  PROVE  FsInv'
<1> DEFINE q == [r EXCEPT !.at = "done", !.out = "value"]
<1>1. /\ q \in CallStates /\ q.at = "done" /\ q.kind = r.kind /\ q.buf = r.buf
  BY EndedCall
<1>2. Goto(c, q)
  BY DEF Returns
<1> HIDE DEF q
<1>3. Underway(q, file, saw[c])
  BY <1>1 DEF Underway
<1>4. c \notin damaged => Matches(q, file, saw[c])
  BY <1>1 DEF Matches
<1> QED  BY <1>1, <1>2, <1>3, <1>4, CallStep

LEMMA ThrowsFits ==
  ASSUME FsInv, NEW c \in Calls, NEW r \in CallStates, NEW what, Throws(c, r, what),
         UNCHANGED <<fileVars, historyVars>>
  PROVE  FsInv'
<1> DEFINE q == [r EXCEPT !.at = "done", !.out = "error"]
<1>1. /\ q \in CallStates /\ q.at = "done" /\ q.out = "error"
  BY EndedCall
<1>2. Goto(c, q)
  BY DEF Throws
<1> HIDE DEF q
<1>3. Underway(q, file, saw[c])
  BY <1>1 DEF Underway
<1>4. c \notin damaged => Matches(q, file, saw[c])
  BY <1>1 DEF Matches
<1> QED  BY <1>1, <1>2, <1>3, <1>4, CallStep

LEMMA ReadDoneFits ==
  ASSUME FsInv, NEW c \in Calls, NEW r \in CallStates, ReadDone(c, r),
         UNCHANGED <<fileVars, historyVars>>,
         r.out = "none", file \in saw[c],
         c \notin damaged => r.buf \in saw[c]
  PROVE  FsInv'
<1>1. CASE r.kind = "readPath"
  <2> DEFINE q == [r EXCEPT !.at = "close"]
  <2>1. q \in CallStates /\ q.at = "close" /\ q.buf = r.buf /\ q.out = r.out
    BY MovedCall DEF Places
  <2>2. Goto(c, q)
    BY <1>1 DEF ReadDone
  <2> HIDE DEF q
  <2>3. Underway(q, file, saw[c])
    BY <2>1 DEF Underway
  <2>4. c \notin damaged => Matches(q, file, saw[c])
    BY <2>1 DEF Matches
  <2> QED  BY <2>1, <2>2, <2>3, <2>4, CallStep
<1>2. CASE r.kind # "readPath"
  <2>1. Returns(c, r)
    BY <1>2 DEF ReadDone
  <2> QED  BY <2>1, ReturnsFits
<1> QED  BY <1>1, <1>2

\* How much a read may deliver.
LEMMA AvailableFacts ==
  ASSUME file \in Seq(Bytes), NEW pos \in Nat, NEW want \in Int, NEW n \in Available(pos, want)
  PROVE  /\ n \in Nat
         /\ n # 0 => n <= want /\ pos + n <= Len(file)
         /\ n = 0 => Len(file) <= pos
<1>1. Len(file) \in Nat
  BY LenProperties
<1> QED  BY <1>1, SMT DEF Available

\* What it puts into the buffer.
LEMMA FilledFacts ==
  ASSUME file \in Seq(Bytes), NEW b \in Seq(Bytes), NEW pos \in Nat, NEW n \in Nat,
         n # 0 => pos + n <= Len(file)
  PROVE  /\ Filled(b, pos, n) \in Seq(Bytes)
         /\ Len(Filled(b, pos, n)) = Len(b)
         /\ \A i \in 1..Len(b) : i <= pos => Filled(b, pos, n)[i] = b[i]
         /\ \A i \in 1..Len(b) : pos < i /\ i <= pos + n => Filled(b, pos, n)[i] = file[i]
<1>1. Len(b) \in Nat /\ DOMAIN b = 1..Len(b) /\ Len(file) \in Nat
  BY LenProperties
<1> DEFINE q == Filled(b, pos, n)
<1>2. q = [i \in 1..Len(b) |-> IF i \in pos + 1..pos + n THEN file[i] ELSE b[i]]
  BY <1>1 DEF Filled
<1> HIDE DEF q
<1>3. ASSUME NEW i \in 1..Len(b)  PROVE q[i] \in Bytes
  <2>1. CASE i \in pos + 1..pos + n
    <3>1. i \in 1..Len(file)
      BY <1>1, <2>1, SMT
    <3> QED  BY <1>2, <2>1, <3>1, ElementOfSeq
  <2>2. CASE i \notin pos + 1..pos + n
    BY <1>2, <2>2, ElementOfSeq
  <2> QED  BY <2>1, <2>2
<1>4. q \in [1..Len(b) -> Bytes]
  BY <1>2, <1>3
<1>5. q \in Seq(Bytes) /\ Len(q) = Len(b)
  BY <1>1, <1>4
<1>6. ASSUME NEW i \in 1..Len(b), i <= pos  PROVE q[i] = b[i]
  <2>1. i \notin pos + 1..pos + n
    BY <1>1, <1>6, SMT
  <2> QED  BY <1>2, <2>1
<1>7. ASSUME NEW i \in 1..Len(b), pos < i, i <= pos + n  PROVE q[i] = file[i]
  <2>1. i \in pos + 1..pos + n
    BY <1>1, <1>7, SMT
  <2> QED  BY <1>2, <2>1
<1> QED  BY <1>5, <1>6, <1>7 DEF q

-----------------------------------------------------------------------------
(* The steps. *)

\* Two sequences of one length that f begins with are equal.
LEMMA SameBeginning ==
  ASSUME NEW f \in Seq(Bytes), NEW s \in Seq(Bytes), NEW t \in Seq(Bytes),
         BeginsWith(f, s), Len(s) = Len(t), \A i \in 1..Len(t) : t[i] = f[i]
  PROVE  s = t
BY SeqEqual DEF BeginsWith

LEMMA StepRead ==
  ASSUME FsInv, NEW c \in Calls, Read(c)
  PROVE  FsInv'
<1> DEFINE r0 == call[c]
           b == r0.buf
           p == r0.pos
<1>1. /\ r0 \in CallStates /\ CallFits(c) /\ r0.at = "read"
      /\ UNCHANGED <<fileVars, historyVars>>
  BY CallTyped DEF Read
<1>2. b \in Seq(Bytes) /\ p \in Nat /\ file \in Seq(Bytes) /\ saw[c] \in SUBSET Seq(Bytes)
  BY CallTyped
<1>3. Len(b) \in Nat /\ Len(file) \in Nat /\ Len(b) - p \in Int
  <2>1. Len(b) \in Nat /\ Len(file) \in Nat
    BY <1>2, LenProperties
  <2> QED  BY <1>2, <2>1, SMT
<1>4. PICK n \in Available(p, Len(b) - p) :
        LET r == [r0 EXCEPT !.buf = Filled(@, p, n), !.pos = @ + n]
        IN IF r.pos = Len(r.buf) THEN ReadDone(c, r) ELSE Goto(c, r) /\ UNCHANGED died
  BY DEF Read
<1>5. /\ n \in Nat
      /\ n # 0 => n <= Len(b) - p /\ p + n <= Len(file)
      /\ n = 0 => Len(file) <= p
  BY <1>2, <1>3, AvailableFacts
<1> DEFINE d == Filled(b, p, n)
<1>6. /\ d \in Seq(Bytes) /\ Len(d) = Len(b)
      /\ \A i \in 1..Len(b) : i <= p => d[i] = b[i]
      /\ \A i \in 1..Len(b) : p < i /\ i <= p + n => d[i] = file[i]
  BY <1>2, <1>5, FilledFacts
<1> DEFINE r == [r0 EXCEPT !.buf = d, !.pos = p + n]
<1>7. /\ r \in CallStates /\ r.at = "read" /\ r.kind = r0.kind /\ r.buf = d /\ r.pos = p + n
      /\ r.out = r0.out
  <2>1. p + n \in Nat
    BY <1>2, <1>5, SMT
  <2>2. PICK m \in Nat : m = p + n
    BY <2>1
  <2>3. PICK q : q = [r0 EXCEPT !.buf = d, !.pos = m]
    OBVIOUS
  <2>4. r = q
    BY <2>2, <2>3
  <2>5. r0 \in CallStates /\ d \in Seq(Bytes)
    BY <1>1, <1>6
  <2> HIDE DEF r0, d
  <2>6. q \in CallStates
    BY ONLY <2>3, <2>5, m \in Nat, FilledCall
  <2>7. q.kind = r0.kind /\ q.at = r0.at /\ q.buf = d /\ q.pos = m /\ q.out = r0.out
    BY ONLY <2>3, <2>5, <2>6 DEF CallStates
  <2> HIDE DEF r
  <2> QED  BY <1>1, <2>2, <2>4, <2>6, <2>7
<1>8. IF r.pos = Len(r.buf) THEN ReadDone(c, r) ELSE Goto(c, r)
  BY <1>4
<1>9. /\ p <= Len(b) /\ r0.out = "none" /\ file \in saw[c]
  BY <1>1 DEF CallFits, Underway
<1>10. p + n <= Len(b)
  BY <1>2, <1>3, <1>5, <1>9, SMT
<1> HIDE DEF d, r
<1>11. ASSUME c \notin damaged
       PROVE  /\ HasRead(r, file)
              /\ \E s \in saw[c] : BeginsWith(file, s) /\ Len(s) = Len(r.buf)
  <2>1. /\ p <= Len(file) /\ \A i \in 1..p : b[i] = file[i]
        /\ \E s \in saw[c] : BeginsWith(file, s) /\ Len(s) = Len(b)
    BY <1>1, <1>11 DEF CallFits, Matches, HasRead
  <2>2. p + n <= Len(file)
    BY <1>2, <1>3, <1>5, <2>1, SMT
  <2>3. ASSUME NEW i \in 1..p + n  PROVE d[i] = file[i]
    <3>1. i \in 1..Len(b) /\ (i \in 1..p \/ p < i) /\ i <= p + n /\ (i \in 1..p => i <= p)
      BY <1>2, <1>3, <1>5, <1>10, SMT
    <3> QED  BY <1>6, <2>1, <3>1
  <2> QED  BY <1>6, <1>7, <2>1, <2>2, <2>3 DEF HasRead
<1>12. CASE r.pos = Len(r.buf)
  <2>1. ASSUME c \notin damaged  PROVE r.buf \in saw[c]
    <3>1. PICK s \in saw[c] : BeginsWith(file, s) /\ Len(s) = Len(d)
      BY <1>7, <1>11, <2>1
    <3>2. \A i \in 1..Len(d) : d[i] = file[i]
      BY <1>7, <1>11, <1>12, <2>1 DEF HasRead
    <3>3. s = d
      BY <1>2, <1>6, <3>1, <3>2, SameBeginning
    <3> QED  BY <1>7, <3>3
  <2> QED  BY <1>1, <1>7, <1>8, <1>9, <1>12, <2>1, ReadDoneFits
<1>13. CASE r.pos # Len(r.buf)
  <2>1. Underway(r, file, saw[c])
    BY <1>6, <1>7, <1>9, <1>10 DEF Underway
  <2>2. c \notin damaged => Matches(r, file, saw[c])
    BY <1>7, <1>9, <1>11 DEF Matches
  <2> QED  BY <1>1, <1>7, <1>8, <1>13, <2>1, <2>2, CallStep
<1> QED  BY <1>12, <1>13

LEMMA StepReadBlock ==
  ASSUME FsInv, NEW c \in Calls, ReadBlock(c)
  PROVE  FsInv'
<1> DEFINE r0 == call[c]
           p == r0.pos
           b == r0.buf \o Zeros(BlockSize)
<1>1. /\ r0 \in CallStates /\ CallFits(c) /\ r0.at = "readBlocks"
      /\ UNCHANGED <<fileVars, historyVars>>
  BY CallTyped DEF ReadBlock
<1>2. r0.buf \in Seq(Bytes) /\ p \in Nat /\ file \in Seq(Bytes)
  BY CallTyped
<1>3. /\ p = Len(r0.buf) /\ r0.out = "none" /\ file \in saw[c]
  BY <1>1 DEF CallFits, Underway
<1>4. /\ b \in Seq(Bytes) /\ Len(b) = p + BlockSize
      /\ \A i \in 1..p : b[i] = r0.buf[i]
  <2>1. Zeros(BlockSize) \in Seq(Bytes) /\ Len(Zeros(BlockSize)) = BlockSize
    BY ZerosFacts, BoundsAssumption
  <2>2. /\ b \in Seq(Bytes) /\ Len(b) = Len(r0.buf) + Len(Zeros(BlockSize))
        /\ \A i \in 1..Len(r0.buf) + Len(Zeros(BlockSize)) :
             b[i] = IF i <= Len(r0.buf) THEN r0.buf[i] ELSE Zeros(BlockSize)[i - Len(r0.buf)]
    BY <1>2, <2>1, ConcatProperties
  <2>3. \A i \in 1..p : i \in 1..p + BlockSize /\ i <= p
    BY <1>2, BoundsAssumption, SMT
  <2> QED  BY <1>3, <2>1, <2>2, <2>3
<1>5. PICK n \in Available(p, Len(b) - p) :
        LET missing == IF n < BlockSize THEN BlockSize - n ELSE 0
            r == [r0 EXCEPT !.buf = SubSeq(Filled(b, p, n), 1, Len(b) - missing),
                            !.pos = @ + n]
        IN IF n = 0 THEN ReadDone(c, r) ELSE Goto(c, r) /\ UNCHANGED died
  BY DEF ReadBlock
<1> HIDE DEF b
<1>6. Len(file) \in Nat /\ Len(b) - p \in Int /\ Len(b) - p = BlockSize
  <2>1. Len(file) \in Nat
    BY <1>2, LenProperties
  <2> QED  BY <1>2, <1>4, <2>1, BoundsAssumption, SMT
<1>7. n \in Nat /\ (n # 0 => n <= BlockSize /\ p + n <= Len(file)) /\ (n = 0 => Len(file) <= p)
  BY <1>2, <1>6, AvailableFacts
<1> DEFINE missing == IF n < BlockSize THEN BlockSize - n ELSE 0
           f == Filled(b, p, n)
           d == SubSeq(f, 1, Len(b) - missing)
           r == [r0 EXCEPT !.buf = d, !.pos = p + n]
<1>8. Len(b) - missing = p + n /\ p + n \in Nat /\ p + n <= Len(b)
  <2>1. BlockSize \in Nat /\ n <= BlockSize
    BY <1>7, BoundsAssumption, SMT
  <2>2. missing = BlockSize - n
    BY <1>7, <2>1, SMT
  <2> HIDE DEF missing
  <2> QED  BY <1>2, <1>4, <1>7, <2>1, <2>2, SMT
<1>9. /\ f \in Seq(Bytes) /\ Len(f) = Len(b)
      /\ \A i \in 1..Len(b) : i <= p => f[i] = b[i]
      /\ \A i \in 1..Len(b) : p < i /\ i <= p + n => f[i] = file[i]
  BY <1>2, <1>4, <1>7, FilledFacts
<1>10. IF n = 0 THEN ReadDone(c, r) ELSE Goto(c, r)
  BY <1>5
<1> HIDE DEF f, missing
<1>11. /\ d \in Seq(Bytes) /\ Len(d) = p + n
       /\ \A i \in 1..p + n : d[i] = f[i]
  <2>1. d = SubSeq(f, 1, p + n)
    BY <1>8
  <2>2. p + n <= Len(f) /\ p + n \in Nat
    BY <1>8, <1>9
  <2> HIDE DEF d
  <2> QED  BY <1>9, <2>1, <2>2, SMT
<1> HIDE DEF d
<1>12. /\ r \in CallStates /\ r.at = "readBlocks" /\ r.kind = r0.kind /\ r.buf = d
       /\ r.pos = p + n /\ r.out = r0.out
  <2>1. PICK m \in Nat : m = p + n
    BY <1>8
  <2>2. PICK q : q = [r0 EXCEPT !.buf = d, !.pos = m]
    OBVIOUS
  <2>3. r = q
    BY <2>1, <2>2
  <2>4. r0 \in CallStates /\ d \in Seq(Bytes)
    BY <1>1, <1>11
  <2> HIDE DEF r0
  <2>5. q \in CallStates
    BY ONLY <2>2, <2>4, m \in Nat, FilledCall
  <2>6. q.kind = r0.kind /\ q.at = r0.at /\ q.buf = d /\ q.pos = m /\ q.out = r0.out
    BY ONLY <2>2, <2>4, <2>5 DEF CallStates
  <2> HIDE DEF r
  <2> QED  BY <1>1, <2>1, <2>3, <2>5, <2>6
<1> HIDE DEF r
<1>13. ASSUME c \notin damaged  PROVE HasRead(r, file)
  <2>1. p <= Len(file) /\ \A i \in 1..p : r0.buf[i] = file[i]
    BY <1>1, <1>13 DEF CallFits, Matches, HasRead
  <2>2. p + n <= Len(file)
    BY <1>2, <1>6, <1>7, <2>1, SMT
  <2>3. ASSUME NEW i \in 1..p + n  PROVE d[i] = file[i]
    <3>1. i \in 1..Len(b) /\ (i \in 1..p \/ p < i) /\ i <= p + n /\ (i \in 1..p => i <= p)
      BY <1>2, <1>4, <1>7, <1>8, SMT
    <3> QED  BY <1>4, <1>9, <1>11, <2>1, <3>1
  <2> QED  BY <1>12, <2>2, <2>3 DEF HasRead
<1>14. CASE n = 0
  <2>1. ASSUME c \notin damaged  PROVE r.buf \in saw[c]
    <3>1. p + n = Len(file)
      BY <1>2, <1>6, <1>7, <1>12, <1>13, <1>14, <2>1, SMT DEF HasRead
    <3>2. \A i \in 1..Len(d) : d[i] = file[i]
      BY <1>11, <1>12, <1>13, <2>1 DEF HasRead
    <3>3. d = file
      BY <1>2, <1>11, <3>1, <3>2, SeqEqual
    <3> QED  BY <1>3, <1>12, <3>3
  <2> QED  BY <1>1, <1>3, <1>10, <1>12, <1>14, <2>1, ReadDoneFits
<1>15. CASE n # 0
  <2>1. Underway(r, file, saw[c])
    BY <1>3, <1>11, <1>12 DEF Underway
  <2>2. c \notin damaged => Matches(r, file, saw[c])
    BY <1>3, <1>12, <1>13 DEF Matches
  <2> QED  BY <1>1, <1>10, <1>12, <1>15, <2>1, <2>2, CallStep
<1> QED  BY <1>14, <1>15

LEMMA StepFstat ==
  ASSUME FsInv, NEW c \in Calls, NEW ok \in BOOLEAN, Fstat(c, ok)
  PROVE  FsInv'
<1>1. /\ call[c] \in CallStates /\ CallFits(c) /\ call[c].at = "fstat"
      /\ file \in Seq(Bytes) /\ Len(file) \in Nat
      /\ UNCHANGED <<fileVars, historyVars>>
  BY CallTyped DEF Fstat
<1>2. CASE ~ok
  BY <1>1, <1>2, ThrowsFits DEF Fstat
<1>3. CASE ok
  <2> DEFINE len == IF sized THEN Len(file) ELSE 0
             at == IF len # 0 THEN "read" ELSE "readBlocks"
             r == [call[c] EXCEPT !.at = at, !.buf = Zeros(len)]
  <2>1. Goto(c, r)
    BY <1>3 DEF Fstat
  <2>2. len \in Nat /\ len <= Len(file) /\ Zeros(len) \in Seq(Bytes) /\ Len(Zeros(len)) = len
    BY <1>1, ZerosFacts, SMT
  <2>3. len # 0 => len = Len(file)
    OBVIOUS
  <2> HIDE DEF len
  <2>4. /\ r \in CallStates /\ r.at = at /\ r.buf = Zeros(len)
        /\ r.pos = call[c].pos /\ r.out = call[c].out /\ r.kind = call[c].kind
    <3>1. at \in Places
      BY DEF Places
    <3> HIDE DEF at
    <3>2. PICK z \in Seq(Bytes) : z = Zeros(len)
      BY <2>2
    <3>3. PICK q : q = [call[c] EXCEPT !.at = at, !.buf = z]
      OBVIOUS
    <3>4. r = q
      BY <3>2, <3>3
    <3>5. call[c] \in CallStates
      BY <1>1
    <3>6. q \in CallStates
      BY ONLY <3>1, <3>3, <3>5, z \in Seq(Bytes), SizedCall
    <3>7. /\ q.kind = call[c].kind /\ q.at = at /\ q.buf = z
          /\ q.pos = call[c].pos /\ q.out = call[c].out
      BY ONLY <3>3, <3>5, <3>6 DEF CallStates
    <3> HIDE DEF r
    <3> QED  BY <3>2, <3>4, <3>6, <3>7
  <2> HIDE DEF r
  <2>5. call[c].pos = 0 /\ call[c].out = "none" /\ file \in saw[c]
    BY <1>1 DEF CallFits, Underway
  <2>6. Underway(r, file, saw[c])
    <3>1. len # 0 => 0 <= len
      BY <2>2, SMT
    <3> QED  BY <2>2, <2>4, <2>5, <3>1 DEF Underway
  <2>7. HasRead(r, file)
    BY <1>1, <2>4, <2>5, SMT DEF HasRead
  <2>8. len # 0 => BeginsWith(file, file) /\ Len(file) = Len(r.buf)
    BY <1>1, <2>2, <2>3, <2>4, SMT DEF BeginsWith
  <2>9. Matches(r, file, saw[c])
    BY <2>4, <2>5, <2>7, <2>8 DEF Matches
  <2> QED  BY <1>1, <2>1, <2>4, <2>6, <2>9, CallStep
<1> QED  BY <1>2, <1>3

LEMMA StepBegin ==
  ASSUME FsInv, NEW c \in Calls, NEW kind \in Kinds, NEW async \in BOOLEAN,
         Begin(c, kind, async)
  PROVE  FsInv'
<1>1. PICK hasLoop \in BOOLEAN :
        Goto(c, [NoCall EXCEPT !.kind = kind, !.async = async, !.hasLoop = hasLoop,
                               !.at = IF async THEN "queued" ELSE "enter"])
  BY DEF Begin
<1> DEFINE at == IF async THEN "queued" ELSE "enter"
           r == [NoCall EXCEPT !.kind = kind, !.async = async, !.hasLoop = hasLoop, !.at = at]
<1>2. call' = [call EXCEPT ![c] = r]
  BY <1>1 DEF Goto
<1>3. /\ r \in CallStates /\ r.at \in {"queued", "enter"} /\ r.pos = 0 /\ r.out = "none"
  <2>1. at \in {"queued", "enter"}
    OBVIOUS
  <2> HIDE DEF at
  <2>2. r \in CallStates
    BY ONLY <2>1, kind \in Kinds, async \in BOOLEAN, hasLoop \in BOOLEAN, BegunCall
  <2> QED  BY <2>1, <2>2 DEF NoCall
<1> HIDE DEF r
<1>4. /\ saw' = [saw EXCEPT ![c] = {file}] /\ UNCHANGED <<file, changes, damaged>>
      /\ file \in Seq(Bytes)
  BY CallTyped DEF Begin, fileVars
<1>5. /\ call' \in [Calls -> CallStates] /\ saw' \in [Calls -> SUBSET Seq(Bytes)]
      /\ call'[c] = r /\ saw'[c] = {file}
      /\ \A d \in Calls : d # c => call'[d] = call[d] /\ saw'[d] = saw[d]
  BY <1>2, <1>3, <1>4 DEF FsInv, FsTypeOK
<1>6. CallFits(c)'
  <2>1. Underway(r, file, {file})
    BY <1>3 DEF Underway
  <2>2. Matches(r, file, {file})
    BY <1>3 DEF Matches
  <2> QED  BY <1>4, <1>5, <2>1, <2>2 DEF CallFits
<1>7. ASSUME NEW d \in Calls, d # c  PROVE CallFits(d)'
  <2>1. CallFits(d) /\ call'[d] = call[d] /\ saw'[d] = saw[d]
    BY <1>5, <1>7 DEF FsInv
  <2> QED  BY <1>4, <2>1 DEF CallFits
<1>8. FsTypeOK'
  BY <1>4, <1>5 DEF FsInv, FsTypeOK
<1> QED  BY <1>6, <1>7, <1>8 DEF FsInv

LEMMA StepSimple ==
  ASSUME FsInv, NEW c \in Calls, NEW ok \in BOOLEAN,
         Work(c) \/ Enter(c) \/ Uv(c, ok) \/ Open(c, ok) \/ ReadFails(c) \/ CloseFile(c, ok)
  PROVE  FsInv'
<1> DEFINE r == call[c]
<1>1. /\ r \in CallStates /\ CallFits(c) /\ r.kind \in Kinds
      /\ UNCHANGED <<fileVars, historyVars>>
  BY CallTyped DEF Work, Enter, Uv, Open, ReadFails, CloseFile
<1>2. /\ Underway(r, file, saw[c])
      /\ c \notin damaged => Matches(r, file, saw[c])
  BY <1>1 DEF CallFits
<1> HIDE DEF r
<1>3. CASE Work(c)
  <2> DEFINE q == [r EXCEPT !.at = "enter"]
  <2>1. Goto(c, q) /\ r.at = "queued"
    BY <1>3 DEF Work, r
  <2>2. /\ q \in CallStates /\ q.at = "enter" /\ q.kind = r.kind /\ q.buf = r.buf
        /\ q.pos = r.pos /\ q.out = r.out
    BY <1>1, MovedCall DEF Places
  <2> HIDE DEF q
  <2>3. Underway(q, file, saw[c]) /\ Matches(q, file, saw[c])
    BY <1>2, <2>1, <2>2 DEF Underway, Matches
  <2> QED  BY <1>1, <2>1, <2>2, <2>3, CallStep
<1>4. CASE Enter(c)
  <2>1. CASE Throws(c, r, "runtime_error")
    BY <1>1, <2>1, ThrowsFits
  <2>2. CASE Goto(c, [r EXCEPT !.at = Entry(r.kind)])
    <3> DEFINE q == [r EXCEPT !.at = Entry(r.kind)]
    <3>1. /\ Entry(r.kind) \in {"open", "fstat", "uv"} /\ Entry(r.kind) \in Places
          /\ Entry(r.kind) = "uv" => r.kind \notin Reads
      BY <1>1 DEF Entry, Kinds, Reads, Places
    <3>2. /\ q \in CallStates /\ q.at = Entry(r.kind) /\ q.kind = r.kind /\ q.buf = r.buf
          /\ q.pos = r.pos /\ q.out = r.out
      BY <1>1, <3>1, MovedCall
    <3>3. r.at = "enter" /\ Goto(c, q)
      BY <1>4, <2>2 DEF Enter, r
    <3> HIDE DEF q
    <3>4. Underway(q, file, saw[c]) /\ Matches(q, file, saw[c])
      BY <1>2, <3>1, <3>2, <3>3 DEF Underway, Matches
    <3> QED  BY <1>1, <3>2, <3>3, <3>4, CallStep
  <2> QED  BY <1>4, <2>1, <2>2 DEF Enter, r
<1>5. CASE Uv(c, ok)
  <2>1. r.kind \notin Reads
    BY <1>2, <1>5 DEF Uv, Underway, r
  <2>2. Returns(c, r) \/ Throws(c, r, "Error")
    BY <1>5 DEF Uv, r
  <2> QED  BY <1>1, <2>1, <2>2, ReturnsFits, ThrowsFits
<1>6. CASE Open(c, ok)
  <2>1. CASE Throws(c, r, "Error")
    BY <1>1, <2>1, ThrowsFits
  <2>2. CASE Goto(c, [r EXCEPT !.at = "fstat", !.fd = TRUE])
    <3> DEFINE q == [r EXCEPT !.at = "fstat", !.fd = TRUE]
    <3>1. /\ q \in CallStates /\ q.at = "fstat" /\ q.pos = r.pos
          /\ q.kind = r.kind /\ q.out = r.out
      BY <1>1, OpenedCall
    <3>2. r.at = "open" /\ Goto(c, q)
      BY <1>6, <2>2 DEF Open, r
    <3> HIDE DEF q
    <3>3. Underway(q, file, saw[c]) /\ Matches(q, file, saw[c])
      BY <1>2, <3>1, <3>2 DEF Underway, Matches
    <3> QED  BY <1>1, <3>1, <3>2, <3>3, CallStep
  <2> QED  BY <1>6, <2>1, <2>2 DEF Open, r
<1>7. CASE ReadFails(c)
  <2>1. Throws(c, r, "Error")
    BY <1>7 DEF ReadFails, r
  <2> QED  BY <1>1, <2>1, ThrowsFits
<1>8. CASE CloseFile(c, ok)
  <2> DEFINE q == [r EXCEPT !.fd = FALSE]
  <2>1. q \in CallStates /\ q.buf = r.buf
    BY <1>1, ClosedCall
  <2>2. r.at = "close" /\ (Returns(c, q) \/ Throws(c, q, "Error"))
    BY <1>8 DEF CloseFile, r
  <2>3. c \notin damaged => q.buf \in saw[c]
    BY <1>2, <2>1, <2>2 DEF Matches
  <2> HIDE DEF q
  <2> QED  BY <1>1, <2>1, <2>2, <2>3, ReturnsFits, ThrowsFits
<1> QED  BY <1>3, <1>4, <1>5, <1>6, <1>7, <1>8

\* What the file becomes is seen by the calls that are active; the others only have
\* what they have seen.
LEMMA StepOthers ==
  ASSUME FsInv, Others
  PROVE  FsInv'
<1>1. PICK content \in Seq(Bytes) :
        /\ Becomes(content)
        /\ \/ damaged' = damaged /\ BeginsWith(content, file)
           \/ damaged' = damaged \cup {c \in Calls : Active(c)}
  <2>0. file \in Seq(Bytes) /\ Len(file) \in Nat /\ changes \in Nat
    <3>1. file \in Seq(Bytes) /\ changes \in Nat
      BY DEF FsInv, FsTypeOK
    <3> QED  BY <3>1, LenProperties
  <2>1. CASE AppendTo
    <3> DEFINE x == <<changes + 1, Len(file) + 1>>
    <3>1. x \in Bytes
      BY <2>0, SMT DEF Bytes
    <3> HIDE DEF x
    <3>2. /\ Append(file, x) \in Seq(Bytes) /\ Len(Append(file, x)) = Len(file) + 1
          /\ \A i \in 1..Len(file) : Append(file, x)[i] = file[i]
      BY <2>0, <3>1, AppendProperties
    <3>3. BeginsWith(Append(file, x), file)
      BY <2>0, <3>2, SMT DEF BeginsWith
    <3> QED  BY <2>1, <3>2, <3>3 DEF AppendTo, x
  <2>2. CASE Shrink
    <3>1. PICK n \in 0..Len(file) - 1 : Becomes(SubSeq(file, 1, n))
      BY <2>2 DEF Shrink
    <3>2. SubSeq(file, 1, n) \in Seq(Bytes)
      BY <2>0, <3>1, SMT
    <3> QED  BY <2>2, <3>1, <3>2 DEF Shrink
  <2>3. CASE Overwrite
    <3> DEFINE w == Written(changes + 1, Len(file))
    <3>1. \A i \in 1..Len(file) : <<changes + 1, i>> \in Bytes
      BY <2>0, SMT DEF Bytes
    <3>2. w \in [1..Len(file) -> Bytes]
      BY <3>1 DEF Written
    <3>3. w \in Seq(Bytes)
      <4> HIDE DEF w
      <4> QED  BY <2>0, <3>2
    <3> QED  BY <2>3, <3>3 DEF Overwrite
  <2> QED  BY <2>1, <2>2, <2>3 DEF Others
<1>2. /\ file' = content /\ changes' = changes + 1 /\ UNCHANGED call
      /\ saw' = [c \in Calls |-> IF Active(c) THEN saw[c] \cup {content} ELSE saw[c]]
  BY <1>1 DEF Becomes
<1>3. FsTypeOK'
  <2>1. changes' \in Nat
    BY <1>2, SMT DEF FsInv, FsTypeOK
  <2>2. saw' \in [Calls -> SUBSET Seq(Bytes)]
    BY <1>1, <1>2 DEF FsInv, FsTypeOK
  <2> QED  BY <1>1, <1>2, <2>1, <2>2 DEF FsInv, FsTypeOK
<1>4. ASSUME NEW c \in Calls  PROVE CallFits(c)'
  <2> DEFINE r == call[c]
             S == saw'[c]
  <2>1. /\ CallFits(c) /\ r \in CallStates /\ r.buf \in Seq(Bytes) /\ r.pos \in Nat
        /\ Len(file) \in Nat
    BY CallTyped
  <2>2. /\ saw[c] \subseteq S /\ (Active(c) => content \in S)
    BY <1>2
  <2>3. Underway(r, content, S)
    <3>1. r.at \notin {"idle", "done"} => content \in S
      BY <2>2 DEF Active
    <3> HIDE DEF S
    <3> QED  BY <2>1, <3>1 DEF CallFits, Underway
  <2>4. ASSUME c \notin damaged'  PROVE Matches(r, content, S)
    <3>1. Matches(r, file, saw[c])
      BY <1>1, <2>1, <2>4 DEF CallFits
    <3>2. CASE ~Active(c)
      <4>1. r.at \in {"idle", "done"}
        BY <3>2 DEF Active
      <4> HIDE DEF S, r
      <4> QED  BY <2>2, <3>1, <4>1 DEF Matches
    <3>3. CASE Active(c)
      <4>1. BeginsWith(content, file)
        BY <1>1, <2>4, <3>3
      <4> HIDE DEF S, r
      <4>2. HasRead(r, file) => HasRead(r, content)
        <5>1. Len(content) \in Nat
          BY <1>1, LenProperties
        <5> QED  BY <2>1, <4>1, <5>1, SMT DEF HasRead, BeginsWith
      <4>3. ASSUME NEW s \in saw[c], BeginsWith(file, s)  PROVE BeginsWith(content, s)
        <5>1. s \in Seq(Bytes)
          BY CallTyped
        <5>2. Len(content) \in Nat /\ Len(s) \in Nat
          BY <1>1, <5>1, LenProperties
        <5> QED  BY <2>1, <4>1, <4>3, <5>2, SMT DEF BeginsWith
      <4> QED  BY <2>2, <3>1, <4>2, <4>3 DEF Matches
    <3> QED  BY <3>2, <3>3
  <2> QED  BY <1>2, <2>3, <2>4 DEF CallFits
<1> QED  BY <1>3, <1>4 DEF FsInv

LEMMA FsInit == Init => FsInv
<1> SUFFICES ASSUME Init  PROVE FsInv
  OBVIOUS
<1>1. PICK n \in 0..MaxLength : file = Written(1, n)
  BY DEF Init
<1>2. file \in Seq(Bytes)
  <2>1. n \in Nat /\ \A i \in 1..n : <<1, i>> \in Bytes
    BY BoundsAssumption, SMT DEF Bytes
  <2>2. file \in [1..n -> Bytes]
    BY <1>1, <2>1 DEF Written
  <2> QED  BY <2>1, <2>2
<1>3. NoCall \in CallStates
  <2>1. <<>> \in Seq(Bytes) /\ "simple" \in Kinds /\ "idle" \in Places
    BY DEF Kinds, Places
  <2> QED  BY <2>1 DEF NoCall, CallStates
<1>4. FsTypeOK
  BY <1>2, <1>3 DEF Init, FsTypeOK
<1>5. NoCall.at = "idle" /\ NoCall.pos = 0 /\ NoCall.out = "none"
  BY DEF NoCall
<1>6. \A c \in Calls : call[c].at = "idle" /\ call[c].pos = 0 /\ call[c].out = "none"
  BY <1>5 DEF Init
<1>7. \A c \in Calls : CallFits(c)
  BY <1>6 DEF CallFits, Underway, Matches
<1> QED  BY <1>4, <1>7 DEF FsInv

LEMMA FsStep ==
  ASSUME FsInv, Next
  PROVE  FsInv'
<1>1. CASE Others
  BY <1>1, StepOthers
<1>2. ASSUME NEW c \in Calls, Run(c)  PROVE FsInv'
  BY <1>2, StepSimple, StepFstat, StepRead, StepReadBlock DEF Run
<1>3. ASSUME NEW c \in Calls, NEW kind \in Kinds, NEW async \in BOOLEAN, Begin(c, kind, async)
      PROVE  FsInv'
  BY <1>3, StepBegin
<1> QED  BY <1>1, <1>2, <1>3 DEF Next

-----------------------------------------------------------------------------
(* The theorems. *)

\* As long as others only append to the file, the part of the buffer that
\* readFileSync has filled is what the file begins with, after any reads of any
\* length, and the buffer is as long as the file was at fstat or as what was read.
THEOREM BufferFollowsFile == Spec => []FsInv
<1>1. FsInv /\ UNCHANGED vars => FsInv'
  BY DEF vars, FsInv, FsTypeOK, CallFits
<1> QED  BY FsInit, FsStep, <1>1, PTL DEF Spec

\* What readFile returns, of a path or of a descriptor, is what the file held at one
\* moment of the call, unless something of it was lost meanwhile.
THEOREM SnapshotRead == Spec => []ReadIsSnapshot
<1>1. FsInv => ReadIsSnapshot
  BY DEF FsInv, CallFits, Matches, ReadIsSnapshot
<1> QED  BY <1>1, BufferFollowsFile, PTL
=============================================================================
