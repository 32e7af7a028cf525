-------------------------- MODULE HttpServerProofs --------------------------
(***************************************************************************)
(* Proofs about module HttpServer, for any set of connections, any         *)
(* timeouts and any number of close() calls.                               *)
(*                                                                         *)
(* The list of the timeouts is searched, inserted into and erased from by  *)
(* index; what the properties are about is which entries it holds.  The    *)
(* first part proves what each operation on the list does to the set of    *)
(* its entries, given that no connection is in it twice; the second part   *)
(* uses these lemmas only.                                                 *)
(***************************************************************************)
EXTENDS HttpServer, SequenceTheorems, FiniteSetTheorems, WellFoundedInduction, TLAPS

\* The type of an entry.
Slots == [conn : Connections, left : Times]

\* The entries of a list, and that there is one for each connection at most.
Items(list) == {list[i] : i \in 1..Len(list)}
NoTwins(list) == \A i, j \in 1..Len(list) : list[i].conn = list[j].conn => i = j

\* The entries belong to connections that are not gone and carry their deadlines.
EntriesFit ==
  /\ NoTwins(entries)
  /\ \A e \in Items(entries) : e.conn \in Live /\ e.left = left[e.conn]

\* close() was called on a socket that is closing or closed, and a then-callback is
\* still to run on one that is gone.
ClosesFit ==
  \A c \in Connections : closes[c] = 0 <=> conn[c] \in {"none", "open"}

ServerInv == TypeOK /\ EntriesFit /\ ClosesFit /\ TimerWatches

-----------------------------------------------------------------------------
(* Searching. *)

\* A set of numbers that is not empty has a least one.
LEMMA MinOf ==
  ASSUME NEW I \in SUBSET Nat, I # {}
  PROVE  Min(I) \in I /\ \A j \in I : Min(I) <= j
<1>1. \E x \in I : \A y \in I : ~(<<y, x>> \in OpToRel(<, Nat))
  BY WFMin, NatLessThanWellFounded
<1>2. PICK x \in I : \A y \in I : ~(y < x)
  BY <1>1 DEF OpToRel
<1>3. \A y \in I : x <= y
  BY <1>2, SMT
<1> QED  BY <1>3 DEF Min

\* The search of RestartTime.
EntryOf(list, c) == SelectInSeq(list, LAMBDA e : e.conn = c)

LEMMA EntryOfConnection ==
  ASSUME NEW list \in Seq(Slots), NEW c
  PROVE  /\ EntryOf(list, c) \in 0..Len(list)
         /\ EntryOf(list, c) = 0 => \A j \in 1..Len(list) : list[j].conn # c
         /\ EntryOf(list, c) # 0 => list[EntryOf(list, c)].conn = c
<1> DEFINE I == {i \in 1..Len(list) : list[i].conn = c}
<1>1. EntryOf(list, c) = IF I # {} THEN Min(I) ELSE 0
  BY DEF EntryOf, SelectInSeq
<1>2. Len(list) \in Nat
  BY LenProperties
<1>3. I \in SUBSET Nat
  BY <1>2, SMT
<1>4. CASE I = {}
  BY <1>1, <1>2, <1>4, SMT
<1>5. CASE I # {}
  <2>1. EntryOf(list, c) \in I
    BY <1>1, <1>3, <1>5, MinOf
  <2> QED  BY <1>2, <2>1, SMT
<1> QED  BY <1>4, <1>5

\* The search of insertConnection ends at the first entry that does not end earlier.
LEMMA PlaceInList ==
  ASSUME NEW list \in Seq(Slots), NEW t \in Int, \A e \in Slots : e.left \in Int
  PROVE  /\ Place(list, t) \in 1..Len(list) + 1
         /\ \A j \in 1..Len(list) : list[j].left = t => Place(list, t) <= j
<1> DEFINE I == {i \in 1..Len(list) + 1 : i <= Len(list) => t <= list[i].left}
           P(i) == /\ i <= Len(list) => t <= list[i].left
                   /\ \A j \in 1..i - 1 : t > list[j].left
<1>1. Len(list) \in Nat /\ \A j \in 1..Len(list) : list[j].left \in Int
  BY LenProperties
<1>2. I \in SUBSET Nat /\ Len(list) + 1 \in I
  BY <1>1, SMT
<1>3. Min(I) \in I /\ \A j \in I : Min(I) <= j
  BY <1>2, MinOf
<1>4. Min(I) \in 1..Len(list) + 1 /\ P(Min(I))
  <2>1. ASSUME NEW j \in 1..Min(I) - 1  PROVE t > list[j].left
    <3>1. PICK m \in I : m = Min(I)
      BY <1>3
    <3>2. j \in 1..Len(list) + 1 /\ j < m /\ j <= Len(list)
      BY <1>1, <2>1, <3>1, SMT
    <3>3. j \notin I
      BY <1>1, <1>3, <3>1, <3>2, SMT
    <3> QED  BY <1>1, <3>2, <3>3, SMT
  <2> QED  BY <1>3, <2>1
<1>5. Place(list, t) \in 1..Len(list) + 1 /\ P(Place(list, t))
  BY <1>4 DEF Place
<1> QED  BY <1>1, <1>5, SMT

-----------------------------------------------------------------------------
(* Inserting and erasing, by index. *)

LEMMA FunctionIsSeq ==
  ASSUME NEW S, NEW n \in Nat, NEW q \in [1..n -> S]
  PROVE  q \in Seq(S) /\ Len(q) = n
OBVIOUS

LEMMA InsertAtFacts ==
  ASSUME NEW s \in Seq(Slots), NEW i \in 1..Len(s) + 1, NEW e \in Slots
  PROVE  /\ InsertAt(s, i, e) \in Seq(Slots)
         /\ Len(InsertAt(s, i, e)) = Len(s) + 1
         /\ InsertAt(s, i, e)[i] = e
         /\ \A j \in 1..Len(s) + 1 : j < i => InsertAt(s, i, e)[j] = s[j]
         /\ \A j \in 1..Len(s) + 1 : i < j => InsertAt(s, i, e)[j] = s[j - 1]
<1> DEFINE a == SubSeq(s, 1, i - 1)
           b == a \o <<e>>
           d == SubSeq(s, i, Len(s))
<1>0. Len(s) \in Nat /\ \A j \in 1..Len(s) : s[j] \in Slots
  BY LenProperties
<1>1. /\ a \in Seq(Slots) /\ Len(a) = i - 1
      /\ \A j \in 1..i - 1 : a[j] = s[j]
  <2>1. /\ a \in Seq(Slots) /\ Len(a) = (IF 1 <= i - 1 THEN i - 1 - 1 + 1 ELSE 0)
        /\ \A j \in 1..i - 1 - 1 + 1 : a[j] = s[1 + j - 1]
    BY <1>0, SubSeqProperties, SMT
  <2> QED  BY <1>0, <2>1, SMT
<1>2. /\ d \in Seq(Slots) /\ Len(d) = Len(s) - i + 1
      /\ \A j \in 1..Len(s) - i + 1 : d[j] = s[i + j - 1]
  <2>1. /\ d \in Seq(Slots) /\ Len(d) = (IF i <= Len(s) THEN Len(s) - i + 1 ELSE 0)
        /\ \A j \in 1..Len(s) - i + 1 : d[j] = s[i + j - 1]
    BY <1>0, SubSeqProperties, SMT
  <2> QED  BY <1>0, <2>1, SMT
<1>3. <<e>> \in Seq(Slots) /\ Len(<<e>>) = 1 /\ <<e>>[1] = e
  OBVIOUS
<1>4. /\ b \in Seq(Slots) /\ Len(b) = Len(a) + 1
      /\ \A j \in 1..Len(a) + 1 : b[j] = IF j <= Len(a) THEN a[j] ELSE <<e>>[j - Len(a)]
  <2>1. /\ b \in Seq(Slots) /\ Len(b) = Len(a) + Len(<<e>>)
        /\ \A j \in 1..Len(a) + Len(<<e>>) :
             b[j] = IF j <= Len(a) THEN a[j] ELSE <<e>>[j - Len(a)]
    BY <1>1, <1>3, ConcatProperties
  <2> QED  BY <1>3, <2>1
<1> HIDE DEF a
<1>5. /\ Len(b) = i /\ b[i] = e
      /\ \A j \in 1..i - 1 : b[j] = s[j]
  <2>1. Len(b) = i
    BY <1>0, <1>1, <1>4, SMT
  <2>2. i \in 1..Len(a) + 1 /\ ~(i <= Len(a)) /\ i - Len(a) = 1
    BY <1>0, <1>1, SMT
  <2>3. b[i] = e
    BY <1>3, <1>4, <2>2
  <2>4. ASSUME NEW j \in 1..i - 1  PROVE b[j] = s[j]
    <3>1. j \in 1..Len(a) + 1 /\ j <= Len(a)
      BY <1>0, <1>1, SMT
    <3> QED  BY <1>1, <1>4, <3>1
  <2> QED  BY <2>1, <2>3, <2>4
<1> HIDE DEF b, d
<1>6. /\ b \o d \in Seq(Slots) /\ Len(b \o d) = Len(b) + Len(d)
      /\ \A j \in 1..Len(b) + Len(d) : (b \o d)[j] = IF j <= Len(b) THEN b[j] ELSE d[j - Len(b)]
  BY <1>2, <1>4, ConcatProperties
<1>7. Len(b) + Len(d) = Len(s) + 1
  BY <1>0, <1>2, <1>5, SMT
<1>8. (b \o d)[i] = e
  BY <1>0, <1>5, <1>6, <1>7, SMT
<1>9. ASSUME NEW j \in 1..Len(s) + 1, j < i  PROVE (b \o d)[j] = s[j]
  BY <1>0, <1>5, <1>6, <1>7, <1>9, SMT
<1>10. ASSUME NEW j \in 1..Len(s) + 1, i < j  PROVE (b \o d)[j] = s[j - 1]
  <2>1. (b \o d)[j] = d[j - i]
    BY <1>0, <1>5, <1>6, <1>7, <1>10, SMT
  <2>2. j - i \in 1..Len(s) - i + 1 /\ i + (j - i) - 1 = j - 1
    BY <1>0, <1>10, SMT
  <2> QED  BY <1>2, <2>1, <2>2
<1>11. InsertAt(s, i, e) = b \o d
  BY DEF InsertAt, a, b, d
<1> QED  BY <1>6, <1>7, <1>8, <1>9, <1>10, <1>11

LEMMA RemoveAtFacts ==
  ASSUME NEW s \in Seq(Slots), NEW i \in 1..Len(s)
  PROVE  /\ RemoveAt(s, i) \in Seq(Slots)
         /\ Len(RemoveAt(s, i)) = Len(s) - 1
         /\ \A j \in 1..Len(s) - 1 : j < i => RemoveAt(s, i)[j] = s[j]
         /\ \A j \in 1..Len(s) - 1 : ~(j < i) => RemoveAt(s, i)[j] = s[j + 1]
<1> DEFINE a == SubSeq(s, 1, i - 1)
           d == SubSeq(s, i + 1, Len(s))
<1>0. Len(s) \in Nat /\ \A j \in 1..Len(s) : s[j] \in Slots
  BY LenProperties
<1>1. /\ a \in Seq(Slots) /\ Len(a) = i - 1
      /\ \A j \in 1..i - 1 : a[j] = s[j]
  <2>1. /\ a \in Seq(Slots) /\ Len(a) = (IF 1 <= i - 1 THEN i - 1 - 1 + 1 ELSE 0)
        /\ \A j \in 1..i - 1 - 1 + 1 : a[j] = s[1 + j - 1]
    BY <1>0, SubSeqProperties, SMT
  <2> QED  BY <1>0, <2>1, SMT
<1>2. /\ d \in Seq(Slots) /\ Len(d) = Len(s) - i
      /\ \A j \in 1..Len(s) - i : d[j] = s[i + j]
  <2>1. /\ d \in Seq(Slots) /\ Len(d) = (IF i + 1 <= Len(s) THEN Len(s) - (i + 1) + 1 ELSE 0)
        /\ \A j \in 1..Len(s) - (i + 1) + 1 : d[j] = s[(i + 1) + j - 1]
    BY <1>0, SubSeqProperties, SMT
  <2> QED  BY <1>0, <2>1, SMT
<1> HIDE DEF a, d
<1>3. /\ a \o d \in Seq(Slots) /\ Len(a \o d) = Len(a) + Len(d)
      /\ \A j \in 1..Len(a) + Len(d) : (a \o d)[j] = IF j <= Len(a) THEN a[j] ELSE d[j - Len(a)]
  BY <1>1, <1>2, ConcatProperties
<1>4. Len(a) + Len(d) = Len(s) - 1
  BY <1>0, <1>1, <1>2, SMT
<1>5. ASSUME NEW j \in 1..Len(s) - 1, j < i  PROVE (a \o d)[j] = s[j]
  BY <1>0, <1>1, <1>3, <1>4, <1>5, SMT
<1>6. ASSUME NEW j \in 1..Len(s) - 1, ~(j < i)  PROVE (a \o d)[j] = s[j + 1]
  <2>1. (a \o d)[j] = d[j - (i - 1)]
    BY <1>0, <1>1, <1>3, <1>4, <1>6, SMT
  <2>2. j - (i - 1) \in 1..Len(s) - i /\ i + (j - (i - 1)) = j + 1
    BY <1>0, <1>6, SMT
  <2> QED  BY <1>2, <2>1, <2>2
<1>7. RemoveAt(s, i) = a \o d
  BY DEF RemoveAt, a, d
<1> QED  BY <1>3, <1>4, <1>5, <1>6, <1>7

-----------------------------------------------------------------------------
(* The same, by sets. *)

\* insertConnection of a connection that is not in the list.
LEMMA ItemsOfInsert ==
  ASSUME NEW list \in Seq(Slots), NoTwins(list), NEW p \in 1..Len(list) + 1,
         NEW e \in Slots, \A x \in Items(list) : x.conn # e.conn
  PROVE  /\ InsertAt(list, p, e) \in Seq(Slots)
         /\ NoTwins(InsertAt(list, p, e))
         /\ Items(InsertAt(list, p, e)) = Items(list) \cup {e}
<1> DEFINE q == InsertAt(list, p, e)
<1>0. Len(list) \in Nat
  BY LenProperties
<1>1. /\ q \in Seq(Slots) /\ Len(q) = Len(list) + 1 /\ q[p] = e
      /\ \A j \in 1..Len(list) + 1 : j < p => q[j] = list[j]
      /\ \A j \in 1..Len(list) + 1 : p < j => q[j] = list[j - 1]
  <2>1. /\ InsertAt(list, p, e) \in Seq(Slots)
        /\ Len(InsertAt(list, p, e)) = Len(list) + 1
        /\ InsertAt(list, p, e)[p] = e
        /\ \A j \in 1..Len(list) + 1 : j < p => InsertAt(list, p, e)[j] = list[j]
        /\ \A j \in 1..Len(list) + 1 : p < j => InsertAt(list, p, e)[j] = list[j - 1]
    BY ONLY InsertAtFacts
  <2> QED  BY ONLY <2>1 DEF q
<1> HIDE DEF q
<1>2. \A j \in 1..Len(list) : list[j].conn # e.conn
  BY DEF Items
<1> DEFINE F(j) == IF j < p THEN j ELSE j - 1
<1>a. ASSUME NEW j \in 1..Len(q), j # p
      PROVE  F(j) \in 1..Len(list) /\ q[j] = list[F(j)]
  <2>1. CASE j < p
    <3>1. j \in 1..Len(list) + 1 /\ j \in 1..Len(list) /\ F(j) = j
      BY <1>0, <1>1, <2>1, SMT
    <3> QED  BY <1>1, <2>1, <3>1
  <2>2. CASE p < j
    <3>1. j \in 1..Len(list) + 1 /\ j - 1 \in 1..Len(list) /\ F(j) = j - 1
      BY <1>0, <1>1, <2>2, SMT
    <3> QED  BY <1>1, <2>2, <3>1
  <2>3. j < p \/ p < j
    BY <1>0, <1>1, <1>a, SMT
  <2> QED  BY <2>1, <2>2, <2>3
<1>b. ASSUME NEW i \in 1..Len(q), NEW j \in 1..Len(q), i # p, j # p, F(i) = F(j)
      PROVE  i = j
  BY <1>0, <1>1, <1>b, SMT
<1> HIDE DEF F
<1>3. NoTwins(q)
  <2> SUFFICES ASSUME NEW i \in 1..Len(q), NEW j \in 1..Len(q), q[i].conn = q[j].conn
               PROVE  i = j
    BY DEF NoTwins
  <2>1. CASE i # p /\ j # p
    <3>1. /\ F(i) \in 1..Len(list) /\ F(j) \in 1..Len(list)
          /\ list[F(i)].conn = list[F(j)].conn
      BY <1>a, <2>1
    <3>2. F(i) = F(j)
      BY <3>1 DEF NoTwins
    <3> QED  BY <1>b, <2>1, <3>2
  <2>2. CASE i = p \/ j = p
    BY <1>1, <1>2, <1>a, <2>2
  <2> QED  BY <2>1, <2>2
<1>4. ASSUME NEW x \in Items(q)  PROVE x \in Items(list) \cup {e}
  <2>1. PICK j \in 1..Len(q) : x = q[j]
    BY <1>4 DEF Items
  <2> QED  BY <1>1, <1>a, <2>1 DEF Items
<1>5. ASSUME NEW x \in Items(list)  PROVE x \in Items(q)
  <2>1. PICK j \in 1..Len(list) : x = list[j]
    BY <1>5 DEF Items
  <2>2. CASE j < p
    <3>1. j \in 1..Len(q) /\ q[j] = x
      BY <1>0, <1>1, <2>1, <2>2, SMT
    <3> QED  BY <3>1 DEF Items
  <2>3. CASE ~(j < p)
    <3>1. j + 1 \in 1..Len(q) /\ q[j + 1] = x
      BY <1>0, <1>1, <2>1, <2>3, SMT
    <3> QED  BY <3>1 DEF Items
  <2> QED  BY <2>2, <2>3
<1>6. e \in Items(q)
  <2>1. p \in 1..Len(q) /\ q[p] = e
    BY <1>0, <1>1, SMT
  <2> QED  BY <2>1 DEF Items
<1>7. Items(q) = Items(list) \cup {e}
  BY <1>4, <1>5, <1>6
<1> QED  BY <1>1, <1>3, <1>7 DEF q

\* RestartTime: the copy of entry i goes to a place that is not behind it, and the
\* entry, one further now, is erased.
LEMMA ItemsOfRestart ==
  ASSUME NEW list \in Seq(Slots), NoTwins(list), NEW i \in 1..Len(list),
         NEW t \in Times, NEW p \in 1..i,
         NEW set \in Seq(Slots), Len(set) = Len(list),
         set[i] = Entry(list[i].conn, t),
         \A j \in 1..Len(list) : j # i => set[j] = list[j]
  PROVE  /\ RemoveAt(InsertAt(set, p, set[i]), i + 1) \in Seq(Slots)
         /\ NoTwins(RemoveAt(InsertAt(set, p, set[i]), i + 1))
         /\ Items(RemoveAt(InsertAt(set, p, set[i]), i + 1)) =
               {e \in Items(list) : e.conn # list[i].conn} \cup {Entry(list[i].conn, t)}
<1>0. Len(list) \in Nat /\ list \in [1..Len(list) -> Slots]
  BY LenProperties
<1> DEFINE x == Entry(list[i].conn, t)
<1>1. x \in Slots /\ x.conn = list[i].conn
  BY <1>0, SMT DEF Slots, Entry
<1>2. /\ set \in Seq(Slots) /\ Len(set) = Len(list)
      /\ \A j \in 1..Len(list) : set[j] = IF j = i THEN x ELSE list[j]
  BY DEF x
<1> HIDE DEF x
<1>3. set[i] = x
  BY DEF x
<1> DEFINE m == InsertAt(set, p, x)
           q == RemoveAt(InsertAt(set, p, set[i]), i + 1)
<1>4. /\ m \in Seq(Slots) /\ Len(m) = Len(list) + 1 /\ m[p] = x
      /\ \A j \in 1..Len(list) + 1 : j < p => m[j] = set[j]
      /\ \A j \in 1..Len(list) + 1 : p < j => m[j] = set[j - 1]
  <2>1. p \in 1..Len(set) + 1
    BY <1>0, <1>2, SMT
  <2>2. /\ m \in Seq(Slots) /\ Len(m) = Len(set) + 1 /\ m[p] = x
        /\ \A j \in 1..Len(set) + 1 : j < p => m[j] = set[j]
        /\ \A j \in 1..Len(set) + 1 : p < j => m[j] = set[j - 1]
    <3>1. set \in Seq(Slots) /\ x \in Slots
      BY <1>1, <1>2
    <3>2. /\ InsertAt(set, p, x) \in Seq(Slots)
          /\ Len(InsertAt(set, p, x)) = Len(set) + 1
          /\ InsertAt(set, p, x)[p] = x
          /\ \A j \in 1..Len(set) + 1 : j < p => InsertAt(set, p, x)[j] = set[j]
          /\ \A j \in 1..Len(set) + 1 : p < j => InsertAt(set, p, x)[j] = set[j - 1]
      BY ONLY <2>1, <3>1, InsertAtFacts
    <3> QED  BY ONLY <3>2 DEF m
  <2> QED  BY ONLY <1>2, <2>2
<1> HIDE DEF m
<1>5. /\ q \in Seq(Slots) /\ Len(q) = Len(list)
      /\ \A j \in 1..Len(list) : j < i + 1 => q[j] = m[j]
      /\ \A j \in 1..Len(list) : ~(j < i + 1) => q[j] = m[j + 1]
  <2>1. i + 1 \in 1..Len(m) /\ Len(m) - 1 = Len(list)
    BY <1>0, <1>4, SMT
  <2>2. q = RemoveAt(m, i + 1)
    BY <1>3 DEF m
  <2>3. /\ RemoveAt(m, i + 1) \in Seq(Slots) /\ Len(RemoveAt(m, i + 1)) = Len(m) - 1
        /\ \A j \in 1..Len(m) - 1 : j < i + 1 => RemoveAt(m, i + 1)[j] = m[j]
        /\ \A j \in 1..Len(m) - 1 : ~(j < i + 1) => RemoveAt(m, i + 1)[j] = m[j + 1]
    BY <1>4, <2>1, RemoveAtFacts
  <2> QED  BY <2>1, <2>2, <2>3
<1> HIDE DEF q
<1> DEFINE F(j) == IF p < j /\ j <= i THEN j - 1 ELSE j
<1>p. p \in 1..Len(list) /\ q[p] = x
  <2>1. p \in 1..Len(list) /\ p < i + 1
    BY <1>0, SMT
  <2> QED  BY <1>4, <1>5, <2>1
<1>6. ASSUME NEW j \in 1..Len(list), j # p
      PROVE  F(j) \in 1..Len(list) /\ F(j) # i /\ q[j] = list[F(j)]
  <2>1. CASE j < p
    <3>1. /\ j < i + 1 /\ j \in 1..Len(list) + 1 /\ F(j) = j /\ j # i
      BY <1>0, <2>1, SMT
    <3>2. q[j] = m[j] /\ m[j] = set[j] /\ set[j] = list[j]
      BY <1>2, <1>4, <1>5, <2>1, <3>1
    <3> QED  BY <3>1, <3>2
  <2>2. CASE p < j /\ j <= i
    <3>1. /\ j < i + 1 /\ j \in 1..Len(list) + 1 /\ F(j) = j - 1 /\ j - 1 # i
          /\ j - 1 \in 1..Len(list)
      BY <1>0, <2>2, SMT
    <3> QED  BY <1>2, <1>4, <1>5, <2>2, <3>1
  <2>3. CASE i < j
    <3>1. /\ ~(j < i + 1) /\ j + 1 \in 1..Len(list) + 1 /\ F(j) = j /\ j # i
          /\ p < j + 1 /\ (j + 1) - 1 = j
      BY <1>0, <2>3, SMT
    <3>2. q[j] = m[j + 1] /\ m[j + 1] = set[(j + 1) - 1]
      BY <1>4, <1>5, <3>1
    <3> QED  BY <1>2, <3>1, <3>2
  <2>4. j < p \/ (p < j /\ j <= i) \/ i < j
    BY <1>0, <1>6, SMT
  <2> QED  BY <2>1, <2>2, <2>3, <2>4
<1>b. ASSUME NEW k \in 1..Len(list), NEW j \in 1..Len(list), k # p, j # p, F(k) = F(j)
      PROVE  k = j
  BY <1>0, <1>b, SMT
<1>c. ASSUME NEW k \in 1..Len(list), k # i
      PROVE  \E j \in 1..Len(list) : j # p /\ F(j) = k
  <2>1. CASE k < p \/ i < k
    <3>1. F(k) = k /\ k # p
      BY <1>0, <2>1, SMT
    <3> QED  BY <3>1
  <2>2. CASE ~(k < p \/ i < k)
    <3>1. /\ p < k + 1 /\ k + 1 <= i /\ (k + 1) - 1 = k /\ k + 1 # p
          /\ k + 1 \in 1..Len(list)
      BY <1>0, <1>c, <2>2, SMT
    <3>2. F(k + 1) = k
      BY <3>1
    <3> QED  BY <3>1, <3>2
  <2> QED  BY <2>1, <2>2
<1> HIDE DEF F
<1>7. NoTwins(q)
  <2>1. \A j \in 1..Len(list) : j # p => q[j].conn # x.conn
    BY <1>1, <1>6 DEF NoTwins
  <2> SUFFICES ASSUME NEW k \in 1..Len(list), NEW j \in 1..Len(list), q[k].conn = q[j].conn
               PROVE  k = j
    BY <1>5 DEF NoTwins
  <2>2. CASE k # p /\ j # p
    <3>1. /\ F(k) \in 1..Len(list) /\ F(j) \in 1..Len(list)
          /\ list[F(k)].conn = list[F(j)].conn
      BY <1>6, <2>2
    <3>2. F(k) = F(j)
      BY <3>1 DEF NoTwins
    <3> QED  BY <1>b, <2>2, <3>2
  <2>3. CASE k = p \/ j = p
    BY <1>p, <2>1, <2>3
  <2> QED  BY <2>2, <2>3
<1>8. ASSUME NEW y \in Items(q)
      PROVE  y = x \/ (y \in Items(list) /\ y.conn # list[i].conn)
  <2>1. PICK j \in 1..Len(list) : y = q[j]
    BY <1>5, <1>8 DEF Items
  <2>2. CASE j = p
    BY <1>p, <2>1, <2>2
  <2>3. CASE j # p
    <3>1. F(j) \in 1..Len(list) /\ F(j) # i /\ y = list[F(j)]
      BY <1>6, <2>1, <2>3
    <3>2. y.conn # list[i].conn
      BY <3>1 DEF NoTwins
    <3> QED  BY <3>1, <3>2 DEF Items
  <2> QED  BY <2>2, <2>3
<1>9. ASSUME NEW y \in Items(list), y.conn # list[i].conn  PROVE y \in Items(q)
  <2>1. PICK k \in 1..Len(list) : y = list[k] /\ k # i
    BY <1>9 DEF Items
  <2>2. PICK j \in 1..Len(list) : j # p /\ F(j) = k
    BY <1>c, <2>1
  <2>3. y = q[j]
    BY <1>6, <2>1, <2>2
  <2> QED  BY <1>5, <2>3 DEF Items
<1>10. x \in Items(q)
  BY <1>5, <1>p DEF Items
<1>11. Items(q) = {e \in Items(list) : e.conn # list[i].conn} \cup {x}
  BY <1>1, <1>8, <1>9, <1>10
<1> QED  BY <1>5, <1>7, <1>11 DEF x, q

\* remove_if when at most one entry is removed.
LEMMA ItemsOfWithout ==
  ASSUME NEW list \in Seq(Slots), NoTwins(list), NEW c
  PROVE  /\ Without(list, c) \in Seq(Slots) /\ NoTwins(Without(list, c))
         /\ Items(Without(list, c)) = {e \in Items(list) : e.conn # c}
<1> DEFINE n == Len(list)
           kept == {i \in DOMAIN list : list[i].conn # c}
           Nth(k) == CHOOSE i \in kept : Cardinality({j \in kept : j <= i}) = k
           q == Without(list, c)
<1>0. n \in Nat /\ list \in [1..n -> Slots] /\ DOMAIN list = 1..n
  BY LenProperties
<1>1. q = [k \in 1..Cardinality(kept) |-> list[Nth(k)]]
  BY DEF Without
<1> HIDE DEF q
<1>2. \A i \in 0..n : IsFiniteSet(1..i) /\ Cardinality(1..i) = i
  <2> SUFFICES ASSUME NEW i \in 0..n  PROVE IsFiniteSet(1..i) /\ Cardinality(1..i) = i
    OBVIOUS
  <2>1. i \in Int /\ (IF 1 > i THEN 0 ELSE i - 1 + 1) = i
    BY <1>0, SMT
  <2> QED  BY <2>1, FS_Interval
<1>3. CASE \A i \in 1..n : list[i].conn # c
  <2>1. kept = 1..n
    BY <1>0, <1>3
  <2>2. Cardinality(kept) = n
    <3>1. n \in 0..n
      BY <1>0, SMT
    <3> QED  BY <1>2, <2>1, <3>1
  <2>3. ASSUME NEW k \in 1..n  PROVE Nth(k) = k
    <3>1. ASSUME NEW i \in 1..n  PROVE Cardinality({j \in kept : j <= i}) = i
      <4>1. {j \in kept : j <= i} = 1..i /\ i \in 0..n
        BY <1>0, <2>1, SMT
      <4> QED  BY <1>2, <4>1
    <3> QED  BY <2>1, <3>1
  <2>4. q = list
    BY <1>0, <1>1, <2>2, <2>3
  <2>5. Items(list) = {e \in Items(list) : e.conn # c}
    BY <1>3 DEF Items
  <2> QED  BY <2>4, <2>5 DEF q
<1>4. ASSUME NEW x \in 1..n, list[x].conn = c
      PROVE  /\ q \in Seq(Slots) /\ NoTwins(q)
             /\ Items(q) = {e \in Items(list) : e.conn # c}
  <2>1. kept = (1..n) \ {x}
    BY <1>0, <1>4 DEF NoTwins
  <2>2. Cardinality(kept) = n - 1
    <3>1. IsFiniteSet(1..n) /\ Cardinality(1..n) = n
      BY <1>0, <1>2, SMT
    <3> QED  BY <1>4, <2>1, <3>1, FS_RemoveElement
  <2>3. ASSUME NEW i \in kept
        PROVE  Cardinality({j \in kept : j <= i}) = IF i < x THEN i ELSE i - 1
    <3>0. i \in 1..n /\ i # x /\ i \in 0..n
      BY <1>0, <2>1, SMT
    <3>1. CASE i < x
      <4>1. {j \in kept : j <= i} = 1..i
        BY <1>0, <2>1, <3>0, <3>1, SMT
      <4> QED  BY <1>2, <3>0, <3>1, <4>1
    <3>2. CASE ~(i < x)
      <4>1. {j \in kept : j <= i} = (1..i) \ {x} /\ x \in 1..i
        BY <1>0, <2>1, <3>0, <3>2, SMT
      <4>2. IsFiniteSet(1..i) /\ Cardinality(1..i) = i
        BY <1>2, <3>0
      <4> QED  BY <3>2, <4>1, <4>2, FS_RemoveElement
    <3> QED  BY <3>1, <3>2
  <2>4. ASSUME NEW k \in 1..n - 1
        PROVE  Nth(k) = IF k < x THEN k ELSE k + 1
    <3> DEFINE y == IF k < x THEN k ELSE k + 1
    <3>1. y \in kept /\ (IF y < x THEN y ELSE y - 1) = k
      BY <1>0, <1>4, <2>1, SMT
    <3>2. ASSUME NEW i \in kept, (IF i < x THEN i ELSE i - 1) = k  PROVE i = y
      BY <1>0, <1>4, <2>1, <3>2, SMT
    <3> QED  BY <2>3, <3>1, <3>2
  <2>5. ASSUME NEW k \in 1..n - 1
        PROVE  q[k] = IF k < x THEN list[k] ELSE list[k + 1]
    <3>1. q[k] = list[Nth(k)]
      BY <1>1, <2>2
    <3> QED  BY <2>4, <3>1
  <2>6. q \in Seq(Slots) /\ Len(q) = n - 1
    <3>1. n - 1 \in Nat /\ \A k \in 1..n - 1 : k \in 1..n /\ k + 1 \in 1..n
      BY <1>0, <1>4, SMT
    <3>2. \A k \in 1..n - 1 : q[k] \in Slots
      BY <1>0, <2>5, <3>1
    <3>3. q = [k \in 1..n - 1 |-> list[Nth(k)]]
      BY <1>1, <2>2
    <3>4. q \in [1..n - 1 -> Slots] /\ DOMAIN q = 1..n - 1
      BY <3>2, <3>3
    <3> QED  BY <3>1, <3>4, FunctionIsSeq
  <2> DEFINE F(k) == IF k < x THEN k ELSE k + 1
  <2>a. ASSUME NEW k \in 1..n - 1
        PROVE  F(k) \in 1..n /\ F(k) # x /\ q[k] = list[F(k)]
    <3>1. F(k) \in 1..n /\ F(k) # x
      BY <1>0, <1>4, SMT
    <3> QED  BY <2>5, <3>1
  <2>b. ASSUME NEW k \in 1..n - 1, NEW j \in 1..n - 1, F(k) = F(j)  PROVE k = j
    BY <1>0, <1>4, <2>b, SMT
  <2>c. ASSUME NEW i \in 1..n, i # x  PROVE \E k \in 1..n - 1 : F(k) = i
    <3>1. CASE i < x
      <4>1. i \in 1..n - 1 /\ F(i) = i
        BY <1>0, <1>4, <3>1, SMT
      <4> QED  BY <4>1
    <3>2. CASE ~(i < x)
      <4>1. i - 1 \in 1..n - 1 /\ F(i - 1) = i
        BY <1>0, <1>4, <2>c, <3>2, SMT
      <4> QED  BY <4>1
    <3> QED  BY <3>1, <3>2
  <2> HIDE DEF F
  <2>7. NoTwins(q)
    <3> SUFFICES ASSUME NEW k \in 1..n - 1, NEW j \in 1..n - 1, q[k].conn = q[j].conn
                 PROVE  k = j
      BY <2>6 DEF NoTwins
    <3>1. /\ F(k) \in 1..n /\ F(j) \in 1..n
          /\ list[F(k)].conn = list[F(j)].conn
      BY <2>a
    <3>2. F(k) = F(j)
      BY <3>1 DEF NoTwins
    <3> QED  BY <2>b, <3>2
  <2>8. ASSUME NEW e \in Items(q)  PROVE e \in Items(list) /\ e.conn # c
    <3>1. PICK k \in 1..n - 1 : e = q[k]
      BY <2>6, <2>8 DEF Items
    <3>2. F(k) \in 1..n /\ F(k) # x /\ e = list[F(k)]
      BY <2>a, <3>1
    <3> QED  BY <1>4, <3>2 DEF Items, NoTwins
  <2>9. ASSUME NEW e \in Items(list), e.conn # c  PROVE e \in Items(q)
    <3>1. PICK i \in 1..n : e = list[i]
      BY <2>9 DEF Items
    <3>2. i # x
      BY <1>4, <2>9, <3>1
    <3>3. PICK k \in 1..n - 1 : F(k) = i
      BY <2>c, <3>2
    <3>4. e = q[k]
      BY <2>a, <3>1, <3>3
    <3> QED  BY <2>6, <3>4 DEF Items
  <2> QED  BY <2>6, <2>7, <2>8, <2>9
<1> QED  BY <1>3, <1>4 DEF q

\* The loop over the expired entries of OnTimeout drops none whose time is not over.
LEMMA ItemsOfUnexpired ==
  ASSUME NEW list \in Seq(Slots), NoTwins(list), Times \subseteq Nat
  PROVE  /\ Unexpired(list) \in Seq(Slots) /\ NoTwins(Unexpired(list))
         /\ Items(Unexpired(list)) \subseteq Items(list)
         /\ \A e \in Items(list) : e \in Items(Unexpired(list)) \/ e.left = 0
         /\ Unexpired(list) # <<>> => Head(Unexpired(list)).left \in Times
<1> DEFINE I == {i \in 1..Len(list) : list[i].left > 0}
           q == Unexpired(list)
           n == Min(I)
<1>0. /\ Len(list) \in Nat /\ I \in SUBSET Nat
      /\ \A j \in 1..Len(list) : list[j] \in Slots /\ list[j].left \in Nat
  <2>1. Len(list) \in Nat /\ \A j \in 1..Len(list) : list[j] \in Slots
    BY LenProperties
  <2>2. \A j \in 1..Len(list) : list[j].left \in Nat
    BY <2>1 DEF Slots
  <2>3. I \in SUBSET Nat
    BY <2>1, SMT
  <2> QED  BY <2>1, <2>2, <2>3
<1>1. SelectInSeq(list, LAMBDA e : e.left > 0) = IF I # {} THEN n ELSE 0
  BY DEF SelectInSeq
<1>2. CASE I = {}
  <2>1. q = <<>>
    BY <1>1, <1>2 DEF Unexpired
  <2>2. q \in Seq(Slots) /\ Len(q) = 0
    BY <2>1
  <2>3. Items(q) = {} /\ NoTwins(q)
    BY <2>2, SMT DEF Items, NoTwins
  <2>4. ASSUME NEW e \in Items(list)  PROVE e.left = 0
    <3>1. PICK j \in 1..Len(list) : e = list[j]
      BY DEF Items
    <3> QED  BY <1>0, <1>2, <3>1, SMT
  <2> QED  BY <2>1, <2>2, <2>3, <2>4
<1>3. CASE I # {}
  <2>1. n \in I /\ \A j \in I : n <= j
    BY <1>0, <1>3, MinOf
  <2> HIDE DEF n
  <2>2. q = SubSeq(list, n, Len(list))
    <3>1. n # 0
      BY <1>0, <2>1, SMT
    <3> QED  BY <1>1, <1>3, <3>1 DEF Unexpired
  <2>3. /\ q \in Seq(Slots) /\ Len(q) = Len(list) - n + 1
        /\ \A j \in 1..Len(list) - n + 1 : q[j] = list[n + j - 1]
    <3>1. n \in 1..Len(list) + 1 /\ Len(list) \in n - 1..Len(list) /\ n <= Len(list)
      BY <1>0, <2>1, SMT
    <3> HIDE DEF q, I
    <3>2. /\ q \in Seq(Slots) /\ Len(q) = (IF n <= Len(list) THEN Len(list) - n + 1 ELSE 0)
          /\ \A j \in 1..Len(list) - n + 1 : q[j] = list[n + j - 1]
      BY <2>2, <3>1, SubSeqProperties
    <3> QED  BY <3>1, <3>2
  <2> HIDE DEF q
  <2>4. ASSUME NEW j \in 1..Len(q)
        PROVE  n + j - 1 \in 1..Len(list) /\ q[j] = list[n + j - 1]
    <3>1. n + j - 1 \in 1..Len(list) /\ j \in 1..Len(list) - n + 1
      BY <1>0, <2>1, <2>3, SMT
    <3> QED  BY <2>3, <3>1
  <2>5. NoTwins(q)
    <3> SUFFICES ASSUME NEW i \in 1..Len(q), NEW j \in 1..Len(q), q[i].conn = q[j].conn
                 PROVE  i = j
      BY DEF NoTwins
    <3>1. n + i - 1 = n + j - 1
      BY <2>4 DEF NoTwins
    <3> QED  BY <1>0, <2>1, <2>3, <3>1, SMT
  <2>6. Items(q) \subseteq Items(list)
    BY <2>4 DEF Items
  <2>7. ASSUME NEW e \in Items(list), e.left # 0  PROVE e \in Items(q)
    <3>1. PICK j \in 1..Len(list) : e = list[j]
      BY DEF Items
    <3>2. j \in I
      BY <1>0, <2>7, <3>1, SMT
    <3>3. j - n + 1 \in 1..Len(q) /\ n + (j - n + 1) - 1 = j
      BY <1>0, <2>1, <2>3, <3>2, SMT
    <3> QED  BY <2>4, <3>1, <3>3 DEF Items
  <2>8. Head(q).left \in Times
    <3>1. 1 \in 1..Len(q)
      BY <1>0, <2>1, <2>3, SMT
    <3>2. Head(q) = q[1] /\ q[1] \in Slots
      BY <2>3, <3>1
    <3> QED  BY <3>2 DEF Slots
  <2> QED  BY <2>3, <2>5, <2>6, <2>7, <2>8 DEF q
<1> QED  BY <1>2, <1>3 DEF q

LEMMA SlotSetLeft ==
  ASSUME NEW s \in Slots, NEW t \in Times
  PROVE  /\ [s EXCEPT !.left = t] \in Slots
         /\ [s EXCEPT !.left = t].conn = s.conn
         /\ [s EXCEPT !.left = t].left = t
BY SMT DEF Slots

\* One tick shortens every entry.
LEMMA ItemsOfTick ==
  ASSUME NEW list \in Seq(Slots), NoTwins(list), \A t \in Times : Less(t) \in Times,
         NEW q, q = [i \in DOMAIN list |-> [list[i] EXCEPT !.left = Less(@)]]
  PROVE  /\ q \in Seq(Slots) /\ NoTwins(q) /\ Len(q) = Len(list)
         /\ \A e \in Items(q) : \E d \in Items(list) : e.conn = d.conn /\ e.left = Less(d.left)
         /\ \A d \in Items(list) : \E e \in Items(q) : e.conn = d.conn
<1>1. Len(list) \in Nat /\ DOMAIN list = 1..Len(list) /\ \A j \in 1..Len(list) : list[j] \in Slots
  BY LenProperties
<1>2. ASSUME NEW j \in 1..Len(list)
      PROVE  q[j] \in Slots /\ q[j].conn = list[j].conn /\ q[j].left = Less(list[j].left)
  <2>1. q[j] = [list[j] EXCEPT !.left = Less(list[j].left)]
    BY <1>1
  <2>2. list[j].left \in Times /\ Less(list[j].left) \in Times
    BY <1>1 DEF Slots
  <2>3. list[j] \in Slots
    BY <1>1
  <2> QED  BY <2>1, <2>2, <2>3, SlotSetLeft
<1>3. q \in [1..Len(list) -> Slots]
  BY <1>1, <1>2
<1>4. q \in Seq(Slots) /\ Len(q) = Len(list)
  BY <1>1, <1>3, FunctionIsSeq
<1>5. NoTwins(q)
  BY <1>2, <1>4 DEF NoTwins
<1>6. \A e \in Items(q) : \E j \in 1..Len(list) : e = q[j]
  BY <1>4 DEF Items
<1>7. \A j \in 1..Len(list) : q[j] \in Items(q) /\ list[j] \in Items(list)
  BY <1>4 DEF Items
<1>8. \A d \in Items(list) : \E j \in 1..Len(list) : d = list[j]
  BY DEF Items
<1>9. ASSUME NEW e \in Items(q)
      PROVE  \E d \in Items(list) : e.conn = d.conn /\ e.left = Less(d.left)
  <2>1. PICK j \in 1..Len(list) : e = q[j]
    BY <1>6
  <2>2. list[j] \in Items(list) /\ e.conn = list[j].conn /\ e.left = Less(list[j].left)
    BY <1>2, <1>7, <2>1
  <2> QED  BY <2>2
<1>10. ASSUME NEW d \in Items(list)  PROVE \E e \in Items(q) : e.conn = d.conn
  <2>1. PICK j \in 1..Len(list) : d = list[j]
    BY <1>8
  <2>2. q[j] \in Items(q) /\ q[j].conn = d.conn
    BY <1>2, <1>7, <2>1
  <2> QED  BY <2>2
<1> QED  BY <1>4, <1>5, <1>9, <1>10

-----------------------------------------------------------------------------
(* The timer. *)

LEMMA TimesFacts ==
  /\ \E m \in Nat : Times = 0..m
  /\ Times \subseteq Nat /\ 0 \in Times
  /\ IdleTimeout \in Times /\ IdleTimeout > 0
  /\ ResponseTimeout \in Times /\ ResponseTimeout > 0
  /\ Second \in Times /\ Second > 0
<1> DEFINE S == {IdleTimeout, ResponseTimeout, Second}
           M == Max(S)
<1>1. \A x \in S : x \in Nat /\ x > 0
  BY TimesAssumption, SMT
<1>2. \E x \in S : \A y \in S : x >= y
  BY <1>1, SMT
<1>3. M \in S /\ \A y \in S : M >= y
  BY <1>2 DEF Max
<1>4. Times = 0..M
  BY DEF Times
<1> HIDE DEF M
<1>5. M \in Nat /\ \A y \in S : y \in 0..M
  BY <1>1, <1>3, SMT
<1> QED  BY <1>1, <1>4, <1>5, SMT

LEMMA WaitFacts ==
  ASSUME NEW t \in Times
  PROVE  Wait(t) \in Times /\ Wait(t) > 0
BY TimesFacts, SMT DEF Wait

LEMMA LessFacts ==
  ASSUME NEW t \in Times
  PROVE  Less(t) \in Times
<1>1. PICK m \in Nat : Times = 0..m
  BY TimesFacts
<1> QED  BY <1>1, SMT DEF Less

\* A timer that runs and repeats.
Running(tm) == tm \in Timers /\ tm.on /\ tm.repeat > 0

LEMMA StartedRuns ==
  ASSUME NEW t \in Times, NEW r \in Times, r > 0
  PROVE  Running(Started(t, r))
BY SMT DEF Running, Started, Timers

LEMMA OffFacts == Off \in Timers /\ ~Off.on
<1>1. 0 \in Times
  BY TimesFacts
<1> QED  BY <1>1, SMT DEF Off, Timers

LEMMA FindOrCreateRuns ==
  ASSUME TypeOK, TimerWatches
  PROVE  Running(FindOrCreateEntry)
BY TimesFacts, StartedRuns DEF TypeOK, TimerWatches, FindOrCreateEntry, Running

LEMMA RestartedRuns ==
  ASSUME NEW list, NEW t \in Times, NEW tm, Running(tm)
  PROVE  Running(Restarted(list, t, tm))
BY TimesFacts, WaitFacts, StartedRuns DEF Restarted

-----------------------------------------------------------------------------
(* What the operations of LoopTimeoutEntries do. *)

\* An entry that leaves the list is overdue, or its connection is closed.
NoneEarly ==
  \A e \in Items(entries) :
    \/ \E d \in Items(entries') : d.conn = e.conn
    \/ left[e.conn] = 0
    \/ conn[e.conn] = "closed"

LEMMA ListTyped ==
  ASSUME TypeOK
  PROVE  /\ entries \in Seq(Slots)
         /\ \A e \in Items(entries) : e \in Slots /\ e.conn \in Connections /\ e.left \in Times
<1>1. entries \in Seq(Slots)
  BY DEF TypeOK, Slots
<1>2. \A e \in Items(entries) : e \in Slots
  BY <1>1, ElementOfSeq DEF Items
<1> QED  BY <1>1, <1>2 DEF Slots

LEMMA SomeItem ==
  ASSUME NEW list \in Seq(Slots)
  PROVE  list = <<>> <=> Items(list) = {}
<1>1. Len(list) \in Nat
  BY LenProperties
<1>2. CASE list = <<>>
  <2>1. Len(list) = 0
    BY <1>2
  <2> QED  BY <1>2, <2>1, SMT DEF Items
<1>3. CASE list # <<>>
  <2>1. 1 \in 1..Len(list)
    <3>1. Len(list) \in Nat \ {0}
      BY <1>3, EmptySeq
    <3> QED  BY <3>1, SMT
  <2> QED  BY <1>3, <2>1 DEF Items
<1> QED  BY <1>2, <1>3

LEMMA EntryFacts ==
  ASSUME NEW c \in Connections, NEW t \in Times
  PROVE  Entry(c, t) \in Slots /\ Entry(c, t).conn = c /\ Entry(c, t).left = t
BY SMT DEF Entry, Slots

LEMMA AddEffect ==
  ASSUME TypeOK, TimerWatches, NoTwins(entries),
         NEW c \in Connections, NEW t \in Times, \A e \in Items(entries) : e.conn # c,
         AddConnection(c, t)
  PROVE  /\ entries' \in Seq(Slots) /\ NoTwins(entries')
         /\ Items(entries') = Items(entries) \cup {Entry(c, t)}
         /\ Running(timer')
         /\ left' = [left EXCEPT ![c] = t]
<1>1. Entry(c, t) \in Slots /\ Entry(c, t).conn = c
  BY EntryFacts
<1>2. entries \in Seq(Slots) /\ t \in Int /\ \A e \in Slots : e.left \in Int
  BY ListTyped, TimesFacts, SMT DEF Slots
<1>3. Place(entries, t) \in 1..Len(entries) + 1
  BY <1>2, PlaceInList
<1>4. entries' = InsertAt(entries, Place(entries, t), Entry(c, t))
  BY DEF AddConnection
<1>5. \A e \in Items(entries) : e.conn # Entry(c, t).conn
  BY <1>1
<1>6. /\ InsertAt(entries, Place(entries, t), Entry(c, t)) \in Seq(Slots)
      /\ NoTwins(InsertAt(entries, Place(entries, t), Entry(c, t)))
      /\ Items(InsertAt(entries, Place(entries, t), Entry(c, t)))
           = Items(entries) \cup {Entry(c, t)}
  BY <1>1, <1>2, <1>3, <1>5, ItemsOfInsert
<1>7. Running(timer')
  BY FindOrCreateRuns, RestartedRuns DEF AddConnection
<1> QED  BY <1>4, <1>6, <1>7 DEF AddConnection

LEMMA RestartEffect ==
  ASSUME TypeOK, TimerWatches, NoTwins(entries),
         NEW c \in Connections, NEW t \in Times, RestartTime(c, t)
  PROVE  /\ entries' \in Seq(Slots) /\ NoTwins(entries')
         /\ \/ Items(entries') = Items(entries) /\ \A e \in Items(entries) : e.conn # c
            \/ Items(entries') = {e \in Items(entries) : e.conn # c} \cup {Entry(c, t)}
         /\ Running(timer')
         /\ left' = [left EXCEPT ![c] = t]
<1> DEFINE i == EntryOf(entries, c)
           list == [entries EXCEPT ![i].left = t]
<1>1. /\ left' = [left EXCEPT ![c] = t]
      /\ IF i = 0
           THEN timer' = FindOrCreateEntry /\ UNCHANGED entries
           ELSE /\ timer' = Restarted(list, t, timer)
                /\ entries' = RemoveAt(InsertAt(list, Place(list, t), list[i]), i + 1)
  BY DEF RestartTime, EntryOf
<1>2. entries \in Seq(Slots)
  BY ListTyped
<1>3. /\ i \in 0..Len(entries)
      /\ i = 0 => \A j \in 1..Len(entries) : entries[j].conn # c
      /\ i # 0 => entries[i].conn = c
  BY <1>2, EntryOfConnection
<1> HIDE DEF i
<1>4. CASE i = 0
  <2>1. \A e \in Items(entries) : e.conn # c
    BY <1>3, <1>4 DEF Items
  <2>2. Running(timer')
    BY <1>1, <1>4, FindOrCreateRuns
  <2> QED  BY <1>1, <1>2, <1>4, <2>1, <2>2
<1>5. CASE i # 0
  <2>1. Len(entries) \in Nat /\ i \in 1..Len(entries)
    <3>1. Len(entries) \in Nat
      BY <1>2, LenProperties
    <3> QED  BY <1>3, <1>5, <3>1, SMT
  <2>2. entries[i] \in Slots /\ entries[i].conn = c
    BY <1>2, <1>3, <1>5, <2>1, ElementOfSeq
  <2>3. /\ [entries[i] EXCEPT !.left = t] \in Slots
        /\ [entries[i] EXCEPT !.left = t].left = t
    BY <2>2, SlotSetLeft
  <2>4. list = [entries EXCEPT ![i] = [entries[i] EXCEPT !.left = t]]
    OBVIOUS
  <2>5. /\ list \in Seq(Slots) /\ Len(list) = Len(entries) /\ list[i].left = t
        /\ list[i] = Entry(entries[i].conn, t)
        /\ \A j \in 1..Len(entries) : j # i => list[j] = entries[j]
    <3> HIDE DEF list
    <3>1. /\ list \in Seq(Slots) /\ Len(list) = Len(entries)
          /\ list[i] = [entries[i] EXCEPT !.left = t]
          /\ \A j \in 1..Len(entries) : j # i => list[j] = entries[j]
      BY <1>2, <2>1, <2>3, <2>4, ExceptSeq
    <3>2. [entries[i] EXCEPT !.left = t] = Entry(entries[i].conn, t)
      BY <2>2, SMT DEF Slots, Entry
    <3> QED  BY <2>3, <3>1, <3>2
  <2>6. Place(list, t) \in 1..i
    <3>1. t \in Int /\ \A e \in Slots : e.left \in Int
      BY TimesFacts, SMT DEF Slots
    <3> HIDE DEF list
    <3>2. Place(list, t) \in 1..Len(list) + 1 /\ Place(list, t) <= i
      BY <2>1, <2>5, <3>1, PlaceInList
    <3> QED  BY <2>1, <2>5, <3>2, SMT
  <2>7. /\ entries' \in Seq(Slots) /\ NoTwins(entries')
        /\ Items(entries')
             = {e \in Items(entries) : e.conn # entries[i].conn} \cup {Entry(entries[i].conn, t)}
    <3>1. entries' = RemoveAt(InsertAt(list, Place(list, t), list[i]), i + 1)
      BY <1>1, <1>5
    <3> DEFINE p == Place(list, t)
    <3>2. p \in 1..i 
      BY <2>6
    <3>3. entries' = RemoveAt(InsertAt(list, p, list[i]), i + 1)
      BY <3>1
    <3> HIDE DEF list, p
    <3>4. /\ RemoveAt(InsertAt(list, p, list[i]), i + 1) \in Seq(Slots)
          /\ NoTwins(RemoveAt(InsertAt(list, p, list[i]), i + 1))
          /\ Items(RemoveAt(InsertAt(list, p, list[i]), i + 1)) =
               {e \in Items(entries) : e.conn # entries[i].conn} \cup {Entry(entries[i].conn, t)}
      <4>1. /\ list \in Seq(Slots) /\ Len(list) = Len(entries)
            /\ list[i] = Entry(entries[i].conn, t)
            /\ \A j \in 1..Len(entries) : j # i => list[j] = entries[j]
        BY <2>5
      <4>2. entries \in Seq(Slots) /\ i \in 1..Len(entries) /\ p \in 1..i
        BY <1>2, <2>1, <3>2
      <4> QED  BY <4>1, <4>2, ItemsOfRestart
    <3> QED  BY <3>3, <3>4
  <2>8. Running(timer)
    <3>1. entries # <<>>
      <4>1. entries[i] \in Items(entries)
        BY <2>1 DEF Items
      <4> QED  BY <1>2, <4>1, SomeItem
    <3> QED  BY <3>1 DEF TypeOK, TimerWatches, Running
  <2>9. Running(timer')
    BY <1>1, <1>5, <2>8, RestartedRuns
  <2> QED  BY <1>1, <2>2, <2>7, <2>9
<1> QED  BY <1>4, <1>5

LEMMA RemoveEffect ==
  ASSUME TypeOK, TimerWatches, NoTwins(entries), NEW c \in Connections, RemoveConnection(c)
  PROVE  /\ entries' \in Seq(Slots) /\ NoTwins(entries')
         /\ Items(entries') = {e \in Items(entries) : e.conn # c}
         /\ timer' \in Timers /\ TimerWatches'
<1>1. entries \in Seq(Slots) /\ entries' = Without(entries, c)
  BY ListTyped DEF RemoveConnection
<1>2. timer' = Off \/ Running(timer')
  BY FindOrCreateRuns DEF RemoveConnection
<1>3. timer' \in Timers /\ TimerWatches'
  BY <1>2, FindOrCreateRuns, OffFacts DEF RemoveConnection, Running, TimerWatches
<1> QED  BY <1>1, <1>3, ItemsOfWithout

LEMMA TimeoutEffect ==
  ASSUME TypeOK, TimerWatches, NoTwins(entries), OnTimeout
  PROVE  /\ entries' \in Seq(Slots) /\ NoTwins(entries')
         /\ Items(entries') \subseteq Items(entries)
         /\ \A e \in Items(entries) : e \in Items(entries') \/ e.left = 0
         /\ timer' \in Timers /\ TimerWatches'
<1>1. entries \in Seq(Slots) /\ entries' = Unexpired(entries) /\ Times \subseteq Nat
  BY ListTyped, TimesFacts DEF OnTimeout
<1>2. entries' # <<>> => Head(entries').left \in Times
  BY <1>1, ItemsOfUnexpired
<1>3. ASSUME entries' = <<>>  PROVE timer' \in Timers /\ TimerWatches'
  BY <1>3, OffFacts DEF OnTimeout, TimerWatches
<1>4. ASSUME entries' # <<>>  PROVE timer' \in Timers /\ TimerWatches'
  <2>1. Wait(Head(entries').left) \in Times /\ Wait(Head(entries').left) > 0
    BY <1>2, <1>4, WaitFacts
  <2>2. timer.repeat \in Times
    BY DEF TypeOK, Timers
  <2>3. timer' = Started(timer.repeat, Wait(Head(entries').left))
    BY <1>4 DEF OnTimeout
  <2>4. Running(timer')
    BY <2>1, <2>2, <2>3, StartedRuns
  <2> QED  BY <2>4 DEF Running, TimerWatches
<1> QED  BY <1>1, <1>3, <1>4, ItemsOfUnexpired

LEMMA TickEffect ==
  ASSUME TypeOK, TimerWatches, NoTwins(entries), Tick
  PROVE  /\ entries' \in Seq(Slots) /\ NoTwins(entries')
         /\ \A e \in Items(entries') :
              \E d \in Items(entries) : e.conn = d.conn /\ e.left = Less(d.left)
         /\ \A d \in Items(entries) : \E e \in Items(entries') : e.conn = d.conn
         /\ timer' \in Timers /\ TimerWatches'
<1>1. entries \in Seq(Slots) /\ \A t \in Times : Less(t) \in Times
  BY ListTyped, LessFacts
<1>2. entries' = [i \in DOMAIN entries |-> [entries[i] EXCEPT !.left = Less(@)]]
  BY DEF Tick
<1>3. /\ entries' \in Seq(Slots) /\ NoTwins(entries') /\ Len(entries') = Len(entries)
      /\ \A e \in Items(entries') :
           \E d \in Items(entries) : e.conn = d.conn /\ e.left = Less(d.left)
      /\ \A d \in Items(entries) : \E e \in Items(entries') : e.conn = d.conn
  BY <1>1, <1>2, ItemsOfTick
<1>4. /\ timer' \in Timers /\ timer'.on = timer.on /\ timer'.repeat = timer.repeat
  <2>1. /\ timer \in Timers /\ Less(timer.due) \in Times
        /\ timer' = [timer EXCEPT !.due = Less(timer.due)]
    BY <1>1 DEF Tick, TypeOK, Timers
  <2> QED  BY <2>1, SMT DEF Timers
<1>5. entries = <<>> => entries' = <<>>
  BY <1>1, <1>3, SomeItem
<1> QED  BY <1>3, <1>4, <1>5 DEF TimerWatches

-----------------------------------------------------------------------------
(* The steps. *)

\* A step that leaves the connections' list, deadlines and timer alone needs to keep
\* the live connections only.
LEMMA ListKept ==
  ASSUME ServerInv, UNCHANGED <<entries, timer, left>>,
         \A c \in Connections : conn[c] \in {"open", "closing", "closed"}
                                  => conn'[c] \in {"open", "closing", "closed"}
  PROVE  EntriesFit' /\ TimerWatches' /\ NoneEarly
<1>1. \A e \in Items(entries) : e.conn \in Connections
  BY ListTyped DEF ServerInv
<1> QED  BY <1>1 DEF ServerInv, EntriesFit, TimerWatches, NoneEarly, Live

LEMMA CloseSocketsFacts ==
  ASSUME TypeOK, ClosesFit, NEW C \in SUBSET Connections, CloseSockets(C)
  PROVE  /\ conn' \in [Connections -> ConnStates]
         /\ closes' \in [Connections -> 0..MaxCloses]
         /\ ClosesFit'
         /\ \A c \in Connections : conn[c] \in {"open", "closing", "closed"}
                                     => conn'[c] \in {"open", "closing", "closed"}
<1>1. conn' \in [Connections -> ConnStates]
  BY DEF TypeOK, ConnStates, CloseSockets
<1>2. ASSUME NEW c \in Connections
      PROVE  /\ closes'[c] \in 0..MaxCloses
             /\ closes'[c] = 0 <=> conn'[c] \in {"none", "open"}
  <2>1. closes[c] \in 0..MaxCloses /\ (closes[c] = 0 <=> conn[c] \in {"none", "open"})
    BY DEF TypeOK, ClosesFit
  <2>2. CASE c \in C /\ conn[c] = "open"
    <3>1. conn'[c] = "closing" /\ closes'[c] = closes[c] + 1
      BY <2>2 DEF CloseSockets
    <3> QED  BY <2>1, <2>2, <3>1, MaxClosesAssumption, SMT
  <2>3. CASE c \in C /\ conn[c] = "closing"
    <3>1. conn'[c] = "closing" /\ closes'[c] = closes[c] + 1 /\ closes[c] < MaxCloses
      BY <2>3 DEF CloseSockets
    <3> QED  BY <2>1, <2>3, <3>1, MaxClosesAssumption, SMT
  <2>4. CASE ~(c \in C /\ conn[c] \in {"open", "closing"})
    <3>1. conn'[c] = conn[c] /\ closes'[c] = closes[c]
      BY <2>4 DEF CloseSockets
    <3> QED  BY <2>1, <3>1
  <2> QED  BY <2>2, <2>3, <2>4
<1>3. closes' \in [Connections -> 0..MaxCloses]
  <2>1. closes' = [c \in Connections |-> closes'[c]]
    BY DEF CloseSockets
  <2> QED  BY <1>2, <2>1
<1>4. ClosesFit'
  BY <1>2 DEF ClosesFit
<1>5. \A c \in Connections : conn[c] \in {"open", "closing", "closed"}
                               => conn'[c] \in {"open", "closing", "closed"}
  BY DEF CloseSockets
<1> QED  BY <1>1, <1>3, <1>4, <1>5

LEMMA StepInit == Init => ServerInv
<1> SUFFICES ASSUME Init  PROVE ServerInv
  OBVIOUS
<1>1. entries = <<>> /\ entries \in Seq(Slots)
  BY DEF Init
<1>2. Items(entries) = {}
  BY <1>1, SomeItem
<1>3. NoTwins(entries)
  BY <1>2 DEF NoTwins, Items
<1>4. EntriesFit
  BY <1>2, <1>3 DEF EntriesFit
<1>5. TypeOK
  <2>1. 0 \in 0..MaxCloses
    BY MaxClosesAssumption, SMT
  <2> QED  BY <1>1, <2>1, OffFacts, TimesFacts DEF Init, TypeOK, ServerStates, ConnStates, Slots
<1>6. ClosesFit
  BY DEF Init, ClosesFit
<1>7. TimerWatches
  BY <1>1, OffFacts DEF Init, TimerWatches
<1> QED  BY <1>4, <1>5, <1>6, <1>7 DEF ServerInv

LEMMA StepServer ==
  ASSUME ServerInv, Listen \/ ServerClosed
  PROVE  ServerInv' /\ NoneEarly
<1>1. /\ server' \in ServerStates
      /\ UNCHANGED <<conn, closes, entries, timer, left, crashed>>
  BY DEF Listen, ServerClosed, ServerStates
<1>2. EntriesFit' /\ TimerWatches' /\ NoneEarly
  BY <1>1, ListKept
<1> QED  BY <1>1, <1>2 DEF ServerInv, TypeOK, ClosesFit

LEMMA StepCreate ==
  ASSUME ServerInv, NEW c \in Connections, CreateConnection(c)
  PROVE  ServerInv' /\ NoneEarly
<1>1. \A e \in Items(entries) : e.conn # c
  BY DEF ServerInv, EntriesFit, Live, CreateConnection
<1>2. /\ entries' \in Seq(Slots) /\ NoTwins(entries')
      /\ Items(entries') = Items(entries) \cup {Entry(c, IdleTimeout)}
      /\ Running(timer')
      /\ left' = [left EXCEPT ![c] = IdleTimeout]
  BY <1>1, AddEffect, TimesFacts DEF ServerInv, EntriesFit, CreateConnection
<1>3. /\ conn' = [conn EXCEPT ![c] = "open"] /\ conn[c] = "none"
      /\ UNCHANGED <<server, closes, crashed>>
  BY DEF CreateConnection
<1>4. TypeOK'
  BY <1>2, <1>3, TimesFacts DEF ServerInv, TypeOK, ConnStates, Slots, Running
<1>5. ClosesFit'
  BY <1>3 DEF ServerInv, TypeOK, ClosesFit
<1>6. TimerWatches'
  BY <1>2 DEF TimerWatches, Running
<1>7. ASSUME NEW e \in Items(entries')  PROVE e.conn \in Live' /\ e.left = left'[e.conn]
  <2>1. CASE e \in Items(entries)
    <3>1. e.conn \in Live /\ e.left = left[e.conn] /\ e.conn # c
      BY <1>1, <2>1 DEF ServerInv, EntriesFit
    <3> QED  BY <1>2, <1>3, <3>1 DEF ServerInv, TypeOK, Live
  <2>2. CASE e = Entry(c, IdleTimeout)
    BY <1>2, <1>3, <2>2, EntryFacts, TimesFacts DEF ServerInv, TypeOK, Live
  <2> QED  BY <1>2, <2>1, <2>2
<1>8. NoneEarly
  BY <1>2 DEF NoneEarly
<1> QED  BY <1>2, <1>4, <1>5, <1>6, <1>7, <1>8 DEF ServerInv, EntriesFit

\* RestartTime leaves the entries with their connections.
LEMMA RestartFits ==
  ASSUME ServerInv, NEW c \in Connections, NEW t \in Times, RestartTime(c, t),
         c \in Live,
         \A d \in Connections : conn[d] \in {"open", "closing", "closed"}
                                  => conn'[d] \in {"open", "closing", "closed"}
  PROVE  /\ entries' \in Seq(Slots) /\ timer' \in Timers /\ left' \in [Connections -> Times]
         /\ EntriesFit' /\ TimerWatches' /\ NoneEarly
<1>1. /\ entries' \in Seq(Slots) /\ NoTwins(entries')
      /\ \/ Items(entries') = Items(entries) /\ \A e \in Items(entries) : e.conn # c
         \/ Items(entries') = {e \in Items(entries) : e.conn # c} \cup {Entry(c, t)}
      /\ Running(timer')
      /\ left' = [left EXCEPT ![c] = t]
  BY RestartEffect DEF ServerInv, EntriesFit
<1>2. left' \in [Connections -> Times]
  BY <1>1 DEF ServerInv, TypeOK
<1>3. TimerWatches' /\ timer' \in Timers
  BY <1>1 DEF TimerWatches, Running
<1>4. ASSUME NEW e \in Items(entries')  PROVE e.conn \in Live' /\ e.left = left'[e.conn]
  <2>1. CASE e \in Items(entries) /\ e.conn # c
    <3>1. e.conn \in Live /\ e.left = left[e.conn]
      BY <2>1 DEF ServerInv, EntriesFit
    <3> QED  BY <1>1, <2>1, <3>1 DEF ServerInv, TypeOK, Live
  <2>2. CASE e = Entry(c, t)
    <3>1. e.conn = c /\ e.left = t
      BY <2>2, EntryFacts
    <3> QED  BY <1>1, <3>1 DEF ServerInv, TypeOK, Live
  <2> QED  BY <1>1, <2>1, <2>2
<1>5. NoneEarly
  <2>1. Entry(c, t).conn = c
    BY EntryFacts
  <2> QED  BY <1>1, <2>1 DEF NoneEarly
<1> QED  BY <1>1, <1>2, <1>3, <1>4, <1>5 DEF EntriesFit

LEMMA StepRequest ==
  ASSUME ServerInv, NEW c \in Connections, RequestReceived(c)
  PROVE  ServerInv' /\ NoneEarly
<1>1. /\ RestartTime(c, ResponseTimeout) /\ c \in Live
      /\ UNCHANGED <<server, conn, closes, crashed>>
  BY DEF RequestReceived, Live
<1>2. /\ entries' \in Seq(Slots) /\ timer' \in Timers /\ left' \in [Connections -> Times]
      /\ EntriesFit' /\ TimerWatches' /\ NoneEarly
  BY <1>1, RestartFits, TimesFacts
<1> QED  BY <1>1, <1>2 DEF ServerInv, TypeOK, ClosesFit, Slots

LEMMA StepResponse ==
  ASSUME ServerInv, NEW c \in Connections, NEW keep \in BOOLEAN, ResponseSent(c, keep)
  PROVE  ServerInv' /\ NoneEarly
<1>1. /\ RestartTime(c, IdleTimeout) /\ c \in Live
      /\ UNCHANGED <<server, crashed>>
      /\ UNCHANGED <<conn, closes>> \/ CloseSockets({c})
  BY DEF ResponseSent
<1>2. /\ conn' \in [Connections -> ConnStates]
      /\ closes' \in [Connections -> 0..MaxCloses]
      /\ ClosesFit'
      /\ \A d \in Connections : conn[d] \in {"open", "closing", "closed"}
                                  => conn'[d] \in {"open", "closing", "closed"}
  <2>1. CASE UNCHANGED <<conn, closes>>
    BY <2>1 DEF ServerInv, TypeOK, ClosesFit
  <2>2. CASE CloseSockets({c})
    BY <2>2, CloseSocketsFacts DEF ServerInv
  <2> QED  BY <1>1, <2>1, <2>2
<1>3. /\ entries' \in Seq(Slots) /\ timer' \in Timers /\ left' \in [Connections -> Times]
      /\ EntriesFit' /\ TimerWatches' /\ NoneEarly
  BY <1>1, <1>2, RestartFits, TimesFacts
<1> QED  BY <1>1, <1>2, <1>3 DEF ServerInv, TypeOK, Slots

LEMMA StepClose ==
  ASSUME ServerInv,
         CloseServer \/ \E c \in Connections : CloseConnection(c)
  PROVE  ServerInv' /\ NoneEarly
<1>1. PICK C \in SUBSET Connections : CloseSockets(C)
  BY DEF CloseServer, CloseConnection, Live
<1>2. /\ server' \in ServerStates /\ UNCHANGED <<entries, timer, left, crashed>>
  BY DEF CloseServer, CloseConnection, ServerStates, ServerInv, TypeOK
<1>3. /\ conn' \in [Connections -> ConnStates]
      /\ closes' \in [Connections -> 0..MaxCloses]
      /\ ClosesFit'
      /\ \A c \in Connections : conn[c] \in {"open", "closing", "closed"}
                                  => conn'[c] \in {"open", "closing", "closed"}
  BY <1>1, CloseSocketsFacts DEF ServerInv
<1>4. EntriesFit' /\ TimerWatches' /\ NoneEarly
  BY <1>2, <1>3, ListKept
<1> QED  BY <1>2, <1>3, <1>4 DEF ServerInv, TypeOK

LEMMA StepSocketClosed ==
  ASSUME ServerInv, NEW c \in Connections, SocketClosed(c)
  PROVE  ServerInv' /\ NoneEarly
<1>1. /\ conn[c] = "closing" /\ conn' = [conn EXCEPT ![c] = "closed"]
      /\ UNCHANGED <<server, closes, entries, timer, left, crashed>>
  BY DEF SocketClosed
<1>2. \A d \in Connections : conn'[d] = IF d = c THEN "closed" ELSE conn[d]
  BY <1>1 DEF ServerInv, TypeOK
<1>3. EntriesFit' /\ TimerWatches' /\ NoneEarly
  BY <1>1, <1>2, ListKept
<1>4. ClosesFit'
  BY <1>1, <1>2 DEF ServerInv, ClosesFit
<1>5. TypeOK'
  BY <1>1 DEF ServerInv, TypeOK, ConnStates
<1> QED  BY <1>3, <1>4, <1>5 DEF ServerInv

\* One then-callback of a closed connection, the first or a later one.
LEMMA CallbackRuns ==
  ASSUME ServerInv, NEW c \in Connections, conn[c] \in {"closed", "gone"},
         closes' = [closes EXCEPT ![c] = @ - 1],
         conn' = [conn EXCEPT ![c] = IF closes[c] = 1 THEN "none" ELSE "gone"],
         RemoveConnection(c), UNCHANGED <<server, left, crashed>>
  PROVE  ServerInv' /\ NoneEarly
<1>1. /\ entries' \in Seq(Slots) /\ NoTwins(entries')
      /\ Items(entries') = {e \in Items(entries) : e.conn # c}
      /\ timer' \in Timers /\ TimerWatches'
  BY RemoveEffect DEF ServerInv, EntriesFit
<1>2. /\ conn' \in [Connections -> ConnStates]
      /\ \A d \in Connections :
           conn'[d] = IF d = c THEN IF closes[c] = 1 THEN "none" ELSE "gone" ELSE conn[d]
  BY DEF ServerInv, TypeOK, ConnStates
<1>3. closes[c] \in 1..MaxCloses /\ closes[c] - 1 \in 0..MaxCloses
  <2>1. closes[c] \in 0..MaxCloses /\ closes[c] # 0
    BY DEF ServerInv, TypeOK, ClosesFit
  <2> QED  BY <2>1, MaxClosesAssumption, SMT
<1>4. /\ closes' \in [Connections -> 0..MaxCloses]
      /\ \A d \in Connections : closes'[d] = IF d = c THEN closes[c] - 1 ELSE closes[d]
  BY <1>3 DEF ServerInv, TypeOK
<1>5. TypeOK'
  BY <1>1, <1>2, <1>4 DEF ServerInv, TypeOK, Slots
<1>6. ASSUME NEW d \in Connections
      PROVE  closes'[d] = 0 <=> conn'[d] \in {"none", "open"}
  <2>1. CASE d = c
    <3>1. closes[c] - 1 = 0 <=> closes[c] = 1
      BY <1>3, MaxClosesAssumption, SMT
    <3> QED  BY <1>2, <1>4, <2>1, <3>1
  <2>2. CASE d # c
    BY <1>2, <1>4, <2>2 DEF ServerInv, ClosesFit
  <2> QED  BY <2>1, <2>2
<1>7. ASSUME NEW e \in Items(entries')  PROVE e.conn \in Live' /\ e.left = left'[e.conn]
  <2>1. e.conn # c /\ e.conn \in Live /\ e.left = left[e.conn]
    BY <1>1 DEF ServerInv, EntriesFit
  <2> QED  BY <1>2, <2>1 DEF Live
<1>8. NoneEarly
  <2>1. \A e \in Items(entries) : e.conn \in Live
    BY DEF ServerInv, EntriesFit
  <2> QED  BY <1>1, <2>1 DEF NoneEarly, Live
<1> QED  BY <1>1, <1>5, <1>6, <1>7, <1>8 DEF ServerInv, EntriesFit, ClosesFit

LEMMA StepClosed ==
  ASSUME ServerInv, NEW c \in Connections, Closed(c) \/ ClosedAgain(c)
  PROVE  ServerInv' /\ NoneEarly
<1>1. CASE Closed(c)
  BY <1>1, CallbackRuns DEF Closed
<1>2. CASE ClosedAgain(c) /\ ~UNCHANGED crashed
  <2>1. crashed' = TRUE /\ UNCHANGED <<server, conn, closes, entries, timer, left>>
    BY <1>2 DEF ClosedAgain
  <2>2. EntriesFit' /\ TimerWatches' /\ NoneEarly
    BY <2>1, ListKept
  <2> QED  BY <2>1, <2>2 DEF ServerInv, TypeOK, ClosesFit
<1>3. CASE ClosedAgain(c) /\ UNCHANGED crashed
  <2>1. ~crashed
    BY <1>3 DEF ClosedAgain
  <2> QED  BY <1>3, <2>1, CallbackRuns DEF ClosedAgain
<1> QED  BY <1>1, <1>2, <1>3

LEMMA StepTimeout ==
  ASSUME ServerInv, OnTimeout
  PROVE  ServerInv' /\ NoneEarly
<1>1. /\ entries' \in Seq(Slots) /\ NoTwins(entries')
      /\ Items(entries') \subseteq Items(entries)
      /\ \A e \in Items(entries) : e \in Items(entries') \/ e.left = 0
      /\ timer' \in Timers /\ TimerWatches'
  BY TimeoutEffect DEF ServerInv, EntriesFit
<1>2. UNCHANGED <<server, conn, closes, left, crashed>>
  BY DEF OnTimeout, serverVars
<1>3. EntriesFit'
  BY <1>1, <1>2 DEF ServerInv, EntriesFit, Live
<1>4. NoneEarly
  BY <1>1 DEF ServerInv, EntriesFit, NoneEarly
<1> QED  BY <1>1, <1>2, <1>3, <1>4 DEF ServerInv, TypeOK, ClosesFit, Slots

LEMMA StepTick ==
  ASSUME ServerInv, Tick
  PROVE  ServerInv' /\ NoneEarly
<1>1. /\ entries' \in Seq(Slots) /\ NoTwins(entries')
      /\ \A e \in Items(entries') :
           \E d \in Items(entries) : e.conn = d.conn /\ e.left = Less(d.left)
      /\ \A d \in Items(entries) : \E e \in Items(entries') : e.conn = d.conn
      /\ timer' \in Timers /\ TimerWatches'
  BY TickEffect DEF ServerInv, EntriesFit
<1>2. /\ UNCHANGED <<server, conn, closes, crashed>>
      /\ left' = [c \in Connections |-> Less(left[c])]
  BY DEF Tick, serverVars
<1>3. left' \in [Connections -> Times]
  BY <1>2, LessFacts DEF ServerInv, TypeOK
<1>4. ASSUME NEW e \in Items(entries')  PROVE e.conn \in Live' /\ e.left = left'[e.conn]
  <2>1. PICK d \in Items(entries) : e.conn = d.conn /\ e.left = Less(d.left)
    BY <1>1
  <2>2. d.conn \in Live /\ d.left = left[d.conn] /\ d.conn \in Connections
    BY DEF ServerInv, EntriesFit, Live
  <2> QED  BY <1>2, <2>1, <2>2 DEF Live
<1>5. NoneEarly
  BY <1>1 DEF NoneEarly
<1> QED  BY <1>1, <1>2, <1>3, <1>4, <1>5 DEF ServerInv, EntriesFit, TypeOK, ClosesFit, Slots

LEMMA StepNext ==
  ASSUME ServerInv, Next
  PROVE  ServerInv' /\ NoneEarly
<1>1. CASE Listen \/ ServerClosed
  BY <1>1, StepServer
<1>2. CASE \E c \in Connections : CreateConnection(c)
  BY <1>2, StepCreate
<1>3. CASE \E c \in Connections : RequestReceived(c)
  BY <1>3, StepRequest
<1>4. CASE \E c \in Connections, keep \in BOOLEAN : ResponseSent(c, keep)
  BY <1>4, StepResponse
<1>5. CASE CloseServer \/ \E c \in Connections : CloseConnection(c)
  BY <1>5, StepClose
<1>6. CASE \E c \in Connections : SocketClosed(c)
  BY <1>6, StepSocketClosed
<1>7. CASE \E c \in Connections : Closed(c) \/ ClosedAgain(c)
  BY <1>7, StepClosed
<1>8. CASE OnTimeout
  BY <1>8, StepTimeout
<1>9. CASE Tick
  BY <1>9, StepTick
<1> QED
  BY <1>1, <1>2, <1>3, <1>4, <1>5, <1>6, <1>7, <1>8, <1>9 DEF Next, Traffic, Closing

LEMMA StepStutter ==
  ASSUME ServerInv, UNCHANGED vars
  PROVE  ServerInv' /\ NoneEarly
<1>1. UNCHANGED <<server, conn, closes, entries, timer, left, crashed>>
  BY DEF vars
<1>2. EntriesFit' /\ TimerWatches' /\ NoneEarly
  BY <1>1, ListKept
<1> QED  BY <1>1, <1>2 DEF ServerInv, TypeOK, ClosesFit

-----------------------------------------------------------------------------
(* The theorems. *)

\* Whatever connections are made, answered and closed, in whatever order the
\* callbacks of LoopTimeoutEntries, Server and ServerConnection run, the list, the
\* timer and the sockets fit together.
THEOREM ServerInvariance == Spec => []ServerInv
<1>1. ServerInv /\ [Next]_vars => ServerInv'
  BY StepNext, StepStutter
<1> QED  BY StepInit, <1>1, PTL DEF Spec

\* The types of http::Server's model: in particular the closes that wait on a socket
\* stay within their bound and every time within the longest timeout.
THEOREM ServerTypeCorrect == Spec => []TypeOK
<1>1. ServerInv => TypeOK
  BY DEF ServerInv
<1> QED  BY <1>1, ServerInvariance, PTL

\* LoopTimeoutEntries holds at most one entry for a connection, also after
\* RestartTime inserted a copy and erased what is then behind it, and none for a
\* connection that the close callback removed.
THEOREM OneEntryEach == Spec => []WatchedOnce
<1>1. ServerInv => WatchedOnce
  <2> SUFFICES ASSUME ServerInv  PROVE WatchedOnce
    OBVIOUS
  <2>1. DOMAIN entries = 1..Len(entries)
    BY ListTyped, LenProperties DEF ServerInv
  <2> QED  BY <2>1 DEF ServerInv, EntriesFit, NoTwins, Items, WatchedOnce
<1> QED  BY <1>1, ServerInvariance, PTL

\* The time in an entry is the time of its connection's last event, wherever
\* RestartTime moved it.
THEOREM DeadlinesKept == Spec => []EntryIsDeadline
<1>1. ServerInv => EntryIsDeadline
  <2> SUFFICES ASSUME ServerInv  PROVE EntryIsDeadline
    OBVIOUS
  <2>1. DOMAIN entries = 1..Len(entries)
    BY ListTyped, LenProperties DEF ServerInv
  <2> QED  BY <2>1 DEF ServerInv, EntriesFit, Items, EntryIsDeadline
<1> QED  BY <1>1, ServerInvariance, PTL

\* The timer runs, and will run again, as long as a connection is watched.
THEOREM TimerRuns == Spec => []TimerWatches
<1>1. ServerInv => TimerWatches
  BY DEF ServerInv
<1> QED  BY <1>1, ServerInvariance, PTL

\* No step drops a connection that is not closed from the list before its time is
\* over.
THEOREM NoneDroppedEarly == Spec => NeverEarly
<1>1. ServerInv /\ ServerInv' /\ NoneEarly =>
        \A c \in Connections :
          Watched(c) /\ ~Watched(c)' => left[c] = 0 \/ conn[c] = "closed"
  <2> SUFFICES ASSUME ServerInv, ServerInv', NoneEarly, NEW c \in Connections,
                      Watched(c), ~Watched(c)'
               PROVE  left[c] = 0 \/ conn[c] = "closed"
    OBVIOUS
  <2>1. DOMAIN entries = 1..Len(entries)
    BY ListTyped, LenProperties DEF ServerInv
  <2>2. DOMAIN entries' = 1..Len(entries')
    <3>1. entries' \in Seq(Slots)
      BY DEF ServerInv, TypeOK, Slots
    <3> QED  BY <3>1, LenProperties
  <2>3. PICK e \in Items(entries) : e.conn = c
    BY <2>1 DEF Watched, Items
  <2>4. ~\E d \in Items(entries') : d.conn = c
    BY <2>2 DEF Watched, Items
  <2> QED  BY <2>3, <2>4 DEF NoneEarly
<1>2. ServerInv /\ [Next]_vars =>
        [\A c \in Connections :
           Watched(c) /\ ~Watched(c)' => left[c] = 0 \/ conn[c] = "closed"]_vars
  BY <1>1, StepNext, StepStutter
<1> QED  BY <1>2, ServerInvariance, PTL DEF Spec, NeverEarly
=============================================================================
