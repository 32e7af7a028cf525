-------------------------- MODULE HttpRequestProofs --------------------------
(***************************************************************************)
(* Proofs about module HttpRequest, for messages of any form and length,   *)
(* cut anywhere, and for any callbacks and plugins, registered and removed *)
(* at any time.                                                            *)
(*                                                                         *)
(* Messages: the invariant says, for every place the parser can be at,     *)
(* which headers are stored, and what _lastHeaderField, _lastHeaderValue   *)
(* and _wasHeaderValue hold of the one that is being read.                 *)
(*                                                                         *)
(* Requests: what Route gives is in the order of registration and without  *)
(* repetitions, and has all of the server's own callbacks that match.  The *)
(* invariant says that what ran, followed by what is still to run, is what *)
(* is left of it.                                                          *)
(***************************************************************************)
EXTENDS HttpRequest, Integers, SequenceTheorems, FiniteSetTheorems, WellFoundedInduction,
        TLAPS

\* The headers among the first n that no later one of them replaces.
Stored(n) ==
  {msg.headers[i] : i \in {j \in 1..n :
     \A l \in j + 1..n : msg.headers[l].field # msg.headers[j].field}}

\* Before the first piece of header i: the one before it is complete and not stored.
HeaderPending(i) ==
  /\ wasHeaderValue
  /\ IF i = 1 THEN lastHeader.field = <<>> /\ headers = {}
              ELSE lastHeader = msg.headers[i - 1] /\ headers = Stored(i - 2)

\* Inside the field of header i.
HeaderNamed(i) ==
  /\ ~wasHeaderValue
  /\ lastHeader.field = SubSeq(msg.headers[i].field, 1, read)
  /\ headers = Stored(i - 1)

\* Inside the value of header i, or before it.
HeaderValued(i) ==
  /\ headers = Stored(i - 1)
  /\ lastHeader.field = msg.headers[i].field
  /\ IF read = 0 THEN ~wasHeaderValue
     ELSE wasHeaderValue /\ lastHeader.value = SubSeq(msg.headers[i].value, 1, read)

HeadersFit ==
  /\ at = 0 => HeaderPending(1)
  /\ \A i \in 1..Headers + 1 : at = 2 * i - 1 /\ read = 0 => HeaderPending(i)
  /\ \A i \in 1..Headers : at = 2 * i - 1 /\ read > 0 => HeaderNamed(i)
  /\ \A i \in 1..Headers : at = 2 * i => HeaderValued(i)
  /\ at = 2 * Headers + 1 => read = 0
  /\ at > 2 * Headers + 1 => headers = Stored(Headers)

\* URL and reason phrase are whole behind them, unless they came in pieces.
FirstFits ==
  at # 0 =>
    /\ "url" \notin split /\ msg.isRequest => url = msg.first
    /\ "status" \notin split /\ ~msg.isRequest => status = msg.first

BodyFits ==
  /\ msg.body = <<>> => body = <<>>
  /\ at > 2 * Headers + 2 /\ "body" \notin split => body = msg.body

MessageInv ==
  /\ msg \in Messages /\ at \in Nat /\ read \in Nat /\ lastHeader \in Header
  /\ HeadersFit /\ FirstFits /\ BodyFits
  /\ complete => AtEnd

-----------------------------------------------------------------------------
(* Messages and the place of the parser. *)

LEMMA MessageFacts ==
  ASSUME MessageInv
  PROVE  /\ msg.first \in Text /\ msg.first # <<>> /\ msg.body \in Text
         /\ msg.headers \in Seq(Header) /\ Headers \in Nat
         /\ \A i \in 1..Headers :
              /\ msg.headers[i] \in Header
              /\ msg.headers[i].field \in Text /\ msg.headers[i].field # <<>>
              /\ msg.headers[i].value \in Text
<1>1. /\ msg \in [isRequest : BOOLEAN, method : STRING, first : Text, goodUrl : BOOLEAN, headers : Seq(Header),
                  body : Text]
      /\ msg.first # <<>>
      /\ \A i \in DOMAIN msg.headers : msg.headers[i].field # <<>>
  BY MessagesAssumption DEF MessageInv
<1>2. msg.headers \in Seq(Header) /\ msg.first \in Text /\ msg.body \in Text
  BY <1>1
<1>3. Headers \in Nat /\ DOMAIN msg.headers = 1..Headers
  BY <1>2 DEF Headers
<1>4. \A i \in 1..Headers : msg.headers[i] \in Header
  BY <1>2, ElementOfSeq DEF Headers
<1> QED  BY <1>1, <1>2, <1>3, <1>4 DEF Header

\* The place tells field from value.
LEMMA PlaceFacts ==
  ASSUME MessageInv
  PROVE  /\ at = 0 => ~InField /\ ~InValue /\ Datum = msg.first
         /\ InField => at # 0 /\ \E i \in 1..Headers : at = 2 * i - 1 /\ Datum = msg.headers[i].field
         /\ InValue => at # 0 /\ \E i \in 1..Headers : at = 2 * i /\ Datum = msg.headers[i].value
         /\ InBody => ~InField /\ ~InValue /\ at # 0 /\ Datum = msg.body
<1>0. Headers \in Nat /\ at \in Nat
  BY MessageFacts DEF MessageInv
<1>1. at = 0 => ~InField /\ ~InValue
  BY <1>0, SMT DEF InField, InValue
<1>2. ASSUME InField  PROVE at # 0 /\ ~InValue
  BY <1>0, <1>2, SMT DEF InField, InValue
<1>3. ASSUME InField  PROVE \E i \in 1..Headers : at = 2 * i - 1 /\ (at + 1) \div 2 = i
  BY <1>0, <1>3, SMT DEF InField
<1>4. ASSUME InValue  PROVE at # 0 /\ \E i \in 1..Headers : at = 2 * i /\ at \div 2 = i
  BY <1>0, <1>4, SMT DEF InValue
<1>5. ASSUME InBody  PROVE ~InField /\ ~InValue /\ at # 0
  BY <1>0, <1>5, SMT DEF InField, InValue, InBody
<1>6. at = 0 => Datum = msg.first
  BY <1>1 DEF Datum
<1>7. InField => Datum = msg.headers[(at + 1) \div 2].field
  BY <1>2 DEF Datum
<1>8. InValue => Datum = msg.headers[at \div 2].value
  BY <1>2, <1>4 DEF Datum
<1>9. InBody => Datum = msg.body
  BY <1>5 DEF Datum
<1> QED  BY <1>1, <1>2, <1>3, <1>4, <1>5, <1>6, <1>7, <1>8, <1>9

-----------------------------------------------------------------------------
(* Pieces. *)

LEMMA WholePiece ==
  ASSUME NEW d \in Text
  PROVE  SubSeq(d, 1, Len(d)) = d
<1>1. d \in Seq(STRING) /\ Len(d) \in Nat
  BY DEF Text
<1>2. /\ SubSeq(d, 1, Len(d)) \in Seq(STRING) /\ Len(SubSeq(d, 1, Len(d))) = Len(d)
      /\ \A i \in 1..Len(d) : SubSeq(d, 1, Len(d))[i] = d[i]
  BY <1>1
<1> QED  BY <1>1, <1>2, SeqEqual

LEMMA JoinedPieces ==
  ASSUME NEW d \in Text, NEW r \in Nat, NEW k \in Nat, r + k <= Len(d)
  PROVE  SubSeq(d, 1, r) \o SubSeq(d, r + 1, r + k) = SubSeq(d, 1, r + k)
<1> DEFINE a == SubSeq(d, 1, r)
           b == SubSeq(d, r + 1, r + k)
           c == SubSeq(d, 1, r + k)
<1>1. d \in Seq(STRING) /\ Len(d) \in Nat
  BY DEF Text
<1>2. /\ a \in Seq(STRING) /\ Len(a) = r /\ \A i \in 1..r : a[i] = d[i]
  BY <1>1
<1>3. /\ b \in Seq(STRING) /\ Len(b) = k /\ \A i \in 1..k : b[i] = d[r + i]
  BY <1>1
<1>4. /\ c \in Seq(STRING) /\ Len(c) = r + k /\ \A i \in 1..r + k : c[i] = d[i]
  BY <1>1
<1> HIDE DEF a, b, c
<1>5. /\ a \o b \in Seq(STRING) /\ Len(a \o b) = r + k
      /\ \A i \in 1..r + k : (a \o b)[i] = IF i <= r THEN a[i] ELSE b[i - r]
  <2>1. /\ a \o b \in Seq(STRING) /\ Len(a \o b) = Len(a) + Len(b)
        /\ \A i \in 1..Len(a) + Len(b) : (a \o b)[i] = IF i <= Len(a) THEN a[i] ELSE b[i - Len(a)]
    BY <1>2, <1>3, ConcatProperties
  <2> QED  BY <1>2, <1>3, <2>1
<1>6. ASSUME NEW i \in 1..r + k  PROVE (a \o b)[i] = c[i]
  <2>1. CASE i <= r
    <3>1. i \in 1..r
      BY <2>1, SMT
    <3> QED  BY <1>2, <1>4, <1>5, <2>1, <3>1
  <2>2. CASE ~(i <= r)
    <3>1. i - r \in 1..k /\ r + (i - r) = i
      BY <2>2, SMT
    <3> QED  BY <1>3, <1>4, <1>5, <2>2, <3>1
  <2> QED  BY <2>1, <2>2
<1> QED  BY <1>4, <1>5, <1>6, SeqEqual DEF a, b, c

LEMMA PieceIsText ==
  ASSUME NEW d \in Text, NEW r \in Nat, NEW k \in Nat, r + k <= Len(d)
  PROVE  SubSeq(d, r + 1, r + k) \in Text /\ SubSeq(d, 1, r) \in Text
<1> QED  BY DEF Text

LEMMA TextsJoin ==
  ASSUME NEW a \in Text, NEW b \in Text
  PROVE  a \o b \in Text
<1> QED  BY DEF Text

-----------------------------------------------------------------------------
(* Storing a header. *)

LEMMA StoredNone == Stored(0) = {}
<1>1. 1..0 = {}
  BY SMT
<1> QED  BY <1>1 DEF Stored

\* Header n replaces the one of its name.
LEMMA StoredNext ==
  ASSUME NEW n \in Nat \ {0}
  PROVE  Stored(n) = {h \in Stored(n - 1) : h.field # msg.headers[n].field} \cup {msg.headers[n]}
<1> DEFINE H(i) == msg.headers[i]
           L(m) == {j \in 1..m : \A l \in j + 1..m : H(l).field # H(j).field}
<1>1. /\ n \in 1..n /\ n + 1..n = {} /\ n - 1 \in Nat
      /\ \A j \in 1..n : j = n \/ j \in 1..n - 1
      /\ \A j \in 1..n - 1 : j \in 1..n /\ n \in j + 1..n
      /\ \A j \in 1..n - 1 : \A l \in j + 1..n : l = n \/ l \in j + 1..n - 1
      /\ \A j \in 1..n - 1 : \A l \in j + 1..n - 1 : l \in j + 1..n
  BY SMT
<1>2. n \in L(n)
  BY <1>1
<1>3. ASSUME NEW j \in L(n), j # n  PROVE j \in L(n - 1) /\ H(j).field # H(n).field
  BY <1>1, <1>3
<1>4. ASSUME NEW j \in L(n - 1), H(j).field # H(n).field  PROVE j \in L(n)
  BY <1>1, <1>4
<1> HIDE DEF L
<1>5. \A m : Stored(m) = {H(i) : i \in L(m)}
  BY DEF Stored, L
<1> HIDE DEF H
<1> QED  BY <1>2, <1>3, <1>4, <1>5 DEF H

\* The header before the i-th is stored when the i-th begins.
LEMMA StoreLastFits ==
  ASSUME MessageInv, NEW i \in 1..Headers + 1, HeaderPending(i)
  PROVE  StoreLast = Stored(i - 1)
<1>0. Headers \in Nat
  BY MessageFacts
<1>1. CASE i = 1
  <2>1. i - 1 = 0
    BY <1>1
  <2> QED  BY <1>1, <2>1, StoredNone DEF HeaderPending, StoreLast
<1>2. CASE i # 1
  <2>1. i - 1 \in 1..Headers /\ i - 1 \in Nat \ {0} /\ (i - 1) - 1 = i - 2
    BY <1>0, <1>2, SMT
  <2>2. /\ lastHeader = msg.headers[i - 1] /\ headers = Stored(i - 2)
        /\ lastHeader.field # <<>>
    BY <1>2, <2>1, MessageFacts DEF HeaderPending
  <2>3. StoreLast = {h \in Stored(i - 2) : h.field # msg.headers[i - 1].field} \cup {msg.headers[i - 1]}
    BY <2>2 DEF StoreLast
  <2>4. Stored(i - 1) = {h \in Stored((i - 1) - 1) : h.field # msg.headers[i - 1].field} \cup {msg.headers[i - 1]}
    BY ONLY <2>1, StoredNext
  <2> QED  BY <2>1, <2>3, <2>4
<1> QED  BY <1>1, <1>2

-----------------------------------------------------------------------------
(* The place of the parser after a step. *)

LEMMA AtFirst ==
  ASSUME MessageInv, msg' = msg, at' = 0, HeaderPending(1)'
  PROVE  HeadersFit'
<1>1. Headers' = Headers /\ Headers \in Nat
  BY MessageFacts DEF Headers
<1>2. /\ \A j \in 1..Headers + 1 : at' # 2 * j - 1
      /\ \A j \in 1..Headers : at' # 2 * j
      /\ at' # 2 * Headers + 1 /\ ~(at' > 2 * Headers + 1)
  BY <1>1, SMT
<1>3. \A j \in 1..Headers : at' # 2 * j - 1
  BY <1>1, SMT
<1> QED  BY <1>1, <1>2, <1>3 DEF HeadersFit

LEMMA AtPending ==
  ASSUME MessageInv, msg' = msg, NEW i \in 1..Headers + 1, at' = 2 * i - 1, read' = 0,
         HeaderPending(i)'
  PROVE  HeadersFit'
<1>1. Headers' = Headers /\ Headers \in Nat
  BY MessageFacts DEF Headers
<1>2. /\ \A j \in 1..Headers + 1 : at' = 2 * j - 1 => j = i
      /\ \A j \in 1..Headers : at' # 2 * j
      /\ at' # 0 /\ ~(at' > 2 * Headers + 1) /\ ~(read' > 0)
  BY <1>1, SMT
<1> QED  BY <1>1, <1>2 DEF HeadersFit

LEMMA AtField ==
  ASSUME MessageInv, msg' = msg, NEW i \in 1..Headers, at' = 2 * i - 1, read' \in Nat, read' # 0,
         HeaderNamed(i)'
  PROVE  HeadersFit'
<1>1. Headers' = Headers /\ Headers \in Nat
  BY MessageFacts DEF Headers
<1>2. /\ \A j \in 1..Headers : at' = 2 * j - 1 => j = i
      /\ \A j \in 1..Headers : at' # 2 * j
      /\ at' # 0 /\ ~(at' > 2 * Headers + 1) /\ at' # 2 * Headers + 1
  BY <1>1, SMT
<1> QED  BY <1>1, <1>2 DEF HeadersFit

LEMMA AtValue ==
  ASSUME MessageInv, msg' = msg, NEW i \in 1..Headers, at' = 2 * i, HeaderValued(i)'
  PROVE  HeadersFit'
<1>1. Headers' = Headers /\ Headers \in Nat
  BY MessageFacts DEF Headers
<1>2. /\ \A j \in 1..Headers : at' = 2 * j => j = i
      /\ \A j \in 1..Headers + 1 : at' # 2 * j - 1
      /\ \A j \in 1..Headers : at' # 2 * j - 1
      /\ at' # 0 /\ ~(at' > 2 * Headers + 1) /\ at' # 2 * Headers + 1
  BY <1>1, SMT
<1> QED  BY <1>1, <1>2 DEF HeadersFit

LEMMA AtRest ==
  ASSUME MessageInv, msg' = msg, at' \in Nat, at' > 2 * Headers + 1, headers' = Stored(Headers)
  PROVE  HeadersFit'
<1>1. Headers' = Headers /\ Headers \in Nat
  BY MessageFacts DEF Headers
<1>2. /\ \A j \in 1..Headers : at' # 2 * j
      /\ \A j \in 1..Headers + 1 : at' # 2 * j - 1
      /\ \A j \in 1..Headers : at' # 2 * j - 1
      /\ at' # 0 /\ at' # 2 * Headers + 1
  BY <1>1, SMT
<1>3. Stored(Headers)' = Stored(Headers)
  BY <1>1 DEF Stored
<1> QED  BY <1>1, <1>2, <1>3 DEF HeadersFit

\* What the parser hands over.
LEMMA HandOverFacts ==
  ASSUME MessageInv, NEW k \in 0..Len(Datum), NEW last \in BOOLEAN, HandOver(k, last), Datum \in Text
  PROVE  /\ msg' = msg /\ k \in Nat /\ read + k <= Len(Datum) /\ Piece(k) \in Text
         /\ SubSeq(Datum, 1, read) \o Piece(k) = SubSeq(Datum, 1, read + k)
         /\ \/ last /\ at' = at + 1 /\ read' = 0 /\ read + k = Len(Datum)
            \/ ~last /\ at' = at /\ read' = read + k /\ k # 0
         /\ at' \in Nat /\ read' \in Nat
<1>1. Len(Datum) \in Nat /\ read \in Nat /\ at \in Nat
  BY DEF Text, MessageInv
<1>2. k \in Nat
  BY <1>1, SMT
<1>3. /\ msg' = msg /\ read + k <= Len(Datum)
      /\ \/ last /\ at' = at + 1 /\ read' = 0 /\ read + k = Len(Datum)
         \/ ~last /\ at' = at /\ read' = read + k /\ k > 0
  BY DEF HandOver
<1>4. at' \in Nat /\ read' \in Nat /\ (k > 0 => k # 0)
  BY <1>1, <1>2, <1>3, SMT
<1> QED  BY <1>1, <1>2, <1>3, <1>4, JoinedPieces, PieceIsText DEF Piece

-----------------------------------------------------------------------------
(* The steps. *)

\* Nothing of the headers changes before the first one and behind the last one.
LEMMA PendingKept ==
  ASSUME HeaderPending(1), UNCHANGED <<msg, headerVars>>
  PROVE  HeaderPending(1)'
<1> QED  BY DEF HeaderPending, headerVars

LEMMA FirstStep ==
  ASSUME MessageInv, at = 0, NEW k \in 0..Len(Datum), NEW last \in BOOLEAN, HandOver(k, last),
         UNCHANGED headerVars
  PROVE  /\ msg' = msg /\ at' \in Nat /\ read' \in Nat /\ lastHeader' \in Header
         /\ HeadersFit'
         /\ (last /\ read = 0 => Piece(k) = msg.first /\ k # 0)
         /\ (~last => at' = 0) /\ (last => at' = 1)
<1>1. Datum = msg.first /\ Datum \in Text /\ Datum # <<>>
  BY PlaceFacts, MessageFacts
<1>2. /\ msg' = msg /\ k \in Nat /\ at' \in Nat /\ read' \in Nat
      /\ \/ last /\ at' = at + 1 /\ read' = 0 /\ read + k = Len(Datum)
         \/ ~last /\ at' = at /\ read' = read + k /\ k # 0
  BY <1>1, HandOverFacts
<1>3. HeaderPending(1)'
  BY <1>2, PendingKept DEF MessageInv, HeadersFit
<1>4. HeadersFit'
  <2>1. CASE last
    <3>1. 1 \in 1..Headers + 1 /\ at' = 2 * 1 - 1 /\ read' = 0
      <4>1. at' = 1 /\ read' = 0
        BY <1>2, <2>1
      <4> QED  BY <4>1, MessageFacts
    <3> QED  BY <1>2, <1>3, <3>1, AtPending
  <2>2. CASE ~last
    BY <1>2, <1>3, <2>2, AtFirst
  <2> QED  BY <2>1, <2>2
<1>5. ASSUME last, read = 0  PROVE Piece(k) = msg.first /\ k # 0
  <2>1. k = Len(Datum) /\ Len(Datum) # 0
    <3>1. 0 + k = Len(Datum) /\ k \in Nat
      BY <1>2, <1>5
    <3>2. Len(Datum) # 0
      BY <1>1, EmptySeq DEF Text
    <3> QED  BY <3>1, <3>2
  <2>2. Piece(k) = SubSeq(Datum, 1, Len(Datum))
    BY <1>2, <1>5, <2>1 DEF Piece
  <2> QED  BY <1>1, <2>1, <2>2, WholePiece
<1>6. lastHeader' \in Header
  BY DEF MessageInv, headerVars
<1>7. (~last => at' = 0) /\ (last => at' = 1)
  BY <1>2
<1> QED  BY <1>2, <1>4, <1>5, <1>6, <1>7

LEMMA BodyKept ==
  ASSUME MessageInv, UNCHANGED <<msg, body, split>>, at' \in Nat, at' <= 2 * Headers + 2
  PROVE  BodyFits'
<1>1. Headers' = Headers /\ Headers \in Nat
  BY MessageFacts DEF Headers
<1>2. ~(at' > 2 * Headers + 2)
  BY <1>1, SMT
<1> QED  BY <1>1, <1>2 DEF MessageInv, BodyFits

LEMMA BodyFirst ==
  ASSUME MessageInv, at' \in {0, 1}, UNCHANGED <<msg, body>>
  PROVE  BodyFits'
<1>1. Headers' = Headers /\ Headers \in Nat
  BY MessageFacts DEF Headers
<1>2. ~(at' > 2 * Headers + 2)
  BY <1>1, SMT
<1> QED  BY <1>1, <1>2 DEF MessageInv, BodyFits

LEMMA UrlStep ==
  ASSUME MessageInv, NEW k \in 0..Len(Datum), NEW last \in BOOLEAN, OnUrl(k, last)
  PROVE  MessageInv'
<1>1. /\ ~complete /\ at = 0 /\ msg.isRequest /\ HandOver(k, last)
      /\ url' = IF k = 0 THEN <<"">> ELSE Piece(k)
      /\ split' = IF last /\ read = 0 THEN split ELSE split \cup {"url"}
      /\ UNCHANGED <<status, headerVars, body, complete>>
  BY DEF OnUrl, Receiving
<1>2. /\ msg' = msg /\ at' \in Nat /\ read' \in Nat /\ lastHeader' \in Header
      /\ HeadersFit'
      /\ (last /\ read = 0 => Piece(k) = msg.first /\ k # 0)
      /\ (~last => at' = 0) /\ (last => at' = 1)
  BY <1>1, FirstStep
<1>3. FirstFits'
  <2>1. CASE last /\ read = 0
    BY <1>1, <1>2, <2>1 DEF FirstFits
  <2>2. CASE ~(last /\ read = 0)
    BY <1>1, <1>2, <2>2 DEF FirstFits
  <2> QED  BY <2>1, <2>2
<1>4. BodyFits'
  BY <1>1, <1>2, BodyFirst
<1> QED  BY <1>1, <1>2, <1>3, <1>4 DEF MessageInv

LEMMA StatusStep ==
  ASSUME MessageInv, NEW k \in 0..Len(Datum), NEW last \in BOOLEAN, OnStatus(k, last)
  PROVE  MessageInv'
<1>1. /\ ~complete /\ at = 0 /\ ~msg.isRequest /\ HandOver(k, last)
      /\ status' = Piece(k)
      /\ split' = IF last /\ read = 0 THEN split ELSE split \cup {"status"}
      /\ UNCHANGED <<url, headerVars, body, complete>>
  BY DEF OnStatus, Receiving
<1>2. /\ msg' = msg /\ at' \in Nat /\ read' \in Nat /\ lastHeader' \in Header
      /\ HeadersFit'
      /\ (last /\ read = 0 => Piece(k) = msg.first /\ k # 0)
      /\ (~last => at' = 0) /\ (last => at' = 1)
  BY <1>1, FirstStep
<1>3. FirstFits'
  <2>1. CASE last /\ read = 0
    BY <1>1, <1>2, <2>1 DEF FirstFits
  <2>2. CASE ~(last /\ read = 0)
    BY <1>1, <1>2, <2>2 DEF FirstFits
  <2> QED  BY <2>1, <2>2
<1>4. BodyFits'
  BY <1>1, <1>2, BodyFirst
<1> QED  BY <1>1, <1>2, <1>3, <1>4 DEF MessageInv

\* Behind the first datum URL and reason phrase stay.
LEMMA FirstKept ==
  ASSUME MessageInv, at # 0, UNCHANGED <<msg, url, status>>, split \subseteq split'
  PROVE  FirstFits'
<1> QED  BY DEF MessageInv, FirstFits

LEMMA FieldStep ==
  ASSUME MessageInv, NEW k \in 0..Len(Datum), NEW last \in BOOLEAN, OnHeaderField(k, last)
  PROVE  MessageInv'
<1>1. /\ ~complete /\ InField /\ HandOver(k, last)
      /\ UNCHANGED <<url, status, body, complete, split>>
  BY DEF OnHeaderField, Receiving
<1>2. PICK i \in 1..Headers : at = 2 * i - 1 /\ Datum = msg.headers[i].field
  BY <1>1, PlaceFacts
<1>3. Headers \in Nat /\ Datum \in Text /\ Datum # <<>> /\ at # 0 /\ read \in Nat /\ lastHeader \in Header
  BY <1>1, <1>2, MessageFacts, PlaceFacts DEF MessageInv
<1>4. /\ msg' = msg /\ k \in Nat /\ read + k <= Len(Datum) /\ Piece(k) \in Text
      /\ SubSeq(Datum, 1, read) \o Piece(k) = SubSeq(Datum, 1, read + k)
      /\ \/ last /\ at' = at + 1 /\ read' = 0 /\ read + k = Len(Datum)
         \/ ~last /\ at' = at /\ read' = read + k /\ k # 0
      /\ at' \in Nat /\ read' \in Nat
  BY <1>1, <1>3, HandOverFacts
<1>5. /\ lastHeader' \in Header /\ ~wasHeaderValue' /\ headers' = Stored(i - 1)
      /\ lastHeader'.field = SubSeq(Datum, 1, read + k)
  <2>1. CASE read = 0
    <3>1. i \in 1..Headers + 1
      BY <1>3, SMT
    <3>2. HeaderPending(i)
      BY <1>2, <2>1, <3>1 DEF MessageInv, HeadersFit
    <3>3. wasHeaderValue /\ StoreLast = Stored(i - 1)
      BY <3>1, <3>2, StoreLastFits DEF HeaderPending
    <3>4. /\ headers' = StoreLast /\ wasHeaderValue' = FALSE
          /\ lastHeader' = [field |-> Piece(k), value |-> IF lastHeader.field = <<>> THEN lastHeader.value ELSE <<>>]
      BY <3>3 DEF OnHeaderField
    <3>5. Piece(k) = SubSeq(Datum, 1, read + k)
      BY <1>4, <2>1 DEF Piece
    <3>6. <<>> \in Text /\ lastHeader.value \in Text
      BY <1>3 DEF Text, Header
    <3>7. lastHeader' \in Header
      BY <1>4, <3>4, <3>6 DEF Header
    <3> QED  BY <3>3, <3>4, <3>5, <3>7
  <2>2. CASE read # 0
    <3>1. HeaderNamed(i)
      <4>1. read > 0
        BY <1>3, <2>2
      <4> QED  BY <1>2, <4>1 DEF MessageInv, HeadersFit
    <3>2. /\ ~wasHeaderValue /\ lastHeader.field = SubSeq(Datum, 1, read) /\ headers = Stored(i - 1)
      BY <1>2, <3>1 DEF HeaderNamed
    <3>3. /\ lastHeader' = [lastHeader EXCEPT !.field = lastHeader.field \o Piece(k)]
          /\ headers' = headers /\ wasHeaderValue' = wasHeaderValue
      BY <3>2 DEF OnHeaderField
    <3>4. lastHeader.field \o Piece(k) \in Text
      BY <1>3, <1>4, TextsJoin DEF Header
    <3>5. lastHeader' \in Header /\ lastHeader'.field = lastHeader.field \o Piece(k)
      BY <1>3, <3>3, <3>4 DEF Header
    <3> QED  BY <1>4, <3>2, <3>3, <3>5
  <2> QED  BY <2>1, <2>2
<1>6. Stored(i - 1)' = Stored(i - 1)
  BY <1>4 DEF Stored
<1>7. HeadersFit'
  <2>1. CASE last
    <3>1. at' = 2 * i /\ read' = 0
      BY <1>2, <1>3, <1>4, <2>1, SMT
    <3>2. lastHeader'.field = msg.headers[i].field
      BY <1>2, <1>3, <1>4, <1>5, <2>1, WholePiece
    <3>3. HeaderValued(i)'
      BY <1>4, <1>5, <1>6, <3>1, <3>2 DEF HeaderValued
    <3> QED  BY <1>4, <3>1, <3>3, AtValue
  <2>2. CASE ~last
    <3>1. at' = 2 * i - 1 /\ read' = read + k /\ read' # 0
      BY <1>2, <1>3, <1>4, <2>2, SMT
    <3>2. HeaderNamed(i)'
      BY <1>2, <1>4, <1>5, <1>6, <3>1 DEF HeaderNamed
    <3> QED  BY <1>4, <3>1, <3>2, AtField
  <2> QED  BY <2>1, <2>2
<1>8. at' <= 2 * Headers + 2
  BY <1>2, <1>3, <1>4, SMT
<1>9. BodyFits' /\ FirstFits'
  BY <1>1, <1>3, <1>4, <1>8, BodyKept, FirstKept
<1> QED  BY <1>1, <1>4, <1>5, <1>7, <1>9 DEF MessageInv

LEMMA ValueStep ==
  ASSUME MessageInv, NEW k \in 0..Len(Datum), NEW last \in BOOLEAN, OnHeaderValue(k, last)
  PROVE  MessageInv'
<1>1. /\ ~complete /\ InValue /\ HandOver(k, last)
      /\ lastHeader' = [lastHeader EXCEPT !.value =
                          IF wasHeaderValue THEN lastHeader.value \o Piece(k) ELSE Piece(k)]
      /\ wasHeaderValue' = TRUE
      /\ UNCHANGED <<url, status, headers, body, complete, split>>
  BY DEF OnHeaderValue, Receiving
<1>2. PICK i \in 1..Headers : at = 2 * i /\ Datum = msg.headers[i].value
  BY <1>1, PlaceFacts
<1>3. Headers \in Nat /\ Datum \in Text /\ at # 0 /\ read \in Nat /\ lastHeader \in Header
  BY <1>1, <1>2, MessageFacts, PlaceFacts DEF MessageInv
<1>4. /\ msg' = msg /\ k \in Nat /\ read + k <= Len(Datum) /\ Piece(k) \in Text
      /\ SubSeq(Datum, 1, read) \o Piece(k) = SubSeq(Datum, 1, read + k)
      /\ \/ last /\ at' = at + 1 /\ read' = 0 /\ read + k = Len(Datum)
         \/ ~last /\ at' = at /\ read' = read + k /\ k # 0
      /\ at' \in Nat /\ read' \in Nat
  BY <1>1, <1>3, HandOverFacts
<1>5. HeaderValued(i)
  BY <1>2 DEF MessageInv, HeadersFit
<1>6. /\ lastHeader' \in Header /\ lastHeader'.field = msg.headers[i].field
      /\ lastHeader'.value = SubSeq(Datum, 1, read + k)
      /\ headers' = Stored(i - 1)
  <2>1. headers' = Stored(i - 1) /\ lastHeader.field = msg.headers[i].field
    BY <1>1, <1>5 DEF HeaderValued
  <2>2. CASE read = 0
    <3>1. lastHeader' = [lastHeader EXCEPT !.value = Piece(k)]
      BY <1>1, <1>5, <2>2 DEF HeaderValued
    <3>2. Piece(k) = SubSeq(Datum, 1, read + k)
      BY <1>4, <2>2 DEF Piece
    <3> QED  BY <1>3, <1>4, <2>1, <3>1, <3>2 DEF Header
  <2>3. CASE read # 0
    <3>1. wasHeaderValue /\ lastHeader.value = SubSeq(Datum, 1, read)
      BY <1>2, <1>5, <2>3 DEF HeaderValued
    <3>2. lastHeader' = [lastHeader EXCEPT !.value = lastHeader.value \o Piece(k)]
      BY <1>1, <3>1
    <3>3. lastHeader.value \o Piece(k) \in Text
      BY <1>3, <1>4, TextsJoin DEF Header
    <3> QED  BY <1>3, <1>4, <2>1, <3>1, <3>2, <3>3 DEF Header
  <2> QED  BY <2>2, <2>3
<1>7. Stored(i - 1)' = Stored(i - 1)
  BY <1>4 DEF Stored
<1>8. HeadersFit'
  <2>1. CASE last
    <3>1. i + 1 \in 1..Headers + 1 /\ at' = 2 * (i + 1) - 1 /\ read' = 0
          /\ i + 1 # 1 /\ (i + 1) - 1 = i /\ (i + 1) - 2 = i - 1
      BY <1>2, <1>3, <1>4, <2>1, SMT
    <3>2. lastHeader'.value = msg.headers[i].value
      BY <1>2, <1>3, <1>4, <1>6, <2>1, WholePiece
    <3>3. lastHeader' = msg.headers[i]
      <4>1. msg.headers[i] \in Header
        BY MessageFacts
      <4> QED  BY <1>6, <3>2, <4>1 DEF Header
    <3>4. HeaderPending(i + 1)'
      BY <1>1, <1>4, <1>6, <1>7, <3>1, <3>3 DEF HeaderPending
    <3> QED  BY <1>4, <3>1, <3>4, AtPending
  <2>2. CASE ~last
    <3>1. at' = 2 * i /\ read' = read + k /\ read' # 0
      BY <1>2, <1>3, <1>4, <2>2, SMT
    <3>2. HeaderValued(i)'
      BY <1>1, <1>2, <1>4, <1>6, <1>7, <3>1 DEF HeaderValued
    <3> QED  BY <1>4, <3>1, <3>2, AtValue
  <2> QED  BY <2>1, <2>2
<1>9. at' <= 2 * Headers + 2
  BY <1>2, <1>3, <1>4, SMT
<1>10. BodyFits' /\ FirstFits'
  BY <1>1, <1>3, <1>4, <1>9, BodyKept, FirstKept
<1> QED  BY <1>1, <1>4, <1>6, <1>8, <1>10 DEF MessageInv

LEMMA HeadersCompleteStep ==
  ASSUME MessageInv, OnHeadersComplete
  PROVE  MessageInv'
<1>1. /\ ~complete /\ at = 2 * Headers + 1 /\ headers' = StoreLast /\ at' = at + 1
      /\ UNCHANGED <<msg, read, url, status, wasHeaderValue, lastHeader, body, complete, split>>
  BY DEF OnHeadersComplete, Receiving, AtHeadersEnd
<1>2. Headers \in Nat /\ at \in Nat
  BY MessageFacts DEF MessageInv
<1>3. /\ Headers + 1 \in 1..Headers + 1 /\ at = 2 * (Headers + 1) - 1 /\ (Headers + 1) - 1 = Headers
      /\ at # 0 /\ at' \in Nat /\ at' <= 2 * Headers + 2 /\ at' > 2 * Headers + 1
  BY <1>1, <1>2, SMT
<1>4. read = 0
  BY <1>1 DEF MessageInv, HeadersFit
<1>5. HeaderPending(Headers + 1)
  BY <1>3, <1>4 DEF MessageInv, HeadersFit
<1>6. StoreLast = Stored((Headers + 1) - 1)
  BY <1>3, <1>5, StoreLastFits
<1>7. HeadersFit'
  BY <1>1, <1>3, <1>6, AtRest
<1>8. BodyFits' /\ FirstFits'
  BY <1>1, <1>3, BodyKept, FirstKept
<1> QED  BY <1>1, <1>3, <1>7, <1>8 DEF MessageInv

LEMMA BodyStep ==
  ASSUME MessageInv, NEW k \in 0..Len(Datum), NEW last \in BOOLEAN, OnBody(k, last)
  PROVE  MessageInv'
<1>1. /\ ~complete /\ InBody /\ HandOver(k, last)
      /\ body' = Piece(k)
      /\ split' = IF last /\ read = 0 THEN split ELSE split \cup {"body"}
      /\ UNCHANGED <<url, status, headerVars, complete>>
  BY DEF OnBody, Receiving
<1>2. Datum = msg.body /\ Datum \in Text /\ at # 0 /\ Headers \in Nat /\ read \in Nat /\ at \in Nat
      /\ at = 2 * Headers + 2 /\ msg.body # <<>>
  BY <1>1, PlaceFacts, MessageFacts DEF InBody, MessageInv
<1>3. /\ msg' = msg /\ k \in Nat
      /\ \/ last /\ at' = at + 1 /\ read' = 0 /\ read + k = Len(Datum)
         \/ ~last /\ at' = at /\ read' = read + k /\ k # 0
      /\ at' \in Nat /\ read' \in Nat
  BY <1>1, <1>2, HandOverFacts
<1>4. Headers' = Headers /\ at' > 2 * Headers + 1 /\ at > 2 * Headers + 1
      /\ (at' > 2 * Headers + 2 => last)
  <2>1. Headers' = Headers
    BY <1>3 DEF Headers
  <2> QED  BY <1>2, <1>3, <2>1, SMT
<1>5. HeadersFit'
  <2>1. headers' = Stored(Headers)
    BY <1>1, <1>4 DEF MessageInv, HeadersFit, headerVars
  <2> QED  BY <1>3, <1>4, <2>1, AtRest
<1>6. FirstFits'
  <2>1. split \subseteq split'
    BY <1>1
  <2> QED  BY <1>1, <1>2, <1>3, <2>1, FirstKept
<1>7. BodyFits'
  <2>1. CASE last /\ read = 0
    <3>1. k = Len(Datum)
      BY <1>2, <1>3, <2>1, SMT
    <3>2. Piece(k) = SubSeq(Datum, 1, Len(Datum))
      BY <2>1, <3>1 DEF Piece
    <3>3. body' = msg.body
      BY <1>1, <1>2, <3>2, WholePiece
    <3> QED  BY <1>2, <1>3, <3>3 DEF BodyFits
  <2>2. CASE ~(last /\ read = 0)
    BY <1>1, <1>2, <1>3, <2>2 DEF BodyFits
  <2> QED  BY <2>1, <2>2
<1>8. lastHeader' \in Header
  BY <1>1 DEF MessageInv, headerVars
<1> QED  BY <1>1, <1>3, <1>5, <1>6, <1>7, <1>8 DEF MessageInv

LEMMA MessageKept ==
  ASSUME MessageInv, UNCHANGED <<msg, at, read, url, status, headerVars, body, split>>,
         complete' => AtEnd
  PROVE  MessageInv'
<1>1. Headers' = Headers /\ AtEnd' = AtEnd
  BY DEF Headers, AtEnd
<1>2. \A n : Stored(n)' = Stored(n)
  BY DEF Stored
<1>3. HeadersFit'
  <2>1. \A i : (HeaderPending(i)' <=> HeaderPending(i)) /\ (HeaderNamed(i)' <=> HeaderNamed(i))
               /\ (HeaderValued(i)' <=> HeaderValued(i))
    BY <1>2 DEF HeaderPending, HeaderNamed, HeaderValued, headerVars
  <2> QED  BY <1>1, <1>2, <2>1 DEF MessageInv, HeadersFit, headerVars
<1>4. FirstFits' /\ BodyFits'
  BY <1>1 DEF MessageInv, FirstFits, BodyFits
<1> QED  BY <1>1, <1>3, <1>4 DEF MessageInv, headerVars

-----------------------------------------------------------------------------
(* The theorems. *)

LEMMA InitMessage ==
  ASSUME Init
  PROVE  MessageInv
<1>1. /\ msg \in Messages /\ at = 0 /\ read = 0 /\ wasHeaderValue /\ headers = {} /\ body = <<>>
      /\ lastHeader = [field |-> <<>>, value |-> <<>>] /\ complete = FALSE
  BY DEF Init, MessageInit
<1>2. Headers \in Nat
  BY <1>1, MessagesAssumption DEF Headers
<1>3. lastHeader \in Header /\ lastHeader.field = <<>>
  BY <1>1 DEF Header, Text
<1>4. HeadersFit
  <2>1. HeaderPending(1)
    BY <1>1, <1>3 DEF HeaderPending
  <2>2. /\ \A j \in 1..Headers + 1 : at # 2 * j - 1
        /\ \A j \in 1..Headers : at # 2 * j - 1
        /\ \A j \in 1..Headers : at # 2 * j
        /\ at # 2 * Headers + 1 /\ ~(at > 2 * Headers + 1)
    BY <1>1, <1>2, SMT
  <2> QED  BY <2>1, <2>2 DEF HeadersFit
<1>5. FirstFits /\ BodyFits
  <2>1. ~(at > 2 * Headers + 2)
    BY <1>1, <1>2, SMT
  <2> QED  BY <1>1, <2>1 DEF FirstFits, BodyFits
<1> QED  BY <1>1, <1>3, <1>4, <1>5 DEF MessageInv

LEMMA NextMessage ==
  ASSUME MessageInv, [Next]_vars
  PROVE  MessageInv'
<1>1. CASE Parse
  BY <1>1, UrlStep, StatusStep, FieldStep, ValueStep, BodyStep, HeadersCompleteStep DEF Parse
<1>2. CASE Completed
  BY <1>2, MessageKept DEF Completed, OnMessageComplete, Receiving
<1>3. CASE UNCHANGED messageVars
  BY <1>3, MessageKept DEF messageVars, MessageInv
<1> QED  BY <1>1, <1>2, <1>3 DEF Next, vars

\* At every place of the parser, what is stored and what is being read are exactly the
\* headers sent so far, the last of a name only: for messages of any length, cut anywhere.
THEOREM MessageInvariance == Spec => []MessageInv
<1>1. Init => MessageInv
  BY InitMessage
<1>2. MessageInv /\ [Next]_vars => MessageInv'
  BY NextMessage
<1> QED  BY <1>1, <1>2, PTL DEF Spec

LEMMA ExactAtEnd ==
  ASSUME MessageInv
  PROVE  MessageExact
<1> SUFFICES ASSUME complete
             PROVE  /\ headers = SentHeaders
                    /\ "url" \notin split /\ msg.isRequest => url = msg.first
                    /\ "status" \notin split /\ ~msg.isRequest => status = msg.first
                    /\ "body" \notin split => body = msg.body
  BY DEF MessageExact
<1>1. AtEnd /\ Headers \in Nat /\ at \in Nat
  BY MessageFacts DEF MessageInv
<1>2. /\ at > 2 * Headers + 1 /\ at # 0
      /\ msg.body = <<>> \/ at > 2 * Headers + 2
  BY <1>1, SMT DEF AtEnd
<1>3. headers = SentHeaders
  BY <1>2 DEF MessageInv, HeadersFit, Stored, SentHeaders
<1> QED  BY <1>2, <1>3 DEF MessageInv, FirstFits, BodyFits

\* MessageExact holds for all messages: however a message is cut, on_headers_complete
\* leaves its headers, and URL, reason phrase and body that came in one piece are exact.
THEOREM MessagePutTogether == Spec => []MessageExact
<1> QED  BY MessageInvariance, ExactAtEnd, PTL

-----------------------------------------------------------------------------
(* The entries of a plugin. *)

\* What a registration is, once it is made: "" has become "/".
Templates == Seq(STRING) \cup {<<"">>}
Entries ==
  {r \in [owner : Plugins, isPlugin : BOOLEAN, target : Plugins, method : STRING,
          uri : Templates] : r.isPlugin => r.target > r.owner}

RegistryInv == data \in Seq(Entries) /\ listed \subseteq 1..Len(data)

LEMMA ListedFacts ==
  ASSUME RegistryInv
  PROVE  /\ IsFiniteSet(listed) /\ listed \subseteq Nat
         /\ \A d \in listed : data[d] \in Entries
<1>1. data \in Seq(Entries) /\ Len(data) \in Nat
  BY DEF RegistryInv
<1>2. \A d \in 1..Len(data) : data[d] \in Entries /\ d \in Nat
  BY <1>1, ElementOfSeq
<1>3. IsFiniteSet(1..Len(data))
  BY <1>1, FS_Interval
<1>4. IsFiniteSet(listed)
  BY <1>3, FS_Subset DEF RegistryInv
<1> QED  BY <1>2, <1>4 DEF RegistryInv

LEMMA EntryFacts ==
  ASSUME NEW r \in Entries
  PROVE  /\ r.owner \in Plugins /\ r.owner \in Nat /\ r.isPlugin \in BOOLEAN
         /\ r.target \in Plugins /\ r.target \in Nat
         /\ r.isPlugin => r.target > r.owner
BY BoundsAssumption DEF Entries, Plugins

\* InOrder sorts: an element's place is the number of those that are not larger.
LEMMA InOrderFacts ==
  ASSUME NEW S, IsFiniteSet(S), S \subseteq Nat
  PROVE  /\ InOrder(S) \in Seq(Nat) /\ Range(InOrder(S)) = S
         /\ \A i, j \in 1..Len(InOrder(S)) : i < j => InOrder(S)[i] < InOrder(S)[j]
<1> DEFINE Below(d) == {e \in S : e <= d}
           rank == [d \in S |-> Cardinality(Below(d))]
           N == Cardinality(S)
           q == InOrder(S)
<1>1. N \in Nat /\ IsFiniteSet(1..N) /\ Cardinality(1..N) = N
  BY FS_CardinalityType, FS_Interval
<1>2. ASSUME NEW d \in S  PROVE /\ IsFiniteSet(Below(d)) /\ Cardinality(Below(d)) \in 1..N
  <2>1. /\ IsFiniteSet(Below(d)) /\ Cardinality(Below(d)) <= N
    BY FS_Subset
  <2>2. Cardinality(Below(d)) \in Nat
    BY <2>1, FS_CardinalityType
  <2>3. d \in Below(d)
    BY <1>2
  <2>4. Cardinality(Below(d)) # 0
    BY <2>1, <2>3, FS_EmptySet
  <2> QED  BY <1>1, <2>1, <2>2, <2>4
<1>3. ASSUME NEW d \in S, NEW e \in S, d < e
      PROVE  Cardinality(Below(d)) < Cardinality(Below(e))
  <2>0. d \in Nat /\ e \in Nat
    OBVIOUS
  <2>1. Below(d) \subseteq Below(e) /\ e \in Below(e) /\ e \notin Below(d)
    <3>1. \A x \in S : x \in Nat /\ (x <= d => x <= e)
      BY <1>3, <2>0
    <3>2. e <= e /\ ~(e <= d)
      BY <1>3, <2>0
    <3> QED  BY <1>3, <3>1, <3>2
  <2>2. /\ Cardinality(Below(d)) <= Cardinality(Below(e))
        /\ Cardinality(Below(d)) # Cardinality(Below(e))
    <3> HIDE DEF Below
    <3> QED  BY <1>2, <2>1, FS_Subset
  <2>3. Cardinality(Below(d)) \in Nat /\ Cardinality(Below(e)) \in Nat
    <3> HIDE DEF Below
    <3> QED  BY <1>1, <1>2
  <2> QED  BY <2>2, <2>3
<1>4. rank \in [S -> 1..N] /\ \A d \in S : rank[d] = Cardinality(Below(d))
  BY <1>2
<1> HIDE DEF rank
<1>5. ASSUME NEW d \in S, NEW e \in S, rank[d] = rank[e]  PROVE d = e
  <2>1. rank[d] \in Nat /\ rank[e] \in Nat /\ d \in Nat /\ e \in Nat
    BY <1>1, <1>4
  <2>2. (d < e => rank[d] < rank[e]) /\ (e < d => rank[e] < rank[d])
    <3> HIDE DEF Below
    <3> QED  BY <1>3, <1>4
  <2> QED  BY <1>5, <2>1, <2>2
<1>6. rank \in Surjection(S, 1..N)
  <2>1. rank \in Injection(S, 1..N)
    BY <1>4, <1>5 DEF Injection, IsInjective
  <2> QED  BY <1>1, <2>1, FS_Injection
<1>7. ASSUME NEW n \in 1..N  PROVE q[n] \in S /\ rank[q[n]] = n
  <2>1. PICK d \in S : rank[d] = n
    BY <1>6 DEF Surjection
  <2>2. q[n] = CHOOSE d2 \in S : Cardinality(Below(d2)) = n
    BY DEF InOrder
  <2>3. Cardinality(Below(d)) = n
    BY <1>4, <2>1
  <2>4. q[n] \in S /\ Cardinality(Below(q[n])) = n
    <3> HIDE DEF Below, q
    <3> QED  BY <2>2, <2>3
  <2> QED  BY <1>4, <2>4
<1>8. DOMAIN q = 1..N /\ q = [n \in 1..N |-> q[n]]
  BY DEF InOrder
<1> HIDE DEF q, N, Below
<1>9. q \in Seq(Nat) /\ Len(q) = N
  <2>1. q \in [1..N -> Nat]
    BY <1>7, <1>8
  <2>2. q \in Seq(Nat)
    BY <1>1, <2>1, SeqDef
  <2> QED  BY <1>1, <1>8, <2>2
<1>10. ASSUME NEW i \in 1..N, NEW j \in 1..N, i < j  PROVE q[i] < q[j]
  <2>1. q[i] \in S /\ q[j] \in S /\ rank[q[i]] = i /\ rank[q[j]] = j
    BY <1>7
  <2>2. q[i] # q[j]
    BY <1>10, <2>1
  <2>3. ~(q[j] < q[i])
    <3>1. SUFFICES ASSUME q[j] < q[i]  PROVE FALSE
      OBVIOUS
    <3>2. rank[q[j]] < rank[q[i]]
      BY <1>3, <1>4, <2>1, <3>1
    <3> QED  BY <1>10, <2>1, <3>2
  <2>4. q[i] \in Nat /\ q[j] \in Nat
    BY <2>1
  <2> QED  BY <2>2, <2>3, <2>4
<1>11. ASSUME NEW d \in S  PROVE d \in Range(q)
  <2>1. rank[d] \in 1..N
    BY <1>4
  <2>2. q[rank[d]] = d
    BY <1>5, <1>7, <2>1
  <2> QED  BY <1>8, <2>1, <2>2 DEF Range
<1>12. Range(q) = S
  <2>1. Range(q) \subseteq S
    BY <1>7, <1>8 DEF Range
  <2> QED  BY <1>11, <2>1
<1> QED  BY <1>9, <1>10, <1>12 DEF q

-----------------------------------------------------------------------------
(* What execute runs, in which order. *)

\* d may come before e in what a request runs.
Follows(d, e) ==
  d # e /\ (~data[d].isPlugin /\ ~data[e].isPlugin => Before(d, e))

Ordered(s) == \A i, j \in DOMAIN s : i < j => Follows(s[i], s[j])

LEMMA OrderedConcat ==
  ASSUME NEW a \in Seq(Nat), NEW b \in Seq(Nat), Ordered(a), Ordered(b),
         \A d \in Range(a), e \in Range(b) : Follows(d, e)
  PROVE  Ordered(a \o b)
<1>1. /\ a \o b \in Seq(Nat) /\ Len(a \o b) = Len(a) + Len(b)
      /\ \A i \in 1..Len(a) + Len(b) : (a \o b)[i] = IF i <= Len(a) THEN a[i] ELSE b[i - Len(a)]
  BY ConcatProperties
<1>2. /\ Len(a) \in Nat /\ Len(b) \in Nat
      /\ DOMAIN a = 1..Len(a) /\ DOMAIN b = 1..Len(b) /\ DOMAIN (a \o b) = 1..Len(a) + Len(b)
  BY <1>1, LenProperties
<1> SUFFICES ASSUME NEW i \in 1..Len(a) + Len(b), NEW j \in 1..Len(a) + Len(b), i < j
             PROVE  Follows((a \o b)[i], (a \o b)[j])
  BY <1>2 DEF Ordered
<1>3. CASE j <= Len(a)
  <2>1. i \in DOMAIN a /\ j \in DOMAIN a /\ i <= Len(a)
    BY <1>2, <1>3
  <2>2. (a \o b)[i] = a[i] /\ (a \o b)[j] = a[j]
    BY <1>1, <1>3, <2>1
  <2> QED  BY <2>1, <2>2 DEF Ordered
<1>4. CASE i <= Len(a) /\ ~(j <= Len(a))
  <2>1. i \in DOMAIN a /\ j - Len(a) \in DOMAIN b
    BY <1>2, <1>4
  <2>2. (a \o b)[i] = a[i] /\ (a \o b)[j] = b[j - Len(a)]
    BY <1>1, <1>4
  <2>3. a[i] \in Range(a) /\ b[j - Len(a)] \in Range(b)
    BY <2>1 DEF Range
  <2> QED  BY <2>2, <2>3
<1>5. CASE ~(i <= Len(a))
  <2>1. /\ i - Len(a) \in DOMAIN b /\ j - Len(a) \in DOMAIN b /\ i - Len(a) < j - Len(a)
        /\ ~(j <= Len(a))
    BY <1>2, <1>5
  <2>2. (a \o b)[i] = b[i - Len(a)] /\ (a \o b)[j] = b[j - Len(a)]
    BY <1>1, <1>5, <2>1
  <2> QED  BY <2>1, <2>2 DEF Ordered
<1> QED  BY <1>2, <1>3, <1>4, <1>5

LEMMA RangeOfConcat ==
  ASSUME NEW a \in Seq(Nat), NEW b \in Seq(Nat)
  PROVE  a \o b \in Seq(Nat) /\ Range(a \o b) = Range(a) \cup Range(b)
<1>1. a \o b \in Seq(Nat)
  BY ConcatProperties
<1>2. Range(a \o b) = Range(a) \cup Range(b)
  BY RangeConcatenation, Zenon
<1> QED  BY <1>1, <1>2

\* An increasing list of entries of one kind.
LEMMA OrderedKind ==
  ASSUME RegistryInv, NEW S \in SUBSET listed,
         \A d, e \in S : /\ ~data[d].isPlugin /\ ~data[e].isPlugin
                         => data[d].owner = data[e].owner /\ data[d].method = data[e].method
  PROVE  InOrder(S) \in Seq(Nat) /\ Range(InOrder(S)) = S /\ Ordered(InOrder(S))
<1> DEFINE q == InOrder(S)
<1>1. IsFiniteSet(S) /\ S \subseteq Nat
  BY ListedFacts, FS_Subset
<1>2. /\ q \in Seq(Nat) /\ Range(q) = S
      /\ \A i, j \in 1..Len(q) : i < j => q[i] < q[j]
  BY <1>1, InOrderFacts
<1> HIDE DEF q
<1>3. DOMAIN q = 1..Len(q) /\ \A i \in DOMAIN q : q[i] \in S /\ q[i] \in Nat
  BY <1>1, <1>2, LenProperties DEF Range
<1>4. ASSUME NEW i \in DOMAIN q, NEW j \in DOMAIN q, i < j  PROVE Follows(q[i], q[j])
  <2>1. q[i] < q[j] /\ q[i] \in S /\ q[j] \in S /\ q[i] \in Nat /\ q[j] \in Nat
    BY <1>2, <1>3, <1>4
  <2>2. q[i] # q[j]
    BY <2>1
  <2>3. ~data[q[i]].isPlugin /\ ~data[q[j]].isPlugin => Before(q[i], q[j])
    BY <2>1 DEF Before
  <2> QED  BY <2>2, <2>3 DEF Follows
<1> QED  BY <1>2, <1>4 DEF Ordered, q

LEMMA UseFirst ==
  ASSUME NEW d, NEW e, data[d].owner = data[e].owner, data[d].method = "", data[e].method # ""
  PROVE  Before(d, e)
<1> DEFINE Rank(c) == IF data[c].method = "" THEN 0 ELSE 1
<1>1. Rank(d) = 0 /\ Rank(e) = 1
  OBVIOUS
<1> HIDE DEF Rank
<1>2. Rank(d) < Rank(e)
  BY ONLY <1>1
<1> QED  BY <1>2, Zenon DEF Before, Rank

\* The entries of plugin p that a request selects.
Fitting(p, method, path) ==
  {d \in listed : /\ data[d].owner = p /\ matchUri(d, path)
                  /\ data[d].isPlugin \/ data[d].method \in {"", method}}

\* A request's method is not the one that stands for use.
Named(method) == method # ""

LEMMA SelectedFacts ==
  ASSUME RegistryInv, NEW p, NEW method, NEW path, Named(method)
  PROVE  /\ Selected(p, method, path) \in Seq(Nat)
         /\ Range(Selected(p, method, path)) = Fitting(p, method, path)
         /\ Ordered(Selected(p, method, path))
<1> DEFINE A == MatchingPlugins(p, path)
           B == getCallbacksByMethod(p, "", path)
           C == getCallbacksByMethod(p, method, path)
<1>1. InOrder(A) \in Seq(Nat) /\ Range(InOrder(A)) = A /\ Ordered(InOrder(A))
  BY OrderedKind DEF MatchingPlugins
<1>2. InOrder(B) \in Seq(Nat) /\ Range(InOrder(B)) = B /\ Ordered(InOrder(B))
  BY OrderedKind DEF getCallbacksByMethod
<1>3. InOrder(C) \in Seq(Nat) /\ Range(InOrder(C)) = C /\ Ordered(InOrder(C))
  BY OrderedKind DEF getCallbacksByMethod
<1>4. Selected(p, method, path) = (InOrder(A) \o InOrder(B)) \o InOrder(C)
  BY DEF Selected
<1>5. A \cup B \cup C = Fitting(p, method, path)
  <2>1. \A d \in listed : data[d].isPlugin \in BOOLEAN
    BY ListedFacts, EntryFacts
  <2> QED  BY <2>1 DEF Fitting, MatchingPlugins, getCallbacksByMethod
<1>6. \A d \in A, e \in B \cup C : Follows(d, e)
  BY DEF Follows, MatchingPlugins, getCallbacksByMethod
<1>7. \A d \in B, e \in C : Follows(d, e)
  <2> SUFFICES ASSUME NEW d \in B, NEW e \in C  PROVE Follows(d, e)
    OBVIOUS
  <2>1. data[d].owner = data[e].owner /\ data[d].method = "" /\ data[e].method # ""
    BY DEF Named, getCallbacksByMethod
  <2>2. d # e
    BY <2>1
  <2>3. Before(d, e)
    BY <2>1, UseFirst
  <2> QED  BY <2>2, <2>3 DEF Follows
<1> DEFINE a == InOrder(A)
           b == InOrder(B)
           c == InOrder(C)
<1> HIDE DEF A, B, C, a, b, c
<1>8. a \o b \in Seq(Nat) /\ Ordered(a \o b) /\ Range(a \o b) = A \cup B
  <2>1. /\ a \in Seq(Nat) /\ Range(a) = A /\ Ordered(a)
        /\ b \in Seq(Nat) /\ Range(b) = B /\ Ordered(b)
    BY <1>1, <1>2 DEF a, b
  <2>2. \A d \in Range(a), e \in Range(b) : Follows(d, e)
    BY <1>6, <2>1
  <2> QED  BY <2>1, <2>2, OrderedConcat, RangeOfConcat
<1>9. /\ (a \o b) \o c \in Seq(Nat) /\ Ordered((a \o b) \o c)
      /\ Range((a \o b) \o c) = A \cup B \cup C
  <2>1. c \in Seq(Nat) /\ Range(c) = C /\ Ordered(c)
    BY <1>3 DEF c
  <2>2. \A d \in Range(a \o b), e \in Range(c) : Follows(d, e)
    BY <1>6, <1>7, <1>8, <2>1
  <2>3. Ordered((a \o b) \o c)
    BY <1>8, <2>1, <2>2, OrderedConcat
  <2>4. (a \o b) \o c \in Seq(Nat) /\ Range((a \o b) \o c) = Range(a \o b) \cup Range(c)
    BY <1>8, <2>1, RangeOfConcat
  <2> QED  BY <1>8, <2>1, <2>3, <2>4
<1> QED  BY <1>4, <1>5, <1>9 DEF a, b, c

\* ServerPlugin::execute of plugin p, when R is what it does in the others.
Executed(R, p, method, path) ==
  LET s == Selected(p, method, path)
  IN IF s = <<>> THEN [now |-> <<>>, later |-> <<>>]
     ELSE IF ~data[Head(s)].isPlugin THEN [now |-> <<Head(s)>>, later |-> Tail(s)]
     ELSE LET inner == R[data[Head(s)].target]
          IN [now |-> <<Head(s)>> \o inner.now, later |-> inner.later \o Tail(s)]

\* The first selected entry, and the plugin behind it.
LEMMA HeadFacts ==
  ASSUME RegistryInv, NEW p, NEW method, NEW path, Named(method),
         Selected(p, method, path) # <<>>
  PROVE  LET s == Selected(p, method, path)
         IN /\ Head(s) \in Fitting(p, method, path)
            /\ Head(s) \in Nat /\ Tail(s) \in Seq(Nat) /\ s = <<Head(s)>> \o Tail(s)
            /\ data[Head(s)].isPlugin \in BOOLEAN
            /\ data[Head(s)].isPlugin => /\ data[Head(s)].target \in Plugins
                                         /\ data[Head(s)].target > p
<1> DEFINE s == Selected(p, method, path)
<1>1. s \in Seq(Nat) /\ Range(s) = Fitting(p, method, path) /\ s # <<>>
  BY SelectedFacts
<1> HIDE DEF s
<1>2. Head(s) = s[1] /\ 1 \in DOMAIN s /\ Head(s) \in Nat /\ Tail(s) \in Seq(Nat)
  BY <1>1
<1>3. Head(s) \in Fitting(p, method, path)
  BY <1>1, <1>2 DEF Range
<1>4. s = <<Head(s)>> \o Tail(s)
  <2>1. Len(s) \in Nat /\ 1 \in 1..Len(s) /\ Len(s) \in 1..Len(s)
    BY <1>1
  <2>2. SubSeq(s, 1, Len(s)) = <<s[1]>> \o SubSeq(s, 2, Len(s))
    BY <1>1, <2>1, SubSeqRecursiveFirst
  <2> QED  BY <1>1, <1>2, <2>2, SubSeqFull, TailIsSubSeq
<1>5. data[Head(s)] \in Entries /\ data[Head(s)].owner = p
  BY <1>3, ListedFacts DEF Fitting
<1>6. /\ data[Head(s)].isPlugin \in BOOLEAN
      /\ data[Head(s)].isPlugin => /\ data[Head(s)].target \in Plugins
                                   /\ data[Head(s)].target > p
  BY <1>5, EntryFacts
<1> QED  BY <1>2, <1>3, <1>4, <1>6 DEF s

\* execute of p only asks plugins with larger numbers.
LEMMA ExecutedAgrees ==
  ASSUME RegistryInv, NEW p \in Plugins, NEW method, NEW path, Named(method), NEW f, NEW g,
         \A q \in Plugins : q > p => f[q] = g[q]
  PROVE  Executed(f, p, method, path) = Executed(g, p, method, path)
<1> DEFINE s == Selected(p, method, path)
<1>1. CASE s # <<>> /\ data[Head(s)].isPlugin
  <2>1. data[Head(s)].target \in Plugins /\ data[Head(s)].target > p
    BY <1>1, HeadFacts
  <2>2. f[data[Head(s)].target] = g[data[Head(s)].target]
    BY <2>1
  <2> QED  BY <2>2 DEF Executed
<1>2. CASE ~(s # <<>> /\ data[Head(s)].isPlugin)
  BY <1>2 DEF Executed
<1> QED  BY <1>1, <1>2

\* Some function does in every plugin what execute does: one that does in those from n
\* on can be changed to do so in n - 1 as well.
LEMMA RouteExists ==
  ASSUME RegistryInv, NEW method, NEW path, Named(method)
  PROVE  \E f : f = [p \in Plugins |-> Executed(f, p, method, path)]
<1> DEFINE Good(f, n) == \A p \in Plugins : p >= n => f[p] = Executed(f, p, method, path)
           Bad == {k \in Nat : k <= MaxPlugin + 1 /\ ~ \E f : Good(f, MaxPlugin + 1 - k)}
<1>0. MaxPlugin \in Nat /\ Plugins \subseteq Nat /\ \A p \in Plugins : p <= MaxPlugin
  BY BoundsAssumption DEF Plugins
<1>1. Bad = {}
  <2> SUFFICES ASSUME Bad # {}  PROVE FALSE
    OBVIOUS
  <2>1. Bad \subseteq Nat
    OBVIOUS
  <2>2. PICK k \in Bad : \A j \in Bad : <<j, k>> \notin OpToRel(<, Nat)
    <3> HIDE DEF Bad
    <3> QED  BY <2>1, NatLessThanWellFounded, WFMin
  <2>3. k \in Nat /\ k <= MaxPlugin + 1 /\ ~ \E f : Good(f, MaxPlugin + 1 - k)
    OBVIOUS
  <2>4. \A j \in Bad : ~(j < k)
    <3>1. \A j \in Nat : j < k => <<j, k>> \in OpToRel(<, Nat)
      BY <2>3 DEF OpToRel
    <3> HIDE DEF Bad
    <3> QED  BY <2>1, <2>2, <3>1
  <2>5. CASE k = 0
    <3>1. Good([p \in Plugins |-> p], MaxPlugin + 1 - k)
      BY <1>0, <2>5
    <3> QED  BY <2>3, <3>1
  <2>6. CASE k # 0
    <3> DEFINE n == MaxPlugin + 1 - k
    <3>1. k - 1 \in Nat /\ k - 1 < k /\ k - 1 <= MaxPlugin + 1 /\ n \in Nat
          /\ MaxPlugin + 1 - (k - 1) = n + 1
      BY <1>0, <2>3, <2>6
    <3>2. PICK f : Good(f, MaxPlugin + 1 - (k - 1))
      <4> HIDE DEF Good
      <4> QED  BY <2>4, <3>1
    <3> DEFINE g == [p \in Plugins |-> IF p = n THEN Executed(f, n, method, path) ELSE f[p]]
    <3> HIDE DEF n
    <3>3. \A p \in Plugins : p > n => f[p] = Executed(f, p, method, path)
      BY <1>0, <3>1, <3>2
    <3>4. \A p \in Plugins : p # n => g[p] = f[p]
      OBVIOUS
    <3>5. n \in Plugins => g[n] = Executed(f, n, method, path)
      OBVIOUS
    <3> HIDE DEF g
    <3>6. ASSUME NEW p \in Plugins, p >= n  PROVE g[p] = Executed(g, p, method, path)
      <4>1. \A q \in Plugins : q > p => f[q] = g[q]
        <5>1. \A q \in Plugins : q > p => q # n
          BY <1>0, <3>1, <3>6
        <5> QED  BY <3>4, <5>1
      <4>2. Executed(f, p, method, path) = Executed(g, p, method, path)
        BY <4>1, ExecutedAgrees
      <4>3. g[p] = Executed(f, p, method, path)
        <5>1. CASE p = n
          BY <3>5, <5>1
        <5>2. CASE p # n
          <6>1. p > n
            BY <1>0, <3>1, <3>6, <5>2
          <6> QED  BY <3>3, <3>4, <5>2, <6>1
        <5> QED  BY <5>1, <5>2
      <4> QED  BY <4>2, <4>3
    <3>7. Good(g, n)
      BY <3>6
    <3> HIDE DEF Good
    <3> QED  BY <2>3, <3>7 DEF n
  <2> QED  BY <2>5, <2>6
<1>2. PICK f : Good(f, 0)
  <2>1. MaxPlugin + 1 \in Nat /\ MaxPlugin + 1 <= MaxPlugin + 1
        /\ MaxPlugin + 1 - (MaxPlugin + 1) = 0
    BY <1>0
  <2> HIDE DEF Good
  <2> QED  BY <1>1, <2>1
<1>3. \A p \in Plugins : f[p] = Executed(f, p, method, path)
  BY <1>0, <1>2
<1> DEFINE g == [p \in Plugins |-> Executed(f, p, method, path)]
<1>4. \A p \in Plugins : f[p] = g[p]
  BY <1>3
<1>5. \A p \in Plugins : Executed(f, p, method, path) = Executed(g, p, method, path)
  <2> HIDE DEF g
  <2> QED  BY <1>4, ExecutedAgrees
<1>6. g = [p \in Plugins |-> Executed(g, p, method, path)]
  <2>1. \A h : (\A p \in Plugins : Executed(f, p, method, path) = Executed(h, p, method, path))
               => [p \in Plugins |-> Executed(f, p, method, path)]
                    = [p \in Plugins |-> Executed(h, p, method, path)]
    OBVIOUS
  <2> QED  BY <1>5, <2>1
<1> QED  BY <1>6

\* Route satisfies its recursive definition.
LEMMA RouteIsRecursive ==
  ASSUME RegistryInv, NEW method, NEW path, Named(method)
  PROVE  \A p \in Plugins : Route(method, path)[p] = Executed(Route(method, path), p, method, path)
<1>1. Route(method, path) = CHOOSE g : g = [p \in Plugins |-> Executed(g, p, method, path)]
  BY DEF Route, Executed
<1>2. \E g : g = [p \in Plugins |-> Executed(g, p, method, path)]
  BY RouteExists
<1>3. Route(method, path) = [p \in Plugins |-> Executed(Route(method, path), p, method, path)]
  BY <1>1, <1>2
<1> DEFINE R == Route(method, path)
<1> HIDE DEF R
<1>4. R = [p \in Plugins |-> Executed(R, p, method, path)]
  BY <1>3 DEF R
<1>5. \A p \in Plugins : R[p] = Executed(R, p, method, path)
  BY <1>4
<1> QED  BY <1>5 DEF R

\* The entries of plugin p, and of those that can be reached from it, that a request
\* selects.
Reachable(p, method, path) ==
  {d \in listed : /\ data[d].owner >= p /\ matchUri(d, path)
                  /\ data[d].isPlugin \/ data[d].method \in {"", method}}

\* What plugin p runs for a request: in order, nothing twice, all entries of its own,
\* and at once only the last of a row of plugins can be a callback.
RouteFits(r, p, method, path) ==
  /\ r.now \in Seq(Nat) /\ r.later \in Seq(Nat)
  /\ Ordered(r.now \o r.later)
  /\ Range(r.now \o r.later) \subseteq Reachable(p, method, path)
  /\ Fitting(p, method, path) \subseteq Range(r.now \o r.later)
  /\ \A i \in DOMAIN r.now : i # Len(r.now) => data[r.now[i]].isPlugin

LEMMA FittingReachable ==
  ASSUME RegistryInv, NEW p \in Plugins, NEW method, NEW path
  PROVE  Fitting(p, method, path) \subseteq Reachable(p, method, path)
<1>1. p >= p
  BY BoundsAssumption DEF Plugins
<1> QED  BY <1>1, Zenon DEF Fitting, Reachable

\* Entries of an inner plugin come before what is left of the outer one.
LEMMA InnerFirst ==
  ASSUME RegistryInv, NEW p \in Plugins, NEW q \in Plugins, q > p, NEW method, NEW path
  PROVE  /\ Reachable(q, method, path) \subseteq Reachable(p, method, path)
         /\ \A d \in Reachable(q, method, path), e \in Fitting(p, method, path) :
              Follows(d, e) /\ (data[e].isPlugin => Follows(e, d))
<1>0. p \in Nat /\ q \in Nat
  BY BoundsAssumption DEF Plugins
<1>1. \A d \in listed : data[d].owner \in Nat
  BY ListedFacts, EntryFacts
<1>2. \A n \in Nat : n >= q => n >= p /\ n > p /\ n # p
  BY <1>0
<1>3. Reachable(q, method, path) \subseteq Reachable(p, method, path)
  BY <1>1, <1>2, Zenon DEF Reachable
<1>4. ASSUME NEW d \in Reachable(q, method, path), NEW e \in Fitting(p, method, path)
      PROVE  Follows(d, e) /\ (data[e].isPlugin => Follows(e, d))
  <2>1. data[d].owner > p /\ data[d].owner # p
    BY <1>1, <1>2, Zenon DEF Reachable
  <2>2. data[e].owner = p
    BY Zenon DEF Fitting
  <2>3. d # e
    BY <2>1, <2>2
  <2>4. Before(d, e)
    BY <2>1, <2>2, Zenon DEF Before
  <2> QED  BY <2>3, <2>4, Zenon DEF Follows
<1> QED  BY <1>3, <1>4

\* One entry of now and the rest of what its plugin selected.
LEMMA HeadAndTail ==
  ASSUME RegistryInv, NEW p \in Plugins, NEW method, NEW path, Named(method),
         Selected(p, method, path) # <<>>
  PROVE  LET s == Selected(p, method, path)
         IN /\ <<Head(s)>> \in Seq(Nat) /\ Range(<<Head(s)>>) = {Head(s)}
            /\ Ordered(<<Head(s)>>) /\ Ordered(Tail(s))
            /\ Range(s) = {Head(s)} \cup Range(Tail(s))
            /\ \A e \in Range(Tail(s)) : Follows(Head(s), e)
<1> DEFINE s == Selected(p, method, path)
           h == Head(s)
           t == Tail(s)
<1>1. s \in Seq(Nat) /\ Ordered(s) /\ s # <<>>
  BY SelectedFacts
<1>2. h \in Nat /\ t \in Seq(Nat) /\ s = <<h>> \o t
  BY HeadFacts
<1>3. /\ <<h>> \in Seq(Nat) /\ Range(<<h>>) = {h}
      /\ DOMAIN <<h>> = {1} /\ <<h>>[1] = h /\ Len(<<h>>) = 1
  <2> HIDE DEF h
  <2>1. <<h>> \in Seq(Nat) /\ DOMAIN <<h>> = 1..1 /\ <<h>>[1] = h /\ Len(<<h>>) = 1
    BY <1>2
  <2>2. DOMAIN <<h>> = {1}
    BY <2>1
  <2> QED  BY <2>1, <2>2 DEF Range
<1>4. Ordered(<<h>>)
  <2>1. ~(1 < 1)
    OBVIOUS
  <2> HIDE DEF h
  <2> QED  BY <1>3, <2>1 DEF Ordered
<1>5. Range(s) = {h} \cup Range(t)
  <2> HIDE DEF s, h, t
  <2> QED  BY <1>2, <1>3, RangeOfConcat
<1>6. /\ Len(t) = Len(s) - 1 /\ Len(s) \in Nat /\ Len(t) \in Nat
      /\ DOMAIN t = 1..Len(t) /\ DOMAIN s = 1..Len(s) /\ s[1] = h
      /\ \A i \in 1..Len(t) : t[i] = s[i + 1]
  <2> HIDE DEF s
  <2> QED  BY <1>1, HeadTailProperties, LenProperties
<1> HIDE DEF s, h, t
<1>7. \A i \in DOMAIN t : i + 1 \in DOMAIN s /\ 1 \in DOMAIN s /\ 1 < i + 1
  BY <1>6
<1>8. Ordered(t)
  <2> SUFFICES ASSUME NEW i \in DOMAIN t, NEW j \in DOMAIN t, i < j
               PROVE  Follows(t[i], t[j])
    BY DEF Ordered
  <2>1. i + 1 < j + 1
    BY <1>6
  <2>2. t[i] = s[i + 1] /\ t[j] = s[j + 1]
    BY <1>6
  <2> QED  BY <1>1, <1>7, <2>1, <2>2 DEF Ordered
<1>9. ASSUME NEW e \in Range(t)  PROVE Follows(h, e)
  <2>1. PICK i \in DOMAIN t : e = t[i]
    BY DEF Range
  <2>2. e = s[i + 1]
    BY <1>6, <2>1
  <2> QED  BY <1>1, <1>6, <1>7, <2>2 DEF Ordered
<1> QED  BY <1>3, <1>4, <1>5, <1>8, <1>9 DEF s, h, t

\* The head and what is now, with what is later and the tail.
LEMMA Regroup ==
  \A h, a, b, t \in Seq(Nat) : (h \o a) \o (b \o t) = h \o ((a \o b) \o t)
<1>1. \A x, y, z \in Seq(Nat) : (x \o y) \o z = x \o (y \o z)
  <2> DEFINE Associative(S) == \A x, y, z \in Seq(S) : (x \o y) \o z = x \o (y \o z)
  <2>1. \A S : Associative(S)
    BY ONLY ConcatAssociative, Zenon
  <2> HIDE DEF Associative
  <2>2. Associative(Nat)
    BY ONLY <2>1, Zenon
  <2> QED  BY ONLY <2>2, Zenon DEF Associative
<1>2. \A x, y \in Seq(Nat) : x \o y \in Seq(Nat)
  BY ONLY ConcatProperties
<1> TAKE h, a, b, t \in Seq(Nat)
<1>3. (h \o a) \o (b \o t) = h \o (a \o (b \o t))
  <2>1. PICK c \in Seq(Nat) : c = b \o t
    BY ONLY <1>2, b \in Seq(Nat), t \in Seq(Nat), Zenon
  <2>2. (h \o a) \o c = h \o (a \o c)
    BY ONLY <1>1, h \in Seq(Nat), a \in Seq(Nat), c \in Seq(Nat), Zenon
  <2> QED  BY ONLY <2>1, <2>2, Zenon
<1>4. (a \o b) \o t = a \o (b \o t)
  BY ONLY <1>1, a \in Seq(Nat), b \in Seq(Nat), t \in Seq(Nat), Zenon
<1> QED  BY ONLY <1>3, <1>4, Zenon

LEMMA ExecutedFits ==
  ASSUME RegistryInv, NEW p \in Plugins, NEW method, NEW path, Named(method), NEW f,
         \A q \in Plugins : q > p => RouteFits(f[q], q, method, path)
  PROVE  RouteFits(Executed(f, p, method, path), p, method, path)
<1> DEFINE s == Selected(p, method, path)
           h == Head(s)
           t == Tail(s)
           F == Fitting(p, method, path)
           r == Executed(f, p, method, path)
<1>1. s \in Seq(Nat) /\ Range(s) = F /\ Ordered(s)
  BY SelectedFacts
<1>2. F \subseteq Reachable(p, method, path)
  BY FittingReachable
<1>3. CASE s = <<>>
  <2>1. r = [now |-> <<>>, later |-> <<>>]
    BY <1>3 DEF Executed
  <2> HIDE DEF r, s, F
  <2>2. r.now = <<>> /\ r.later = <<>> /\ <<>> \o <<>> = <<>> /\ <<>> \in Seq(Nat)
        /\ DOMAIN <<>> = {}
    BY <2>1
  <2>3. Range(<<>>) = F /\ Ordered(<<>>)
    BY <1>1, <1>3
  <2>4. RouteFits(r, p, method, path)
    BY <1>2, <2>2, <2>3 DEF RouteFits, F
  <2> QED  BY <2>4 DEF r
<1>4. CASE s # <<>> /\ ~data[h].isPlugin
  <2>1. r = [now |-> <<h>>, later |-> t]
    BY <1>4 DEF Executed
  <2>2. h \in Nat /\ t \in Seq(Nat) /\ s = <<h>> \o t
    BY <1>4, HeadFacts
  <2> HIDE DEF r, s, F, h, t
  <2>3. r.now = <<h>> /\ r.later = t
    BY <2>1
  <2>4. <<h>> \in Seq(Nat) /\ DOMAIN <<h>> = 1..1 /\ Len(<<h>>) = 1
    BY <2>2
  <2>5. \A i \in DOMAIN <<h>> : i = Len(<<h>>)
    BY <2>4
  <2>6. RouteFits(r, p, method, path)
    BY <1>1, <1>2, <2>2, <2>3, <2>4, <2>5 DEF RouteFits, F
  <2> QED  BY <2>6 DEF r
<1>5. CASE s # <<>> /\ data[h].isPlugin
  <2> DEFINE q == data[h].target
             in == f[q]
             a == in.now
             b == in.later
             I == Reachable(q, method, path)
  <2>1. r = [now |-> <<h>> \o a, later |-> b \o t]
    BY <1>5 DEF Executed
  <2>2. /\ h \in Nat /\ t \in Seq(Nat) /\ s = <<h>> \o t /\ h \in F
        /\ q \in Plugins /\ q > p
    BY <1>5, HeadFacts
  <2>3. /\ <<h>> \in Seq(Nat) /\ Range(<<h>>) = {h} /\ Ordered(<<h>>) /\ Ordered(t)
        /\ Range(s) = {h} \cup Range(t)
        /\ \A e \in Range(t) : Follows(h, e)
    BY <1>5, HeadAndTail
  <2> HIDE DEF h
  <2>4. RouteFits(in, q, method, path)
    BY <2>2
  <2>5. /\ I \subseteq Reachable(p, method, path)
        /\ \A d \in I, e \in F : Follows(d, e) /\ (data[e].isPlugin => Follows(e, d))
    BY <2>2, InnerFirst
  <2> HIDE DEF r, s, F, t, q, in, I
  <2>6. /\ a \in Seq(Nat) /\ b \in Seq(Nat) /\ Ordered(a \o b) /\ Range(a \o b) \subseteq I
        /\ \A i \in DOMAIN a : i # Len(a) => data[a[i]].isPlugin
    BY <2>4 DEF RouteFits, I
  <2>7. r.now = <<h>> \o a /\ r.later = b \o t
    BY <2>1
  <2> HIDE DEF a, b
  <2>8. a \o b \in Seq(Nat) /\ <<h>> \o a \in Seq(Nat) /\ b \o t \in Seq(Nat)
    BY <2>2, <2>3, <2>6, ConcatProperties
  <2>9. r.now \o r.later = <<h>> \o ((a \o b) \o t)
    <3>1. a \in Seq(Nat) /\ b \in Seq(Nat) /\ t \in Seq(Nat) /\ <<h>> \in Seq(Nat)
      BY <2>2, <2>3, <2>6
    <3> DEFINE g == <<h>>
    <3>2. g \in Seq(Nat)
      BY <3>1
    <3> HIDE DEF g
    <3>3. \A y, z \in Seq(Nat) : (g \o a) \o (y \o z) = g \o ((a \o y) \o z)
      BY ONLY <3>1, <3>2, Regroup, Zenon
    <3>4. (g \o a) \o (b \o t) = g \o ((a \o b) \o t)
      BY ONLY <3>1, <3>3, Zenon
    <3> QED  BY <2>7, <3>4, Zenon DEF g
  <2>10. /\ (a \o b) \o t \in Seq(Nat) /\ Range((a \o b) \o t) = Range(a \o b) \cup Range(t)
         /\ Ordered((a \o b) \o t)
    <3>1. \A d \in Range(a \o b), e \in Range(t) : Follows(d, e)
      BY <1>1, <2>3, <2>5, <2>6
    <3> QED  BY <2>2, <2>3, <2>6, <2>8, <3>1, OrderedConcat, RangeOfConcat
  <2> DEFINE c == (a \o b) \o t
  <2> HIDE DEF c
  <2>11. c \in Seq(Nat) /\ Range(c) = Range(a \o b) \cup Range(t) /\ Ordered(c)
    BY <2>10 DEF c
  <2>12. /\ Range(<<h>> \o c) = {h} \cup Range(a \o b) \cup Range(t)
         /\ Ordered(<<h>> \o c)
    <3>1. \A d \in Range(<<h>>), e \in Range(c) : Follows(d, e)
      <4>1. \A e \in Range(a \o b) : Follows(h, e)
        BY <1>5, <2>2, <2>5, <2>6
      <4> QED  BY <2>3, <2>11, <4>1
    <3>2. Ordered(<<h>> \o c)
      BY <2>3, <2>11, <3>1, OrderedConcat
    <3>3. Range(<<h>> \o c) = Range(<<h>>) \cup Range(c)
      BY <2>3, <2>11, RangeOfConcat
    <3> QED  BY <2>3, <2>11, <3>2, <3>3
  <2>13. r.now \o r.later = <<h>> \o c
    BY <2>9 DEF c
  <2>14. ASSUME NEW i \in DOMAIN r.now, i # Len(r.now)  PROVE data[r.now[i]].isPlugin
    <3>1. /\ Len(<<h>> \o a) = 1 + Len(a) /\ Len(a) \in Nat /\ DOMAIN a = 1..Len(a)
          /\ DOMAIN (<<h>> \o a) = 1..1 + Len(a)
          /\ \A j \in 1..1 + Len(a) : (<<h>> \o a)[j] = IF j <= 1 THEN <<h>>[j] ELSE a[j - 1]
      <4>1. Len(<<h>>) = 1
        BY <2>2
      <4> QED  BY <2>3, <2>6, <2>8, <4>1, ConcatProperties, LenProperties
    <3>2. CASE i = 1
      <4>1. r.now[i] = h
        BY <2>2, <2>7, <3>1, <3>2
      <4> QED  BY <1>5, <4>1
    <3>3. CASE i # 1
      <4>1. r.now[i] = a[i - 1] /\ i - 1 \in DOMAIN a /\ i - 1 # Len(a)
        BY <2>7, <2>14, <3>1, <3>3
      <4> QED  BY <2>6, <4>1
    <3> QED  BY <3>2, <3>3
  <2>15. RouteFits(r, p, method, path)
    <3>1. {h} \cup Range(a \o b) \cup Range(t) \subseteq Reachable(p, method, path)
      BY <1>1, <1>2, <2>3, <2>5, <2>6
    <3>2. F \subseteq {h} \cup Range(a \o b) \cup Range(t)
      BY <1>1, <2>3
    <3> QED  BY <2>7, <2>8, <2>12, <2>13, <2>14, <3>1, <3>2 DEF RouteFits, F
  <2> QED  BY <2>15 DEF r
<1>6. s # <<>> => data[h].isPlugin \in BOOLEAN
  BY HeadFacts
<1> QED  BY <1>3, <1>4, <1>5

\* By induction from the last plugin down.
LEMMA RouteFitsAll ==
  ASSUME RegistryInv, NEW method, NEW path, Named(method)
  PROVE  \A p \in Plugins : RouteFits(Route(method, path)[p], p, method, path)
<1> DEFINE Fine(p) == RouteFits(Route(method, path)[p], p, method, path)
           Bad == {k \in Nat : k <= MaxPlugin /\ ~Fine(MaxPlugin - k)}
<1>0. MaxPlugin \in Nat /\ Plugins \subseteq Nat
      /\ \A p : p \in Plugins <=> p \in Nat /\ p <= MaxPlugin
  BY BoundsAssumption DEF Plugins
<1>1. ASSUME NEW p \in Plugins, \A q \in Plugins : q > p => Fine(q)  PROVE Fine(p)
  <2>1. Route(method, path)[p] = Executed(Route(method, path), p, method, path)
    BY RouteIsRecursive
  <2>2. RouteFits(Executed(Route(method, path), p, method, path), p, method, path)
    BY <1>1, ExecutedFits
  <2> QED  BY <2>1, <2>2
<1> HIDE DEF Fine
<1>2. Bad = {}
  <2> SUFFICES ASSUME Bad # {}  PROVE FALSE
    OBVIOUS
  <2>1. Bad \subseteq Nat
    OBVIOUS
  <2>2. PICK k \in Bad : \A j \in Bad : <<j, k>> \notin OpToRel(<, Nat)
    <3> HIDE DEF Bad
    <3> QED  BY <2>1, NatLessThanWellFounded, WFMin
  <2>3. k \in Nat /\ k <= MaxPlugin /\ ~Fine(MaxPlugin - k)
    OBVIOUS
  <2>4. \A j \in Bad : ~(j < k)
    <3>1. \A j \in Nat : j < k => <<j, k>> \in OpToRel(<, Nat)
      BY <2>3 DEF OpToRel
    <3> HIDE DEF Bad
    <3> QED  BY <2>1, <2>2, <3>1
  <2>5. MaxPlugin - k \in Plugins
    BY <1>0, <2>3
  <2>6. ASSUME NEW q \in Plugins, q > MaxPlugin - k  PROVE Fine(q)
    <3> DEFINE j == MaxPlugin - q
    <3>1. j \in Nat /\ j < k /\ j <= MaxPlugin /\ MaxPlugin - j = q
      BY <1>0, <2>3, <2>6
    <3> HIDE DEF j
    <3>2. Fine(MaxPlugin - j)
      BY <2>4, <3>1
    <3> QED  BY <3>1, <3>2
  <2> QED  BY <1>1, <2>3, <2>5, <2>6
<1>3. ASSUME NEW p \in Plugins  PROVE Fine(p)
  <2> DEFINE j == MaxPlugin - p
  <2>1. j \in Nat /\ j <= MaxPlugin /\ MaxPlugin - j = p
    BY <1>0
  <2> HIDE DEF j
  <2>2. Fine(MaxPlugin - j)
    BY <1>2, <2>1
  <2> QED  BY <2>1, <2>2
<1> QED  BY <1>3 DEF Fine

-----------------------------------------------------------------------------
(* The request that is executed. *)

\* What is noted of the callbacks that were called.
Calls == [id : Nat, sent : BOOLEAN, threw : BOOLEAN]

HasRun(d) == \E i \in DOMAIN ran : ran[i].id = d

ChainTyped ==
  /\ chain = [path |-> chain.path, method |-> chain.method, todo |-> chain.todo]
  /\ chain.todo \in Seq(Nat) /\ ran \in Seq(Calls)
  /\ sent \in BOOLEAN /\ rejected \in BOOLEAN /\ died \in BOOLEAN
  /\ offered \subseteq 1..Len(data)

\* Before the request, and while a callback is pending.
PhaseFits ==
  /\ phase = "idle" => ran = <<>> /\ sent = FALSE /\ rejected = FALSE
  /\ phase = "pending" => rejected = FALSE
  /\ phase # "done" => answer = 0

\* What is still to be called.
TodoFits == (\A j \in DOMAIN chain.todo : Due(chain.todo[j])) /\ Ordered(chain.todo)

\* What was called; a callback that throws is the last one.
RanFits ==
  /\ \A i \in DOMAIN ran : Wanted(ran[i].id) /\ ran[i].sent = FALSE
  /\ \A i, j \in DOMAIN ran : i < j => Before(ran[i].id, ran[j].id) /\ ran[i].threw = FALSE

ThrewFits == rejected = FALSE /\ died = FALSE => \A i \in DOMAIN ran : ran[i].threw = FALSE

RanFirst ==
  \A i \in DOMAIN ran, j \in DOMAIN chain.todo :
    ~data[chain.todo[j]].isPlugin => Before(ran[i].id, chain.todo[j])

\* Unless the request is answered or rejected, none of the server's own callbacks is lost.
NoneLost ==
  phase # "idle" /\ died = FALSE /\ rejected = FALSE /\ sent = FALSE =>
    \A d \in offered : Wanted(d) /\ data[d].owner = 0 => HasRun(d) \/ d \in Range(chain.todo)

NotFoundFits ==
  answer = 404 =>
    /\ \A d \in offered : Wanted(d) /\ data[d].owner = 0 => HasRun(d)
    /\ \A i \in DOMAIN ran : ran[i].threw = FALSE

\* Why it has died.
DeathFits == died => Clash \/ FirstThrew \/ DueGone

ChainInv ==
  /\ RegistryInv /\ ChainTyped /\ PhaseFits /\ TodoFits
  /\ RanFits /\ ThrewFits /\ RanFirst /\ NoneLost /\ NotFoundFits /\ DeathFits

\* A piece of a URL behind another one, and what UrlObject::parse refuses.
UrlFits ==
  /\ at = 0 /\ read > 0 /\ msg.isRequest => "url" \in split
  /\ parseFailed => "url" \in split \/ ~msg.goodUrl

-----------------------------------------------------------------------------

\* What is said of an entry stays true as long as the entry and the request do.
LEMMA SameEntry ==
  ASSUME NEW d, data'[d] = data[d],
         offered' = offered, chain'.path = chain.path, chain'.method = chain.method
  PROVE  /\ Wanted(d)' <=> Wanted(d)
         /\ Due(d)' <=> Due(d)
         /\ matchUri(d, chain.path)' <=> matchUri(d, chain.path)
         /\ Names(d)' = Names(d)
<1>1. matchUri(d, chain.path)' <=> matchUri(d, chain.path)
  BY DEF matchUri
<1>2. Wanted(d)' <=> Wanted(d)
  BY <1>1, Zenon DEF Wanted
<1>3. Due(d)' <=> Due(d)
  BY <1>1, Zenon DEF Due
<1>4. Names(d)' = Names(d)
  BY DEF Names
<1> QED  BY <1>1, <1>2, <1>3, <1>4

LEMMA SameOrder ==
  ASSUME NEW d, NEW e, data'[d] = data[d], data'[e] = data[e]
  PROVE  /\ Before(d, e)' <=> Before(d, e)
         /\ Follows(d, e)' <=> Follows(d, e)
<1>1. Before(d, e)' <=> Before(d, e)
  BY Zenon DEF Before
<1> QED  BY <1>1, Zenon DEF Follows

\* Nothing that is said of the request changes with the registry.
LEMMA ChainKept ==
  ASSUME ChainInv, RegistryInv', UNCHANGED chainVars, died => UNCHANGED <<listed, kept>>,
         \A d \in 1..Len(data) : d \in 1..Len(data') /\ data'[d] = data[d]
  PROVE  ChainInv'
<1>1. /\ chain' = chain /\ phase' = phase /\ rejected' = rejected /\ sent' = sent
      /\ answer' = answer /\ died' = died /\ ran' = ran /\ offered' = offered
  BY DEF chainVars
<1>2. \A d \in offered : d \in 1..Len(data') /\ data'[d] = data[d]
  BY DEF ChainInv, ChainTyped
<1>3. \A d \in offered : /\ Wanted(d)' <=> Wanted(d)
                         /\ Due(d)' <=> Due(d)
                         /\ matchUri(d, chain.path)' <=> matchUri(d, chain.path)
                         /\ Names(d)' = Names(d)
  BY <1>1, <1>2, SameEntry
<1>4. \A d, e \in offered : /\ Before(d, e)' <=> Before(d, e)
                            /\ Follows(d, e)' <=> Follows(d, e)
  BY <1>2, SameOrder
<1>5. \A j \in DOMAIN chain.todo : chain.todo[j] \in offered
  BY DEF ChainInv, TodoFits, Due
<1>6. \A i \in DOMAIN ran : ran[i].id \in offered
  BY DEF ChainInv, RanFits, Wanted
<1>7. ChainTyped'
  BY <1>1, <1>2 DEF ChainInv, ChainTyped
<1>8. PhaseFits'
  BY <1>1 DEF ChainInv, PhaseFits
<1>9. TodoFits'
  <2>1. (\A j \in DOMAIN chain.todo : Due(chain.todo[j])) /\ Ordered(chain.todo)
    BY DEF ChainInv, TodoFits
  <2>2. \A j \in DOMAIN chain'.todo : Due(chain.todo[j])'
    BY <1>1, <1>3, <1>5, <2>1
  <2>3. Ordered(chain.todo)'
    BY <1>1, <1>4, <1>5, <2>1 DEF Ordered
  <2> QED  BY <2>2, <2>3 DEF TodoFits
<1>10. RanFits' /\ ThrewFits'
  BY <1>1, <1>3, <1>4, <1>6 DEF ChainInv, RanFits, ThrewFits
<1>11. RanFirst'
  BY <1>1, <1>2, <1>4, <1>5, <1>6 DEF ChainInv, RanFirst
<1>12. \A d : HasRun(d)' <=> HasRun(d)
  BY <1>1 DEF HasRun
<1>13. NoneLost'
  BY <1>1, <1>2, <1>3, <1>12 DEF ChainInv, NoneLost
<1>14. NotFoundFits'
  BY <1>1, <1>2, <1>3, <1>12 DEF ChainInv, NotFoundFits
<1>15. DeathFits'
  <2>1. Clash => Clash'
    BY <1>1, <1>3 DEF Clash
  <2>2. FirstThrew => FirstThrew'
    BY <1>1 DEF FirstThrew
  <2>3. died /\ DueGone => DueGone'
    BY <1>1, <1>3 DEF DueGone
  <2> QED  BY <1>1, <2>1, <2>2, <2>3 DEF ChainInv, DeathFits
<1> QED  BY <1>7, <1>8, <1>9, <1>10, <1>11, <1>13, <1>14, <1>15 DEF ChainInv

LEMMA RegistryKeeps ==
  ASSUME ChainInv, Registry
  PROVE  ChainInv'
<1>0. data \in Seq(Entries) /\ Len(data) \in Nat /\ listed \subseteq 1..Len(data)
  BY DEF ChainInv, RegistryInv
<1>1. CASE \E r \in Registrations : Add(r)
  <2>1. PICK r \in Registrations : Add(r)
    BY <1>1
  <2> DEFINE x == [r EXCEPT !.uri = IF @ = <<>> /\ ~r.isPlugin THEN <<"">> ELSE @]
  <2>2. /\ ~died /\ data' = Append(data, x) /\ listed' = listed \cup {Len(data) + 1}
        /\ UNCHANGED chainVars
    BY <2>1 DEF Add
  <2>3. x \in Entries
    <3>1. /\ r \in [owner : Plugins, isPlugin : BOOLEAN, target : Plugins, method : STRING,
                    uri : Seq(STRING)]
          /\ r.isPlugin => r.target > r.owner
      BY RegistrationsAssumption
    <3> DEFINE u == IF r.uri = <<>> /\ ~r.isPlugin THEN <<"">> ELSE r.uri
    <3>2. u \in Templates
      BY <3>1, Zenon DEF Templates
    <3>3. x = [r EXCEPT !.uri = u]
      BY Zenon
    <3> HIDE DEF u, x
    <3>4. [r EXCEPT !.uri = u] \in Entries
      BY <3>1, <3>2 DEF Entries
    <3> QED  BY <3>3, <3>4
  <2> HIDE DEF x
  <2>4. /\ data' \in Seq(Entries) /\ Len(data') = Len(data) + 1
        /\ \A d \in 1..Len(data) : data'[d] = data[d]
    BY <1>0, <2>2, <2>3, AppendProperties
  <2>5. RegistryInv' /\ \A d \in 1..Len(data) : d \in 1..Len(data')
    <3>1. \A d \in 1..Len(data) : d \in 1..Len(data')
      BY <1>0, <2>4
    <3>2. Len(data) + 1 \in 1..Len(data')
      BY <1>0, <2>4
    <3> QED  BY <1>0, <2>2, <2>4, <3>1, <3>2 DEF RegistryInv
  <2> QED  BY <2>2, <2>4, <2>5, ChainKept
<1>2. CASE \E d \in kept : RemoveData(d) \/ Drop(d)
  <2>1. ~died /\ data' = data /\ UNCHANGED chainVars /\ listed' \subseteq listed
    BY <1>2 DEF RemoveData, Drop
  <2>2. RegistryInv' /\ \A d \in 1..Len(data) : d \in 1..Len(data') /\ data'[d] = data[d]
    BY <1>0, <2>1 DEF RegistryInv
  <2> QED  BY <2>1, <2>2, ChainKept
<1>3. CASE \E p, q \in Plugins : RemovePlugin(p, q)
  <2>1. ~died /\ data' = data /\ UNCHANGED chainVars /\ listed' \subseteq listed
    BY <1>3 DEF RemovePlugin
  <2>2. RegistryInv' /\ \A d \in 1..Len(data) : d \in 1..Len(data') /\ data'[d] = data[d]
    BY <1>0, <2>1 DEF RegistryInv
  <2> QED  BY <2>1, <2>2, ChainKept
<1> QED  BY <1>1, <1>2, <1>3 DEF Registry

\* Steps that leave the registry and the request's callbacks alone.
LEMMA SameRequest ==
  ASSUME ChainInv, died = FALSE, UNCHANGED <<data, listed, offered, chain, ran, died>>
  PROVE  /\ RegistryInv' /\ TodoFits' /\ RanFits' /\ RanFirst' /\ DeathFits'
         /\ \A d : (Wanted(d)' <=> Wanted(d)) /\ (HasRun(d)' <=> HasRun(d))
<1>1. \A d : /\ Wanted(d)' <=> Wanted(d)
             /\ Due(d)' <=> Due(d)
             /\ matchUri(d, chain.path)' <=> matchUri(d, chain.path)
             /\ Names(d)' = Names(d)
  BY SameEntry
<1>2. \A d, e : (Before(d, e)' <=> Before(d, e)) /\ (Follows(d, e)' <=> Follows(d, e))
  BY SameOrder
<1>3. RegistryInv'
  BY DEF ChainInv, RegistryInv
<1>4. TodoFits'
  <2>1. (\A j \in DOMAIN chain.todo : Due(chain.todo[j])) /\ Ordered(chain.todo)
    BY DEF ChainInv, TodoFits
  <2>2. \A j \in DOMAIN chain'.todo : Due(chain.todo[j])'
    BY <1>1, <2>1
  <2>3. Ordered(chain.todo)'
    BY <1>2, <2>1 DEF Ordered
  <2> QED  BY <2>2, <2>3 DEF TodoFits
<1>5. RanFits'
  BY <1>1, <1>2 DEF ChainInv, RanFits
<1>6. RanFirst'
  BY <1>2 DEF ChainInv, RanFirst
<1>7. DeathFits'
  BY DEF DeathFits
<1>8. \A d : HasRun(d)' <=> HasRun(d)
  BY DEF HasRun
<1> QED  BY <1>1, <1>3, <1>4, <1>5, <1>6, <1>7, <1>8

LEMMA SettleKeeps ==
  ASSUME ChainInv, NEW ok \in BOOLEAN, Settle(ok)
  PROVE  ChainInv'
<1>1. /\ phase = "pending" /\ phase' = "next" /\ rejected' = ~ok /\ died = FALSE
      /\ UNCHANGED <<chain, sent, answer, died, ran, offered, data, listed>>
  BY DEF Settle, registryVars, ChainInv, ChainTyped
<1>2. /\ RegistryInv' /\ TodoFits' /\ RanFits' /\ RanFirst' /\ DeathFits'
      /\ \A d : (Wanted(d)' <=> Wanted(d)) /\ (HasRun(d)' <=> HasRun(d))
  BY <1>1, SameRequest
<1>3. ChainTyped' /\ PhaseFits'
  BY <1>1 DEF ChainInv, ChainTyped, PhaseFits
<1>4. phase # "idle" /\ rejected = FALSE
  BY <1>1 DEF ChainInv, PhaseFits
<1>5. NoneLost' /\ NotFoundFits'
  BY <1>1, <1>2, <1>4 DEF ChainInv, NoneLost, NotFoundFits
<1>6. ThrewFits'
  BY <1>1, <1>4 DEF ChainInv, ThrewFits
<1> QED  BY <1>2, <1>3, <1>5, <1>6 DEF ChainInv

LEMMA SendKeeps ==
  ASSUME ChainInv, Send
  PROVE  ChainInv'
<1>1. /\ phase \in {"pending", "next"} /\ sent' = TRUE /\ died = FALSE
      /\ UNCHANGED <<chain, phase, rejected, answer, died, ran, offered, data, listed>>
  BY DEF Send, registryVars, ChainInv, ChainTyped
<1>2. /\ RegistryInv' /\ TodoFits' /\ RanFits' /\ RanFirst' /\ DeathFits'
      /\ \A d : (Wanted(d)' <=> Wanted(d)) /\ (HasRun(d)' <=> HasRun(d))
  BY <1>1, SameRequest
<1>3. ChainTyped' /\ PhaseFits'
  BY <1>1 DEF ChainInv, ChainTyped, PhaseFits
<1>4. NoneLost' /\ NotFoundFits' /\ ThrewFits'
  BY <1>1, <1>2 DEF ChainInv, NoneLost, NotFoundFits, ThrewFits
<1> QED  BY <1>2, <1>3, <1>4 DEF ChainInv

LEMMA FinishKeeps ==
  ASSUME ChainInv, Finish
  PROVE  ChainInv'
<1>1. /\ died = FALSE /\ phase = "next" /\ chain.todo = <<>> /\ phase' = "done" /\ sent' = TRUE
      /\ answer' = IF sent THEN 0 ELSE IF rejected THEN 500 ELSE 404
      /\ UNCHANGED <<chain, rejected, died, ran, offered, data, listed>>
  BY DEF Finish, registryVars, ChainInv, ChainTyped
<1>2. /\ RegistryInv' /\ TodoFits' /\ RanFits' /\ RanFirst' /\ DeathFits'
      /\ \A d : (Wanted(d)' <=> Wanted(d)) /\ (HasRun(d)' <=> HasRun(d))
  BY <1>1, SameRequest
<1>3. ChainTyped' /\ PhaseFits'
  BY <1>1 DEF ChainInv, ChainTyped, PhaseFits
<1>4. NoneLost' /\ ThrewFits'
  BY <1>1 DEF NoneLost, ThrewFits, ChainInv
<1>5. NotFoundFits'
  <2> SUFFICES ASSUME answer' = 404
               PROVE  /\ \A d \in offered : Wanted(d) /\ data[d].owner = 0 => HasRun(d)
                      /\ \A i \in DOMAIN ran : ran[i].threw = FALSE
    BY <1>1, <1>2 DEF NotFoundFits
  <2>1. sent \in BOOLEAN /\ rejected \in BOOLEAN
    BY DEF ChainInv, ChainTyped
  <2>2. sent = FALSE /\ rejected = FALSE
    BY <1>1, <2>1
  <2>3. Range(chain.todo) = {}
    BY <1>1 DEF Range
  <2> QED  BY <1>1, <2>2, <2>3 DEF ChainInv, NoneLost, ThrewFits
<1> QED  BY <1>2, <1>3, <1>4, <1>5 DEF ChainInv

\* What is to come is taken off the front.
LEMMA TodoShrinks ==
  ASSUME ChainInv, chain.todo # <<>>, chain' = [chain EXCEPT !.todo = Tail(@)],
         UNCHANGED <<data, listed, offered>>
  PROVE  LET h == Head(chain.todo)
             t == Tail(chain.todo)
         IN /\ chain'.todo = t /\ chain'.path = chain.path /\ chain'.method = chain.method
            /\ chain' = [path |-> chain'.path, method |-> chain'.method, todo |-> chain'.todo]
            /\ t \in Seq(Nat) /\ h \in Nat
            /\ Due(h)
            /\ Range(chain.todo) = {h} \cup Range(t)
            /\ \A e \in Range(t) : Follows(h, e)
            /\ \A j \in DOMAIN t : j + 1 \in DOMAIN chain.todo /\ chain.todo[j + 1] = t[j]
            /\ 1 \in DOMAIN chain.todo /\ chain.todo[1] = h
            /\ TodoFits'
            /\ \A d : /\ Wanted(d)' <=> Wanted(d)
                      /\ matchUri(d, chain.path)' <=> matchUri(d, chain.path)
                      /\ Names(d)' = Names(d)
            /\ \A d, e : Before(d, e)' <=> Before(d, e)
<1> DEFINE s == chain.todo
           h == Head(s)
           t == Tail(s)
<1>1. s \in Seq(Nat) /\ s # <<>>
  BY DEF ChainInv, ChainTyped
<1>2. /\ chain'.todo = t /\ chain'.path = chain.path /\ chain'.method = chain.method
      /\ chain' = [path |-> chain'.path, method |-> chain'.method, todo |-> chain'.todo]
  <2>1. chain = [path |-> chain.path, method |-> chain.method, todo |-> chain.todo]
    BY DEF ChainInv, ChainTyped
  <2>2. chain' = [path |-> chain.path, method |-> chain.method, todo |-> t]
    BY <2>1
  <2> QED  BY <2>2
<1>3. /\ Len(t) = Len(s) - 1 /\ Len(s) \in Nat /\ Len(t) \in Nat /\ t \in Seq(Nat) /\ h \in Nat
      /\ DOMAIN t = 1..Len(t) /\ DOMAIN s = 1..Len(s) /\ s[1] = h
      /\ \A i \in 1..Len(t) : t[i] = s[i + 1]
  <2> HIDE DEF s
  <2> QED  BY <1>1, HeadTailProperties, LenProperties
<1>4. (\A j \in DOMAIN s : Due(s[j])) /\ Ordered(s)
  BY DEF ChainInv, TodoFits
<1>5. \A d : /\ Wanted(d)' <=> Wanted(d)
             /\ Due(d)' <=> Due(d)
             /\ matchUri(d, chain.path)' <=> matchUri(d, chain.path)
             /\ Names(d)' = Names(d)
  BY <1>2, SameEntry
<1>6. \A d, e : (Before(d, e)' <=> Before(d, e)) /\ (Follows(d, e)' <=> Follows(d, e))
  BY SameOrder
<1>7. 1 \in DOMAIN s /\ \A j \in DOMAIN t : j + 1 \in DOMAIN s /\ 1 < j + 1
  <2> HIDE DEF s, h, t
  <2>1. Len(s) # 0
    BY <1>1
  <2> QED  BY <1>3, <2>1
<1>8. \A j \in DOMAIN t : s[j + 1] = t[j]
  BY <1>3
<1>9. \A i, j \in DOMAIN t : i < j => i + 1 < j + 1
  BY <1>3
<1>10. Range(s) = {h} \cup Range(t)
  <2> HIDE DEF s, h, t
  <2>1. \A i \in DOMAIN s : i = 1 \/ (i - 1 \in DOMAIN t /\ s[i] = t[i - 1])
    <3> SUFFICES ASSUME NEW i \in DOMAIN s, i # 1  PROVE i - 1 \in DOMAIN t /\ s[i] = t[i - 1]
      OBVIOUS
    <3>1. i - 1 \in 1..Len(t) /\ (i - 1) + 1 = i
      BY <1>3
    <3> QED  BY <1>3, <3>1
  <2>2. Range(s) \subseteq {h} \cup Range(t)
    BY <1>3, <2>1 DEF Range
  <2>3. h \in Range(s) /\ Range(t) \subseteq Range(s)
    BY <1>3, <1>7, <1>8 DEF Range
  <2> QED  BY <2>2, <2>3
<1> HIDE DEF s, h, t
<1>11. \A e \in Range(t) : Follows(h, e)
  <2> SUFFICES ASSUME NEW j \in DOMAIN t  PROVE Follows(h, t[j])
    BY DEF Range
  <2> QED  BY <1>3, <1>4, <1>7, <1>8 DEF Ordered
<1>12. TodoFits'
  <2>1. \A j \in DOMAIN t : Due(t[j])
    BY <1>4, <1>7, <1>8
  <2>2. \A i, j \in DOMAIN t : i < j => Follows(t[i], t[j])
    BY <1>4, <1>7, <1>8, <1>9 DEF Ordered
  <2>3. \A j \in DOMAIN chain'.todo : Due(chain.todo[j])'
    BY <1>2, <1>5, <2>1
  <2>4. Ordered(chain.todo)'
    BY <1>2, <1>6, <2>2 DEF Ordered
  <2> QED  BY <2>3, <2>4 DEF TodoFits
<1>13. Due(h)
  BY <1>3, <1>4, <1>7
<1> QED  BY <1>2, <1>3, <1>5, <1>6, <1>7, <1>8, <1>10, <1>11, <1>12, <1>13 DEF s, h, t

LEMMA CallFacts ==
  ASSUME NEW d \in Nat, NEW threw \in BOOLEAN, sent = FALSE, ran \in Seq(Calls),
         ran' = Append(ran, [id |-> d, sent |-> sent, threw |-> threw])
  PROVE  /\ ran' \in Seq(Calls) /\ Len(ran') = Len(ran) + 1
         /\ Len(ran) \in Nat /\ DOMAIN ran = 1..Len(ran) /\ DOMAIN ran' = 1..Len(ran) + 1
         /\ \A i \in DOMAIN ran : i \in DOMAIN ran' /\ ran'[i] = ran[i]
         /\ Len(ran) + 1 \in DOMAIN ran'
         /\ ran'[Len(ran) + 1].id = d /\ ran'[Len(ran) + 1].sent = FALSE
         /\ ran'[Len(ran) + 1].threw = threw
<1> DEFINE x == [id |-> d, sent |-> FALSE, threw |-> threw]
<1>1. ran' = Append(ran, x)
  OBVIOUS
<1>2. x \in Calls /\ x.id = d /\ x.sent = FALSE /\ x.threw = threw
  BY DEF Calls
<1> HIDE DEF x
<1>3. /\ ran' \in Seq(Calls) /\ Len(ran') = Len(ran) + 1
      /\ \A i \in 1..Len(ran) : ran'[i] = ran[i]
      /\ ran'[Len(ran) + 1] = x
  BY <1>1, <1>2, AppendProperties
<1>4. Len(ran) \in Nat /\ DOMAIN ran = 1..Len(ran) /\ DOMAIN ran' = 1..Len(ran) + 1
  BY <1>3, LenProperties
<1>5. (\A i \in DOMAIN ran : i \in DOMAIN ran') /\ Len(ran) + 1 \in DOMAIN ran'
  BY <1>4
<1> QED  BY <1>2, <1>3, <1>4, <1>5

\* A callback that comes next is called, and returns a future or throws.
LEMMA CallKeeps ==
  ASSUME ChainInv, chain.todo # <<>>, chain' = [chain EXCEPT !.todo = Tail(@)],
         UNCHANGED <<data, listed, offered, answer, died>>,
         phase = "next", rejected = FALSE, sent = FALSE, died = FALSE,
         ~data[Head(chain.todo)].isPlugin, NEW threw \in BOOLEAN,
         ran' = Append(ran, [id |-> Head(chain.todo), sent |-> sent, threw |-> threw]),
         phase' = (IF threw THEN "next" ELSE "pending"), rejected' = threw, sent' \in BOOLEAN
  PROVE  ChainInv'
<1> DEFINE h == Head(chain.todo)
           t == Tail(chain.todo)
           N == Len(ran)
<1>1. /\ chain'.todo = t /\ chain'.path = chain.path /\ chain'.method = chain.method
      /\ chain' = [path |-> chain'.path, method |-> chain'.method, todo |-> chain'.todo]
      /\ t \in Seq(Nat) /\ h \in Nat
      /\ Due(h)
      /\ Range(chain.todo) = {h} \cup Range(t)
      /\ \A e \in Range(t) : Follows(h, e)
      /\ \A j \in DOMAIN t : j + 1 \in DOMAIN chain.todo /\ chain.todo[j + 1] = t[j]
      /\ 1 \in DOMAIN chain.todo /\ chain.todo[1] = h
      /\ TodoFits'
      /\ \A d : /\ Wanted(d)' <=> Wanted(d)
                /\ matchUri(d, chain.path)' <=> matchUri(d, chain.path)
                /\ Names(d)' = Names(d)
      /\ \A d, e : Before(d, e)' <=> Before(d, e)
  BY TodoShrinks
<1> HIDE DEF h, t
<1>2. /\ ran' \in Seq(Calls) /\ Len(ran') = N + 1
      /\ N \in Nat /\ DOMAIN ran = 1..N /\ DOMAIN ran' = 1..N + 1
      /\ \A i \in DOMAIN ran : i \in DOMAIN ran' /\ ran'[i] = ran[i]
      /\ N + 1 \in DOMAIN ran'
      /\ ran'[N + 1].id = h /\ ran'[N + 1].sent = FALSE /\ ran'[N + 1].threw = threw
  <2>1. ran \in Seq(Calls) /\ ran' = Append(ran, [id |-> h, sent |-> sent, threw |-> threw])
    BY DEF ChainInv, ChainTyped, h
  <2> QED  BY <1>1, <2>1, CallFacts
<1> HIDE DEF N
<1>3. Wanted(h) /\ ~data[h].isPlugin
  <2>1. ~data[h].isPlugin
    BY DEF h
  <2> QED  BY <1>1, <2>1, Zenon DEF Due, Wanted
<1>4. RegistryInv'
  BY DEF ChainInv, RegistryInv
<1>5. ChainTyped' /\ PhaseFits'
  BY <1>1, <1>2 DEF ChainInv, ChainTyped, PhaseFits
<1>6. /\ \A i \in DOMAIN ran : Wanted(ran[i].id) /\ ran[i].sent = FALSE
      /\ \A i, j \in DOMAIN ran : i < j => Before(ran[i].id, ran[j].id)
      /\ \A i \in DOMAIN ran : ran[i].threw = FALSE
      /\ \A i \in DOMAIN ran, j \in DOMAIN chain.todo :
           ~data[chain.todo[j]].isPlugin => Before(ran[i].id, chain.todo[j])
  BY DEF ChainInv, RanFits, RanFirst, ThrewFits
<1>7. \A i \in DOMAIN ran' : i \in DOMAIN ran \/ i = N + 1
  BY <1>2
<1>8. \A i \in DOMAIN ran : Before(ran[i].id, h)
  BY <1>1, <1>3, <1>6
<1>9. RanFits'
  <2>1. \A i \in DOMAIN ran' : Wanted(ran'[i].id) /\ ran'[i].sent = FALSE
    BY <1>2, <1>3, <1>6, <1>7
  <2>2. ASSUME NEW i \in DOMAIN ran', NEW j \in DOMAIN ran', i < j
        PROVE  Before(ran'[i].id, ran'[j].id) /\ ran'[i].threw = FALSE
    <3>1. i \in DOMAIN ran
      BY <1>2, <2>2
    <3>2. CASE j \in DOMAIN ran
      BY <1>2, <1>6, <2>2, <3>1, <3>2
    <3>3. CASE j = N + 1
      BY <1>2, <1>6, <1>8, <3>1, <3>3
    <3> QED  BY <1>7, <3>2, <3>3
  <2> QED  BY <1>1, <2>1, <2>2 DEF RanFits
<1>10. RanFirst'
  <2> SUFFICES ASSUME NEW i \in DOMAIN ran', NEW j \in DOMAIN t, ~data[t[j]].isPlugin
               PROVE  Before(ran'[i].id, t[j])
    BY <1>1 DEF RanFirst
  <2>1. CASE i \in DOMAIN ran
    <3>1. ran'[i] = ran[i]
      BY <1>2, <2>1
    <3>2. j + 1 \in DOMAIN chain.todo /\ chain.todo[j + 1] = t[j]
      BY <1>1
    <3> QED  BY <1>6, <2>1, <3>1, <3>2
  <2>2. CASE i = N + 1
    <3>1. t[j] \in Range(t)
      BY DEF Range
    <3>2. Follows(h, t[j])
      BY <1>1, <3>1
    <3> QED  BY <1>2, <1>3, <2>2, <3>2 DEF Follows
  <2> QED  BY <1>7, <2>1, <2>2
<1>11. \A d : HasRun(d) \/ d = h => HasRun(d)'
  BY <1>2 DEF HasRun
<1>12. NoneLost'
  <2> SUFFICES ASSUME NEW d \in offered, Wanted(d), data[d].owner = 0, died = FALSE
               PROVE  HasRun(d)' \/ d \in Range(t)
    BY <1>1 DEF NoneLost
  <2>1. HasRun(d) \/ d \in Range(chain.todo)
    BY DEF ChainInv, NoneLost
  <2> QED  BY <1>1, <1>11, <2>1
<1>13. NotFoundFits'
  BY DEF ChainInv, PhaseFits, NotFoundFits
<1>14. DeathFits' /\ ThrewFits'
  BY <1>2, <1>6, <1>7 DEF DeathFits, ThrewFits
<1> QED  BY <1>1, <1>4, <1>5, <1>9, <1>10, <1>12, <1>13, <1>14 DEF ChainInv

\* What comes next has not run.
LEMMA HeadNotRun ==
  ASSUME ChainInv, chain.todo # <<>>
  PROVE  \A i \in DOMAIN ran : ran[i].id # Head(chain.todo)
<1> DEFINE h == Head(chain.todo)
<1>1. 1 \in DOMAIN chain.todo /\ chain.todo[1] = h
  <2>1. chain.todo \in Seq(Nat)
    BY DEF ChainInv, ChainTyped
  <2> QED  BY <2>1
<1> HIDE DEF h
<1>2. SUFFICES ASSUME NEW i \in DOMAIN ran, ran[i].id = h  PROVE FALSE
  BY DEF h
<1>3. ~data[h].isPlugin /\ h \in offered
  BY <1>2 DEF ChainInv, RanFits, Wanted
<1>4. Before(h, h)
  BY <1>1, <1>2, <1>3 DEF ChainInv, RanFirst
<1>5. h \in Nat /\ data[h].owner \in Nat
  <2>1. h \in 1..Len(data) /\ data \in Seq(Entries)
    BY <1>3 DEF ChainInv, ChainTyped, RegistryInv
  <2>2. data[h] \in Entries /\ h \in Nat
    BY <2>1
  <2> QED  BY <2>2, BoundsAssumption DEF Entries, Plugins
<1> QED  BY <1>4, <1>5 DEF Before

LEMMA StepKeeps ==
  ASSUME ChainInv, Step
  PROVE  ChainInv'
<1> DEFINE h == Head(chain.todo)
           t == Tail(chain.todo)
<1>0. /\ died = FALSE /\ phase = "next" /\ chain.todo # <<>>
      /\ chain' = [chain EXCEPT !.todo = Tail(@)]
      /\ UNCHANGED <<data, listed, kept, offered, answer>>
      /\ sent \in BOOLEAN /\ rejected \in BOOLEAN
  BY DEF Step, registryVars, ChainInv, ChainTyped
<1>1. CASE /\ ~rejected /\ ~sent /\ ~data[h].isPlugin /\ UNCHANGED died
           /\ \/ Call(h) /\ UNCHANGED rejected
              \/ Throw(h) /\ rejected' = TRUE
  <2>1. CASE Call(h) /\ UNCHANGED rejected
    <3>1. /\ ran' = Append(ran, [id |-> h, sent |-> sent, threw |-> FALSE])
          /\ phase' = "pending" /\ rejected' = FALSE /\ sent' \in BOOLEAN
      BY <1>0, <1>1, <2>1 DEF Call
    <3> QED  BY <1>0, <1>1, <3>1, CallKeeps
  <2>2. CASE Throw(h) /\ rejected' = TRUE
    <3>1. /\ ran' = Append(ran, [id |-> h, sent |-> sent, threw |-> TRUE])
          /\ phase' = "next" /\ rejected' = TRUE /\ sent' \in BOOLEAN
      BY <1>0, <1>1, <2>2 DEF Throw
    <3> QED  BY <1>0, <1>1, <3>1, CallKeeps
  <2> QED  BY <1>1, <2>1, <2>2
<1>2. CASE /\ \/ rejected \/ sent \/ data[h].isPlugin
              \/ died' = TRUE
           /\ \/ died' = FALSE
              \/ died' = TRUE /\ ~rejected /\ ~sent /\ ~Alive(h)
           /\ UNCHANGED <<phase, rejected, sent, ran>>
  <2>1. /\ chain'.todo = t /\ chain'.path = chain.path /\ chain'.method = chain.method
        /\ chain' = [path |-> chain'.path, method |-> chain'.method, todo |-> chain'.todo]
        /\ t \in Seq(Nat) /\ h \in Nat
        /\ Due(h)
        /\ Range(chain.todo) = {h} \cup Range(t)
        /\ \A j \in DOMAIN t : j + 1 \in DOMAIN chain.todo /\ chain.todo[j + 1] = t[j]
        /\ TodoFits'
        /\ \A d : /\ Wanted(d)' <=> Wanted(d)
                  /\ matchUri(d, chain.path)' <=> matchUri(d, chain.path)
        /\ \A d, e : Before(d, e)' <=> Before(d, e)
    BY <1>0, TodoShrinks
  <2>0. \A i \in DOMAIN ran : ran[i].id # h
    BY <1>0, HeadNotRun
  <2> HIDE DEF h, t
  <2>2. RegistryInv' /\ ChainTyped' /\ PhaseFits'
    BY <1>0, <1>2, <2>1 DEF ChainInv, RegistryInv, ChainTyped, PhaseFits
  <2>3. RanFits' /\ ThrewFits'
    BY <1>0, <1>2, <2>1 DEF ChainInv, RanFits, ThrewFits
  <2>4. RanFirst'
    <3> SUFFICES ASSUME NEW i \in DOMAIN ran, NEW j \in DOMAIN t, ~data[t[j]].isPlugin
                 PROVE  Before(ran[i].id, t[j])
      BY <1>0, <1>2, <2>1 DEF RanFirst
    <3>1. j + 1 \in DOMAIN chain.todo /\ chain.todo[j + 1] = t[j]
      BY <2>1
    <3> QED  BY <3>1 DEF ChainInv, RanFirst
  <2>5. \A d : HasRun(d)' <=> HasRun(d)
    BY <1>2 DEF HasRun
  <2>6. NoneLost'
    <3> SUFFICES ASSUME NEW d \in offered, Wanted(d), data[d].owner = 0,
                        died' = FALSE, rejected = FALSE, sent = FALSE
                 PROVE  HasRun(d) \/ d \in Range(t)
      BY <1>0, <1>2, <2>1, <2>5 DEF NoneLost
    <3>1. HasRun(d) \/ d \in Range(chain.todo)
      BY <1>0 DEF ChainInv, NoneLost
    <3>2. data[h].isPlugin
      BY <1>2
    <3>3. d # h
      BY <3>2 DEF Wanted
    <3> QED  BY <2>1, <3>1, <3>3
  <2>7. NotFoundFits'
    BY <1>0, <1>2, <2>1, <2>5 DEF ChainInv, NotFoundFits
  <2>8. DeathFits'
    <3> SUFFICES ASSUME died' = TRUE, ~rejected, ~sent, ~Alive(h)  PROVE DueGone'
      BY <1>2 DEF DeathFits
    <3>1. PICK d : d = h
      OBVIOUS
    <3>2. data' = data /\ offered' = offered /\ listed' = listed /\ kept' = kept
      BY <1>0
    <3>3. Due(d) /\ Due(d)' /\ d \in offered'
      BY <2>1, <3>1, <3>2, Zenon DEF Due
    <3>4. d \notin (listed \cup kept)'
      BY <3>1, <3>2 DEF Alive
    <3>5. ~sent' /\ ~rejected' /\ \A i \in DOMAIN ran' : ran'[i].id # d
      BY <1>2, <2>0, <3>1
    <3> QED  BY <3>3, <3>4, <3>5, Zenon DEF DueGone
  <2> QED  BY <2>1, <2>2, <2>3, <2>4, <2>6, <2>7, <2>8 DEF ChainInv
<1>3. \/ /\ ~rejected /\ ~sent /\ Alive(h) /\ ~data[h].isPlugin
         /\ \/ Call(h) /\ UNCHANGED rejected
            \/ Throw(h) /\ rejected' = TRUE
         /\ UNCHANGED died
      \/ /\ rejected \/ sent \/ (Alive(h) /\ data[h].isPlugin)
         /\ UNCHANGED <<phase, rejected, sent, died, ran>>
      \/ /\ ~rejected /\ ~sent /\ ~Alive(h)
         /\ died' = TRUE
         /\ UNCHANGED <<phase, rejected, sent, ran>>
  BY Zenon DEF Step
<1> QED  BY <1>0, <1>1, <1>2, <1>3

\* What comes at once and what comes later, of a row in order.
LEMMA OrderedSplit ==
  ASSUME NEW a \in Seq(Nat), NEW b \in Seq(Nat), Ordered(a \o b)
  PROVE  Ordered(b) /\ \A d \in Range(a), e \in Range(b) : Follows(d, e)
<1>1. /\ a \o b \in Seq(Nat) /\ Len(a \o b) = Len(a) + Len(b)
      /\ \A i \in 1..Len(a) + Len(b) : (a \o b)[i] = IF i <= Len(a) THEN a[i] ELSE b[i - Len(a)]
  BY ConcatProperties
<1>2. /\ Len(a) \in Nat /\ Len(b) \in Nat
      /\ DOMAIN a = 1..Len(a) /\ DOMAIN b = 1..Len(b) /\ DOMAIN (a \o b) = 1..Len(a) + Len(b)
  BY <1>1, LenProperties
<1>3. \A i \in DOMAIN a : i \in DOMAIN (a \o b) /\ (a \o b)[i] = a[i]
  BY <1>1, <1>2
<1>4. ASSUME NEW i \in DOMAIN b
      PROVE  i + Len(a) \in DOMAIN (a \o b) /\ (a \o b)[i + Len(a)] = b[i]
  <2>1. i + Len(a) \in 1..Len(a) + Len(b) /\ ~(i + Len(a) <= Len(a)) /\ (i + Len(a)) - Len(a) = i
    BY <1>2
  <2> QED  BY <1>1, <1>2, <2>1
<1>5. /\ \A i, j \in DOMAIN b : i < j => i + Len(a) < j + Len(a)
      /\ \A i \in DOMAIN a, j \in DOMAIN b : i < j + Len(a)
  BY <1>2
<1>6. Ordered(b)
  BY <1>4, <1>5 DEF Ordered
<1>7. ASSUME NEW d \in Range(a), NEW e \in Range(b)  PROVE Follows(d, e)
  <2>1. PICK i \in DOMAIN a, j \in DOMAIN b : d = a[i] /\ e = b[j]
    BY DEF Range
  <2> QED  BY <1>3, <1>4, <1>5, <2>1 DEF Ordered
<1> QED  BY <1>6, <1>7

LEMMA ExtractFailsEarly ==
  ASSUME NEW a \in Seq(Nat), NEW b \in Seq(Nat), ExtractFails(a)
  PROVE  ExtractFails(a \o b)
<1>1. \A i \in DOMAIN a : i \in DOMAIN (a \o b) /\ (a \o b)[i] = a[i]
  <2>1. /\ a \o b \in Seq(Nat) /\ Len(a \o b) = Len(a) + Len(b)
        /\ \A i \in 1..Len(a) + Len(b) : (a \o b)[i] = IF i <= Len(a) THEN a[i] ELSE b[i - Len(a)]
    BY ConcatProperties
  <2>2. /\ Len(a) \in Nat /\ Len(b) \in Nat
        /\ DOMAIN a = 1..Len(a) /\ DOMAIN (a \o b) = 1..Len(a) + Len(b)
    BY <2>1, LenProperties
  <2> QED  BY <2>1, <2>2
<1> QED  BY <1>1 DEF ExtractFails

LEMMA ExecuteKeeps ==
  ASSUME ChainInv, NEW method, NEW path, Named(method), Execute(method, path)
  PROVE  ChainInv'
<1> DEFINE r == Route(method, path)[0]
           a == r.now
           b == r.later
           first == IF a = <<>> THEN {} ELSE {Last(a)}
           P == Reachable(0, method, path)
<1>0. RegistryInv /\ 0 \in Plugins
  BY BoundsAssumption DEF ChainInv, Plugins
<1>1. /\ phase = "idle" /\ ran = <<>> /\ answer = 0 /\ sent = FALSE /\ rejected = FALSE
      /\ rejected' = rejected /\ answer' = answer
      /\ data' = data /\ listed' = listed /\ offered' = listed
      /\ chain' = [path |-> path, method |-> method, todo |-> b]
  BY DEF Execute, registryVars, ChainInv, PhaseFits
<1>2. \/ /\ ~ExtractFails(a)
         /\ \E d \in first : /\ ~data[d].isPlugin
                             /\ \/ Call(d) /\ died' = ExtractFails(a \o b)
                                \/ Throw(d) /\ died' = TRUE
      \/ /\ ExtractFails(a) \/ \A d \in first : data[d].isPlugin
         /\ phase' = "next" /\ died' = ExtractFails(a \o b) /\ UNCHANGED <<ran, sent>>
  BY Zenon DEF Execute
<1>3. /\ a \in Seq(Nat) /\ b \in Seq(Nat) /\ Ordered(a \o b)
      /\ Range(a \o b) \subseteq P
      /\ Fitting(0, method, path) \subseteq Range(a \o b)
      /\ \A i \in DOMAIN a : i # Len(a) => data[a[i]].isPlugin
  BY <1>0, RouteFitsAll DEF RouteFits
<1> HIDE DEF r
<1> HIDE DEF a, b
<1>4. /\ Range(a \o b) = Range(a) \cup Range(b)
      /\ Ordered(b) /\ \A d \in Range(a), e \in Range(b) : Follows(d, e)
  BY <1>3, OrderedSplit, RangeOfConcat
<1>5. /\ chain'.path = path /\ chain'.method = method /\ chain'.todo = b
      /\ chain' = [path |-> chain'.path, method |-> chain'.method, todo |-> chain'.todo]
  BY <1>1
<1>6. \A d : (matchUri(d, chain.path)' <=> matchUri(d, path)) /\ Names(d)' = Names(d)
  BY <1>1, <1>5 DEF matchUri, Names
<1>7. \A d \in P : Due(d)' /\ (~data[d].isPlugin => Wanted(d)') /\ d \in listed
                   /\ matchUri(d, path)
  BY <1>1, <1>5, <1>6, Zenon DEF P, Reachable, Due, Wanted
<1>8. \A d : Wanted(d)' /\ data[d].owner = 0 => d \in Fitting(0, method, path)
                                                /\ ~data[d].isPlugin
  BY <1>1, <1>5, <1>6, Zenon DEF Fitting, Wanted
<1>9. \A d, e : (Before(d, e)' <=> Before(d, e)) /\ (Follows(d, e)' <=> Follows(d, e))
  BY <1>1, SameOrder
<1> HIDE DEF P
<1>10. /\ Len(a) \in Nat /\ DOMAIN a = 1..Len(a)
       /\ first \subseteq Range(a) /\ first \subseteq Nat
       /\ \A i \in DOMAIN a : i = Len(a) => a[i] \in first
  <2>1. Len(a) \in Nat /\ DOMAIN a = 1..Len(a) /\ \A i \in DOMAIN a : a[i] \in Nat
    BY <1>3, LenProperties
  <2>2. CASE a = <<>>
    <3>1. DOMAIN a = {}
      BY <2>2
    <3> QED  BY <2>1, <2>2, <3>1
  <2>3. CASE a # <<>>
    <3>1. Len(a) \in DOMAIN a /\ Last(a) = a[Len(a)]
      BY <1>3, <2>1, <2>3 DEF Last
    <3>2. first = {a[Len(a)]}
      BY <2>3, <3>1
    <3> HIDE DEF first
    <3> QED  BY <2>1, <3>1, <3>2 DEF Range
  <2> QED  BY <2>2, <2>3
<1> HIDE DEF first
<1>11. RegistryInv' /\ died' \in BOOLEAN
  BY <1>0, <1>1, <1>2 DEF RegistryInv, ExtractFails
<1>12. offered' \subseteq 1..Len(data') /\ chain'.todo \in Seq(Nat)
  BY <1>0, <1>1, <1>3, <1>5 DEF RegistryInv
<1>13. TodoFits'
  <2>1. \A j \in DOMAIN b : b[j] \in P
    BY <1>3, <1>4 DEF Range
  <2>2. \A j \in DOMAIN chain'.todo : Due(chain.todo[j])'
    BY <1>5, <1>7, <2>1
  <2>3. Ordered(chain.todo)'
    BY <1>4, <1>5, <1>9 DEF Ordered
  <2> QED  BY <2>2, <2>3 DEF TodoFits
<1>14. ASSUME NEW d, Wanted(d)', data[d].owner = 0
       PROVE  d \in Range(b) \/ d \in first
  <2>1. d \in Range(a) \/ d \in Range(b)
    BY <1>3, <1>4, <1>8, <1>14
  <2>2. ASSUME d \in Range(a)  PROVE d \in first
    <3>1. PICK i \in DOMAIN a : a[i] = d
      BY <2>2 DEF Range
    <3>2. i = Len(a)
      BY <1>3, <1>8, <1>14, <3>1
    <3> QED  BY <1>10, <3>1, <3>2
  <2> QED  BY <2>1, <2>2
<1>15. NotFoundFits'
  BY <1>1 DEF NotFoundFits
<1>16. ExtractFails(a \o b) => Clash'
  <2> SUFFICES ASSUME ExtractFails(a \o b)  PROVE Clash'
    OBVIOUS
  <2>1. PICK i, j \in DOMAIN (a \o b) :
          i < j /\ Names((a \o b)[i]) \cap Names((a \o b)[j]) # {}
    BY DEF ExtractFails
  <2> DEFINE d == (a \o b)[i]
             e == (a \o b)[j]
  <2>2. Names(d) \cap Names(e) # {} /\ d \in P /\ e \in P /\ d # e
    <3>1. d \in Range(a \o b) /\ e \in Range(a \o b)
      BY DEF Range
    <3>2. Follows(d, e)
      BY <1>3, <2>1 DEF Ordered
    <3> QED  BY <1>3, <2>1, <3>1, <3>2 DEF Follows
  <2> HIDE DEF d, e
  <2>3. \A x, y : x \in P /\ y \in P /\ x # y /\ Names(x) \cap Names(y) # {} =>
          /\ x \in offered' /\ y \in offered' /\ Names(x)' \cap Names(y)' # {}
          /\ matchUri(x, chain.path)' /\ matchUri(y, chain.path)'
    BY <1>1, <1>6, <1>7
  <2>4. \E x, y \in offered' : /\ x # y /\ Names(x)' \cap Names(y)' # {}
                               /\ matchUri(x, chain.path)' /\ matchUri(y, chain.path)'
    BY <2>2, <2>3
  <2> QED  BY <2>4 DEF Clash
<1>17. ASSUME NEW d \in first, ~data[d].isPlugin, NEW threw \in BOOLEAN,
              ran' = Append(ran, [id |-> d, sent |-> sent, threw |-> threw]),
              phase' = (IF threw THEN "next" ELSE "pending"), sent' \in BOOLEAN,
              died' = (IF threw THEN TRUE ELSE ExtractFails(a \o b))
       PROVE  ChainInv'
  <2>1. ~data[d].isPlugin
    BY <1>17
  <2>2. d \in Nat /\ d \in Range(a) /\ d \in P
    BY <1>3, <1>4, <1>10
  <2>3. Len(ran) = 0 /\ ran \in Seq(Calls)
    BY <1>1
  <2>4. /\ ran' \in Seq(Calls) /\ DOMAIN ran' = 1..0 + 1 /\ Len(ran') = 0 + 1
        /\ 0 + 1 \in DOMAIN ran' /\ ran'[0 + 1].id = d /\ ran'[0 + 1].sent = FALSE
        /\ ran'[0 + 1].threw = threw
    BY <1>1, <1>17, <2>2, <2>3, CallFacts
  <2>5. /\ 1 \in DOMAIN ran' /\ ran'[1].id = d /\ ran'[1].sent = FALSE /\ ran'[1].threw = threw
        /\ Len(ran') = 1 /\ \A i \in DOMAIN ran' : i = 1
    BY <2>4
  <2>6. ChainTyped' /\ PhaseFits'
    BY <1>1, <1>5, <1>11, <1>12, <1>17, <2>4 DEF ChainTyped, PhaseFits
  <2>7. RanFits'
    <3>1. Wanted(d)'
      BY <1>7, <2>1, <2>2
    <3>2. ~(1 < 1)
      OBVIOUS
    <3> QED  BY <2>5, <3>1, <3>2 DEF RanFits
  <2>8. RanFirst'
    <3> SUFFICES ASSUME NEW j \in DOMAIN b, ~data[b[j]].isPlugin  PROVE Before(d, b[j])
      BY <1>1, <1>5, <1>9, <2>5 DEF RanFirst
    <3>1. Follows(d, b[j])
      BY <1>4, <2>2 DEF Range
    <3> QED  BY <2>1, <3>1 DEF Follows
  <2>9. first = {d}
    <3>1. \A x, y \in first : x = y
      BY DEF first
    <3> QED  BY <3>1
  <2>10. NoneLost'
    <3>1. HasRun(d)'
      BY <2>5 DEF HasRun
    <3> QED  BY <1>1, <1>5, <1>14, <2>9, <3>1 DEF NoneLost
  <2>11. ThrewFits' /\ DeathFits'
    <3>1. threw => FirstThrew'
      BY <2>5 DEF FirstThrew
    <3> QED  BY <1>16, <1>17, <2>5, <3>1 DEF ThrewFits, DeathFits
  <2> QED  BY <1>11, <1>13, <1>15, <2>6, <2>7, <2>8, <2>10, <2>11 DEF ChainInv
<1>18. CASE /\ ExtractFails(a) \/ \A d \in first : data[d].isPlugin
            /\ phase' = "next" /\ died' = ExtractFails(a \o b) /\ UNCHANGED <<ran, sent>>
  <2>1. ran' = <<>> /\ DOMAIN ran' = {} /\ ran' \in Seq(Calls)
    BY <1>1, <1>18
  <2>2. ChainTyped' /\ PhaseFits'
    BY <1>1, <1>5, <1>11, <1>12, <1>18, <2>1 DEF ChainTyped, PhaseFits
  <2>3. RanFits' /\ RanFirst' /\ ThrewFits' /\ DeathFits'
    BY <1>16, <1>18, <2>1 DEF RanFits, RanFirst, ThrewFits, DeathFits
  <2>4. NoneLost'
    <3> SUFFICES ASSUME NEW d, Wanted(d)', data[d].owner = 0, died' = FALSE
                 PROVE  d \in Range(b)
      BY <1>1, <1>5 DEF NoneLost
    <3>1. ~ExtractFails(a)
      BY <1>3, <1>18, ExtractFailsEarly
    <3>2. d \notin first
      BY <1>8, <1>18, <3>1
    <3> QED  BY <1>14, <3>2
  <2> QED  BY <1>11, <1>13, <1>15, <2>2, <2>3, <2>4 DEF ChainInv
<1>19. CASE /\ ~ExtractFails(a)
            /\ \E d \in first : /\ ~data[d].isPlugin
                                /\ \/ Call(d) /\ died' = ExtractFails(a \o b)
                                   \/ Throw(d) /\ died' = TRUE
  <2>1. PICK d \in first : /\ ~data[d].isPlugin
                           /\ \/ Call(d) /\ died' = ExtractFails(a \o b)
                              \/ Throw(d) /\ died' = TRUE
    BY <1>19
  <2>2. CASE Call(d) /\ died' = ExtractFails(a \o b)
    <3>1. /\ ran' = Append(ran, [id |-> d, sent |-> sent, threw |-> FALSE])
          /\ phase' = "pending" /\ sent' \in BOOLEAN
      BY <1>1, <2>2 DEF Call
    <3> QED  BY <1>17, <2>1, <2>2, <3>1
  <2>3. CASE Throw(d) /\ died' = TRUE
    <3>1. /\ ran' = Append(ran, [id |-> d, sent |-> sent, threw |-> TRUE])
          /\ phase' = "next" /\ sent' \in BOOLEAN
      BY <1>1, <2>3 DEF Throw
    <3> QED  BY <1>17, <2>1, <2>3, <3>1
  <2> QED  BY <2>1, <2>2, <2>3
<1> QED  BY <1>2, <1>18, <1>19
-----------------------------------------------------------------------------
(* The theorems about the request. *)

\* The parser can only fail on a piece of a URL, and on a URL that is refused.
LEMMA ParseUrl ==
  ASSUME MessageInv, UrlFits, Parse
  PROVE  UrlFits'
<1>1. at \in Nat /\ read \in Nat
  BY DEF MessageInv
<1>2. ASSUME NEW k \in 0..Len(Datum), NEW last \in BOOLEAN, OnUrl(k, last)
      PROVE  UrlFits'
  <2>1. /\ at = 0 /\ msg.isRequest /\ HandOver(k, last)
        /\ parseFailed' \in (IF last /\ read = 0 THEN {~msg.goodUrl} ELSE BOOLEAN)
        /\ split' = IF last /\ read = 0 THEN split ELSE split \cup {"url"}
    BY <1>2 DEF OnUrl
  <2>2. last => at' = 1
    BY <2>1 DEF HandOver
  <2>3. ~last => "url" \in split'
    BY <2>1
  <2>4. parseFailed' => "url" \in split' \/ ~msg'.goodUrl
    BY <2>1 DEF HandOver
  <2>5. last => at' # 0
    BY <2>2
  <2> QED  BY <2>3, <2>4, <2>5 DEF UrlFits
<1>3. ASSUME NEW k \in 0..Len(Datum), NEW last \in BOOLEAN, OnStatus(k, last)
      PROVE  UrlFits'
  <2>1. ~msg.isRequest /\ msg' = msg /\ parseFailed' = parseFailed /\ split \subseteq split'
    BY <1>3 DEF OnStatus, HandOver
  <2> QED  BY <2>1 DEF UrlFits
<1>4. ASSUME NEW k \in 0..Len(Datum), NEW last \in BOOLEAN,
             OnHeaderField(k, last) \/ OnHeaderValue(k, last) \/ OnBody(k, last)
      PROVE  UrlFits'
  <2>1. /\ HandOver(k, last) /\ parseFailed' = parseFailed /\ split \subseteq split'
        /\ msg' = msg
    BY <1>4 DEF OnHeaderField, OnHeaderValue, OnBody, HandOver
  <2>2. at # 0
    BY <1>4, PlaceFacts DEF OnHeaderField, OnHeaderValue, OnBody
  <2>3. at' = at \/ at' = at + 1
    BY <2>1 DEF HandOver
  <2>4. at' # 0
    BY <1>1, <2>2, <2>3
  <2> QED  BY <2>1, <2>4 DEF UrlFits
<1>5. ASSUME OnHeadersComplete  PROVE UrlFits'
  <2>1. at' = at + 1 /\ parseFailed' = parseFailed /\ split' = split /\ msg' = msg
    BY <1>5 DEF OnHeadersComplete
  <2>2. at' # 0
    BY <1>1, <2>1
  <2> QED  BY <2>1, <2>2 DEF UrlFits
<1> QED  BY <1>2, <1>3, <1>4, <1>5 DEF Parse

LEMMA InitChain ==
  ASSUME Init
  PROVE  ChainInv /\ UrlFits
<1>1. /\ data = <<>> /\ listed = {} /\ phase = "idle" /\ rejected = FALSE /\ sent = FALSE
      /\ chain = [path |-> <<>>, method |-> "", todo |-> <<>>]
      /\ answer = 0 /\ died = FALSE /\ ran = <<>> /\ offered = {}
      /\ at = 0 /\ read = 0 /\ parseFailed = FALSE
  BY DEF Init, PluginInit, MessageInit, NoChain
<1>2. chain = [path |-> chain.path, method |-> chain.method, todo |-> chain.todo]
      /\ chain.todo = <<>>
  <2>1. \A x, y, z : LET c == [path |-> x, method |-> y, todo |-> z]
                     IN c = [path |-> c.path, method |-> c.method, todo |-> c.todo] /\ c.todo = z
    OBVIOUS
  <2> QED  BY <1>1, <2>1, Zenon
<1> DEFINE s == <<>>
<1>3. s \in Seq(Nat) /\ s \in Seq(Entries) /\ s \in Seq(Calls)
      /\ DOMAIN s = {}
  OBVIOUS
<1> HIDE DEF s
<1>4. data = s /\ ran = s /\ chain.todo = s
  BY <1>1, <1>2, Zenon DEF s
<1>5. RegistryInv
  BY <1>1, <1>3, <1>4, Zenon DEF RegistryInv
<1>6. ChainTyped
  BY <1>1, <1>2, <1>3, <1>4, Zenon DEF ChainTyped
<1>7. PhaseFits
  BY <1>1, Zenon DEF PhaseFits
<1>8. TodoFits /\ RanFits /\ ThrewFits /\ RanFirst
  BY <1>3, <1>4, Zenon DEF TodoFits, RanFits, ThrewFits, RanFirst, Ordered
<1>9. NoneLost /\ NotFoundFits /\ DeathFits
  BY <1>1, <1>3, <1>4, Zenon DEF NoneLost, NotFoundFits, DeathFits
<1>10. UrlFits
  <2>1. read = 0 /\ parseFailed = FALSE
    BY <1>1, Zenon
  <2>2. ~(read > 0)
    BY ONLY <2>1
  <2> QED  BY <2>1, <2>2, Zenon DEF UrlFits
<1> QED  BY <1>5, <1>6, <1>7, <1>8, <1>9, <1>10 DEF ChainInv

LEMMA SameChain ==
  ASSUME ChainInv, UNCHANGED <<registryVars, chainVars>>
  PROVE  ChainInv'
<1>1. data' = data /\ listed' = listed /\ kept' = kept /\ UNCHANGED chainVars
  BY DEF registryVars
<1>2. RegistryInv'
  BY <1>1 DEF ChainInv, RegistryInv
<1> QED  BY <1>1, <1>2, ChainKept

LEMMA SameUrl ==
  ASSUME UrlFits, UNCHANGED <<msg, at, read, parseFailed, split>>
  PROVE  UrlFits'
BY DEF UrlFits

LEMMA NextChain ==
  ASSUME MessageInv, ChainInv, UrlFits, [Next]_vars
  PROVE  ChainInv' /\ UrlFits'
<1>1. CASE Registry /\ UNCHANGED messageVars
  BY <1>1, RegistryKeeps, SameUrl DEF messageVars
<1>2. CASE Parse /\ UNCHANGED <<registryVars, chainVars>>
  BY <1>2, ParseUrl, SameChain
<1>3. CASE Completed
  <2>1. UrlFits'
    BY <1>3, SameUrl DEF Completed, OnMessageComplete
  <2>2. CASE msg.isRequest
    <3>1. Execute(msg.method, url)
      BY <1>3, <2>2 DEF Completed
    <3>2. Named(msg.method)
      BY <2>2, MethodsAssumption, Zenon DEF MessageInv, Named
    <3> QED  BY <2>1, <3>1, <3>2, ExecuteKeeps
  <2>3. CASE ~msg.isRequest
    BY <1>3, <2>1, <2>3, SameChain DEF Completed
  <2> QED  BY <2>2, <2>3
<1>4. CASE Chain /\ UNCHANGED messageVars
  BY <1>4, SettleKeeps, SendKeeps, StepKeeps, FinishKeeps, SameUrl DEF Chain, messageVars
<1>5. CASE UNCHANGED vars
  BY <1>5, SameChain, SameUrl DEF vars, messageVars
<1> QED  BY <1>1, <1>2, <1>3, <1>4, <1>5 DEF Next

\* What a request has called and what it still has to call are, together, a row of
\* entries that it found when it came, in the order of registration and without
\* repetition; while it is neither answered nor rejected, none of the server's own
\* callbacks for it is missing in it.  For any registrations, plugins and removals.
THEOREM RequestInvariance == Spec => [](ChainInv /\ UrlFits)
<1>1. Init => MessageInv /\ ChainInv /\ UrlFits
  BY InitMessage, InitChain
<1>2. MessageInv /\ ChainInv /\ UrlFits /\ [Next]_vars => MessageInv' /\ ChainInv' /\ UrlFits'
  BY NextMessage, NextChain
<1> QED  BY <1>1, <1>2, PTL DEF Spec

\* RoutedInOrder, for all registrations: execute runs the callbacks that were there when
\* the request came, in order, none twice and none after the answer or behind one that
\* threw, and 404 means that the server's own ones have all run.
THEOREM RequestRouted == Spec => []RoutedInOrder
<1>1. ChainInv => RoutedInOrder
  <2> SUFFICES ASSUME ChainInv  PROVE RoutedInOrder
    OBVIOUS
  <2>1. RanFits /\ NotFoundFits
    BY DEF ChainInv
  <2> QED  BY <2>1 DEF RanFits, NotFoundFits, HasRun, RoutedInOrder
<1> QED  BY <1>1, RequestInvariance, PTL

\* DiesOnlyIf, for all registrations and messages: UrlObject::parse throws only for a URL
\* in pieces or one that is refused as a whole; the read callback or the chain ends in an
\* exception or with a null pointer only for templates that share a parameter, for what
\* the first callback throws, and for an expired entry that was still to run.
THEOREM RequestDiesOnlyIf == Spec => []DiesOnlyIf
<1>1. ChainInv /\ UrlFits => DiesOnlyIf
  <2> SUFFICES ASSUME ChainInv, UrlFits  PROVE DiesOnlyIf
    OBVIOUS
  <2>1. DeathFits
    BY DEF ChainInv
  <2> QED  BY <2>1, Zenon DEF DeathFits, UrlFits, DiesOnlyIf
<1> QED  BY <1>1, RequestInvariance, PTL
=============================================================================
