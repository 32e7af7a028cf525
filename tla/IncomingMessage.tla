-------------------------- MODULE IncomingMessage --------------------------
(***************************************************************************)
(* http::IncomingMessage: how a request or a response is put together from *)
(* the callbacks of http_parser, when TCP delivers it in pieces.           *)
(*                                                                         *)
(* A message is a row of data: the URL (or the reason phrase of a          *)
(* response), a field and a value for each header, the body.  A datum is a *)
(* sequence of parts, and a chunk may end between any two of them: the     *)
(* parser then hands over what it has, and the rest with the next chunk.   *)
(***************************************************************************)
EXTENDS Naturals, Sequences

CONSTANTS
  Messages  \* what peers send: request or not, method, first datum, headers, body;
            \* goodUrl: http_parser_parse_url accepts the whole URL.  The parser itself
            \* lets through what it refuses: a port above 65535, no host, the target of
            \* a CONNECT request

Text == Seq(STRING)
Header == [field : Text, value : Text]

\* Nothing of a message is empty but values and bodies.
ASSUME MessagesAssumption ==
  \A m \in Messages :
    /\ m \in [isRequest : BOOLEAN, method : STRING, first : Text, goodUrl : BOOLEAN,
               headers : Seq(Header), body : Text]
    /\ m.first # <<>>
    /\ \A i \in DOMAIN m.headers : m.headers[i].field # <<>>
ASSUME MethodsAssumption == \A m \in Messages : m.isRequest => m.method # ""

VARIABLES
  msg,             \* the message the peer sends
  at,              \* the datum the parser is in
  read,            \* the parts of it that it has handed over
  url,             \* _url, as its path
  status,          \* _responseStatusString
  wasHeaderValue,  \* _wasHeaderValue
  lastHeader,      \* _lastHeaderField and _lastHeaderValue
  headers,         \* _headers
  body,            \* _body
  complete,        \* _messageComplete
  parseFailed,     \* UrlObject::parse has thrown
  split            \* history: what came in more than one piece

headerVars == <<wasHeaderValue, lastHeader, headers>>
messageVars == <<msg, at, read, url, status, headerVars, body, complete, parseFailed, split>>

MessageInit ==
  /\ msg \in Messages
  /\ at = 0 /\ read = 0
  /\ url = <<>> /\ status = <<>>
  /\ wasHeaderValue = TRUE
  /\ lastHeader = [field |-> <<>>, value |-> <<>>]
  /\ headers = {}
  /\ body = <<>>
  /\ complete = FALSE /\ parseFailed = FALSE
  /\ split = {}

-----------------------------------------------------------------------------
(* The parser: datum 0 is the first one, 2 i - 1 and 2 i are the field and  *)
(* the value of header i, then come the end of the headers and the body.    *)

Headers == Len(msg.headers)
InField == at \in {2 * i - 1 : i \in 1..Headers}
InValue == at \in {2 * i : i \in 1..Headers}
AtHeadersEnd == at = 2 * Headers + 1
InBody == at = 2 * Headers + 2 /\ msg.body # <<>>
AtEnd == at = 2 * Headers + 2 + (IF msg.body = <<>> THEN 0 ELSE 1)

Datum ==
  CASE at = 0  -> msg.first
    [] InField -> msg.headers[(at + 1) \div 2].field
    [] InValue -> msg.headers[at \div 2].value
    [] OTHER   -> msg.body

Piece(k) == SubSeq(Datum, read + 1, read + k)

\* The callback gets k parts.  A chunk may also end right behind a datum, before what
\* tells the parser that it is over: then it is called once more, with nothing.  The
\* end of a body is known from its length.
HandOver(k, last) ==
  /\ read + k <= Len(Datum)
  /\ IF last THEN read + k = Len(Datum)
             ELSE k > 0 /\ (InBody => read + k < Len(Datum))
  /\ at' = IF last THEN at + 1 ELSE at
  /\ read' = IF last THEN 0 ELSE read + k
  /\ UNCHANGED msg

Receiving == ~complete /\ ~parseFailed

-----------------------------------------------------------------------------
(* The callbacks. *)

\* on_url: UrlObject::parse takes each piece for a whole URL, and throws when that is
\* refused.  Of a URL in pieces, any may be: a first one like "http://", a later one that
\* does not start with a slash.  An empty one is refused or read as "/".
OnUrl(k, last) ==
  /\ Receiving /\ at = 0 /\ msg.isRequest
  /\ HandOver(k, last)
  /\ url' = IF k = 0 THEN <<"">> ELSE Piece(k)
  /\ parseFailed' \in (IF last /\ read = 0 THEN {~msg.goodUrl} ELSE BOOLEAN)
  /\ split' = IF last /\ read = 0 THEN split ELSE split \cup {"url"}
  /\ UNCHANGED <<status, headerVars, body, complete>>

\* on_status, in a response.
OnStatus(k, last) ==
  /\ Receiving /\ at = 0 /\ ~msg.isRequest
  /\ HandOver(k, last)
  /\ status' = Piece(k)
  /\ split' = IF last /\ read = 0 THEN split ELSE split \cup {"status"}
  /\ UNCHANGED <<url, headerVars, body, complete, parseFailed>>

\* _headers[_lastHeaderField] = _lastHeaderValue, unless there is no field.
StoreLast ==
  IF lastHeader.field = <<>> THEN headers
  ELSE {h \in headers : h.field # lastHeader.field} \cup {lastHeader}

\* Variant: every piece of a field begins a new one.
OnHeaderFieldAssigns(k, last) ==
  /\ Receiving /\ InField
  /\ HandOver(k, last)
  /\ headers' = StoreLast
  /\ lastHeader' = [field |-> Piece(k), value |-> <<>>]
  /\ wasHeaderValue' = FALSE
  /\ UNCHANGED <<url, status, body, complete, parseFailed, split>>

\* on_header_field: the first piece behind a value starts a new header.
OnHeaderField(k, last) ==
  /\ Receiving /\ InField
  /\ HandOver(k, last)
  /\ IF wasHeaderValue
       THEN /\ headers' = StoreLast
            /\ lastHeader' = [field |-> Piece(k),
                              value |-> IF lastHeader.field = <<>> THEN lastHeader.value
                                                                   ELSE <<>>]
            /\ wasHeaderValue' = FALSE
       ELSE /\ lastHeader' = [lastHeader EXCEPT !.field = @ \o Piece(k)]
            /\ UNCHANGED <<headers, wasHeaderValue>>
  /\ UNCHANGED <<url, status, body, complete, parseFailed, split>>

\* on_header_value: the first piece behind a field starts the value.
OnHeaderValue(k, last) ==
  /\ Receiving /\ InValue
  /\ HandOver(k, last)
  /\ lastHeader' = [lastHeader EXCEPT !.value =
                      IF wasHeaderValue THEN @ \o Piece(k) ELSE Piece(k)]
  /\ wasHeaderValue' = TRUE
  /\ UNCHANGED <<url, status, headers, body, complete, parseFailed, split>>

\* on_headers_complete: the last header.
OnHeadersComplete ==
  /\ Receiving /\ AtHeadersEnd
  /\ headers' = StoreLast
  /\ at' = at + 1
  /\ UNCHANGED <<msg, read, url, status, wasHeaderValue, lastHeader, body, complete,
                 parseFailed, split>>

\* on_body assigns each piece.
OnBody(k, last) ==
  /\ Receiving /\ InBody
  /\ HandOver(k, last)
  /\ body' = Piece(k)
  /\ split' = IF last /\ read = 0 THEN split ELSE split \cup {"body"}
  /\ UNCHANGED <<url, status, headerVars, complete, parseFailed>>

\* on_message_complete.
OnMessageComplete ==
  /\ Receiving /\ AtEnd
  /\ complete' = TRUE
  /\ UNCHANGED <<msg, at, read, url, status, headerVars, body, parseFailed, split>>

\* parse(): what the parser does with the bytes of a chunk.
Parse ==
  \/ \E k \in 0..Len(Datum), last \in BOOLEAN :
       \/ OnUrl(k, last) \/ OnStatus(k, last)
       \/ OnHeaderField(k, last) \/ OnHeaderValue(k, last)
       \/ OnBody(k, last)
  \/ OnHeadersComplete

-----------------------------------------------------------------------------
(* Safety. *)

\* Of several headers with one name the last one counts.
SentHeaders ==
  {msg.headers[i] : i \in {j \in 1..Headers :
     \A l \in j + 1..Headers : msg.headers[l].field # msg.headers[j].field}}

\* However the message was cut, its headers are those that were sent; URL, reason
\* phrase and body are, if each came in one piece.
MessageExact ==
  complete =>
    /\ headers = SentHeaders
    /\ "url" \notin split /\ msg.isRequest => url = msg.first
    /\ "status" \notin split /\ ~msg.isRequest => status = msg.first
    /\ "body" \notin split => body = msg.body
=============================================================================
