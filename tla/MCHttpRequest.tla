--------------------------- MODULE MCHttpRequest ---------------------------
(* HttpRequest for TLC: a server and one plugin. *)
EXTENDS HttpRequest

H(field, value) == [field |-> field, value |-> value]

\* Two headers with one name, one of two parts, an empty value; a URL that is refused.
MCMessages ==
  {[isRequest |-> TRUE, method |-> "GET", first |-> <<"u">>, goodUrl |-> TRUE, body |-> <<>>,
    headers |-> <<H(<<"a", "b">>, <<>>), H(<<"a">>, <<"x", "y">>), H(<<"a", "b">>, <<"z">>)>>],
   [isRequest |-> TRUE, method |-> "PUT", first |-> <<"u", "v">>, goodUrl |-> TRUE,
    body |-> <<>>, headers |-> <<>>],
   [isRequest |-> TRUE, method |-> "CONNECT", first |-> <<"u">>, goodUrl |-> FALSE,
    body |-> <<>>, headers |-> <<>>],
   [isRequest |-> FALSE, method |-> "", first |-> <<"O", "K">>, goodUrl |-> TRUE,
    body |-> <<"x", "y">>,
    headers |-> <<H(<<"a">>, <<"x", "y">>), H(<<"b">>, <<"z">>)>>]}

Callback(owner, method, uri) ==
  [owner |-> owner, isPlugin |-> FALSE, target |-> 0, method |-> method, uri |-> uri]
Plugin(owner, target, uri) ==
  [owner |-> owner, isPlugin |-> TRUE, target |-> target, method |-> "", uri |-> uri]

MCRegistrations ==
  {Plugin(0, 1, <<"u">>),
   Callback(0, "", <<"p">>), Callback(0, "", <<>>),
   Callback(0, "GET", <<"u">>), Callback(0, "GET", <<"q">>),
   Callback(0, "PUT", <<"u", "p">>),
   Callback(1, "GET", <<"p">>)}
=============================================================================
