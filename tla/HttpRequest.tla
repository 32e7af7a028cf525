---------------------------- MODULE HttpRequest ----------------------------
(***************************************************************************)
(* A request from its first byte to its answer: IncomingMessage puts it    *)
(* together, ServerConnection::processRequest hands it to the server,      *)
(* which is a ServerPlugin.  The user registers and removes callbacks at   *)
(* any time.  What the parser does before the end of a message neither     *)
(* reads nor changes the registry, so that changes made until then are     *)
(* taken to come right before it.                                          *)
(***************************************************************************)
EXTENDS IncomingMessage, ServerPlugin

vars == <<messageVars, registryVars, chainVars>>

Init == MessageInit /\ PluginInit

\* on_message_complete of a request, and processRequest behind it.  A response ends here.
Completed ==
  /\ OnMessageComplete
  /\ IF msg.isRequest
       THEN Execute(msg.method, url)
       ELSE UNCHANGED <<registryVars, chainVars>>

Next ==
  \/ Registry /\ msg.isRequest /\ AtEnd /\ phase # "done" /\ UNCHANGED messageVars
  \/ Parse /\ UNCHANGED <<registryVars, chainVars>>
  \/ Completed
  \/ Chain /\ UNCHANGED messageVars

Spec == Init /\ [][Next]_vars

-----------------------------------------------------------------------------
(* Safety. *)

\* Two templates that match the request have a parameter of the same name.
Clash ==
  \E d, e \in offered :
    /\ d # e /\ Names(d) \cap Names(e) # {}
    /\ matchUri(d, chain.path) /\ matchUri(e, chain.path)

\* The first callback, called by execute() itself, threw.
FirstThrew == Len(ran) = 1 /\ ran[1].threw

\* Something the request found, and that was still to run for it, has been removed and
\* nobody has a pointer to it any more.
DueGone ==
  /\ ~sent /\ ~rejected
  /\ \E d \in offered : /\ Due(d) /\ d \notin listed \cup kept
                        /\ \A i \in DOMAIN ran : ran[i].id # d

\* Reading a request throws only if its URL came in pieces or is refused as a whole.
\* Executing it throws, or uses a null pointer, only if two templates that match it
\* have a parameter of the same name, if the first callback threw, or if something
\* that was still to run for it is gone.
DiesOnlyIf ==
  /\ parseFailed => "url" \in split \/ ~msg.goodUrl
  /\ died => Clash \/ FirstThrew \/ DueGone
=============================================================================
