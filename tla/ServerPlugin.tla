---------------------------- MODULE ServerPlugin ----------------------------
(***************************************************************************)
(* http::ServerPlugin: the callbacks and plugins registered with a server, *)
(* and which of them a request runs, in which order, while others are      *)
(* added and removed.                                                      *)
(*                                                                         *)
(* A path, and a URI template, is the sequence of what is between its      *)
(* slashes: "/" is <<"">> and "" is <<>>.                                  *)
(***************************************************************************)
EXTENDS Naturals, Sequences, SequencesExt, FiniteSets

CONSTANTS
  MaxPlugin,      \* the instances of ServerPlugin are 0..MaxPlugin; 0 is the server
  Params,         \* names of parameters in templates
  Registrations,  \* what users register: an owner, a template, and a plugin or a
                  \* callback for a method ("" for use)
  MaxData         \* bound on the registrations

ASSUME BoundsAssumption == MaxPlugin \in Nat /\ MaxData \in Nat

Plugins == 0..MaxPlugin

\* Templates repeat no parameter (UriTemplate::parse).  A plugin that could be
\* reached from itself would be called without end.
ASSUME RegistrationsAssumption ==
  \A r \in Registrations :
    /\ r \in [owner : Plugins, isPlugin : BOOLEAN, target : Plugins, method : STRING,
              uri : Seq(STRING)]
    /\ r.isPlugin => r.target > r.owner
    /\ \A i, j \in DOMAIN r.uri : r.uri[i] \in Params /\ r.uri[i] = r.uri[j] => i = j

VARIABLES
  data,      \* the PluginData and CallbackData objects, in the order they were made
  listed,    \* those in _plugins and _methodCallbackMap
  kept,      \* those to which the user has a shared pointer
  chain,     \* the request being executed: its path, method and the callbacks to come
  phase,     \* whether its current callback is pending
  rejected,  \* the future of the last callback has an error
  sent,      \* isSent()
  answer,    \* the status the library itself has answered with
  died,      \* an assertion has thrown, a null pointer was used, or an exception left
             \* execute()
  ran,       \* history: the callbacks that were called, whether it was answered, and
             \* whether they threw
  offered    \* history: what was listed when the request came

registryVars == <<data, listed, kept>>
chainVars == <<chain, phase, rejected, sent, answer, died, ran, offered>>

NoChain == [path |-> <<>>, method |-> "", todo |-> <<>>]

PluginInit ==
  /\ data = <<>> /\ listed = {} /\ kept = {}
  /\ chain = NoChain /\ phase = "idle"
  /\ rejected = FALSE /\ sent = FALSE
  /\ answer = 0
  /\ died = FALSE
  /\ ran = <<>> /\ offered = {}

-----------------------------------------------------------------------------
(* Registering. *)

\* addPlugin and addMethod; addMethod takes "" for "/".
Add(r) ==
  /\ ~died /\ Len(data) < MaxData
  /\ data' = Append(data, [r EXCEPT !.uri =
                             IF @ = <<>> /\ ~r.isPlugin THEN <<"">> ELSE @])
  /\ listed' = listed \cup {Len(data) + 1}
  /\ kept' = kept \cup {Len(data) + 1}
  /\ UNCHANGED chainVars

\* removeMethod and removePlugin(PluginData), for which a pointer is needed.
RemoveData(d) ==
  /\ ~died /\ d \in listed \cap kept
  /\ listed' = listed \ {d}
  /\ UNCHANGED <<data, kept, chainVars>>

\* removePlugin(ServerPlugin): every entry with that plugin.
RemovePlugin(owner, target) ==
  LET found == {d \in listed : /\ data[d].isPlugin
                               /\ data[d].owner = owner
                               /\ data[d].target = target}
  IN /\ ~died /\ found # {}
     /\ listed' = listed \ found
     /\ UNCHANGED <<data, kept, chainVars>>

\* The user gives up a pointer.
Drop(d) ==
  /\ ~died /\ d \in kept
  /\ kept' = kept \ {d}
  /\ UNCHANGED <<data, listed, chainVars>>

\* Variant: the lists have weak pointers.
AliveIfKept(d) == d \in kept

\* A weak pointer to d has not expired.
Alive(d) == d \in listed \cup kept

-----------------------------------------------------------------------------
(* Executing. *)

\* CallbackDataBase::matchUri: the pattern ends with "$", so that the whole path is
\* matched, and the match must not be empty.
matchUri(d, path) ==
  LET uri == data[d].uri
  IN /\ path # <<>> /\ Len(uri) = Len(path)
     /\ \A i \in DOMAIN uri : uri[i] = path[i] \/ (uri[i] \in Params /\ path[i] # "")

\* The names extract() adds for d.
Names(d) == {data[d].uri[i] : i \in DOMAIN data[d].uri} \cap Params

\* The entries of S in the order in which they were made.
InOrder(S) ==
  [n \in 1..Cardinality(S) |-> CHOOSE d \in S : Cardinality({e \in S : e <= d}) = n]

\* The matching entries of plugin p's lists.
MatchingPlugins(p, path) ==
  {d \in listed : data[d].owner = p /\ data[d].isPlugin /\ matchUri(d, path)}
getCallbacksByMethod(p, method, path) ==
  {d \in listed : /\ data[d].owner = p /\ ~data[d].isPlugin
                  /\ data[d].method = method /\ matchUri(d, path)}

\* callbacksMap has one key, as all matches have the length of the path.
Selected(p, method, path) ==
  InOrder(MatchingPlugins(p, path))
    \o InOrder(getCallbacksByMethod(p, "", path))
    \o InOrder(getCallbacksByMethod(p, method, path))

\* ServerPlugin::execute of plugin p: the first entry is executed at once, with the
\* same path; when it is a plugin, the same happens there.  The others, first those of
\* the inner plugin, are left for later.
Route(method, path) ==
  LET R[p \in Plugins] ==
        LET s == Selected(p, method, path)
        IN IF s = <<>> THEN [now |-> <<>>, later |-> <<>>]
           ELSE IF ~data[Head(s)].isPlugin THEN [now |-> <<Head(s)>>, later |-> Tail(s)]
           ELSE LET inner == R[data[Head(s)].target]
                IN [now |-> <<Head(s)>> \o inner.now, later |-> inner.later \o Tail(s)]
  IN R

\* Extracting the names of the entries of seq, in order, into getUriTemplateValues():
\* addChild asserts that no name is there already.
ExtractFails(seq) ==
  \E i, j \in DOMAIN seq : i < j /\ Names(seq[i]) \cap Names(seq[j]) # {}

\* A callback is called, and may answer the request.  Its future is pending.
Call(d) ==
  /\ ran' = Append(ran, [id |-> d, sent |-> sent, threw |-> FALSE])
  /\ phase' = "pending"
  /\ sent' \in {sent, TRUE}

\* A callback throws a FutureError instead of returning a future.
Throw(d) ==
  /\ ran' = Append(ran, [id |-> d, sent |-> sent, threw |-> TRUE])
  /\ phase' = "next"
  /\ sent' \in {sent, TRUE}

\* processRequest calls execute of the server.  Each entry's values are extracted
\* before it is executed or left for later, so the callback of now is called before
\* those of later can fail.  Nothing catches what it throws.
Execute(method, path) ==
  /\ ~died /\ phase = "idle"
  /\ LET r == Route(method, path)[0]
         first == IF r.now = <<>> THEN {} ELSE {Last(r.now)}
     IN /\ offered' = listed
        /\ chain' = [path |-> path, method |-> method, todo |-> r.later]
        /\ \/ /\ ~ExtractFails(r.now)
              /\ \E d \in first :
                   /\ ~data[d].isPlugin
                   /\ \/ Call(d) /\ died' = ExtractFails(r.now \o r.later)
                      \/ Throw(d) /\ died' = TRUE
           \/ /\ ExtractFails(r.now) \/ \A d \in first : data[d].isPlugin
              /\ phase' = "next"
              /\ died' = ExtractFails(r.now \o r.later)
              /\ UNCHANGED <<ran, sent>>
  /\ UNCHANGED <<rejected, answer, registryVars>>

\* The callback's future settles.
Settle(ok) ==
  /\ ~died /\ phase = "pending"
  /\ phase' = "next"
  /\ rejected' = ~ok
  /\ UNCHANGED <<chain, sent, answer, died, ran, offered, registryVars>>

\* The response is sent, by the pending callback or another part of the program.
Send ==
  /\ ~died /\ phase \in {"pending", "next"} /\ ~sent
  /\ sent' = TRUE
  /\ UNCHANGED <<chain, phase, rejected, answer, died, ran, offered, registryVars>>

\* Variant: isSent() is not asked.
StepAlways ==
  /\ ~died /\ phase = "next" /\ chain.todo # <<>>
  /\ chain' = [chain EXCEPT !.todo = Tail(@)]
  /\ LET d == Head(chain.todo)
     IN \/ /\ rejected \/ (Alive(d) /\ data[d].isPlugin)
           /\ UNCHANGED <<phase, rejected, sent, died, ran>>
        \/ /\ ~rejected /\ ~Alive(d)
           /\ died' = TRUE
           /\ UNCHANGED <<phase, rejected, sent, ran>>
        \/ /\ ~rejected /\ Alive(d) /\ ~data[d].isPlugin
           /\ \/ Call(d) /\ UNCHANGED rejected
              \/ Throw(d) /\ rejected' = TRUE
           /\ UNCHANGED died
  /\ UNCHANGED <<answer, offered, registryVars>>

\* The lambda of a later entry: skipped after an error and when the response is sent;
\* otherwise the entry is executed if its weak pointer can be locked.  A plugin gets
\* what the match has left of the path, which is nothing, and finds no callback.  What
\* a callback throws is caught by ActionCallback::callFn and rejects the future.
Step ==
  /\ ~died /\ phase = "next" /\ chain.todo # <<>>
  /\ chain' = [chain EXCEPT !.todo = Tail(@)]
  /\ LET d == Head(chain.todo)
     IN \/ /\ rejected \/ sent \/ (Alive(d) /\ data[d].isPlugin)
           /\ UNCHANGED <<phase, rejected, sent, died, ran>>
        \/ /\ ~rejected /\ ~sent /\ ~Alive(d)
           /\ died' = TRUE
           /\ UNCHANGED <<phase, rejected, sent, ran>>
        \/ /\ ~rejected /\ ~sent /\ Alive(d) /\ ~data[d].isPlugin
           /\ \/ Call(d) /\ UNCHANGED rejected
              \/ Throw(d) /\ rejected' = TRUE
           /\ UNCHANGED died
  /\ UNCHANGED <<answer, offered, registryVars>>

\* The handlers of processRequest.
Finish ==
  /\ ~died /\ phase = "next" /\ chain.todo = <<>>
  /\ phase' = "done"
  /\ answer' = IF sent THEN 0 ELSE IF rejected THEN 500 ELSE 404
  /\ sent' = TRUE
  /\ UNCHANGED <<chain, rejected, died, ran, offered, registryVars>>

-----------------------------------------------------------------------------
Registry ==
  \/ \E r \in Registrations : Add(r)
  \/ \E d \in kept : RemoveData(d) \/ Drop(d)
  \/ \E p, q \in Plugins : RemovePlugin(p, q)

Chain == (\E ok \in BOOLEAN : Settle(ok)) \/ Send \/ Step \/ Finish

-----------------------------------------------------------------------------
(* Safety. *)

\* What a reader of the registrations expects of the request in chain.
Wanted(d) ==
  /\ d \in offered /\ ~data[d].isPlugin
  /\ data[d].method \in {"", chain.method}
  /\ matchUri(d, chain.path)

\* d may be called for the request, or is a plugin on the way.
Due(d) ==
  /\ d \in offered /\ matchUri(d, chain.path)
  /\ data[d].isPlugin \/ data[d].method \in {"", chain.method}

\* d was registered to run before e: of one plugin, what use() was given comes before
\* the callbacks of methods, and earlier registrations before later ones; a plugin's
\* callbacks come before those of the plugin it is used by.
Before(d, e) ==
  LET Rank(c) == IF data[c].method = "" THEN 0 ELSE 1
  IN \/ data[d].owner > data[e].owner
     \/ /\ data[d].owner = data[e].owner
        /\ \/ Rank(d) < Rank(e)
           \/ Rank(d) = Rank(e) /\ d < e

\* Whatever is registered and removed meanwhile, a request runs callbacks that it
\* found when it came, in the order of registration, none of them twice and none after
\* it was answered or after one that threw; and it gets 404 only when the server's own
\* callbacks for it have all run, and none threw.
RoutedInOrder ==
  /\ \A i \in DOMAIN ran : Wanted(ran[i].id) /\ ~ran[i].sent
  /\ \A i, j \in DOMAIN ran :
       i < j => Before(ran[i].id, ran[j].id) /\ ~ran[i].threw
  /\ answer = 404 =>
       /\ \A d \in offered :
            Wanted(d) /\ data[d].owner = 0 => \E i \in DOMAIN ran : ran[i].id = d
       /\ \A i \in DOMAIN ran : ~ran[i].threw
=============================================================================
