------------------------------ MODULE Promises ------------------------------
(***************************************************************************)
(* What Promise and Future offer to their user, without the loop: a future *)
(* gets one outcome, handlers register with it in some order, and each of  *)
(* them is told the outcome once, in that order, after the outcome is      *)
(* there.                                                                  *)
(*                                                                         *)
(* The library may do two of these things in one step: a handler that does *)
(* not apply is told and settles its own future with what it was told, and *)
(* a Future that a function returned gets two handlers, chained.           *)
(***************************************************************************)
EXTENDS Naturals, Sequences

CONSTANTS
  Futures,   \* every future has one handler of the same name (see FutureLoop)
  Results,   \* values and errors
  NoResult   \* a pending future's outcome, not a member of Results

VARIABLES
  outcome,   \* the outcome of each future
  waiting,   \* the handlers registered with it, oldest first
  told       \* those among them that were told the outcome

pvars == <<outcome, waiting, told>>

PInit ==
  /\ outcome = [f \in Futures |-> NoResult]
  /\ waiting = [f \in Futures |-> <<>>]
  /\ told = [f \in Futures |-> {}]

Registered(f) == {waiting[f][i] : i \in DOMAIN waiting[f]}

\* Promise::resolve and Promise::reject.
Settles(f, r) ==
  /\ outcome[f] = NoResult
  /\ outcome' = [outcome EXCEPT ![f] = r]

\* Future::then, error and finally: h is registered behind the others.
Registers(f, h) ==
  /\ h \notin Registered(f)
  /\ waiting' = [waiting EXCEPT ![f] = Append(@, h)]

\* The next handler in line is told the outcome.
Tells(f) ==
  /\ outcome[f] # NoResult
  /\ \E i \in DOMAIN waiting[f] :
       /\ waiting[f][i] \notin told[f]
       /\ \A j \in DOMAIN waiting[f] : j < i => waiting[f][j] \in told[f]
       /\ told' = [told EXCEPT ![f] = @ \cup {waiting[f][i]}]

PNext ==
  \/ \E f \in Futures, r \in Results : Settles(f, r) /\ UNCHANGED <<waiting, told>>
  \/ \E f, h \in Futures : Registers(f, h) /\ UNCHANGED <<outcome, told>>
  \/ \E f \in Futures : Tells(f) /\ UNCHANGED <<outcome, waiting>>
  \* a handler that settles a future with what it was told
  \/ \E f, g \in Futures, r \in Results : Tells(f) /\ Settles(g, r) /\ UNCHANGED waiting
  \* the handlers of a Future that a function returned
  \/ \E f, h, i \in Futures :
       /\ f # h /\ h \notin Registered(f) /\ waiting[h] = <<>>
       /\ waiting' = [waiting EXCEPT ![f] = Append(@, h), ![h] = <<i>>]
       /\ UNCHANGED <<outcome, told>>

PSpec == PInit /\ [][PNext]_pvars
=============================================================================
