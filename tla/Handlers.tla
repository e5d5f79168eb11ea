------------------------------ MODULE Handlers ------------------------------
(***************************************************************************)
(* Requests that are being handled.  A handler awaits its statements one   *)
(* after the other, so that other handlers run between any two of them;    *)
(* what it has read so far is its record in at.  The statements of one     *)
(* transaction are one step where nothing another handler does between     *)
(* them could change what they find.                                       *)
(***************************************************************************)
EXTENDS Integers, Sequences, FiniteSets

CONSTANTS
  Handler,  \* handlers at work at the same time
  None      \* null

VARIABLES
  at,      \* what the handler goes on with
  coming   \* requests that are still to arrive, the bound of the model

handlers == <<at, coming>>

Idle == [op |-> "idle"]

HandlersInit(requests) ==
  /\ at = [h \in Handler |-> Idle]
  /\ coming = requests

\* A request arrives: handled in one step, or in several by h.
Arrive == coming > 0 /\ coming' = coming - 1

InOneStep == Arrive /\ UNCHANGED at

Enter(h, next) ==
  /\ Arrive /\ at[h] = Idle
  /\ at' = [at EXCEPT ![h] = next]

Proceed(h, next) ==
  /\ at' = [at EXCEPT ![h] = next]
  /\ UNCHANGED coming

\* The handler answers, or ends with an error.
Leave(h) == Proceed(h, Idle)

Busy(h, op) == at[h].op = op
=============================================================================
