----------------------------- MODULE MCSlaCycle -----------------------------
(* A request with a resolution and a response goal, an agent.                *)
EXTENDS SlaCycle

AnyPayload == Payload
DonePayload == {p \in Payload : p.status = "done"}

\* A resolution goal that stops when the issue is done and starts anew when it is
\* reopened; its pauses end only when the customer has replied.
Resolve ==
  [metric |-> "resolution", target |-> 2, risk |-> 1, when |-> AnyPayload,
   start |-> AnyPayload, resume |-> {p \in Payload : p.event = "customer"},
   pause |-> [hold |-> {p \in Payload : p.status = "waiting"},
              asked |-> {p \in Payload : p.event = "agent"}],
   stop |-> DonePayload, reset |-> {p \in Payload : p.event = "reopened"},
   success |-> AnyPayload]

\* A response goal for requests that are not on hold.
Respond == [Resolve EXCEPT !.metric = "response", !.risk = 0,
              !.when = {p \in Payload : p.status # "waiting"},
              !.pause = [none |-> {}],
              !.stop = {p \in Payload : p.event = "agent"}]

MCGoal == [v \in {"resolve", "respond"} |-> IF v = "resolve" THEN Resolve ELSE Respond]
MCCatalog == <<<<"respond", "resolve">>, <<>>>>
MCWorking == {0, 1, 3, 4}
=============================================================================
