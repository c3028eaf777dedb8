---------------------------- MODULE MCChatFlows ----------------------------
(* A small instance of ChatFlows. *)
EXTENDS ChatFlows, TLC

CONSTANTS f1, f2, v1, n0, n1, n2, n3, yes, hello, school

\* A question whose button leads into a circle of two silent steps.
Asking ==
  [type |-> n0 :> "start" @@ n1 :> "message" @@ n2 :> "message" @@ n3 :> "knowledge",
   says |-> {n1, n2, n3},
   buttons |-> [n \in Nodes |-> IF n = n1 THEN {yes} ELSE {}],
   edges |-> {[source |-> n0, handle |-> "next", target |-> n1],
              [source |-> n1, handle |-> yes, target |-> n2],
              [source |-> n2, handle |-> "next", target |-> n3],
              [source |-> n3, handle |-> "next", target |-> n2]},
   actions |-> {school}, words |-> {}]

\* An answer by keyword that also wants the start button, sent with an edge out of the handoff.
Telling ==
  [type |-> n0 :> "start" @@ n1 :> "knowledge" @@ n2 :> "handoff" @@ n3 :> "end",
   says |-> {n2},
   buttons |-> [n \in Nodes |-> {}],
   edges |-> {[source |-> n0, handle |-> "next", target |-> n1],
              [source |-> n1, handle |-> "next", target |-> n2],
              [source |-> n2, handle |-> "next", target |-> n3]},
   actions |-> {school}, words |-> {hello}]

Said == {[button |-> yes, word |-> Other], [button |-> Other, word |-> hello]}

Sent == {Telling}

OneLive ==
  f1 :> [enabled |-> TRUE, draft |-> Asking, live |-> Asking, version |-> 1]
  @@ f2 :> NoRow

AtQuestion == v1 :> [flow |-> f1, version |-> 1, node |-> n1]
=============================================================================
