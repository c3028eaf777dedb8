------------------------------- MODULE MCChat -------------------------------
(* Small instances of ChatConversation. *)
EXTENDS ChatConversation, TLC

CONSTANTS t1, t2, r1, r2

\* Two different messages, or one message and its retry.
DistinctMsgs == (t1 :> 1) @@ (t2 :> 2)
SameMsg == (t1 :> 1) @@ (t2 :> 1)

DistinctKeys == (r1 :> 1) @@ (r2 :> 2)
SameKey == (r1 :> 1) @@ (r2 :> 1)

AllTexts == [kind : Kinds, slots : BOOLEAN]
SlotTexts == [kind : {"plain"}, slots : BOOLEAN]
FlowTexts == [kind : {"plain", "human"}, slots : {FALSE}]
TurnTexts == [kind : {"plain", "human"}, slots : BOOLEAN]

\* Members of staff are interchangeable.
AlikeStaff == Permutations(Staff)
=============================================================================
