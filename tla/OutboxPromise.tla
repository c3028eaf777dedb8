-------------------------- MODULE OutboxPromise --------------------------
(***************************************************************************)
(* What the outbox promises about each row: it is told to its recipients   *)
(* while it is pending, it is settled once, and it is settled as 'sent'    *)
(* only when it was told.  How runs, batches, attempts and back-off bring  *)
(* this about is the business of OutboxDelivery.                           *)
(***************************************************************************)
CONSTANTS Rows, EmailRows, Recipients

VARIABLES
  fate,  \* "absent", "pending", "sent" or "failed" for each row
  told   \* recipients that have received each row

ToldEnough(r, who) ==
  IF r \in EmailRows THEN who # {} \/ Recipients = {} ELSE who = Recipients

Init ==
  /\ fate = [r \in Rows |-> "absent"]
  /\ told = [r \in Rows |-> {}]

Enqueue(r) ==
  /\ fate[r] = "absent"
  /\ fate' = [fate EXCEPT ![r] = "pending"]
  /\ UNCHANGED told

Tell(r) ==
  /\ fate[r] = "pending"
  /\ \E who \in SUBSET Recipients : told' = [told EXCEPT ![r] = @ \cup who]
  /\ UNCHANGED fate

Settle(r) ==
  /\ fate[r] = "pending"
  /\ \/ ToldEnough(r, told[r]) /\ fate' = [fate EXCEPT ![r] = "sent"]
     \/ r \in EmailRows /\ fate' = [fate EXCEPT ![r] = "failed"]
  /\ UNCHANGED told

Next == \E r \in Rows : Enqueue(r) \/ Tell(r) \/ Settle(r)

Spec == Init /\ [][Next]_<<fate, told>>
=============================================================================
