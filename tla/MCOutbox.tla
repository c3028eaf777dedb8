------------------------------ MODULE MCOutbox ------------------------------
(* Small instances of OutboxDelivery: rows 1 and 2, one of them an email. *)
EXTENDS OutboxDelivery
=============================================================================
