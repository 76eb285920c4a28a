------------------------ MODULE MCOutboxDispatcher ------------------------
(* OutboxDispatcher on small sets of model values.                          *)
EXTENDS OutboxDispatcher, TLC

CONSTANTS w1, w2, u1, u2, u3
=============================================================================
