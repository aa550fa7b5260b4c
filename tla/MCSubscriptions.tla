--------------------------- MODULE MCSubscriptions ---------------------------
(* Subscriptions with a contract a client asks for before it is listed and *)
(* one that is discarded.                                                  *)
EXTENDS Subscriptions
=============================================================================
