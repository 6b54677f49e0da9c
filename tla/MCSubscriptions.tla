--------------------------- MODULE MCSubscriptions ---------------------------
(* Instances of Subscriptions for TLC.                                     *)
EXTENDS Subscriptions

CONSTANTS d1, d2, c1, c2, c3

=============================================================================
