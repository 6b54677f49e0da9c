----------------------------- MODULE MCDiscovery -----------------------------
(* Instances of Discovery for TLC.                                         *)
EXTENDS Discovery, TLC

CONSTANTS d1, d2, c1, c2, s1, s2

\* c1 can be read and written, c2 is for notifications only
MCProperties ==
  (c1 :> {"Read", "WriteWithoutResp"}) @@ (c2 :> {"Notify", "Indicate"})

\* a peer before and after its firmware was changed
MCOffers == {[services |-> {s1}, characteristics |-> {c1}],
             [services |-> {s1, s2}, characteristics |-> {c2}]}

\* all that touches a device, discovery always on
UseOps == {"connect", "disconnect", "read", "write", "enable"}

=============================================================================
