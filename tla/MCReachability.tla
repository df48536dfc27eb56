---------------------------- MODULE MCReachability ----------------------------
(***************************************************************************)
(* Small instances of Reachability for TLC.                                *)
(***************************************************************************)
EXTENDS Reachability

F(reachable, required, onDemand, intervention, wwan) ==
    [reachable |-> reachable, required |-> required, onDemand |-> onDemand,
     intervention |-> intervention, wwan |-> wwan]

\* No network, WiFi, cellular, and a connection that waits for the user.
MCFlags ==
    { NoFlags, F(TRUE, FALSE, FALSE, FALSE, FALSE), F(TRUE, FALSE, FALSE, FALSE, TRUE),
      F(TRUE, TRUE, TRUE, TRUE, FALSE) }
=============================================================================
