-------------------------- MODULE MCStatePublication --------------------------
(***************************************************************************)
(* Two processes for TLC: p1 has two subscribers and may start twice, p2   *)
(* has one.                                                                *)
(***************************************************************************)
EXTENDS StatePublication

CONSTANTS p1, p2, l1, l2, l3, s1, s2, s3, k1

MCUid == (p1 :> 1 @@ p2 :> 2)
MCOwner == (l1 :> p1 @@ l2 :> p1 @@ l3 :> p2)
MCHome == (s1 :> p1 @@ s2 :> p1 @@ s3 :> p2)
MCStates == (s1 :> {"switch", "stop"} @@ s2 :> {"stop"} @@ s3 :> {"stop"})

\* The clients come and go while "switch" states are published, or "stop"
\* states are published to what three calls can subscribe.
MCBudgets ==
    {[calls |-> 5, switches |-> 2, stops |-> 0, deaths |-> 1, crashes |-> 1],
     [calls |-> 3, switches |-> 0, stops |-> 1, deaths |-> 1, crashes |-> 0]}
===============================================================================
