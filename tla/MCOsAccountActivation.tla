----------------------- MODULE MCOsAccountActivation -----------------------
(***************************************************************************)
(* Instances of OsAccountActivation for TLC: threads, accounts and         *)
(* displays as model values.                                               *)
(***************************************************************************)
EXTENDS OsAccountActivation, TLC

CONSTANTS p1, p2, a0, a1, a2, d0, d1

\* Two displays, of which each thread switches one, with several active
\* accounts; and one display, switched by p1, with one active account.
TwoDisplays ==
    [multiple |-> TRUE, switches |-> (p1 :> {d0} @@ p2 :> {d1}),
     ops |-> (p1 :> {"deactivate"} @@ p2 :> {"lock"}),
     faults |-> {"storage", "stop", "plugin"}]
OneDisplayOnly ==
    [multiple |-> FALSE, switches |-> (p1 :> {d0} @@ p2 :> {}),
     ops |-> (p1 :> {"deactivate"} @@ p2 :> {"auth"}),
     faults |-> {"read", "ams", "stop", "update", "unlock"}]
MCBuilds == {TwoDisplays, OneDisplayOnly}

\* Both threads switch the default display.
BothSwitchDefault ==
    {[multiple |-> TRUE, switches |-> (p1 :> {d0} @@ p2 :> {d0}),
      ops |-> (p1 :> {} @@ p2 :> {}), faults |-> {}]}

=============================================================================
