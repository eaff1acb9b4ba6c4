-------------------------- MODULE MCCredentialKeys --------------------------
(* Instances of CredentialKeys for TLC.                                    *)
EXTENDS CredentialKeys, TLC

CONSTANTS p1, p2, p3, c1, c2, c3

World(o, f, n) == [ops |-> o, faults |-> f, crashes |-> n]

\* Everything fails, but "null" only where no PIN is updated or deleted; or
\* DelCred is called too and nothing fails: DelCred cannot stand a failure.
MCWorlds == {World(Calls \ {"delCred"}, FaultKinds \ {"null"}, 2),
             World({"add", "auth", "activate"}, FaultKinds, 2),
             World(Calls, {"info"}, 0)}

\* The overlaps in which the files of the user, or the agreement, get lost.
MCApart == {{"auth", "update"}, {"auth", "delUser"},
            {"delCred", "add"}, {"delCred", "update"}, {"delCred", "auth"}}

Symmetric == Permutations(Cred) \cup Permutations(Proc)
=============================================================================
