-------------------------- MODULE MCPrivilegeCache --------------------------
(* Instances of PrivilegeCache for TLC. *)
EXTENDS PrivilegeCache, TLC

CONSTANTS p1

\* The worlds of the run: the uptime fails, or start times come back after a
\* reboot.
MCWorlds == {[faults |-> {"write", "uptime", "kernel"}, reuse |-> {}],
             [faults |-> {"write", "kernel"}, reuse |-> {"tick"}]}

\* The theorems of PrivilegeCache_proof apply to these worlds.
ASSUME ProcessesAreIdentified == Identified
=============================================================================
