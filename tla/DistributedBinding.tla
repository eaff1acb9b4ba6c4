-------------------------- MODULE DistributedBinding --------------------------
(***************************************************************************)
(* What the sub-profiles of an OS account promise about the distributed    *)
(* accounts bound to them, and nothing else: a sub-profile is bound to at  *)
(* most one account, an account to at most one sub-profile, and a binding  *)
(* is never exchanged for another one without an unbinding in between.     *)
(***************************************************************************)
CONSTANTS
    Profile, \* sub-profiles of the OS account
    Account, \* distributed accounts
    Unbound  \* no account, not a member of Account

VARIABLE bound \* the account of every sub-profile

Init == bound = [s \in Profile |-> Unbound]

\* The first login of account a in sub-profile s.
Bind(s, a) ==
    /\ bound[s] = Unbound
    /\ \A r \in Profile : bound[r] # a
    /\ bound' = [bound EXCEPT ![s] = a]

\* The application is removed, or the sub-profile with its account.
Unbind(s) ==
    /\ bound[s] # Unbound
    /\ bound' = [bound EXCEPT ![s] = Unbound]

Next == \E s \in Profile : Unbind(s) \/ \E a \in Account : Bind(s, a)

Spec == Init /\ [][Next]_bound

\* An account is bound to one sub-profile at most.
OneProfile ==
    \A r, s \in Profile : bound[r] = bound[s] /\ bound[r] # Unbound => r = s

\* A binding is to an account, and TypeOK makes OneProfile inductive.
TypeOK == bound \in [Profile -> Account \cup {Unbound}]
===============================================================================
