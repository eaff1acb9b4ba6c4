------------------------ MODULE MCAuthenticatorSession ------------------------
EXTENDS AuthenticatorSession

CONSTANTS p1, q1, q2

\* Selection q1 has two accounts to ask, q2 none.
MCCandidates == [q \in Select |-> IF q = q1 THEN 2 ELSE 0]
=============================================================================
