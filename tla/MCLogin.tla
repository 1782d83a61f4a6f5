------------------------------- MODULE MCLogin -------------------------------
(* Instances of the login flow for TLC.                                    *)
EXTENDS LoginProps

CONSTANTS r1, r2, r3, r4, p1, f1, f2, f3, f4, g1, g2

\* One player, a connection for each of the logins, two gateways.
OnePlayer == [r \in Req |-> p1]
OwnFd     == [r \in Req |-> CASE r = r1 -> f1 [] r = r2 -> f2
                            [] r = r3 -> f3 [] r = r4 -> f4]
TwoGates  == [f \in Fd |-> IF f \in {f2, f4} THEN g2 ELSE g1]

\* r1 and r2 share a connection.
SharedFd == [r \in Req |-> IF r \in {r1, r2} THEN f1 ELSE f2]
=============================================================================
