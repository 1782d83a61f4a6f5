------------------------------ MODULE MCSkynetMq ------------------------------
(* Instances of the skynet core for TLC.                                    *)
EXTENDS SkynetMqProps, TLC

CONSTANTS s1, s2, s3, w1, w2, m1, m2, m3

MsgSymmetry == Permutations({m1, m2, m3})
BootOne  == <<s1>>
BootTwo  == <<s1, s2>>
Weights  == [w \in Worker |-> IF w = w1 THEN -1 ELSE 0]
=============================================================================
