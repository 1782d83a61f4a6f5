-------------------------------- MODULE MCSocket --------------------------------
(* Model values for SocketProps. *)
EXTENDS SocketProps

One == [c \in Sender |-> 1]
TwoOne == [c \in Sender |-> IF c = Owner THEN 2 ELSE 1]
=============================================================================
