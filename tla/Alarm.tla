--------------------------------- MODULE Alarm ---------------------------------
(***************************************************************************)
(* What skynet_timeout promises: a countdown for every timer, and the      *)
(* message of a timer when its countdown is at zero; the clock does not go *)
(* on before, and timers of one instant answer in the order they were set. *)
(***************************************************************************)
EXTENDS Integers

CONSTANTS
  Timer,          \* the timers, numbered in the order they are set
  MaxDelay,
  Idle            \* the countdown of a timer that is not set

VARIABLES
  left,           \* ticks to go, per timer
  sent            \* the timers whose message is sent

vars == <<left, sent>>

Init ==
  /\ left = [x \in Timer |-> Idle]
  /\ sent = {}

Set(x, d) ==
  /\ left[x] = Idle /\ x \notin sent
  /\ left' = [left EXCEPT ![x] = d]
  /\ UNCHANGED sent

Now(x) ==
  /\ left[x] = Idle /\ x \notin sent
  /\ sent' = sent \cup {x}
  /\ UNCHANGED left

Tick ==
  /\ \A x \in Timer : left[x] # 0
  /\ left' = [x \in Timer |-> IF left[x] = Idle THEN Idle ELSE left[x] - 1]
  /\ UNCHANGED sent

Send(x) ==
  /\ left[x] = 0
  /\ \A y \in Timer : left[y] = 0 => x <= y
  /\ left' = [left EXCEPT ![x] = Idle]
  /\ sent' = sent \cup {x}

Next ==
  \/ \E x \in Timer, d \in 1..MaxDelay : Set(x, d)
  \/ \E x \in Timer : Now(x) \/ Send(x)
  \/ Tick

Spec == Init /\ [][Next]_vars
=============================================================================
