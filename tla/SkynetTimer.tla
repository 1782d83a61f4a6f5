----------------------------- MODULE SkynetTimer -----------------------------
(***************************************************************************)
(* The timer of skynet: a wheel of lists with four levels, turned by the   *)
(* timer thread one tick at a time, while the workers add nodes to it      *)
(* (skynet_timer.c).                                                       *)
(*                                                                         *)
(* A step is one critical section of the timer's lock, or the push of one  *)
(* message, which is done without the lock.  The shifts of the wheel are   *)
(* constants; a time has as many bits as the wheel.                        *)
(***************************************************************************)
EXTENDS Integers, Sequences, FiniteSets, SequencesExt

CONSTANTS
  Bound,          \* how many timers are set
  NearShift,      \* TIME_NEAR_SHIFT
  LevelShift,     \* TIME_LEVEL_SHIFT
  MaxDiff         \* the most ticks that one skynet_updatetime catches up

ASSUME SkynetTimerAssumption ==
  /\ Bound \in Nat
  /\ NearShift \in Nat \ {0}
  /\ LevelShift \in Nat \ {0}
  /\ MaxDiff \in Nat \ {0}

Pow2(k) == 2 ^ k

\* What the proofs need to know of ^, which the provers do not know.
ASSUME PowersOfTwo ==
  /\ Pow2(0) = 1
  /\ \A k \in 0..(NearShift + 4 * LevelShift - 1) : Pow2(k + 1) = 2 * Pow2(k)

VARIABLES
  near,           \* T->near
  t,              \* T->t
  time,           \* T->time
  expire,         \* of a node
  set,            \* how many timers were set
  sent,           \* the timers whose message was pushed
  pc,             \* where timer_update is: "idle", "first" or "second" execute
  list,           \* the nodes it has taken and not yet dispatched
  todo            \* ticks to go in the loop of skynet_updatetime

wheelVars  == <<near, t, time>>
threadVars == <<pc, list, todo>>
vars       == <<wheelVars, expire, set, sent, threadVars>>

Timer    == 1..Bound
NEAR     == Pow2(NearShift)
LEVEL    == Pow2(LevelShift)
Range32  == Pow2(NearShift + 4 * LevelShift)    \* what uint32_t holds
MaxDelay == Range32 \div 2 - 1                  \* the largest int
Time     == 0..(Range32 - 1)
Level    == 0..3

TypeOK ==
  /\ near \in [0..(NEAR - 1) -> Seq(Timer)]
  /\ t \in [Level -> [0..(LEVEL - 1) -> Seq(Timer)]]
  /\ time \in Time
  /\ expire \in [Timer -> Time]
  /\ set \in 0..Bound
  /\ sent \subseteq 1..set
  /\ pc \in {"idle", "first", "second"}
  /\ list \in Seq(Timer)
  /\ todo \in 0..MaxDiff

\* timer_create_timer.
Init ==
  /\ near = [k \in 0..(NEAR - 1) |-> <<>>]
  /\ t = [l \in Level |-> [k \in 0..(LEVEL - 1) |-> <<>>]]
  /\ time = 0
  /\ expire = [x \in Timer |-> 0]
  /\ set = 0
  /\ sent = {}
  /\ pc = "idle" /\ list = <<>> /\ todo = 0

-----------------------------------------------------------------------------
(* add_node.                                                               *)

\* The time that one turn of near and of the levels below l covers.
Block == [l \in 0..4 |-> Pow2(NearShift + l * LevelShift)]

\* The first level whose block holds both times.
LevelOf(x, now) ==
  LET fits == {l \in 0..2 : x \div Block[l + 1] = now \div Block[l + 1]}
  IN  IF fits = {} THEN 3 ELSE CHOOSE l \in fits : \A k \in fits : l <= k

\* Variant: the slot of a level is taken from the bits of the one below.
BugIndexOf(x, l) == (x \div Block[IF l = 0 THEN 0 ELSE l - 1]) % LEVEL

IndexOf(x, l) == (x \div Block[l]) % LEVEL

\* The lists after a node is linked at the end of the one for its expire.
AddNode(w, e, node, now) ==
  LET l == LevelOf(e, now) IN
  IF e \div NEAR = now \div NEAR
  THEN [w EXCEPT !.near[e % NEAR] = Append(@, node)]
  ELSE [w EXCEPT !.t[l][IndexOf(e, l)] = Append(@, node)]

Wheel == [near |-> near, t |-> t]

-----------------------------------------------------------------------------
(* skynet_timeout, by any worker.                                          *)

Expire(d) == (time + d) % Range32

Timeout(d) ==
  LET x == set + 1
      w == AddNode(Wheel, Expire(d), x, time)
  IN
  /\ set < Bound
  /\ set' = x
  /\ expire' = [expire EXCEPT ![x] = Expire(d)]
  /\ near' = w.near /\ t' = w.t
  /\ UNCHANGED <<time, sent, threadVars>>

\* A time of zero or less: the message is pushed at once.
TimeoutNow ==
  /\ set < Bound
  /\ set' = set + 1
  /\ sent' = sent \cup {set + 1}
  /\ UNCHANGED <<wheelVars, expire, threadVars>>

-----------------------------------------------------------------------------
(* The timer thread.                                                       *)

\* skynet_updatetime: the clock has gone on by diff.
UpdateTime(diff) ==
  /\ pc = "idle" /\ todo = 0
  /\ todo' = diff
  /\ UNCHANGED <<wheelVars, expire, set, sent, pc, list>>

\* Variant: the nodes of a list are moved from the last to the first.
BugMoveList(w, l, k, now) ==
  FoldRight(LAMBDA x, u : AddNode(u, expire[x], x, now), w.t[l][k],
            [w EXCEPT !.t[l][k] = <<>>])

\* move_list: the nodes of a list are added again, in their order.
MoveList(w, l, k, now) ==
  FoldLeft(LAMBDA u, x : AddNode(u, expire[x], x, now),
           [w EXCEPT !.t[l][k] = <<>>], w.t[l][k])

\* Variant: nothing is moved when the time wraps.
BugShifted(ct) ==
  LET ends == {l \in Level : ct % Block[l] = 0 /\ IndexOf(ct, l) # 0}
  IN  IF ct # 0 /\ ends # {} /\ ct % NEAR = 0
      THEN LET l == CHOOSE x \in ends : \A y \in ends : x <= y
           IN  MoveList(Wheel, l, IndexOf(ct, l), ct)
      ELSE Wheel

\* timer_shift: the list that the new time opens is moved down.
Shifted(ct) ==
  LET ends == {l \in Level : ct % Block[l] = 0 /\ IndexOf(ct, l) # 0}
  IN  IF ct = 0 THEN MoveList(Wheel, 3, 0, ct)
      ELSE IF ends = {} THEN Wheel
      ELSE LET l == CHOOSE x \in ends : \A y \in ends : x <= y
           IN  MoveList(Wheel, l, IndexOf(ct, l), ct)

\* timer_execute: the list of this instant is taken, or the call is over.
Taken(w, now, next) ==
  /\ list' = w.near[now % NEAR]
  /\ near' = [w.near EXCEPT ![now % NEAR] = <<>>]
  /\ t' = w.t
  /\ pc' = next

\* timer_update up to the shift.  The second execute starts in the same section.
Tick ==
  LET ct == (time + 1) % Range32
      w  == Shifted(ct)
  IN
  /\ todo > 0 /\ list = <<>> /\ pc \in {"idle", "first"}
  /\ IF near[time % NEAR] # <<>>
     THEN /\ Taken(Wheel, time, "first")
          /\ UNCHANGED <<time, todo>>
     ELSE /\ time' = ct
          /\ Taken(w, ct, IF w.near[ct % NEAR] = <<>> THEN "idle" ELSE "second")
          /\ todo' = IF w.near[ct % NEAR] = <<>> THEN todo - 1 ELSE todo
  /\ UNCHANGED <<expire, set, sent>>

\* dispatch_list: one message is pushed and its node freed, without the lock.
Dispatch ==
  /\ list # <<>>
  /\ sent' = sent \cup {Head(list)}
  /\ list' = Tail(list)
  /\ expire' = [expire EXCEPT ![Head(list)] = 0]
  /\ UNCHANGED <<wheelVars, set, pc, todo>>

\* The lock again: the list may have been filled meanwhile.
Again ==
  /\ pc = "second" /\ list = <<>>
  /\ IF near[time % NEAR] # <<>>
     THEN Taken(Wheel, time, "second") /\ UNCHANGED todo
     ELSE /\ pc' = "idle" /\ todo' = todo - 1
          /\ UNCHANGED <<near, t, list>>
  /\ UNCHANGED <<time, expire, set, sent>>

TimerThread ==
  \/ \E diff \in 1..MaxDiff : UpdateTime(diff)
  \/ Tick \/ Dispatch \/ Again

Next ==
  \/ \E d \in 1..MaxDelay : Timeout(d)
  \/ TimeoutNow
  \/ TimerThread

Spec == Init /\ [][Next]_vars
=============================================================================
