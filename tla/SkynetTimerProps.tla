--------------------------- MODULE SkynetTimerProps ---------------------------
(***************************************************************************)
(* What the timer promises (skynet_timer.c).                               *)
(***************************************************************************)
EXTENDS SkynetTimer

\* The ticks until a node expires.
Left(x) == (expire[x] - time) % Range32

\* The nodes the wheel or the timer thread holds.
Waiting == (1..set) \ sent

\* The variables have their types; a node waits in one list only, and that list
\* is opened no later than it expires: its slot of near is in the present block,
\* or its slot of a level is one that timer_shift has still to move
\* (skynet_timer.c:68 and 112).
InWheel ==
  /\ TypeOK
  /\ \A x \in Waiting :
       \/ /\ Contains(list, x)
          /\ Left(x) = 0
       \/ /\ Contains(near[expire[x] % NEAR], x)
          /\ expire[x] \div NEAR = time \div NEAR
       \/ \E l \in Level :
            /\ Contains(t[l][IndexOf(expire[x], l)], x)
            /\ IndexOf(expire[x], l) # IndexOf(time, l)

-----------------------------------------------------------------------------
(* The same, made inductive.                                               *)

\* The list that add_node chooses at a time for what expires at e: a slot of near,
\* the level -1, or one of a level.
Place(e, now) ==
  IF e \div NEAR = now \div NEAR THEN <<-1, e % NEAR>>
  ELSE <<LevelOf(e, now), IndexOf(e, LevelOf(e, now))>>

Places == ({-1} \X (0..(NEAR - 1))) \cup (Level \X (0..(LEVEL - 1)))

At(w, p) == IF p[1] = -1 THEN w.near[p[2]] ELSE w.t[p[1]][p[2]]

\* Nodes that expire at the same instant are in the order they were set.
Sorted(s, f) ==
  \A i, j \in DOMAIN s : i < j /\ f[s[i]] = f[s[j]] => s[i] < s[j]

\* The clock wraps behind a node that waits in the highest level only.
Ahead(e, now) == e \div Block[3] = now \div Block[3] => e >= now

\* A wheel of the nodes W: each is where add_node would put it now, and no other
\* node is there.
Holds(w, f, W, now) ==
  /\ \A p \in Places :
       /\ Sorted(At(w, p), f)
       /\ \A x \in ToSet(At(w, p)) : x \in W /\ Place(f[x], now) = p
  /\ \A x \in W :
       /\ f[x] \in Time /\ Ahead(f[x], now)
       /\ x \in ToSet(At(w, Place(f[x], now)))

Rest(S, s) == S \ ToSet(s)

\* Of the nodes S the timer thread has those of li, and they are all that expire
\* now; the wheel holds the others.
Timed(w, f, S, li, now) ==
  /\ Holds(w, f, Rest(S, li), now)
  /\ Sorted(li, f)
  /\ \A x \in ToSet(li) : x \in S /\ f[x] = now
  /\ li # <<>> => \A x \in Rest(S, li) : f[x] # now

TimerInv ==
  /\ TypeOK
  /\ pc # "idle" => todo > 0
  /\ Timed(Wheel, expire, Waiting, list, time)

-----------------------------------------------------------------------------
\* The wheel of lists is a plain table of countdowns: no timer is lost, sent
\* twice, early or late, also when the time wraps, whatever the levels it came
\* down, and equal instants keep their order (skynet_timer.c:153).
Countdown ==
  [x \in Timer |-> IF x \in Waiting THEN Left(x) ELSE -1]

Abstract == INSTANCE Alarm WITH left <- Countdown, Idle <- -1

IsAlarm == Abstract!Spec

\* The timer thread runs, and the clock goes on.
FairSpec == Spec /\ WF_vars(TimerThread)

\* Every timer that is set is answered in the end.
Fires == \A x \in Timer : x \in Waiting ~> x \in sent
=============================================================================
