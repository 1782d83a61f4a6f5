--------------------------- MODULE AgentSceneProps ---------------------------
(***************************************************************************)
(* What agents and scenes should agree on.                                 *)
(***************************************************************************)
EXTENDS AgentScene, SequencesExt

\* An agent that believes to be in a scene has the ball there, unless its
\* leave has been answered; so it never takes the ball of another agent away
\* when it leaves (agent/sceneapi.lua 61-62, 89-98; scene 36, 56-60).
InScene ==
  \A a \in Agent : \A s \in Scene :
    sname[a] = s /\ pc[KickOf(a)] \notin {"granted", "refused"}
      => balls[s][PlayerOf[a]] = a

\* Whatever is still on its way, the client of a ball's agent will show the
\* balls of its scene: enter, leave and balllist come in the order in which
\* the scene changed, and none is missed (scene 31-48, 61-64).
ViewFollows ==
  \A s \in Scene : \A p \in InPlay(s) :
    LET a == balls[s][p] IN
    life[a] = "alive" => FoldLeft(Replay, view[a], feed[a]) = InPlay(s)

\* An agent has a ball in one scene at most (agent/sceneapi.lua 50-52).
AgentInOneScene ==
  \A s, t \in Scene : \A p \in Player :
    balls[s][p] = balls[t][p] /\ balls[s][p] # None => s = t

\* A player that goes offline leaves its scene (agent/init.lua 50): no ball
\* belongs to an agent that has exited.
NoGhost ==
  \A s \in Scene : \A p \in Player :
    balls[s][p] # None => life[balls[s][p]] = "alive"

-----------------------------------------------------------------------------
(* InScene, made inductive.                                                *)

At(s) == 1..Len(sbox[s])

\* A call is in the mailbox of the scene it is for, once, while it waits.
CallInv ==
  \A s \in Scene :
    /\ \A i \in At(s) : pc[sbox[s][i]] = "called" /\ goal[sbox[s][i]] = s
    /\ \A i, j \in At(s) : sbox[s][i] = sbox[s][j] => i = j

Leaving(a) == pc[KickOf(a)] = "called"

\* The three claims an agent can have to the ball of a scene: a granted enter
\* it has not heard of, its sname, and a leave that is not answered.  Each
\* comes with the ball, and a granted enter excludes the other two.
ClaimInv(a) ==
  /\ \A h \in EnterOf(a) : pc[h] = "granted" =>
       /\ goal[h] \in Scene
       /\ balls[goal[h]][PlayerOf[a]] = a
       /\ \A g \in EnterOf(a) : pc[g] = "granted" /\ goal[g] = goal[h] => g = h
       /\ sname[a] = goal[h] => pc[KickOf(a)] \in {"granted", "refused"}
       /\ Leaving(a) => goal[KickOf(a)] # goal[h]
  /\ Leaving(a) => /\ goal[KickOf(a)] \in Scene
                   /\ balls[goal[KickOf(a)]][PlayerOf[a]] = a

SceneInv == TypeOK /\ CallInv /\ (\A a \in Agent : ClaimInv(a)) /\ InScene

-----------------------------------------------------------------------------
(* AgentInOneScene and NoGhost, made inductive.                            *)

InLeave(a) == pc[KickOf(a)] \in {"called", "granted", "refused"}

\* When clients wait for their answers, an agent has one enter under way at
\* most, and none while it is in a scene or leaves it.
OneAtATime(a) ==
  /\ \A g, h \in EnterOf(a) : UnderWay(g) /\ UnderWay(h) => g = h
  /\ \A h \in EnterOf(a) : UnderWay(h) => sname[a] = None
  /\ InLeave(a) => sname[a] # None /\ goal[KickOf(a)] = sname[a]

\* Every ball of an agent is claimed: by a granted enter, or by its sname
\* until the scene has answered the leave.
BallClaimed(a) ==
  \A s \in Scene : \A p \in Player : balls[s][p] = a =>
    /\ p = PlayerOf[a]
    /\ \/ sname[a] = s /\ pc[KickOf(a)] \notin {"granted", "refused"}
       \/ \E h \in EnterOf(a) : pc[h] = "granted" /\ goal[h] = s

SerialInv == \A a \in Agent : OneAtATime(a) /\ BallClaimed(a)

\* An agent that has not started does nothing.
UnstartedInv ==
  \A a \in Agent : life[a] = "none" =>
    sname[a] = None /\ \A h \in {KickOf(a)} \cup EnterOf(a) : pc[h] = "idle"

\* When kicks are calm, nothing of an agent is left once it has left.
Calm(a) ==
  /\ pc[KickOf(a)] # "idle" => \A h \in EnterOf(a) : ~UnderWay(h)
  /\ pc[KickOf(a)] \in {"saving", "done"} => sname[a] = None
  /\ life[a] = "exited" => pc[KickOf(a)] = "done"
  /\ life[a] = "none" => /\ sname[a] = None
                         /\ pc[KickOf(a)] = "idle"
                         /\ \A h \in EnterOf(a) : ~UnderWay(h)

CalmInv == \A a \in Agent : Calm(a)

-----------------------------------------------------------------------------
(* Scenes handle their calls and agents their answers; sleeps end.         *)
Fairness ==
  /\ \A a \in Agent : WF_vars(HandlerStep(a)) /\ WF_vars(Show(a))
  /\ \A s \in Scene : WF_vars(SceneStep(s))

FairSpec == Spec /\ Fairness

\* An enter comes to show: the client gets the list with its own ball, unless
\* the scene refuses or the agent is kicked (scene 38-50, agent/init.lua 70-72).
EnterShows ==
  \A a \in Agent : \A h \in EnterOf(a) :
    pc[h] = "called" ~> \/ PlayerOf[a] \in view[a]
                        \/ pc[h] = "refused"
                        \/ pc[KickOf(a)] # "idle"
=============================================================================
