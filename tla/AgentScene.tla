------------------------------ MODULE AgentScene ------------------------------
(***************************************************************************)
(* Agents and the scenes they enter and leave: agent/sceneapi.lua, the     *)
(* kick and exit of agent/init.lua, and enter and leave of scene/init.lua. *)
(*                                                                         *)
(* A handler of an agent waits in s.call for its scene, and the other      *)
(* handlers of the agent run meanwhile: two enters, or an enter and the    *)
(* kick.  A scene never waits, so its handlers are single steps.  Requests *)
(* of one agent reach a scene in order, and so do the messages ("send") of *)
(* a scene to an agent; an answer overtakes nothing that the model keeps.  *)
(*                                                                         *)
(* agentmgr kicks an agent once and makes it exit when the kick is over;   *)
(* an account's next agent starts behind the kick of the previous one.     *)
(***************************************************************************)
EXTENDS Naturals, Sequences

CONSTANTS
  Agent, Player, Scene,
  PlayerOf,       \* s.id, the player an agent was started for
  None,           \* Lua's nil
  Enters,         \* bound: the messages "enter" a client sends to one agent
  SerialEnters,   \* clients wait for the answer to an enter before the next
  CalmKicks       \* no enter is under way, or comes, when an agent is kicked

ASSUME AgentSceneAssumption ==
  /\ PlayerOf \in [Agent -> Player]
  /\ None \notin Agent \cup Scene
  /\ Enters \in Nat
  /\ SerialEnters \in BOOLEAN
  /\ CalmKicks \in BOOLEAN

VARIABLES
  life,    \* an agent service: "none", "alive" or "exited"
  sname,   \* agent: s.sname (and s.snode)
  pc,      \* agent: where a handler is
  goal,    \* agent: the scene a handler calls
  sbox,    \* the calls in a scene's mailbox, by handler
  balls,   \* scene: balls[playerid].agent, or None
  feed,    \* the messages of scenes on their way to an agent's client
  view     \* the balls which that client shows

vars == <<life, sname, pc, goal, sbox, balls, feed, view>>

-----------------------------------------------------------------------------
\* Handler 0 of an agent is its kick, the others are its enters.
EnterOf(a) == {a} \X (1..Enters)
KickOf(a)  == <<a, 0>>
Handler    == Agent \X (0..Enters)

HandlerPc == {"idle", "called", "granted", "refused", "saving", "done"}
Message   == [cmd : {"enter", "leave"}, player : Player]
               \cup [cmd : {"balllist"}, balls : SUBSET Player]

TypeOK ==
  /\ life \in [Agent -> {"none", "alive", "exited"}]
  /\ sname \in [Agent -> Scene \cup {None}]
  /\ pc \in [Handler -> HandlerPc]
  /\ goal \in [Handler -> Scene \cup {None}]
  /\ sbox \in [Scene -> Seq(Handler)]
  /\ balls \in [Scene -> [Player -> Agent \cup {None}]]
  /\ feed \in [Agent -> Seq(Message)]
  /\ view \in [Agent -> SUBSET Player]

Init ==
  /\ life = [a \in Agent |-> "none"]
  /\ sname = [a \in Agent |-> None]
  /\ pc = [h \in Handler |-> "idle"]
  /\ goal = [h \in Handler |-> None]
  /\ sbox = [s \in Scene |-> <<>>]
  /\ balls = [s \in Scene |-> [p \in Player |-> None]]
  /\ feed = [a \in Agent |-> <<>>]
  /\ view = [a \in Agent |-> {}]

UnderWay(h) == pc[h] \notin {"idle", "done"}

\* s.call(snode, sname, ...) by handler h.
CallScene(h, s) ==
  /\ pc' = [pc EXCEPT ![h] = "called"]
  /\ goal' = [goal EXCEPT ![h] = s]
  /\ sbox' = [sbox EXCEPT ![s] = Append(@, h)]

-----------------------------------------------------------------------------
(* The agent.                                                              *)

\* newservice, once the kicks of the player's former agents are over.
Start(a) ==
  /\ life[a] = "none"
  /\ \A b \in Agent \ {a} : PlayerOf[b] = PlayerOf[a] /\ life[b] # "none"
                              => pc[KickOf(b)] = "done"
  /\ life' = [life EXCEPT ![a] = "alive"]
  /\ UNCHANGED <<sname, pc, goal, sbox, balls, feed, view>>

MayEnter(a) ==
  /\ SerialEnters => \A h \in EnterOf(a) : ~UnderWay(h)
  /\ CalmKicks => pc[KickOf(a)] = "idle"

MayKick(a) == CalmKicks => \A h \in EnterOf(a) : ~UnderWay(h)

\* Variant: the scene is noted before the call, whatever it answers.
BugNoteFirst(a, h) ==
  /\ life[a] = "alive"
  /\ pc[h] = "idle"
  /\ MayEnter(a)
  /\ sname[a] = None
  /\ \E s \in Scene : CallScene(h, s) /\ sname' = [sname EXCEPT ![a] = s]
  /\ UNCHANGED <<life, balls, feed, view>>

\* client.enter: any scene that is configured, unless the agent is in one.
\* The refusal needs response(), which the agent did not load, and fails.
Enter(a, h) ==
  /\ life[a] = "alive"
  /\ pc[h] = "idle"
  /\ MayEnter(a)
  /\ IF sname[a] = None
     THEN \E s \in Scene : CallScene(h, s)
     ELSE pc' = [pc EXCEPT ![h] = "done"] /\ UNCHANGED <<goal, sbox>>
  /\ UNCHANGED <<life, sname, balls, feed, view>>

\* Variant: the scene is not noted.
BugNotNoted(a, h) ==
  /\ life[a] = "alive"
  /\ pc[h] \in {"granted", "refused"}
  /\ pc' = [pc EXCEPT ![h] = "done"]
  /\ UNCHANGED <<life, sname, goal, sbox, balls, feed, view>>

\* The scene answered the enter.
EnterAnswered(a, h) ==
  /\ life[a] = "alive"
  /\ pc[h] \in {"granted", "refused"}
  /\ sname' = IF pc[h] = "granted" THEN [sname EXCEPT ![a] = goal[h]] ELSE sname
  /\ pc' = [pc EXCEPT ![h] = "done"]
  /\ UNCHANGED <<life, goal, sbox, balls, feed, view>>

\* Variant: the kick saves without leaving the scene.
BugKickStays(a) ==
  /\ life[a] = "alive"
  /\ pc[KickOf(a)] = "idle"
  /\ MayKick(a)
  /\ pc' = [pc EXCEPT ![KickOf(a)] = "saving"]
  /\ UNCHANGED <<life, sname, goal, sbox, balls, feed, view>>

\* resp.kick: leave_scene, if the agent knows that it is in one.
Kick(a) ==
  /\ life[a] = "alive"
  /\ pc[KickOf(a)] = "idle"
  /\ MayKick(a)
  /\ IF sname[a] = None
     THEN pc' = [pc EXCEPT ![KickOf(a)] = "saving"] /\ UNCHANGED <<goal, sbox>>
     ELSE CallScene(KickOf(a), sname[a])
  /\ UNCHANGED <<life, sname, balls, feed, view>>

\* leave_scene returns, and the player is saved.
LeaveAnswered(a) ==
  /\ life[a] = "alive"
  /\ pc[KickOf(a)] \in {"granted", "refused"}
  /\ sname' = [sname EXCEPT ![a] = None]
  /\ pc' = [pc EXCEPT ![KickOf(a)] = "saving"]
  /\ UNCHANGED <<life, goal, sbox, balls, feed, view>>

\* The sleep of 2 seconds is over.
KickEnd(a) ==
  /\ life[a] = "alive"
  /\ pc[KickOf(a)] = "saving"
  /\ pc' = [pc EXCEPT ![KickOf(a)] = "done"]
  /\ UNCHANGED <<life, sname, goal, sbox, balls, feed, view>>

\* resp.exit: the handlers and the mailbox of the agent are gone.
Exit(a) ==
  /\ life[a] = "alive"
  /\ pc[KickOf(a)] = "done"
  /\ life' = [life EXCEPT ![a] = "exited"]
  /\ feed' = [feed EXCEPT ![a] = <<>>]
  /\ UNCHANGED <<sname, pc, goal, sbox, balls, view>>

\* The client of an agent gets the next message of a scene.
Replay(shown, m) ==
  CASE m.cmd = "balllist" -> m.balls
    [] m.cmd = "enter"    -> shown \cup {m.player}
    [] m.cmd = "leave"    -> shown \ {m.player}

Show(a) ==
  /\ feed[a] # <<>>
  /\ view' = [view EXCEPT ![a] = Replay(@, Head(feed[a]))]
  /\ feed' = [feed EXCEPT ![a] = Tail(@)]
  /\ UNCHANGED <<life, sname, pc, goal, sbox, balls>>

-----------------------------------------------------------------------------
(* The scene.                                                              *)

InPlay(s) == {p \in Player : balls[s][p] # None}

\* broadcast: "send" to the agent of every ball; a dead agent gets nothing.
Broadcast(s, msg) ==
  [a \in Agent |-> IF /\ life[a] = "alive"
                      /\ balls[s][PlayerOf[a]] = a
                   THEN Append(feed[a], msg)
                   ELSE feed[a]]

\* Variant: the ball of a player that has one is replaced, and no list is sent.
BugTakeOver(s) ==
  LET h == Head(sbox[s]) IN
  /\ sbox[s] # <<>>
  /\ h[2] # 0
  /\ balls' = [balls EXCEPT ![s][PlayerOf[h[1]]] = h[1]]
  /\ pc' = [pc EXCEPT ![h] = "granted"]
  /\ sbox' = [sbox EXCEPT ![s] = Tail(@)]
  /\ UNCHANGED <<life, sname, goal, feed, view>>

\* resp.enter of an agent without a ball: the news to the others, a ball, and
\* the list of all balls to the agent, if it lives.
SceneEnter(s) ==
  LET h == Head(sbox[s])
      a == h[1]
      p == PlayerOf[a]
      others == Broadcast(s, [cmd |-> "enter", player |-> p])
      all    == [cmd |-> "balllist", balls |-> InPlay(s) \cup {p}]
  IN
  /\ sbox[s] # <<>>
  /\ h[2] # 0
  /\ balls[s][p] = None
  /\ balls' = [balls EXCEPT ![s][p] = a]
  /\ feed' = IF life[a] = "alive"
             THEN [others EXCEPT ![a] = Append(@, all)]
             ELSE others
  /\ pc' = [pc EXCEPT ![h] = "granted"]
  /\ sbox' = [sbox EXCEPT ![s] = Tail(@)]
  /\ UNCHANGED <<life, sname, goal, view>>

\* An enter of a player that has a ball, or a leave of one that has none.
SceneRefuse(s) ==
  LET h == Head(sbox[s]) IN
  /\ sbox[s] # <<>>
  /\ (h[2] = 0) <=> (balls[s][PlayerOf[h[1]]] = None)
  /\ pc' = [pc EXCEPT ![h] = "refused"]
  /\ sbox' = [sbox EXCEPT ![s] = Tail(@)]
  /\ UNCHANGED <<life, sname, goal, balls, feed, view>>

\* Variant: the ball goes and nobody is told.
BugLeaveUntold(s) ==
  LET h == Head(sbox[s]) IN
  /\ sbox[s] # <<>>
  /\ h[2] = 0
  /\ balls[s][PlayerOf[h[1]]] # None
  /\ balls' = [balls EXCEPT ![s][PlayerOf[h[1]]] = None]
  /\ pc' = [pc EXCEPT ![h] = "granted"]
  /\ sbox' = [sbox EXCEPT ![s] = Tail(@)]
  /\ UNCHANGED <<life, sname, goal, feed, view>>

\* resp.leave: the ball goes, then the others are told.
SceneLeave(s) ==
  LET h == Head(sbox[s])
      p == PlayerOf[h[1]]
      told == Broadcast(s, [cmd |-> "leave", player |-> p])
  IN
  /\ sbox[s] # <<>>
  /\ h[2] = 0
  /\ balls[s][p] # None
  /\ balls' = [balls EXCEPT ![s][p] = None]
  /\ feed' = [a \in Agent |-> IF PlayerOf[a] = p THEN feed[a] ELSE told[a]]
  /\ pc' = [pc EXCEPT ![h] = "granted"]
  /\ sbox' = [sbox EXCEPT ![s] = Tail(@)]
  /\ UNCHANGED <<life, sname, goal, view>>

-----------------------------------------------------------------------------
\* Every agent has ended and every message has been handled.
Quiescent ==
  /\ \A a \in Agent : life[a] = "exited"
  /\ \A s \in Scene : sbox[s] = <<>>
  /\ UNCHANGED vars

HandlerStep(a) ==
  \/ \E h \in EnterOf(a) : EnterAnswered(a, h)
  \/ LeaveAnswered(a) \/ KickEnd(a) \/ Exit(a)

SceneStep(s) == SceneEnter(s) \/ SceneRefuse(s) \/ SceneLeave(s)

Next ==
  \/ \E a \in Agent : \/ Start(a) \/ Kick(a) \/ Show(a) \/ HandlerStep(a)
                      \/ \E h \in EnterOf(a) : Enter(a, h)
  \/ \E s \in Scene : SceneStep(s)
  \/ Quiescent

Spec == Init /\ [][Next]_vars
=============================================================================
