------------------------------ MODULE LoginProps ------------------------------
(***************************************************************************)
(* What the login flow should guarantee, stated over the state of          *)
(* LoginFlow, and the fairness under which it makes progress.              *)
(***************************************************************************)
EXTENDS LoginFlow

Under(j) == mpc[j] \notin {"idle", "done"}      \* the handler has not ended

-----------------------------------------------------------------------------
(* Whatever clients do.                                                    *)

\* An agent exits only after a kick has saved the player's data: resp.exit is
\* sent behind a call of "kick" that returned (agentmgr 67-68, 118-119).
SavedBeforeExit == \A a \in Req : agent[a] = "exited" => saved[a]

Once(S) == \E x \in S : S = {x}

\* Exactly one of the request and the running handler of a call of "kick".
AgentOwes(j) ==
  LET a == mold[j] IN
  /\ a \in Req
  /\ agent[a] = "alive"
  /\ \/ j \in saving[a] /\ CallsIn(abox[a], j) = {}
     \/ j \notin saving[a] /\ Once(CallsIn(abox[a], j))

GateOwes(j) ==
  /\ mold[j] \in Req
  /\ Once(CallsIn(gbox[GateOfReq(mold[j])], j))

\* A coroutine of login waits for agentmgr while one of its handlers runs.
WaitsForMgr ==
  \A r \in Req : /\ lpc[r] = "reqlogin" <=> Under(Login(r))
                 /\ lpc[r] = "reqkick" <=> Under(Kick(r))

\* A handler that waits is going to be resumed, once: its call has exactly one
\* request in a mailbox or one running callee, and the callee lives.  It holds
\* also when the agent it kicks is made to exit by another handler.
CallsPending ==
  /\ \A j \in Job : mpc[j] = "kick" => AgentOwes(j)
  /\ \A j \in Job : mpc[j] = "gatekick" => GateOwes(j)
  /\ WaitsForMgr

\* The record of a player says LOGOUT only while a handler is logging that
\* record out (agentmgr 19): no error path leaves it behind.
LogoutIsUnderWay ==
  \A p \in Player :
    LET a == mplayers[p] IN
    a # None /\ status[a] = "LOGOUT" =>
      \E j \in Job : mold[j] = a /\ Under(j)

\* The record of a player says LOGIN only while its login is under way.
LoginIsUnderWay ==
  \A p \in Player :
    LET a == mplayers[p] IN
    a # None /\ status[a] = "LOGIN" => Under(Login(a))

\* A record that refuses logins and kicks belongs to a handler that will end it
\* (agentmgr 16-20, 53-56): no interleaving leaves a player locked out.
RecordIsUnderWay == LoginIsUnderWay /\ LogoutIsUnderWay

\* A gateplayer's connection is in conns and belongs to that player, so a
\* message of agents to the player is written to the player's own socket.
RoutedIsBound ==
  \A g \in Gate : \A p \in Player :
    gplayers[g][p] # None => conn[FdOf[gplayers[g][p]]] = p

\* The connections of a player are those its gateplayers point at: what a
\* superseded connection sends does not reach the agent of its successor.
OneConnection ==
  \A f \in Fd : conn[f] \in Player =>
    LET r == gplayers[GateOf[f]][conn[f]] IN r # None /\ FdOf[r] = f

-----------------------------------------------------------------------------
(* When clients wait for the answer of a login before they log in again.   *)

Told(a)   == \E i \in DOMAIN abox[a] : abox[a][i].cmd = "exit"
InPlay(a) == agent[a] = "alive" /\ ~saved[a]

\* "agentmgr records every agent and avoids repeated logins of one account":
\* a player never has two agents in play.
OneAgent ==
  \A a, b \in Req : InPlay(a) /\ InPlay(b) /\ PlayerOf[a] = PlayerOf[b] => a = b

\* An agent is known to agentmgr until it is told to exit: it can be kicked.
NoOrphan ==
  \A a \in Req : agent[a] = "alive" =>
    \/ Told(a)
    \/ mplayers[PlayerOf[a]] = a

\* agentmgr and the gateways agree on who is online: between the logins of a
\* player the record in GAME, its agent, the gateplayer and the connection
\* belong to one request, and no other gateway holds the player.
Agreement ==
  \A p \in Player :
    LET a == mplayers[p] IN
    (\A r \in Req : PlayerOf[r] = p => lpc[r] \in Ended \cup {"idle"}) =>
      \A g \in Gate :
        gplayers[g][p] = IF a # None /\ status[a] = "GAME" /\ g = GateOfReq(a)
                         THEN a ELSE None

\* A player that is replaced is told so before the socket is closed.
KickedIsTold ==
  \A f \in Fd : sock[f] = "down" /\ conn[f] = None => f \in told

\* The agents in play are an implementation of Presence: a new agent starts
\* only after the previous one of its player has saved and left.
InPlayOf(p) == {a \in Req : PlayerOf[a] = p /\ InPlay(a)}
OneOf(S) == IF S = {} THEN None ELSE CHOOSE a \in S : TRUE
Holder  == [p \in Player |-> OneOf(InPlayOf(p))]
Retired == {a \in Req : saved[a]}
OnePresence == INSTANCE Presence WITH
                 Agent <- Req, Nobody <- None,
                 holder <- Holder, retired <- Retired
OneAgentAtATime == OnePresence!Spec

-----------------------------------------------------------------------------
(* SavedBeforeExit and CallsPending, made inductive.                       *)

\* A handler has not begun before its coroutine asks for it.
PcInv ==
  /\ WaitsForMgr
  /\ \A r \in Req :
       /\ lpc[r] \in {"idle", "password"} => mpc[Login(r)] = "idle"
       /\ lpc[r] \in {"idle", "password", "reqlogin", "sure"}
            => mpc[Kick(r)] = "idle"

\* What the mailboxes and the running kick handlers tell of one handler.
CallInv(j) ==
  /\ \A a \in Req : CallsIn(abox[a], j) # {} \/ j \in saving[a]
                     => mold[j] = a /\ mpc[j] = "kick"
  /\ mpc[j] = "kick" => AgentOwes(j)
  /\ \A g \in Gate : CallsIn(gbox[g], j) # {}
                      => mpc[j] = "gatekick" /\ GateOfReq(mold[j]) = g
  /\ mpc[j] = "gatekick" => GateOwes(j)
  /\ mpc[j] = "kicked" => mold[j] \in Req /\ saved[mold[j]]

\* Only an agent that has saved is told to exit.
ExitInv ==
  /\ \A a \in Req : \A i \in 1..Len(abox[a]) :
                     abox[a][i].cmd = "exit" => saved[a]
  /\ SavedBeforeExit

FlowInv == TypeOK /\ PcInv /\ (\A j \in Job : CallInv(j)) /\ ExitInv

-----------------------------------------------------------------------------
(* RecordIsUnderWay, made inductive.                                       *)

Replacing(r) == mpc[Login(r)] \in {"gatekick", "gatekicked"}

\* Handlers that will take the record of a away from its player.
Removing(a) ==
  \E r \in Req : \/ Replacing(r) /\ mold[Login(r)] = a
                 \/ mpc[Kick(r)] \in {"kick", "kicked"} /\ mold[Kick(r)] = a

\* How far the handler that makes a record has come, for each status of it.
StatusInv(a) ==
  /\ mpc[Login(a)] \notin {"spawn", "spawned", "spawnfail", "done"}
       => status[a] = "none"
  /\ mpc[Login(a)] \in {"spawn", "spawned", "spawnfail"} => status[a] = "LOGIN"
  /\ mpc[Login(a)] = "spawned" \/ status[a] \in {"GAME", "LOGOUT"}
       => agent[a] # "none"
  /\ agent[a] # "none" => mpc[Login(a)] \in {"spawned", "done"}
  /\ agent[a] = "none" => abox[a] = <<>>

\* A record that is logged out, or whose agent is to exit, is being taken away.
LogoutInv(a) ==
  mplayers[PlayerOf[a]] = a =>
    /\ status[a] = "LOGOUT" => Removing(a)
    /\ agent[a] = "exited" \/ Told(a)
         => \E r \in Req : Replacing(r) /\ mold[Login(r)] = a

RecordInv ==
  /\ \A p \in Player : mplayers[p] # None =>
       PlayerOf[mplayers[p]] = p /\ status[mplayers[p]] # "none"
  /\ \A j \in Job : mold[j] # None => /\ PlayerOf[mold[j]] = PlayerOf[j[2]]
                                     /\ status[mold[j]] \in {"GAME", "LOGOUT"}
  /\ \A a \in Req : StatusInv(a) /\ LogoutInv(a)

\* While newservice never fails.
LoginInv ==
  \A a \in Req : /\ mpc[Login(a)] # "spawnfail"
                 /\ status[a] = "LOGIN" => mpc[Login(a)] \in {"spawn", "spawned"}

\* What a gateplayer is made of.  With two accounts on one connection, both
\* logging in at once, the second takes the connection of the first.
GateplayerInv ==
  /\ \A g \in Gate : \A p \in Player : gplayers[g][p] # None =>
       /\ PlayerOf[gplayers[g][p]] = p
       /\ GateOfReq(gplayers[g][p]) = g
       /\ conn[FdOf[gplayers[g][p]]] = p
  /\ \A f \in Fd : sock[f] = "new" => conn[f] = None

-----------------------------------------------------------------------------
(* OneAgent and OneAgentAtATime, made inductive, when clients wait for     *)
(* their answers.                                                          *)

Busy(r) == lpc[r] \notin Ended \cup {"idle"}

\* A handler works on the record that is still the player's.
HandlerInv(r) ==
  LET a == mplayers[PlayerOf[r]] IN
  /\ mpc[Login(r)] \in {"kick", "kicked", "gatekick", "gatekicked"}
       => a = mold[Login(r)]
  /\ mpc[Login(r)] \in {"gatekick", "gatekicked"} => a \in Req /\ saved[a]
  /\ mpc[Login(r)] \in {"spawn", "spawned"} => a = r
  /\ mpc[Kick(r)] \in {"kick", "kicked"} => a = mold[Kick(r)]

\* The agent of a request is made once, by its newservice.
AgentInv(r) ==
  /\ agent[r] = "none" => ~saved[r]
  /\ mpc[Login(r)] \notin {"spawned", "done"} => agent[r] = "none"
  /\ InPlay(r) => mplayers[PlayerOf[r]] = r

SerialInv ==
  /\ \A r, q \in Req : Busy(r) /\ Busy(q) /\ PlayerOf[r] = PlayerOf[q] => r = q
  /\ \A r \in Req : HandlerInv(r) /\ AgentInv(r)

-----------------------------------------------------------------------------
(* NoOrphan, Agreement, OneConnection and KickedIsTold, made inductive,    *)
(* when clients wait for their answers.                                    *)

\* A login that is under way has its connection, and needs no reqkick.
LoggingInv(r) ==
  /\ lpc[r] \in {"password", "reqlogin", "sure"} => conn[FdOf[r]] = Unbound
  /\ mpc[Kick(r)] = "idle"
  /\ \A q \in Req : Busy(r) /\ Busy(q) /\ FdOf[r] = FdOf[q] => r = q
  /\ lpc[r] = "sure" => mplayers[PlayerOf[r]] = r /\ status[r] = "GAME"

\* The record that a handler replaces is logged out, and its agent is going;
\* when its gateway has answered, no gateway holds the player.
ReplaceInv(r) ==
  LET a == mold[Login(r)] IN
  /\ Replacing(r) => status[a] = "LOGOUT" /\ (Told(a) \/ agent[a] = "exited")
  /\ mpc[Login(r)] = "gatekicked" =>
       \A g \in Gate : gplayers[g][PlayerOf[r]] = None

\* A gateplayer belongs to the record, and a record in the game has one.
OnlineInv(p) ==
  LET a == mplayers[p] IN
  /\ \A g \in Gate : gplayers[g][p] # None =>
       /\ gplayers[g][p] = a
       /\ status[a] \in {"GAME", "LOGOUT"} /\ lpc[a] \in {"success", "online"}
  /\ a # None /\ status[a] = "GAME" =>
       gplayers[GateOfReq(a)][p] = a \/ lpc[a] = "sure"

\* A kick stands behind the notice to its player, or the notice was given.
NoticeInv(g) ==
  \A i \in 1..Len(gbox[g]) : gbox[g][i].cmd = "kick" =>
    LET p == gbox[g][i].player IN
    /\ \E r \in Req : gbox[g][i].job = Login(r) /\ PlayerOf[r] = p
    /\ \/ i > 1 /\ gbox[g][i - 1].cmd = "send" /\ gbox[g][i - 1].player = p
       \/ i = 1 /\ (gplayers[g][p] # None => FdOf[gplayers[g][p]] \in told)

SessionInv ==
  /\ GateplayerInv /\ OneConnection /\ NoOrphan /\ KickedIsTold
  /\ \A f \in Fd : sock[f] = "up" => conn[f] # None
  /\ \A r \in Req : LoggingInv(r) /\ ReplaceInv(r)
  /\ \A p \in Player : OnlineInv(p)
  /\ \A g \in Gate : NoticeInv(g)

-----------------------------------------------------------------------------
(* Every service handles its messages, the launcher answers and a sleep    *)
(* ends; clients owe nothing.                                              *)
Fairness ==
  /\ \A r \in Req :
       /\ WF_vars(LoginStep(r)) /\ WF_vars(MgrStep(r)) /\ WF_vars(NewService(r))
       /\ WF_vars(AgentStep(r)) /\ WF_vars(GateStep(r))
  /\ \A g \in Gate : WF_vars(GateSend(g) \/ GateKick(g))

FairSpec == Spec /\ Fairness

\* Every login that reaches a login service ends with an answer, although the
\* services call one another in a circle: no handler waits for ever.
LoginEnds == \A r \in Req : lpc[r] = "password" ~> lpc[r] \in Ended
=============================================================================
