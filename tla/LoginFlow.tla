------------------------------ MODULE LoginFlow ------------------------------
(***************************************************************************)
(* The login flow of the game server: gateway, login, agentmgr, nodemgr    *)
(* and agent services, composed.                                           *)
(*                                                                         *)
(* A service is a skynet actor: it runs one handler at a time, and a       *)
(* handler that waits in skynet.call lets the other handlers of its        *)
(* service run (lualib/service.lua, skynet/lualib/skynet.lua).  An action  *)
(* below is one uninterrupted segment of a handler, from the message or    *)
(* the response that resumes it to its next call or its end.               *)
(*                                                                         *)
(* Everything a login request makes is named after the request: its        *)
(* coroutine in a login service, its reqlogin handler in agentmgr, the     *)
(* mgrplayer record and the agent service that handler makes (at most one  *)
(* each), and the reqkick handler that its sure_agent may ask for.         *)
(*                                                                         *)
(* Messages: agentmgr to one gateway and agentmgr to one agent are FIFO    *)
(* (one mailbox, or one cluster connection).  Any other sender has at most *)
(* one request in flight, which the receiver takes at any time: the hop    *)
(* through the harbor, the cluster proxy and the database query put such   *)
(* requests in no order.                                                   *)
(***************************************************************************)
EXTENDS Naturals, Sequences, FiniteSets

CONSTANTS
  Req,            \* the login requests that clients send
  Player, Fd, Gate,
  PlayerOf,       \* the player a request names
  FdOf,           \* the connection a request is sent on
  GateOf,         \* the gateway that accepts a connection
  None,           \* Lua's nil
  Unbound,        \* a connection whose conn.playerid is nil
  SerialLogins,   \* clients wait for an answer before they log in again
  SpawnMayFail    \* nodemgr's newservice may return nil

ASSUME LoginFlowAssumption ==
  /\ PlayerOf \in [Req -> Player]
  /\ FdOf \in [Req -> Fd]
  /\ GateOf \in [Fd -> Gate]
  /\ None \notin Req \cup Player \cup ({"reqlogin", "reqkick"} \X Req)
  /\ Unbound \notin Player \cup {None}
  /\ SerialLogins \in BOOLEAN
  /\ SpawnMayFail \in BOOLEAN

VARIABLES
  sock,      \* gateway: the socket of a connection, "new", "up" or "down"
  conn,      \* gateway: conns[fd], None or Unbound or conns[fd].playerid
  gplayers,  \* gateway: players[playerid], None or the request whose agent
             \*   and connection the gateplayer holds
  gbox,      \* messages of agentmgr to a gateway
  told,      \* the connections to which {"kick", ...} was written
  lpc,       \* login: where the coroutine of a request is
  mplayers,  \* agentmgr: players[playerid], None or the request of the record
  status,    \* agentmgr: the status field of a record
  mpc,       \* agentmgr: where a handler is
  mold,      \* agentmgr: the local mplayer of a handler
  agent,     \* agent: "none", "alive" or "exited"
  abox,      \* messages of agentmgr to an agent
  saving,    \* agent: the kick handlers that are leaving, saving and asleep
  saved      \* agent: a kick handler has run to its end

gateVars  == <<sock, conn, gplayers, gbox, told>>
mgrVars   == <<mplayers, status, mpc, mold>>
agentVars == <<agent, abox, saving, saved>>
vars      == <<gateVars, lpc, mgrVars, agentVars>>

-----------------------------------------------------------------------------
Job == {"reqlogin", "reqkick"} \X Req     \* the handlers of agentmgr
Login(r) == <<"reqlogin", r>>
Kick(r)  == <<"reqkick", r>>

LoginPc == {"idle", "password", "reqlogin", "sure", "reqkick", "success",
            "fail", "online", "failed", "ignored"}
Ended   == {"online", "failed", "ignored"}
MgrPc   == {"idle", "queued", "kick", "kicked", "kickerr", "gatekick",
            "gatekicked", "spawn", "spawned", "spawnfail", "done"}
GateMsg  == [cmd : {"send", "kick"}, player : Player, job : Job \cup {None}]
AgentMsg == [cmd : {"kick"}, job : Job] \cup [cmd : {"exit"}, job : {None}]

GateOfReq(r) == GateOf[FdOf[r]]

\* Where the call of "kick" by handler j is in a queue.
CallsIn(q, j) == {i \in 1..Len(q) : q[i].cmd = "kick" /\ q[i].job = j}

TypeOK ==
  /\ sock \in [Fd -> {"new", "up", "down"}]
  /\ conn \in [Fd -> Player \cup {Unbound, None}]
  /\ gplayers \in [Gate -> [Player -> Req \cup {None}]]
  /\ gbox \in [Gate -> Seq(GateMsg)]
  /\ told \in SUBSET Fd
  /\ lpc \in [Req -> LoginPc]
  /\ mplayers \in [Player -> Req \cup {None}]
  /\ status \in [Req -> {"none", "LOGIN", "GAME", "LOGOUT"}]
  /\ mpc \in [Job -> MgrPc]
  /\ mold \in [Job -> Req \cup {None}]
  /\ agent \in [Req -> {"none", "alive", "exited"}]
  /\ abox \in [Req -> Seq(AgentMsg)]
  /\ saving \in [Req -> SUBSET Job]
  /\ saved \in [Req -> BOOLEAN]

Init ==
  /\ sock = [f \in Fd |-> "new"]
  /\ conn = [f \in Fd |-> None]
  /\ gplayers = [g \in Gate |-> [p \in Player |-> None]]
  /\ gbox = [g \in Gate |-> <<>>]
  /\ told = {}
  /\ lpc = [r \in Req |-> "idle"]
  /\ mplayers = [p \in Player |-> None]
  /\ status = [r \in Req |-> "none"]
  /\ mpc = [j \in Job |-> "idle"]
  /\ mold = [j \in Job |-> None]
  /\ agent = [r \in Req |-> "none"]
  /\ abox = [r \in Req |-> <<>>]
  /\ saving = [r \in Req |-> {}]
  /\ saved = [r \in Req |-> FALSE]

-----------------------------------------------------------------------------
(* The gateway's socket events.                                            *)

\* process_connect: a new conn without a player.
Connect(f) ==
  /\ sock[f] = "new"
  /\ sock' = [sock EXCEPT ![f] = "up"]
  /\ conn' = [conn EXCEPT ![f] = Unbound]
  /\ UNCHANGED <<gplayers, gbox, told, lpc, mgrVars, agentVars>>

\* process_close: the peer is gone; conns and players keep their entries.
ProcessClose(f) ==
  /\ sock[f] = "up"
  /\ sock' = [sock EXCEPT ![f] = "down"]
  /\ UNCHANGED <<conn, gplayers, gbox, told, lpc, mgrVars, agentVars>>

\* A client that waits for its answers has no other login under way, of the
\* same player or on the same connection.
MayLogIn(r) ==
  SerialLogins => \A q \in Req \ {r} :
                    PlayerOf[q] = PlayerOf[r] \/ FdOf[q] = FdOf[r]
                      => lpc[q] \in Ended \cup {"idle"}

\* process_msg with a login: a connection without a player is sent to a login
\* service.  Without a conn the handler fails; with a player the message goes
\* to the agent, which has no such command and fails before it answers.
ProcessLogin(r) ==
  LET c == conn[FdOf[r]] IN
  /\ lpc[r] = "idle"
  /\ sock[FdOf[r]] = "up" \/ (sock[FdOf[r]] = "down" /\ c = None)
  /\ MayLogIn(r)
  /\ lpc' = [lpc EXCEPT ![r] = IF c = Unbound THEN "password" ELSE "ignored"]
  /\ UNCHANGED <<gateVars, mgrVars, agentVars>>

\* client.login after the database answered: reqlogin, or a failure.
PasswordChecked(r) ==
  /\ lpc[r] = "password"
  /\ \/ /\ lpc' = [lpc EXCEPT ![r] = "reqlogin"]
        /\ mpc' = [mpc EXCEPT ![Login(r)] = "queued"]
     \/ /\ lpc' = [lpc EXCEPT ![r] = "fail"]
        /\ UNCHANGED mpc
  /\ UNCHANGED <<gateVars, mplayers, status, mold, agentVars>>

-----------------------------------------------------------------------------
(* agentmgr.  A handler that ends answers its caller: the login coroutine  *)
(* goes on to sure_agent or to its failure, and a gateway waiting in       *)
(* sure_agent returns false whatever reqkick answered.                     *)

\* s.call(pnode, pagent, "kick"): to a dead agent the call raises an error.
CallKick(j, a) ==
  IF agent[a] = "alive"
  THEN /\ abox' = [abox EXCEPT ![a] = Append(@, [cmd |-> "kick", job |-> j])]
       /\ mpc' = [mpc EXCEPT ![j] = "kick"]
  ELSE /\ mpc' = [mpc EXCEPT ![j] = "kickerr"]
       /\ UNCHANGED abox

\* s.send(pnode, pagent, "exit"): to a dead agent the message is dropped.
SendExit(a) ==
  abox' = IF agent[a] = "alive"
          THEN [abox EXCEPT ![a] = Append(@, [cmd |-> "exit", job |-> None])]
          ELSE abox

ReqLoginRefused(r) ==
  LET p == PlayerOf[r] IN
  /\ mpc[Login(r)] = "queued"
  /\ mplayers[p] # None
  /\ status[mplayers[p]] \in {"LOGIN", "LOGOUT"}
  /\ mpc' = [mpc EXCEPT ![Login(r)] = "done"]
  /\ lpc' = [lpc EXCEPT ![r] = "fail"]
  /\ UNCHANGED <<gateVars, mplayers, status, mold, agentVars>>

\* Variant: "kick" is sent, not called, and the handler goes on at once.
BugKickNotAwaited(r) ==
  LET a == mplayers[PlayerOf[r]] IN
  /\ mpc[Login(r)] = "queued"
  /\ a # None
  /\ status[a] = "GAME" /\ agent[a] = "alive"
  /\ mold' = [mold EXCEPT ![Login(r)] = a]
  /\ abox' = [abox EXCEPT ![a] = Append(@, [cmd |-> "kick", job |-> None])]
  /\ mpc' = [mpc EXCEPT ![Login(r)] = "kicked"]
  /\ UNCHANGED <<gateVars, lpc, mplayers, status, agent, saving, saved>>

\* Variant: the record of a player in the game is overwritten without a kick.
BugNoKick(r) ==
  /\ mpc[Login(r)] = "queued"
  /\ mplayers[PlayerOf[r]] # None
  /\ status[mplayers[PlayerOf[r]]] = "GAME"
  /\ mplayers' = [mplayers EXCEPT ![PlayerOf[r]] = r]
  /\ status' = [status EXCEPT ![r] = "LOGIN"]
  /\ mpc' = [mpc EXCEPT ![Login(r)] = "spawn"]
  /\ UNCHANGED <<gateVars, lpc, mold, agentVars>>

\* The player is in the game.  The assignment of LOGOUT is one statement with
\* the call of "kick": the status changes when the call has returned.
ReqLoginReplace(r) ==
  LET p == PlayerOf[r] IN
  /\ mpc[Login(r)] = "queued"
  /\ mplayers[p] # None
  /\ status[mplayers[p]] = "GAME"
  /\ mold' = [mold EXCEPT ![Login(r)] = mplayers[p]]
  /\ CallKick(Login(r), mplayers[p])
  /\ UNCHANGED <<gateVars, lpc, mplayers, status, agent, saving, saved>>

\* The new record, and the call of nodemgr's newservice.
NewMgrPlayer(r) ==
  /\ mplayers' = [mplayers EXCEPT ![PlayerOf[r]] = r]
  /\ status' = [status EXCEPT ![r] = "LOGIN"]
  /\ mpc' = [mpc EXCEPT ![Login(r)] = "spawn"]
  /\ UNCHANGED <<gateVars, lpc, mold, agentVars>>

ReqLoginFresh(r) ==
  /\ mpc[Login(r)] = "queued"
  /\ mplayers[PlayerOf[r]] = None
  /\ NewMgrPlayer(r)

\* Variants of the next segment: the old agent is not told to exit, ...
BugNoExit(r) ==
  LET old == mold[Login(r)] IN
  /\ mpc[Login(r)] = "kicked"
  /\ status' = [status EXCEPT ![old] = "LOGOUT"]
  /\ gbox' = [gbox EXCEPT ![GateOfReq(old)] = @ \o
                << [cmd |-> "send", player |-> PlayerOf[r], job |-> None],
                   [cmd |-> "kick", player |-> PlayerOf[r], job |-> Login(r)] >>]
  /\ mpc' = [mpc EXCEPT ![Login(r)] = "gatekick"]
  /\ UNCHANGED <<sock, conn, gplayers, told, lpc, mplayers, mold, agentVars>>

\* ... the gateway of the new login is asked for the kick, ...
BugWrongGate(r) ==
  /\ mpc[Login(r)] = "kicked"
  /\ status' = [status EXCEPT ![mold[Login(r)]] = "LOGOUT"]
  /\ SendExit(mold[Login(r)])
  /\ gbox' = [gbox EXCEPT ![GateOfReq(r)] = @ \o
                << [cmd |-> "send", player |-> PlayerOf[r], job |-> None],
                   [cmd |-> "kick", player |-> PlayerOf[r], job |-> Login(r)] >>]
  /\ mpc' = [mpc EXCEPT ![Login(r)] = "gatekick"]
  /\ UNCHANGED <<sock, conn, gplayers, told, lpc, mplayers, mold,
                 agent, saving, saved>>

\* ... or the kick is asked for before the notice.
BugKickBeforeNotice(r) ==
  LET old == mold[Login(r)] IN
  /\ mpc[Login(r)] = "kicked"
  /\ status' = [status EXCEPT ![old] = "LOGOUT"]
  /\ SendExit(old)
  /\ gbox' = [gbox EXCEPT ![GateOfReq(old)] = @ \o
                << [cmd |-> "kick", player |-> PlayerOf[r], job |-> Login(r)],
                   [cmd |-> "send", player |-> PlayerOf[r], job |-> None] >>]
  /\ mpc' = [mpc EXCEPT ![Login(r)] = "gatekick"]
  /\ UNCHANGED <<sock, conn, gplayers, told, lpc, mplayers, mold,
                 agent, saving, saved>>

ReqLoginKicked(r) ==
  LET old == mold[Login(r)]
      p   == PlayerOf[r]
  IN
  /\ mpc[Login(r)] = "kicked"
  /\ status' = [status EXCEPT ![old] = "LOGOUT"]
  /\ SendExit(old)
  /\ gbox' = [gbox EXCEPT ![GateOfReq(old)] = @ \o
                << [cmd |-> "send", player |-> p, job |-> None],
                   [cmd |-> "kick", player |-> p, job |-> Login(r)] >>]
  /\ mpc' = [mpc EXCEPT ![Login(r)] = "gatekick"]
  /\ UNCHANGED <<sock, conn, gplayers, told, lpc, mplayers, mold,
                 agent, saving, saved>>

ReqLoginGateKicked(r) ==
  /\ mpc[Login(r)] = "gatekicked"
  /\ NewMgrPlayer(r)

ReqLoginSpawned(r) ==
  /\ mpc[Login(r)] = "spawned"
  /\ status' = [status EXCEPT ![r] = "GAME"]
  /\ mpc' = [mpc EXCEPT ![Login(r)] = "done"]
  /\ lpc' = [lpc EXCEPT ![r] = "sure"]
  /\ UNCHANGED <<gateVars, mplayers, mold, agentVars>>

\* "create new agent error": the record stays, in LOGIN.
ReqLoginSpawnFailed(r) ==
  /\ mpc[Login(r)] = "spawnfail"
  /\ mpc' = [mpc EXCEPT ![Login(r)] = "done"]
  /\ lpc' = [lpc EXCEPT ![r] = "fail"]
  /\ UNCHANGED <<gateVars, mplayers, status, mold, agentVars>>

ReqKickRefused(r) ==
  LET p == PlayerOf[r] IN
  /\ mpc[Kick(r)] = "queued"
  /\ mplayers[p] = None \/ status[mplayers[p]] # "GAME"
  /\ mpc' = [mpc EXCEPT ![Kick(r)] = "done"]
  /\ lpc' = [lpc EXCEPT ![r] = "fail"]
  /\ UNCHANGED <<gateVars, mplayers, status, mold, agentVars>>

ReqKick(r) ==
  LET p == PlayerOf[r] IN
  /\ mpc[Kick(r)] = "queued"
  /\ mplayers[p] # None
  /\ status[mplayers[p]] = "GAME"
  /\ status' = [status EXCEPT ![mplayers[p]] = "LOGOUT"]
  /\ mold' = [mold EXCEPT ![Kick(r)] = mplayers[p]]
  /\ CallKick(Kick(r), mplayers[p])
  /\ UNCHANGED <<gateVars, lpc, mplayers, agent, saving, saved>>

\* Variant: the record is kept.
BugRecordKept(r) ==
  LET old == mold[Kick(r)] IN
  /\ mpc[Kick(r)] = "kicked"
  /\ SendExit(old)
  /\ gbox' = [gbox EXCEPT ![GateOfReq(old)] =
                Append(@, [cmd |-> "kick", player |-> PlayerOf[r], job |-> None])]
  /\ mpc' = [mpc EXCEPT ![Kick(r)] = "done"]
  /\ lpc' = [lpc EXCEPT ![r] = "fail"]
  /\ UNCHANGED <<sock, conn, gplayers, told, mplayers, status, mold,
                 agent, saving, saved>>

ReqKickKicked(r) ==
  LET old == mold[Kick(r)]
      p   == PlayerOf[r]
  IN
  /\ mpc[Kick(r)] = "kicked"
  /\ SendExit(old)
  /\ gbox' = [gbox EXCEPT ![GateOfReq(old)] =
                Append(@, [cmd |-> "kick", player |-> p, job |-> None])]
  /\ mplayers' = [mplayers EXCEPT ![p] = None]
  /\ mpc' = [mpc EXCEPT ![Kick(r)] = "done"]
  /\ lpc' = [lpc EXCEPT ![r] = "fail"]
  /\ UNCHANGED <<sock, conn, gplayers, told, status, mold,
                 agent, saving, saved>>

\* service.lua's dispatch: the call of "kick" raised an error, the handler is
\* abandoned where it was and its caller gets nil.
KickError(j) ==
  /\ mpc[j] = "kickerr"
  /\ mpc' = [mpc EXCEPT ![j] = "done"]
  /\ lpc' = [lpc EXCEPT ![j[2]] = "fail"]
  /\ UNCHANGED <<gateVars, mplayers, status, mold, agentVars>>

-----------------------------------------------------------------------------
(* nodemgr and the launcher, then the agent.                               *)

NewService(r) ==
  /\ mpc[Login(r)] = "spawn"
  /\ \/ /\ agent' = [agent EXCEPT ![r] = "alive"]
        /\ mpc' = [mpc EXCEPT ![Login(r)] = "spawned"]
     \/ /\ SpawnMayFail
        /\ mpc' = [mpc EXCEPT ![Login(r)] = "spawnfail"]
        /\ UNCHANGED agent
  /\ UNCHANGED <<gateVars, lpc, mplayers, status, mold, abox, saving, saved>>

AgentKick(a) ==
  /\ agent[a] = "alive"
  /\ abox[a] # <<>>
  /\ Head(abox[a]).cmd = "kick"
  /\ saving' = [saving EXCEPT ![a] = @ \cup {Head(abox[a]).job}]
  /\ abox' = [abox EXCEPT ![a] = Tail(@)]
  /\ UNCHANGED <<gateVars, lpc, mgrVars, agent, saved>>

\* The sleep is over: resp.kick returns and its response reaches agentmgr.
AgentSaved(a, j) ==
  /\ agent[a] = "alive"
  /\ j \in saving[a]
  /\ saving' = [saving EXCEPT ![a] = @ \ {j}]
  /\ saved' = [saved EXCEPT ![a] = TRUE]
  /\ mpc' = [mpc EXCEPT ![j] = "kicked"]
  /\ UNCHANGED <<gateVars, lpc, mplayers, status, mold, agent, abox>>

\* The handlers that an exiting agent leaves without an answer: those asleep
\* and those still in its mailbox.
Unanswered(a) == saving[a] \cup {j \in Job : CallsIn(abox[a], j) # {}}

\* Variant: the callers that wait are told nothing.
BugSilentExit(a) ==
  /\ agent[a] = "alive"
  /\ abox[a] # <<>>
  /\ Head(abox[a]).cmd = "exit"
  /\ agent' = [agent EXCEPT ![a] = "exited"]
  /\ abox' = [abox EXCEPT ![a] = <<>>]
  /\ saving' = [saving EXCEPT ![a] = {}]
  /\ UNCHANGED <<gateVars, lpc, mgrVars, saved>>

\* resp.exit, skynet.exit and the end of the mailbox: PTYPE_ERROR to the
\* callers that wait.
AgentExit(a) ==
  /\ agent[a] = "alive"
  /\ abox[a] # <<>>
  /\ Head(abox[a]).cmd = "exit"
  /\ agent' = [agent EXCEPT ![a] = "exited"]
  /\ mpc' = [j \in Job |-> IF j \in Unanswered(a) THEN "kickerr" ELSE mpc[j]]
  /\ abox' = [abox EXCEPT ![a] = <<>>]
  /\ saving' = [saving EXCEPT ![a] = {}]
  /\ UNCHANGED <<gateVars, lpc, mplayers, status, mold, saved>>

-----------------------------------------------------------------------------
(* The gateway's requests.                                                 *)

\* Variant: the connection is stored in place of a gateplayer.
BugStoresConn(r) ==
  LET f == FdOf[r]
      p == PlayerOf[r]
  IN
  /\ lpc[r] = "sure"
  /\ conn[f] # None
  /\ conn' = [conn EXCEPT ![f] = p]
  /\ gplayers' = [gplayers EXCEPT ![GateOf[f]][p] = f]
  /\ lpc' = [lpc EXCEPT ![r] = "success"]
  /\ UNCHANGED <<sock, gbox, told, mgrVars, agentVars>>

SureAgent(r) ==
  LET f == FdOf[r]
      p == PlayerOf[r]
  IN
  /\ lpc[r] = "sure"
  /\ conn[f] # None
  /\ conn' = [conn EXCEPT ![f] = p]
  /\ gplayers' = [gplayers EXCEPT ![GateOf[f]][p] = r]
  /\ lpc' = [lpc EXCEPT ![r] = "success"]
  /\ UNCHANGED <<sock, gbox, told, mgrVars, agentVars>>

\* The connection is gone: ask agentmgr for a kick, and wait for it.
SureAgentGone(r) ==
  /\ lpc[r] = "sure"
  /\ conn[FdOf[r]] = None
  /\ lpc' = [lpc EXCEPT ![r] = "reqkick"]
  /\ mpc' = [mpc EXCEPT ![Kick(r)] = "queued"]
  /\ UNCHANGED <<gateVars, mplayers, status, mold, agentVars>>

\* send_by_fd with the answer to a login: the end of its coroutine.
SendByFd(r) ==
  /\ lpc[r] \in {"success", "fail"}
  /\ lpc' = [lpc EXCEPT ![r] = IF @ = "success" THEN "online" ELSE "failed"]
  /\ UNCHANGED <<gateVars, mgrVars, agentVars>>

\* resp.send of the notice {"kick", ...}, to the player's present connection.
GateSend(g) ==
  LET r == gplayers[g][Head(gbox[g]).player] IN
  /\ gbox[g] # <<>>
  /\ Head(gbox[g]).cmd = "send"
  /\ told' = IF r # None /\ conn[FdOf[r]] # None THEN told \cup {FdOf[r]} ELSE told
  /\ gbox' = [gbox EXCEPT ![g] = Tail(@)]
  /\ UNCHANGED <<sock, conn, gplayers, lpc, mgrVars, agentVars>>

\* The end of resp.kick: the response, if it was called.
GateKickEnd(g) ==
  LET j == Head(gbox[g]).job IN
  /\ mpc' = IF j = None THEN mpc ELSE [mpc EXCEPT ![j] = "gatekicked"]
  /\ gbox' = [gbox EXCEPT ![g] = Tail(@)]
  /\ UNCHANGED <<told, lpc, mplayers, status, mold, agentVars>>

\* Variants of resp.kick: the gateplayer is kept, ...
BugPlayerKept(g) ==
  LET r == gplayers[g][Head(gbox[g]).player] IN
  /\ gbox[g] # <<>>
  /\ Head(gbox[g]).cmd = "kick"
  /\ IF r = None
     THEN UNCHANGED <<sock, conn>>
     ELSE /\ conn' = [conn EXCEPT ![FdOf[r]] = None]
          /\ sock' = [sock EXCEPT ![FdOf[r]] = "down"]
  /\ UNCHANGED gplayers
  /\ GateKickEnd(g)

\* ... the connection stays in conns, ...
BugConnKept(g) ==
  LET r == gplayers[g][Head(gbox[g]).player] IN
  /\ gbox[g] # <<>>
  /\ Head(gbox[g]).cmd = "kick"
  /\ IF r = None
     THEN UNCHANGED <<sock, gplayers>>
     ELSE /\ gplayers' = [gplayers EXCEPT ![g][Head(gbox[g]).player] = None]
          /\ sock' = [sock EXCEPT ![FdOf[r]] = "down"]
  /\ UNCHANGED conn
  /\ GateKickEnd(g)

\* resp.kick: forget the player and its connection, close the socket.  The
\* call of disconnect finds no conns[fd] and returns.
GateKick(g) ==
  LET p == Head(gbox[g]).player
      r == gplayers[g][p]
  IN
  /\ gbox[g] # <<>>
  /\ Head(gbox[g]).cmd = "kick"
  /\ IF r = None
     THEN UNCHANGED <<sock, conn, gplayers>>
     ELSE /\ gplayers' = [gplayers EXCEPT ![g][p] = None]
          /\ conn' = [conn EXCEPT ![FdOf[r]] = None]
          /\ sock' = [sock EXCEPT ![FdOf[r]] = "down"]
  /\ GateKickEnd(g)

-----------------------------------------------------------------------------
\* Nothing is under way and no client can start anything.
Quiescent ==
  /\ \A f \in Fd : sock[f] # "new"
  /\ \A r \in Req : \/ lpc[r] \in Ended
                    \/ lpc[r] = "idle" /\ sock[FdOf[r]] = "down"
  /\ \A g \in Gate : gbox[g] = <<>>
  /\ \A a \in Req : abox[a] = <<>> /\ saving[a] = {}
  /\ UNCHANGED vars

ClientStep ==
  \/ \E f \in Fd : Connect(f) \/ ProcessClose(f)
  \/ \E r \in Req : ProcessLogin(r)

LoginStep(r) == PasswordChecked(r)

MgrStep(r) ==
  \/ ReqLoginRefused(r) \/ ReqLoginReplace(r) \/ ReqLoginFresh(r)
  \/ ReqLoginKicked(r) \/ ReqLoginGateKicked(r)
  \/ ReqLoginSpawned(r) \/ ReqLoginSpawnFailed(r)
  \/ ReqKickRefused(r) \/ ReqKick(r) \/ ReqKickKicked(r)
  \/ KickError(Login(r)) \/ KickError(Kick(r))

AgentStep(a) ==
  \/ AgentKick(a) \/ AgentExit(a)
  \/ \E j \in Job : AgentSaved(a, j)

GateStep(r) == SureAgent(r) \/ SureAgentGone(r) \/ SendByFd(r)

ServiceStep ==
  \/ \E r \in Req : \/ LoginStep(r) \/ MgrStep(r) \/ NewService(r)
                    \/ AgentStep(r) \/ GateStep(r)
  \/ \E g \in Gate : GateSend(g) \/ GateKick(g)

Next == ClientStep \/ ServiceStep \/ Quiescent

Spec == Init /\ [][Next]_vars
=============================================================================
