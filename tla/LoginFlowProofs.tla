--------------------------- MODULE LoginFlowProofs ---------------------------
(* Theorems about the login flow, for any requests, players, connections   *)
(* and gateways: its types, the calls of handlers, and the records of      *)
(* agentmgr with the gateplayers of the gateways, whatever clients do; and *)
(* what holds between them when clients log in one after the other.        *)
EXTENDS LoginProps, SequenceTheorems, TLAPS

\* Every step is one segment of one handler, or a client's event.
LEMMA NextCases ==
  ASSUME Next
  PROVE  \/ \E f \in Fd : Connect(f) \/ ProcessClose(f)
         \/ \E r \in Req :
              \/ ProcessLogin(r) \/ PasswordChecked(r)
              \/ ReqLoginRefused(r) \/ ReqLoginReplace(r) \/ ReqLoginFresh(r)
              \/ ReqLoginKicked(r) \/ ReqLoginGateKicked(r)
              \/ ReqLoginSpawned(r) \/ ReqLoginSpawnFailed(r)
              \/ ReqKickRefused(r) \/ ReqKick(r) \/ ReqKickKicked(r)
              \/ KickError(Login(r)) \/ KickError(Kick(r))
              \/ NewService(r) \/ AgentKick(r) \/ AgentExit(r)
              \/ \E j \in Job : AgentSaved(r, j)
              \/ SureAgent(r) \/ SureAgentGone(r) \/ SendByFd(r)
         \/ \E g \in Gate : GateSend(g) \/ GateKick(g)
         \/ UNCHANGED vars
BY DEF Next, ClientStep, ServiceStep, LoginStep, MgrStep, AgentStep, GateStep,
       Quiescent

\* The handlers of a request are jobs of agentmgr, and a job names a request.
LEMMA JobProperties ==
  /\ \A r \in Req : Login(r) \in Job /\ Kick(r) \in Job
  /\ \A r \in Req : Login(r)[2] = r /\ Kick(r)[2] = r
  /\ \A r, q \in Req : Login(r) # Kick(q)
  /\ \A r, q \in Req : Login(r) = Login(q) => r = q
  /\ \A r, q \in Req : Kick(r) = Kick(q) => r = q
  /\ \A j \in Job : \E r \in Req : j = Login(r) \/ j = Kick(r)
BY DEF Login, Kick, Job

-----------------------------------------------------------------------------
LEMMA TypeInit == Init => TypeOK
BY LoginFlowAssumption DEF Init, TypeOK, LoginPc, MgrPc

LEMMA TypeStep == TypeOK /\ [Next]_vars => TypeOK'
<1> USE LoginFlowAssumption
<1> SUFFICES ASSUME TypeOK, [Next]_vars PROVE TypeOK'
  OBVIOUS
<1>1. ASSUME NEW f \in Fd, Connect(f) PROVE TypeOK'
  BY <1>1 DEF TypeOK, Connect, mgrVars, agentVars
<1>2. ASSUME NEW f \in Fd, ProcessClose(f) PROVE TypeOK'
  BY <1>2 DEF TypeOK, ProcessClose, mgrVars, agentVars
<1>3. ASSUME NEW r \in Req, ProcessLogin(r) PROVE TypeOK'
  BY <1>3 DEF TypeOK, ProcessLogin, gateVars, mgrVars, agentVars, LoginPc
<1>4. ASSUME NEW r \in Req, PasswordChecked(r) PROVE TypeOK'
  <2>1. lpc' \in [Req -> LoginPc]
    BY <1>4 DEF TypeOK, PasswordChecked, LoginPc
  <2>2. mpc' \in [Job -> MgrPc]
    BY <1>4 DEF TypeOK, PasswordChecked, MgrPc
  <2> QED
    BY <1>4, <2>1, <2>2 DEF TypeOK, PasswordChecked, gateVars, agentVars
<1>5. ASSUME NEW r \in Req, ReqLoginRefused(r) PROVE TypeOK'
  BY <1>5 DEF TypeOK, ReqLoginRefused, gateVars, agentVars, LoginPc, MgrPc
<1>6. ASSUME NEW j \in Job, NEW a \in Req, CallKick(j, a)
      PROVE  abox' \in [Req -> Seq(AgentMsg)] /\ mpc' \in [Job -> MgrPc]
  <2>1. [cmd |-> "kick", job |-> j] \in AgentMsg
    BY DEF AgentMsg
  <2>2. Append(abox[a], [cmd |-> "kick", job |-> j]) \in Seq(AgentMsg)
    BY <2>1 DEF TypeOK
  <2>3. CASE agent[a] = "alive"
    <3>1. mpc' = [mpc EXCEPT ![j] = "kick"]
      BY <1>6, <2>3 DEF CallKick
    <3>2. abox' = [abox EXCEPT ![a] =
                     Append(abox[a], [cmd |-> "kick", job |-> j])]
      BY <1>6, <2>3 DEF CallKick
    <3>3. abox' \in [Req -> Seq(AgentMsg)]
      BY <2>2, <3>2 DEF TypeOK
    <3> QED
      BY <3>1, <3>3 DEF TypeOK, MgrPc
  <2>4. CASE agent[a] # "alive"
    BY <1>6, <2>4 DEF CallKick, TypeOK, MgrPc
  <2> QED
    BY <2>3, <2>4
<1>7. ASSUME NEW a \in Req, SendExit(a) PROVE abox' \in [Req -> Seq(AgentMsg)]
  <2>1. [cmd |-> "exit", job |-> None] \in AgentMsg
    BY DEF AgentMsg
  <2>2. Append(abox[a], [cmd |-> "exit", job |-> None]) \in Seq(AgentMsg)
    BY <2>1 DEF TypeOK
  <2> QED
    BY <1>7, <2>2 DEF SendExit, TypeOK
<1>8. ASSUME NEW r \in Req, ReqLoginReplace(r) PROVE TypeOK'
  <2>1. mplayers[PlayerOf[r]] \in Req
    BY <1>8 DEF TypeOK, ReqLoginReplace
  <2>2. abox' \in [Req -> Seq(AgentMsg)] /\ mpc' \in [Job -> MgrPc]
    BY <1>6, <1>8, <2>1, JobProperties DEF ReqLoginReplace
  <2> QED
    BY <1>8, <2>1, <2>2 DEF TypeOK, ReqLoginReplace, gateVars
<1>9. ASSUME NEW r \in Req, NewMgrPlayer(r) PROVE TypeOK'
  BY <1>9, JobProperties DEF TypeOK, NewMgrPlayer, gateVars, agentVars, MgrPc
<1>10. ASSUME NEW r \in Req, ReqLoginKicked(r) PROVE TypeOK'
  <2> DEFINE old == mold[Login(r)]
             two == << [cmd |-> "send", player |-> PlayerOf[r], job |-> None],
                       [cmd |-> "kick", player |-> PlayerOf[r],
                        job |-> Login(r)] >>
  <2>1. two \in Seq(GateMsg)
    BY JobProperties DEF GateMsg
  <2>2. gbox' \in [Gate -> Seq(GateMsg)]
    <3>1. \A g \in Gate : gbox[g] \o two \in Seq(GateMsg)
      BY <2>1, ConcatProperties DEF TypeOK
    <3> HIDE DEF two
    <3>2. gbox' = [gbox EXCEPT ![GateOfReq(old)] = @ \o two]
      BY <1>10 DEF ReqLoginKicked, two
    <3> QED
      BY <3>1, <3>2 DEF TypeOK
  <2>3. abox' \in [Req -> Seq(AgentMsg)]
    <3>1. CASE old \in Req
      BY <1>7, <1>10, <3>1 DEF ReqLoginKicked
    <3>2. CASE old \notin Req
      BY <1>10, <3>2 DEF ReqLoginKicked, SendExit, TypeOK
    <3> QED
      BY <3>1, <3>2
  <2> QED
    BY <1>10, <2>2, <2>3 DEF TypeOK, ReqLoginKicked, MgrPc
<1>11. ASSUME NEW r \in Req, ReqLoginSpawned(r) PROVE TypeOK'
  BY <1>11 DEF TypeOK, ReqLoginSpawned, gateVars, agentVars, LoginPc, MgrPc
<1>12. ASSUME NEW r \in Req, ReqLoginSpawnFailed(r) PROVE TypeOK'
  BY <1>12 DEF TypeOK, ReqLoginSpawnFailed, gateVars, agentVars, LoginPc, MgrPc
<1>13. ASSUME NEW r \in Req, ReqKickRefused(r) PROVE TypeOK'
  BY <1>13 DEF TypeOK, ReqKickRefused, gateVars, agentVars, LoginPc, MgrPc
<1>14. ASSUME NEW r \in Req, ReqKick(r) PROVE TypeOK'
  <2>1. mplayers[PlayerOf[r]] \in Req
    BY <1>14 DEF TypeOK, ReqKick
  <2>2. abox' \in [Req -> Seq(AgentMsg)] /\ mpc' \in [Job -> MgrPc]
    BY <1>6, <1>14, <2>1, JobProperties DEF ReqKick
  <2> QED
    BY <1>14, <2>1, <2>2 DEF TypeOK, ReqKick, gateVars
<1>15. ASSUME NEW r \in Req, ReqKickKicked(r) PROVE TypeOK'
  <2> DEFINE old == mold[Kick(r)]
             one == [cmd |-> "kick", player |-> PlayerOf[r], job |-> None]
  <2>1. one \in GateMsg
    BY DEF GateMsg
  <2>2. gbox' \in [Gate -> Seq(GateMsg)]
    <3>1. \A g \in Gate : Append(gbox[g], one) \in Seq(GateMsg)
      BY <2>1 DEF TypeOK
    <3> HIDE DEF one
    <3>2. gbox' = [gbox EXCEPT ![GateOfReq(old)] = Append(@, one)]
      BY <1>15 DEF ReqKickKicked, one
    <3> QED
      BY <3>1, <3>2 DEF TypeOK
  <2>3. abox' \in [Req -> Seq(AgentMsg)]
    <3>1. CASE old \in Req
      BY <1>7, <1>15, <3>1 DEF ReqKickKicked
    <3>2. CASE old \notin Req
      BY <1>15, <3>2 DEF ReqKickKicked, SendExit, TypeOK
    <3> QED
      BY <3>1, <3>2
  <2> QED
    BY <1>15, <2>2, <2>3 DEF TypeOK, ReqKickKicked, LoginPc, MgrPc
<1>16. ASSUME NEW j \in Job, KickError(j) PROVE TypeOK'
  BY <1>16 DEF TypeOK, KickError, gateVars, agentVars, LoginPc, MgrPc
<1>17. ASSUME NEW r \in Req, NewService(r) PROVE TypeOK'
  <2>1. agent' \in [Req -> {"none", "alive", "exited"}]
    BY <1>17 DEF TypeOK, NewService
  <2>2. mpc' \in [Job -> MgrPc]
    BY <1>17 DEF TypeOK, NewService, MgrPc
  <2> QED
    BY <1>17, <2>1, <2>2 DEF TypeOK, NewService, gateVars
<1>18. ASSUME NEW r \in Req, AgentKick(r) PROVE TypeOK'
  <2>1. Head(abox[r]) \in AgentMsg /\ Tail(abox[r]) \in Seq(AgentMsg)
    BY <1>18, HeadTailProperties DEF AgentKick, TypeOK
  <2>2. abox' \in [Req -> Seq(AgentMsg)]
    BY <1>18, <2>1 DEF AgentKick, TypeOK
  <2> QED
    BY <1>18, <2>1, <2>2 DEF TypeOK, AgentKick, gateVars, mgrVars, AgentMsg
<1>19. ASSUME NEW r \in Req, NEW j \in Job, AgentSaved(r, j) PROVE TypeOK'
  BY <1>19 DEF TypeOK, AgentSaved, gateVars, MgrPc
<1>20. ASSUME NEW r \in Req, AgentExit(r) PROVE TypeOK'
  <2>1. abox' \in [Req -> Seq(AgentMsg)]
    BY <1>20 DEF AgentExit, TypeOK
  <2>2. mpc' \in [Job -> MgrPc]
    BY <1>20 DEF AgentExit, TypeOK, MgrPc
  <2> QED
    BY <1>20, <2>1, <2>2 DEF TypeOK, AgentExit, gateVars
<1>21. ASSUME NEW r \in Req, SureAgent(r) PROVE TypeOK'
  BY <1>21 DEF TypeOK, SureAgent, mgrVars, agentVars, LoginPc
<1>22. ASSUME NEW r \in Req, SureAgentGone(r) PROVE TypeOK'
  BY <1>22 DEF TypeOK, SureAgentGone, gateVars, agentVars, LoginPc, MgrPc
<1>23. ASSUME NEW r \in Req, SendByFd(r) PROVE TypeOK'
  BY <1>23 DEF TypeOK, SendByFd, gateVars, mgrVars, agentVars, LoginPc
<1>24. ASSUME NEW g \in Gate, gbox[g] # <<>>
       PROVE  /\ Head(gbox[g]) \in GateMsg
              /\ [gbox EXCEPT ![g] = Tail(@)] \in [Gate -> Seq(GateMsg)]
  BY <1>24, HeadTailProperties DEF TypeOK
<1>25. ASSUME NEW g \in Gate, GateSend(g) PROVE TypeOK'
  <2>1. told' \in SUBSET Fd
    <3>1. gbox[g] # <<>>
      BY <1>25 DEF GateSend
    <3>2. Head(gbox[g]).player \in Player
      BY <1>24, <3>1 DEF GateMsg
    <3> DEFINE r == gplayers[g][Head(gbox[g]).player]
    <3>3. told \in SUBSET Fd /\ r \in Req \cup {None}
      BY <3>2 DEF TypeOK
    <3>4. r # None => FdOf[r] \in Fd
      BY <3>3, LoginFlowAssumption
    <3>5. told' \in {told, told \cup {FdOf[r]}} /\ (r = None => told' = told)
      BY <1>25 DEF GateSend
    <3> HIDE DEF r
    <3> QED
      BY ONLY <3>3, <3>4, <3>5
  <2> QED
    BY <1>24, <1>25, <2>1 DEF TypeOK, GateSend, mgrVars, agentVars
<1>26. ASSUME NEW g \in Gate, GateKick(g) PROVE TypeOK'
  <2>1. Head(gbox[g]).player \in Player /\ Head(gbox[g]).job \in Job \cup {None}
    BY <1>24, <1>26 DEF GateKick, GateMsg
  <2>2. mpc' \in [Job -> MgrPc]
    BY <1>26, <2>1 DEF TypeOK, GateKick, GateKickEnd, MgrPc
  <2>3. /\ gplayers' \in [Gate -> [Player -> Req \cup {None}]]
        /\ conn' \in [Fd -> Player \cup {Unbound, None}]
        /\ sock' \in [Fd -> {"new", "up", "down"}]
    <3> DEFINE p == Head(gbox[g]).player
               r == gplayers[g][p]
    <3>1. CASE r = None
      BY <1>26, <3>1 DEF TypeOK, GateKick
    <3>2. CASE r # None
      <4>1. gplayers[g] \in [Player -> Req \cup {None}]
        BY DEF TypeOK
      <4>2. gplayers' = [gplayers EXCEPT ![g] = [gplayers[g] EXCEPT ![p] = None]]
        BY <1>26, <3>2 DEF GateKick, TypeOK
      <4>3. gplayers' \in [Gate -> [Player -> Req \cup {None}]]
        BY <4>1, <4>2 DEF TypeOK
      <4> QED
        BY <1>26, <3>2, <4>3 DEF TypeOK, GateKick
    <3> QED
      BY <3>1, <3>2
  <2> QED
    BY <1>24, <1>26, <2>2, <2>3 DEF TypeOK, GateKick, GateKickEnd, agentVars
<1>27. CASE UNCHANGED vars
  BY <1>27 DEF TypeOK, vars, gateVars, mgrVars, agentVars
<1> QED
  BY <1>1, <1>2, <1>3, <1>4, <1>5, <1>8, <1>9, <1>10, <1>11, <1>12, <1>13,
     <1>14, <1>15, <1>16, <1>17, <1>18, <1>19, <1>20, <1>21, <1>22, <1>23,
     <1>25, <1>26, <1>27, NextCases, JobProperties
  DEF ReqLoginFresh, ReqLoginGateKicked

\* The state of every service keeps its shape.
THEOREM TypeCorrect == Spec => []TypeOK
  BY TypeInit, TypeStep, PTL DEF Spec

-----------------------------------------------------------------------------
(* Calls of "kick" in a queue that grows at its end or loses its head.     *)

LEMMA CallsInAppend ==
  ASSUME NEW S, NEW q \in Seq(S), NEW m \in S, NEW j
  PROVE  CallsIn(Append(q, m), j) = IF m.cmd = "kick" /\ m.job = j
                                    THEN CallsIn(q, j) \cup {Len(q) + 1}
                                    ELSE CallsIn(q, j)
<1>1. Len(Append(q, m)) = Len(q) + 1 /\ Len(q) \in Nat
  OBVIOUS
<1>2. \A i \in 1..Len(q) : Append(q, m)[i] = q[i]
  OBVIOUS
<1>3. Append(q, m)[Len(q) + 1] = m
  OBVIOUS
<1>4. \A i : i \in 1..(Len(q) + 1) <=> i \in 1..Len(q) \/ i = Len(q) + 1
  BY <1>1
<1> QED
  BY <1>1, <1>2, <1>3, <1>4 DEF CallsIn

LEMMA CallsInTail ==
  ASSUME NEW S, NEW q \in Seq(S), q # << >>, NEW j
  PROVE  /\ \A i \in Nat : i \in CallsIn(Tail(q), j) <=>
                           i >= 1 /\ i + 1 \in CallsIn(q, j)
         /\ CallsIn(q, j) \subseteq Nat \ {0}
         /\ CallsIn(Tail(q), j) \subseteq Nat \ {0}
         /\ 1 \in CallsIn(q, j) <=> Head(q).cmd = "kick" /\ Head(q).job = j
<1>1. Len(q) \in Nat \ {0} /\ Len(Tail(q)) = Len(q) - 1 /\ Head(q) = q[1]
  OBVIOUS
<1>2. \A i \in 1..(Len(q) - 1) : Tail(q)[i] = q[i + 1]
  OBVIOUS
<1> QED
  BY <1>1, <1>2 DEF CallsIn

LEMMA CallsInOtherTail ==
  ASSUME NEW S, NEW q \in Seq(S), q # << >>, NEW j,
         Head(q).cmd # "kick" \/ Head(q).job # j
  PROVE  /\ CallsIn(Tail(q), j) = {} <=> CallsIn(q, j) = {}
         /\ Once(CallsIn(q, j)) => Once(CallsIn(Tail(q), j))
<1> DEFINE C == CallsIn(q, j)
           T == CallsIn(Tail(q), j)
<1>1. /\ \A i \in Nat : i \in T <=> i >= 1 /\ i + 1 \in C
      /\ C \subseteq Nat \ {0} /\ T \subseteq Nat \ {0} /\ 1 \notin C
  BY CallsInTail
<1> HIDE DEF C, T
<1>2. \A x \in C : x - 1 \in T
  BY <1>1
<1>3. \A x \in T : x + 1 \in C
  BY <1>1
<1>4. T = {} <=> C = {}
  BY <1>2, <1>3
<1>5. ASSUME NEW x \in C, C = {x} PROVE T = {x - 1}
  <2>1. x - 1 \in T
    BY <1>2
  <2>2. \A y \in T : y \in Nat /\ y + 1 = x
    BY <1>1, <1>3, <1>5
  <2>3. \A y \in T : y = x - 1
    BY <2>2
  <2> QED
    BY <2>1, <2>3
<1>6. Once(C) => Once(T)
  BY <1>2, <1>5 DEF Once
<1> QED
  BY <1>4, <1>6 DEF C, T

LEMMA CallsInOwnTail ==
  ASSUME NEW S, NEW q \in Seq(S), q # << >>, NEW j,
         Head(q).cmd = "kick", Head(q).job = j, Once(CallsIn(q, j))
  PROVE  CallsIn(Tail(q), j) = {}
<1>1. /\ \A i \in Nat : i \in CallsIn(Tail(q), j) <=>
                        i >= 1 /\ i + 1 \in CallsIn(q, j)
      /\ CallsIn(Tail(q), j) \subseteq Nat \ {0} /\ 1 \in CallsIn(q, j)
  BY CallsInTail
<1>2. CallsIn(q, j) = {1}
  BY <1>1 DEF Once
<1> QED
  BY <1>1, <1>2

-----------------------------------------------------------------------------
(* The coroutines and their handlers.                                      *)

LEMMA PcInit == Init => PcInv
  BY JobProperties DEF Init, PcInv, WaitsForMgr, Under

\* CallInv tells that a handler resumed by an agent or a gateway has called it.
LEMMA PcStep == TypeOK /\ PcInv /\ (\A j \in Job : CallInv(j)) /\ [Next]_vars => PcInv'
<1> SUFFICES ASSUME TypeOK, PcInv, \A j \in Job : CallInv(j), [Next]_vars
             PROVE  PcInv'
  OBVIOUS
<1> USE JobProperties DEF PcInv, WaitsForMgr, Under, TypeOK
\* Most steps leave lpc alone and neither begin nor end a handler.
<1>1. ASSUME UNCHANGED lpc,
             \A j \in Job : mpc'[j] = mpc[j] \/ (Under(j) /\ Under(j)')
      PROVE  PcInv'
  BY <1>1
<1>2. ASSUME NEW f \in Fd, Connect(f) \/ ProcessClose(f) PROVE PcInv'
  BY <1>1, <1>2 DEF Connect, ProcessClose, mgrVars
<1>3. ASSUME NEW r \in Req, ProcessLogin(r) PROVE PcInv'
  BY <1>3 DEF ProcessLogin, mgrVars
<1>4. ASSUME NEW r \in Req, PasswordChecked(r) PROVE PcInv'
  BY <1>4 DEF PasswordChecked
<1>5. ASSUME NEW r \in Req, Under(Login(r)),
             mpc' = [mpc EXCEPT ![Login(r)] = "done"],
             \/ lpc' = [lpc EXCEPT ![r] = "fail"]
             \/ lpc' = [lpc EXCEPT ![r] = "sure"]
      PROVE  PcInv'
  BY <1>5
<1>6. ASSUME NEW r \in Req, Under(Kick(r)),
             mpc' = [mpc EXCEPT ![Kick(r)] = "done"],
             lpc' = [lpc EXCEPT ![r] = "fail"]
      PROVE  PcInv'
  BY <1>6
<1>7. ASSUME NEW r \in Req,
             \/ ReqLoginRefused(r) \/ ReqLoginSpawned(r)
             \/ ReqLoginSpawnFailed(r) \/ KickError(Login(r))
      PROVE  PcInv'
  <2>1. Under(Login(r))
    BY <1>7 DEF ReqLoginRefused, ReqLoginSpawned, ReqLoginSpawnFailed, KickError
  <2>2. mpc' = [mpc EXCEPT ![Login(r)] = "done"]
    BY <1>7 DEF ReqLoginRefused, ReqLoginSpawned, ReqLoginSpawnFailed, KickError
  <2>3. \/ lpc' = [lpc EXCEPT ![r] = "fail"]
        \/ lpc' = [lpc EXCEPT ![r] = "sure"]
    BY <1>7 DEF ReqLoginRefused, ReqLoginSpawned, ReqLoginSpawnFailed, KickError
  <2> QED
    BY <1>5, <2>1, <2>2, <2>3
<1>8. ASSUME NEW r \in Req,
             ReqKickRefused(r) \/ ReqKickKicked(r) \/ KickError(Kick(r))
      PROVE  PcInv'
  <2>1. Under(Kick(r))
    BY <1>8 DEF ReqKickRefused, ReqKickKicked, KickError
  <2>2. mpc' = [mpc EXCEPT ![Kick(r)] = "done"]
    BY <1>8 DEF ReqKickRefused, ReqKickKicked, KickError
  <2>3. lpc' = [lpc EXCEPT ![r] = "fail"]
    BY <1>8 DEF ReqKickRefused, ReqKickKicked, KickError
  <2> QED
    BY <1>6, <2>1, <2>2, <2>3
<1>9. ASSUME NEW r \in Req,
             \/ ReqLoginReplace(r) \/ ReqLoginFresh(r) \/ ReqLoginKicked(r)
             \/ ReqLoginGateKicked(r) \/ ReqKick(r) \/ NewService(r)
      PROVE  PcInv'
  <2>0. Login(r) \in Job /\ Kick(r) \in Job
    BY JobProperties
  <2>1. UNCHANGED lpc
    BY <1>9 DEF ReqLoginReplace, ReqLoginFresh, ReqLoginKicked,
       ReqLoginGateKicked, ReqKick, NewService, NewMgrPlayer
  <2>2. \E h \in {Login(r), Kick(r)} :
          \E x \in {"kick", "kickerr", "spawn", "gatekick", "spawned", "spawnfail"} :
            mpc' = [mpc EXCEPT ![h] = x]
            /\ mpc[h] \in {"queued", "kicked", "gatekicked", "spawn"}
    <3>1. CASE ReqLoginReplace(r)
      BY <3>1 DEF ReqLoginReplace, CallKick
    <3>2. CASE ReqLoginFresh(r) \/ ReqLoginGateKicked(r)
      BY <3>2 DEF ReqLoginFresh, ReqLoginGateKicked, NewMgrPlayer
    <3>3. CASE ReqLoginKicked(r)
      BY <3>3 DEF ReqLoginKicked
    <3>4. CASE ReqKick(r)
      BY <3>4 DEF ReqKick, CallKick
    <3>5. CASE NewService(r)
      BY <3>5 DEF NewService
    <3> QED
      BY <1>9, <3>1, <3>2, <3>3, <3>4, <3>5
  <2>3. PICK h \in {Login(r), Kick(r)},
             x \in {"kick", "kickerr", "spawn", "gatekick", "spawned", "spawnfail"} :
          /\ mpc' = [mpc EXCEPT ![h] = x]
          /\ mpc[h] \in {"queued", "kicked", "gatekicked", "spawn"}
    BY <2>2
  <2>4. h \in Job
    BY <2>0
  <2>5. \A j \in Job : mpc'[j] = mpc[j] \/ (Under(j) /\ Under(j)')
    BY <2>3, <2>4
  <2> QED
    BY <1>1, <2>1, <2>5
<1>10. ASSUME NEW r \in Req, AgentKick(r) PROVE PcInv'
  BY <1>1, <1>10 DEF AgentKick, mgrVars
<1>11. ASSUME NEW r \in Req, NEW j \in Job, AgentSaved(r, j) PROVE PcInv'
  <2>1. mpc[j] = "kick"
    BY <1>11 DEF AgentSaved, CallInv
  <2> QED
    BY <1>1, <1>11, <2>1 DEF AgentSaved
<1>12. ASSUME NEW r \in Req, AgentExit(r) PROVE PcInv'
  <2>1. \A j \in Job : j \in Unanswered(r) => mpc[j] = "kick"
    BY DEF Unanswered, CallInv
  <2> QED
    BY <1>1, <1>12, <2>1 DEF AgentExit
<1>13. ASSUME NEW r \in Req, SureAgent(r) \/ SendByFd(r) PROVE PcInv'
  BY <1>13 DEF SureAgent, SendByFd, mgrVars
<1>14. ASSUME NEW r \in Req, SureAgentGone(r) PROVE PcInv'
  BY <1>14 DEF SureAgentGone
<1>15. ASSUME NEW g \in Gate, GateSend(g) PROVE PcInv'
  BY <1>1, <1>15 DEF GateSend, mgrVars
<1>16. ASSUME NEW g \in Gate, GateKick(g) PROVE PcInv'
  <2> DEFINE j == Head(gbox[g]).job
  <2>1. j \in Job => mpc[j] = "gatekick"
    <3> SUFFICES ASSUME j \in Job PROVE mpc[j] = "gatekick"
      OBVIOUS
    <3>1. 1 \in CallsIn(gbox[g], j)
      <4>1. gbox[g] \in Seq(GateMsg) /\ gbox[g] # << >>
        BY <1>16 DEF GateKick
      <4>2. Head(gbox[g]).cmd = "kick"
        BY <1>16 DEF GateKick
      <4>3. 1 \in 1..Len(gbox[g]) /\ gbox[g][1] = Head(gbox[g])
        BY <4>1
      <4> QED
        BY <4>2, <4>3 DEF CallsIn
    <3> QED
      BY <3>1 DEF CallInv
  <2>2. mpc' = IF j = None THEN mpc ELSE [mpc EXCEPT ![j] = "gatekicked"]
    BY <1>16 DEF GateKick, GateKickEnd
  <2>3. UNCHANGED lpc
    BY <1>16 DEF GateKick, GateKickEnd
  <2> QED
    BY <1>1, <2>1, <2>2, <2>3
<1>17. CASE UNCHANGED vars
  BY <1>17 DEF vars, mgrVars
<1> QED
  BY <1>2, <1>3, <1>4, <1>7, <1>8, <1>9, <1>10, <1>11, <1>12, <1>13, <1>14,
     <1>15, <1>16, <1>17, NextCases

-----------------------------------------------------------------------------
(* The calls.                                                              *)

\* A step that leaves the requests and the running kicks of handler j as many.
SameCalls(j) ==
  /\ \A a \in Req :
       /\ CallsIn(abox'[a], j) = {} <=> CallsIn(abox[a], j) = {}
       /\ Once(CallsIn(abox[a], j)) => Once(CallsIn(abox'[a], j))
       /\ j \in saving'[a] <=> j \in saving[a]
  /\ \A g \in Gate :
       /\ CallsIn(gbox'[g], j) = {} <=> CallsIn(gbox[g], j) = {}
       /\ Once(CallsIn(gbox[g], j)) => Once(CallsIn(gbox'[g], j))

\* A bystander: the step is one of another handler.
LEMMA CallFrame ==
  ASSUME TypeOK, NEW j \in Job, CallInv(j), SameCalls(j),
         mpc'[j] = mpc[j], mold'[j] = mold[j],
         \A a \in Req : saved[a] => saved'[a],
         mpc[j] = "kick" => agent'[mold[j]] = agent[mold[j]]
  PROVE  CallInv(j)'
<1>1. \A a \in Req : CallsIn(abox[a], j)' # {} \/ j \in saving[a]'
                     => mold[j]' = a /\ mpc[j]' = "kick"
  BY DEF CallInv, SameCalls
<1>2. mpc[j]' = "kick" => AgentOwes(j)'
  BY DEF CallInv, SameCalls, AgentOwes
<1>3. \A g \in Gate : CallsIn(gbox[g], j)' # {}
                      => mpc[j]' = "gatekick" /\ GateOfReq(mold[j])' = g
  BY DEF CallInv, SameCalls, GateOfReq
<1>4. mpc[j]' = "gatekick" => GateOwes(j)'
  <2> SUFFICES ASSUME mpc[j] = "gatekick" PROVE GateOwes(j)'
    OBVIOUS
  <2>1. mold[j] \in Req /\ GateOfReq(mold[j]) \in Gate
    BY LoginFlowAssumption DEF CallInv, GateOwes, GateOfReq
  <2> QED
    BY <2>1 DEF CallInv, GateOwes, SameCalls, GateOfReq
<1>5. mpc[j]' = "kicked" => mold[j]' \in Req /\ saved[mold[j]]'
  BY DEF CallInv
<1> QED
  BY <1>1, <1>2, <1>3, <1>4, <1>5 DEF CallInv

\* The handler itself goes on, without a call before or after.
LEMMA CallNone ==
  ASSUME TypeOK, NEW j \in Job, CallInv(j), SameCalls(j),
         mpc[j] \notin {"kick", "gatekick"},
         mpc'[j] \notin {"kick", "gatekick", "kicked"}
  PROVE  CallInv(j)'
BY DEF CallInv, SameCalls

\* A step that touches no mailbox, no kick handler and no living agent.
LEMMA CallQuiet ==
  ASSUME TypeOK, \A j \in Job : CallInv(j),
         UNCHANGED <<abox, gbox, saving, saved, mold>>,
         \A a \in Req : agent[a] = "alive" => agent'[a] = "alive",
         \A j \in Job : \/ mpc'[j] = mpc[j]
                        \/ /\ mpc[j] \notin {"kick", "gatekick"}
                           /\ mpc'[j] \notin {"kick", "gatekick", "kicked"}
  PROVE  \A j \in Job : CallInv(j)'
<1> TAKE j \in Job
<1>1. SameCalls(j)
  BY DEF SameCalls
<1>2. CASE mpc'[j] = mpc[j]
  <2>1. mpc[j] = "kick" => agent'[mold[j]] = agent[mold[j]]
    BY DEF CallInv, AgentOwes
  <2> QED
    BY <1>1, <1>2, <2>1, CallFrame
<1>3. CASE /\ mpc[j] \notin {"kick", "gatekick"}
           /\ mpc'[j] \notin {"kick", "gatekick", "kicked"}
  BY <1>1, <1>3, CallNone
<1> QED
  BY <1>2, <1>3

LEMMA CallInit == Init => \A j \in Job : CallInv(j)
BY DEF Init, CallInv, CallsIn

LEMMA CallSilent == \* a queue grows by a message that is no call of j
  ASSUME NEW S, NEW q \in Seq(S), NEW m \in S, NEW j,
         m.cmd # "kick" \/ m.job # j
  PROVE  CallsIn(Append(q, m), j) = CallsIn(q, j)
BY CallsInAppend

LEMMA SendExitCalls ==
  ASSUME TypeOK, NEW a \in Req, SendExit(a), NEW b \in Req, NEW j \in Job
  PROVE  CallsIn(abox'[b], j) = CallsIn(abox[b], j)
<1> DEFINE m == [cmd |-> "exit", job |-> None]
<1>1. m \in AgentMsg /\ m.cmd = "exit"
  BY DEF AgentMsg
<1>2. abox[b] \in Seq(AgentMsg)
  BY DEF TypeOK
<1>3. abox'[b] = abox[b] \/ abox'[b] = Append(abox[b], m)
  BY DEF SendExit, TypeOK
<1> HIDE DEF m
<1>4. CallsIn(Append(abox[b], m), j) = CallsIn(abox[b], j)
  BY <1>1, <1>2, CallSilent
<1> QED
  BY <1>3, <1>4

\* The call of "kick" by a handler that had none under way.
LEMMA CallKickCalls ==
  ASSUME TypeOK, \A j \in Job : CallInv(j), NEW h \in Job, NEW a \in Req,
         mpc[h] = "queued", CallKick(h, a), mold' = [mold EXCEPT ![h] = a],
         UNCHANGED <<gbox, saving, saved, agent>>
  PROVE  \A j \in Job : CallInv(j)'
<1> DEFINE m == [cmd |-> "kick", job |-> h]
<1>1. m \in AgentMsg /\ m.cmd = "kick" /\ m.job = h
  BY DEF AgentMsg
<1>2. \A b \in Req : abox[b] \in Seq(AgentMsg)
  BY DEF TypeOK
<1>3. \A b \in Req : CallsIn(abox[b], h) = {} /\ h \notin saving[b]
  BY DEF CallInv
<1>4. \A g \in Gate : CallsIn(gbox[g], h) = {}
  BY DEF CallInv
<1>5. CASE agent[a] = "alive"
  <2>1. abox' = [abox EXCEPT ![a] = Append(abox[a], m)]
    BY <1>5 DEF CallKick
  <2>2. mpc' = [mpc EXCEPT ![h] = "kick"]
    BY <1>5 DEF CallKick
  <2> HIDE DEF m
  <2>3. ASSUME NEW j \in Job, j # h PROVE CallInv(j)'
    <3>1. \A b \in Req : CallsIn(abox'[b], j) = CallsIn(abox[b], j)
      <4>1. CallsIn(Append(abox[a], m), j) = CallsIn(abox[a], j)
        BY <1>1, <1>2, <2>3, CallSilent
      <4> QED
        BY <2>1, <4>1 DEF TypeOK
    <3>2. SameCalls(j)
      BY <3>1 DEF SameCalls
    <3>3. mpc'[j] = mpc[j] /\ mold'[j] = mold[j]
      BY <2>2, <2>3 DEF TypeOK
    <3>4. mpc[j] = "kick" => agent'[mold[j]] = agent[mold[j]]
      OBVIOUS
    <3> QED
      BY <3>2, <3>3, <3>4, CallFrame
  <2>4. CallInv(h)'
    <3>1. CallsIn(Append(abox[a], m), h) = {Len(abox[a]) + 1}
      <4>1. CallsIn(Append(abox[a], m), h)
              = CallsIn(abox[a], h) \cup {Len(abox[a]) + 1}
        BY <1>1, <1>2, CallsInAppend
      <4> QED
        BY <1>3, <4>1
    <3>2. /\ abox'[a] = Append(abox[a], m)
          /\ \A b \in Req : b # a => abox'[b] = abox[b]
      BY <2>1 DEF TypeOK
    <3>3. mpc'[h] = "kick" /\ mold'[h] = a
      BY <2>2 DEF TypeOK
    <3>4. AgentOwes(h)'
      BY <1>3, <1>5, <3>1, <3>2, <3>3 DEF AgentOwes, Once
    <3> QED
      BY <1>3, <1>4, <3>2, <3>3, <3>4 DEF CallInv
  <2> QED
    BY <2>3, <2>4
<1>6. CASE agent[a] # "alive"
  <2>1. UNCHANGED abox /\ mpc' = [mpc EXCEPT ![h] = "kickerr"]
    BY <1>6 DEF CallKick
  <2> TAKE j \in Job
  <2>2. SameCalls(j)
    BY <2>1 DEF SameCalls
  <2>3. CASE j = h
    BY <2>1, <2>2, <2>3, CallNone DEF TypeOK
  <2>4. CASE j # h
    <3>1. mpc'[j] = mpc[j] /\ mold'[j] = mold[j]
      BY <2>1, <2>4 DEF TypeOK
    <3> QED
      BY <2>2, <3>1, CallFrame
  <2> QED
    BY <2>3, <2>4
<1> QED
  BY <1>5, <1>6

\* What agentmgr sends to a gateway behind a kick that returned.
LEMMA ReqLoginKickedCalls ==
  ASSUME TypeOK, \A j \in Job : CallInv(j), NEW r \in Req, ReqLoginKicked(r)
  PROVE  \A j \in Job : CallInv(j)'
<1> DEFINE h == Login(r)
           old == mold[h]
           G == GateOfReq(old)
           s == [cmd |-> "send", player |-> PlayerOf[r], job |-> None]
           k == [cmd |-> "kick", player |-> PlayerOf[r], job |-> h]
<1>1. h \in Job /\ mpc[h] = "kicked" /\ old \in Req
  BY JobProperties DEF ReqLoginKicked, CallInv
<1>2. G \in Gate
  BY <1>1, LoginFlowAssumption DEF GateOfReq
<1>3. s \in GateMsg /\ k \in GateMsg /\ s.cmd = "send" /\ k.cmd = "kick" /\ k.job = h
  BY <1>1, LoginFlowAssumption DEF GateMsg
<1>4. \A g \in Gate : gbox[g] \in Seq(GateMsg)
  BY DEF TypeOK
<1>5. gbox[G] \o << s, k >> = Append(Append(gbox[G], s), k)
  BY <1>2, <1>3, <1>4
<1>6. gbox' = [gbox EXCEPT ![G] = gbox[G] \o << s, k >>]
  BY DEF ReqLoginKicked
<1> HIDE DEF s, k
<1>7. /\ gbox'[G] = Append(Append(gbox[G], s), k)
      /\ \A g \in Gate : g # G => gbox'[g] = gbox[g]
  BY <1>2, <1>5, <1>6 DEF TypeOK
<1>8. \A j \in Job : CallsIn(Append(gbox[G], s), j) = CallsIn(gbox[G], j)
  BY <1>2, <1>3, <1>4, CallSilent
<1>9. Append(gbox[G], s) \in Seq(GateMsg)
  BY <1>2, <1>3, <1>4
<1>10. /\ SendExit(old) /\ mpc' = [mpc EXCEPT ![h] = "gatekick"]
       /\ UNCHANGED <<mold, agent, saving, saved>>
  BY DEF ReqLoginKicked
<1>11. \A b \in Req, j \in Job : CallsIn(abox'[b], j) = CallsIn(abox[b], j)
  BY <1>1, <1>10, SendExitCalls
<1>12. ASSUME NEW j \in Job, j # h PROVE CallInv(j)'
  <2>1. CallsIn(Append(Append(gbox[G], s), k), j)
          = CallsIn(Append(gbox[G], s), j)
    BY <1>3, <1>9, <1>12, CallSilent
  <2>2. \A g \in Gate : CallsIn(gbox'[g], j) = CallsIn(gbox[g], j)
    BY <1>7, <1>8, <2>1
  <2>3. SameCalls(j)
    BY <1>10, <1>11, <2>2 DEF SameCalls
  <2>4. mpc'[j] = mpc[j] /\ mold'[j] = mold[j]
    BY <1>10, <1>12 DEF TypeOK
  <2> QED
    BY <1>10, <2>3, <2>4, CallFrame
<1>13. CallInv(h)'
  <2>1. CallsIn(gbox[G], h) = {}
    BY <1>1, <1>2 DEF CallInv
  <2>2. CallsIn(Append(Append(gbox[G], s), k), h)
          = CallsIn(Append(gbox[G], s), h) \cup {Len(Append(gbox[G], s)) + 1}
    <3>1. ASSUME NEW q \in Seq(GateMsg)
          PROVE  CallsIn(Append(q, k), k.job) = CallsIn(q, k.job) \cup {Len(q) + 1}
      BY <1>3, CallsInAppend
    <3> QED
      BY <1>3, <1>9, <3>1
  <2>3. CallsIn(gbox'[G], h) = {Len(Append(gbox[G], s)) + 1}
    BY <1>1, <1>7, <1>8, <2>1, <2>2
  <2>4. mpc'[h] = "gatekick" /\ mold'[h] = old
    BY <1>1, <1>10 DEF TypeOK
  <2>5. GateOwes(h)'
    BY <1>1, <2>3, <2>4 DEF GateOwes, Once, GateOfReq
  <2>6. \A b \in Req : CallsIn(abox'[b], h) = {} /\ h \notin saving'[b]
    BY <1>1, <1>10, <1>11 DEF CallInv
  <2>7. \A g \in Gate : g # G => CallsIn(gbox'[g], h) = {}
    BY <1>1, <1>7 DEF CallInv
  <2> QED
    BY <2>4, <2>5, <2>6, <2>7 DEF CallInv, GateOfReq
<1> QED
  BY <1>12, <1>13

LEMMA ReqKickKickedCalls ==
  ASSUME TypeOK, \A j \in Job : CallInv(j), NEW r \in Req, ReqKickKicked(r)
  PROVE  \A j \in Job : CallInv(j)'
<1> DEFINE h == Kick(r)
           old == mold[h]
           G == GateOfReq(old)
           k == [cmd |-> "kick", player |-> PlayerOf[r], job |-> None]
<1>1. h \in Job /\ mpc[h] = "kicked" /\ old \in Req
  BY JobProperties DEF ReqKickKicked, CallInv
<1>2. G \in Gate
  BY <1>1, LoginFlowAssumption DEF GateOfReq
<1>3. k \in GateMsg /\ k.job \notin Job
  BY LoginFlowAssumption DEF GateMsg, Job
<1>4. gbox[G] \in Seq(GateMsg)
  BY <1>2 DEF TypeOK
<1>5. gbox' = [gbox EXCEPT ![G] = Append(gbox[G], k)]
  BY DEF ReqKickKicked
<1> HIDE DEF k
<1>6. \A j \in Job : CallsIn(Append(gbox[G], k), j) = CallsIn(gbox[G], j)
  BY <1>3, <1>4, CallSilent
<1>7. \A g \in Gate, j \in Job : CallsIn(gbox'[g], j) = CallsIn(gbox[g], j)
  BY <1>2, <1>5, <1>6 DEF TypeOK
<1>8. /\ SendExit(old) /\ mpc' = [mpc EXCEPT ![h] = "done"]
      /\ UNCHANGED <<mold, agent, saving, saved>>
  BY DEF ReqKickKicked
<1>9. \A b \in Req, j \in Job : CallsIn(abox'[b], j) = CallsIn(abox[b], j)
  BY <1>1, <1>8, SendExitCalls
<1> TAKE j \in Job
<1>10. SameCalls(j)
  BY <1>7, <1>8, <1>9 DEF SameCalls
<1>11. CASE j = h
  <2>1. mpc'[h] = "done"
    BY <1>1, <1>8 DEF TypeOK
  <2> QED
    BY <1>1, <1>10, <1>11, <2>1, CallNone
<1>12. CASE j # h
  <2>1. mpc'[j] = mpc[j] /\ mold'[j] = mold[j]
    BY <1>8, <1>12 DEF TypeOK
  <2> QED
    BY <1>8, <1>10, <2>1, CallFrame
<1> QED
  BY <1>11, <1>12

\* A gateway takes a message that is no call of j.
LEMMA GateTailCalls ==
  ASSUME TypeOK, NEW h \in Gate, gbox[h] # << >>, NEW j \in Job,
         Head(gbox[h]).cmd # "kick" \/ Head(gbox[h]).job # j,
         gbox' = [gbox EXCEPT ![h] = Tail(@)], UNCHANGED <<abox, saving>>
  PROVE  SameCalls(j)
<1>1. gbox[h] \in Seq(GateMsg)
  BY DEF TypeOK
<1>2. /\ CallsIn(Tail(gbox[h]), j) = {} <=> CallsIn(gbox[h], j) = {}
      /\ Once(CallsIn(gbox[h], j)) => Once(CallsIn(Tail(gbox[h]), j))
  BY <1>1, CallsInOtherTail
<1>3. /\ gbox'[h] = Tail(gbox[h])
      /\ \A g \in Gate : g # h => gbox'[g] = gbox[g]
  BY DEF TypeOK
<1> QED
  BY <1>2, <1>3 DEF SameCalls

LEMMA GateSendCalls ==
  ASSUME TypeOK, \A j \in Job : CallInv(j), NEW h \in Gate, GateSend(h)
  PROVE  \A j \in Job : CallInv(j)'
<1> TAKE j \in Job
<1>1. /\ gbox[h] # << >> /\ Head(gbox[h]).cmd = "send"
      /\ gbox' = [gbox EXCEPT ![h] = Tail(@)]
      /\ UNCHANGED <<abox, saving, saved, mpc, mold, agent>>
  BY DEF GateSend, mgrVars, agentVars
<1>2. SameCalls(j)
  BY <1>1, GateTailCalls
<1> QED
  BY <1>1, <1>2, CallFrame

LEMMA GateKickCalls ==
  ASSUME TypeOK, \A j \in Job : CallInv(j), NEW h \in Gate, GateKick(h)
  PROVE  \A j \in Job : CallInv(j)'
<1> DEFINE k == Head(gbox[h]).job
<1>1. /\ gbox[h] # << >> /\ Head(gbox[h]).cmd = "kick"
      /\ gbox' = [gbox EXCEPT ![h] = Tail(@)]
      /\ mpc' = IF k = None THEN mpc ELSE [mpc EXCEPT ![k] = "gatekicked"]
      /\ UNCHANGED <<abox, saving, saved, mold, agent>>
  BY DEF GateKick, GateKickEnd, agentVars
<1> HIDE DEF k
<1> TAKE j \in Job
<1>2. CASE j # k
  <2>1. SameCalls(j)
    BY <1>1, <1>2, GateTailCalls DEF k
  <2>2. mpc'[j] = mpc[j]
    BY <1>1, <1>2 DEF TypeOK
  <2> QED
    BY <1>1, <2>1, <2>2, CallFrame
<1>3. CASE j = k
  <2>1. gbox[h] \in Seq(GateMsg)
    BY DEF TypeOK
  <2>2. 1 \in CallsIn(gbox[h], j)
    BY <1>1, <1>3, <2>1 DEF CallsIn, k
  <2>3. mpc[j] = "gatekick" /\ GateOfReq(mold[j]) = h /\ GateOwes(j)
    BY <2>2 DEF CallInv
  <2>4. Once(CallsIn(gbox[h], j))
    BY <2>3 DEF GateOwes
  <2>5. CallsIn(Tail(gbox[h]), j) = {}
    BY <1>1, <1>3, <2>1, <2>4, CallsInOwnTail DEF k
  <2>6. \A g \in Gate : CallsIn(gbox'[g], j) = {}
    BY <1>1, <2>3, <2>5 DEF CallInv, TypeOK
  <2>7. \A a \in Req : CallsIn(abox'[a], j) = {} /\ j \notin saving'[a]
    BY <1>1, <2>3 DEF CallInv
  <2>8. mpc'[j] = "gatekicked"
    BY <1>1, <1>3, LoginFlowAssumption DEF TypeOK, Job
  <2> QED
    BY <2>6, <2>7, <2>8 DEF CallInv
<1> QED
  BY <1>2, <1>3

LEMMA AgentKickCalls ==
  ASSUME TypeOK, \A j \in Job : CallInv(j), NEW a \in Req, AgentKick(a)
  PROVE  \A j \in Job : CallInv(j)'
<1> DEFINE k == Head(abox[a]).job
<1>1. /\ abox[a] # << >> /\ Head(abox[a]).cmd = "kick"
      /\ abox' = [abox EXCEPT ![a] = Tail(@)]
      /\ saving' = [saving EXCEPT ![a] = @ \cup {k}]
      /\ UNCHANGED <<gbox, saved, mpc, mold, agent>>
  BY DEF AgentKick, gateVars, mgrVars
<1>2. abox[a] \in Seq(AgentMsg)
  BY DEF TypeOK
<1>3. /\ abox'[a] = Tail(abox[a]) /\ saving'[a] = saving[a] \cup {k}
      /\ \A b \in Req : b # a => abox'[b] = abox[b] /\ saving'[b] = saving[b]
  BY <1>1 DEF TypeOK
<1> HIDE DEF k
<1> TAKE j \in Job
<1>4. CASE j # k
  <2>1. /\ CallsIn(Tail(abox[a]), j) = {} <=> CallsIn(abox[a], j) = {}
        /\ Once(CallsIn(abox[a], j)) => Once(CallsIn(Tail(abox[a]), j))
    BY <1>1, <1>2, <1>4, CallsInOtherTail DEF k
  <2>2. SameCalls(j)
    BY <1>1, <1>3, <1>4, <2>1 DEF SameCalls
  <2> QED
    BY <1>1, <2>2, CallFrame
<1>5. CASE j = k
  <2>1. 1 \in CallsIn(abox[a], j)
    BY <1>1, <1>2, <1>5 DEF CallsIn, k
  <2>2. mpc[j] = "kick" /\ mold[j] = a /\ AgentOwes(j)
    BY <2>1 DEF CallInv
  <2>3. j \notin saving[a] /\ Once(CallsIn(abox[a], j)) /\ agent[a] = "alive"
    BY <2>1, <2>2 DEF AgentOwes
  <2>4. CallsIn(Tail(abox[a]), j) = {}
    BY <1>1, <1>2, <1>5, <2>3, CallsInOwnTail DEF k
  <2>5. AgentOwes(j)'
    BY <1>1, <1>3, <1>5, <2>2, <2>3, <2>4 DEF AgentOwes
  <2>6. \A b \in Req : b # a => CallsIn(abox'[b], j) = {} /\ j \notin saving'[b]
    BY <1>3, <2>2 DEF CallInv
  <2>7. \A g \in Gate : CallsIn(gbox'[g], j) = {}
    BY <1>1, <2>2 DEF CallInv
  <2> QED
    BY <1>1, <2>2, <2>5, <2>6, <2>7 DEF CallInv
<1> QED
  BY <1>4, <1>5

LEMMA AgentSavedCalls ==
  ASSUME TypeOK, \A j \in Job : CallInv(j), NEW a \in Req, NEW h \in Job,
         AgentSaved(a, h)
  PROVE  \A j \in Job : CallInv(j)'
<1>1. /\ saving' = [saving EXCEPT ![a] = @ \ {h}]
      /\ saved' = [saved EXCEPT ![a] = TRUE]
      /\ mpc' = [mpc EXCEPT ![h] = "kicked"]
      /\ UNCHANGED <<abox, gbox, mold, agent>>
  BY DEF AgentSaved, gateVars
<1>2. mpc[h] = "kick" /\ mold[h] = a /\ CallsIn(abox[a], h) = {}
  BY DEF AgentSaved, CallInv, AgentOwes
<1> TAKE j \in Job
<1>3. CASE j # h
  <2>1. SameCalls(j)
    BY <1>1, <1>3 DEF SameCalls, TypeOK
  <2>2. mpc'[j] = mpc[j]
    BY <1>1, <1>3 DEF TypeOK
  <2>3. \A b \in Req : saved[b] => saved'[b]
    BY <1>1 DEF TypeOK
  <2> QED
    BY <1>1, <2>1, <2>2, <2>3, CallFrame
<1>4. CASE j = h
  <2>1. \A b \in Req : CallsIn(abox'[b], j) = {} /\ j \notin saving'[b]
    BY <1>1, <1>2, <1>4 DEF CallInv, TypeOK
  <2>2. \A g \in Gate : CallsIn(gbox'[g], j) = {}
    BY <1>1, <1>2, <1>4 DEF CallInv
  <2>3. mpc'[j] = "kicked" /\ mold'[j] = a /\ saved'[a]
    BY <1>1, <1>2, <1>4 DEF TypeOK
  <2> QED
    BY <2>1, <2>2, <2>3 DEF CallInv
<1> QED
  BY <1>3, <1>4

LEMMA AgentExitCalls ==
  ASSUME TypeOK, \A j \in Job : CallInv(j), NEW a \in Req, AgentExit(a)
  PROVE  \A j \in Job : CallInv(j)'
<1>1. /\ agent' = [agent EXCEPT ![a] = "exited"]
      /\ mpc' = [j \in Job |-> IF j \in Unanswered(a) THEN "kickerr" ELSE mpc[j]]
      /\ abox' = [abox EXCEPT ![a] = << >>]
      /\ saving' = [saving EXCEPT ![a] = {}]
      /\ UNCHANGED <<gbox, mold, saved>>
  BY DEF AgentExit, gateVars
<1>2. /\ abox'[a] = << >> /\ saving'[a] = {}
      /\ \A b \in Req : b # a => abox'[b] = abox[b] /\ saving'[b] = saving[b]
  BY <1>1 DEF TypeOK
<1>3. \A j : CallsIn(<< >>, j) = {}
  BY DEF CallsIn
<1> TAKE j \in Job
<1>4. CASE j \notin Unanswered(a)
  <2>1. CallsIn(abox[a], j) = {} /\ j \notin saving[a]
    BY <1>4 DEF Unanswered
  <2>2. SameCalls(j)
    BY <1>1, <1>2, <1>3, <2>1 DEF SameCalls, Once
  <2>3. mpc'[j] = mpc[j]
    BY <1>1, <1>4
  <2>4. mpc[j] = "kick" => agent'[mold[j]] = agent[mold[j]]
    BY <1>1, <2>1 DEF CallInv, AgentOwes, Once, TypeOK
  <2> QED
    BY <1>1, <2>2, <2>3, <2>4, CallFrame
<1>5. CASE j \in Unanswered(a)
  <2>1. mpc[j] = "kick" /\ mold[j] = a
    BY <1>5 DEF Unanswered, CallInv
  <2>2. \A b \in Req : CallsIn(abox'[b], j) = {} /\ j \notin saving'[b]
    BY <1>2, <1>3, <2>1 DEF CallInv
  <2>3. \A g \in Gate : CallsIn(gbox'[g], j) = {}
    BY <1>1, <2>1 DEF CallInv
  <2>4. mpc'[j] = "kickerr"
    BY <1>1, <1>5
  <2> QED
    BY <2>2, <2>3, <2>4 DEF CallInv
<1> QED
  BY <1>4, <1>5

LEMMA CallStep ==
  TypeOK /\ PcInv /\ (\A j \in Job : CallInv(j)) /\ [Next]_vars
    => \A j \in Job : CallInv(j)'
<1> SUFFICES ASSUME TypeOK, PcInv, \A j \in Job : CallInv(j), [Next]_vars
             PROVE  \A j \in Job : CallInv(j)'
  OBVIOUS
<1> DEFINE Goal == \A j \in Job : CallInv(j)'
           Quiet == /\ UNCHANGED <<abox, gbox, saving, saved, mold>>
                    /\ \A a \in Req : agent[a] = "alive" => agent'[a] = "alive"
                    /\ \A j \in Job :
                         \/ mpc'[j] = mpc[j]
                         \/ /\ mpc[j] \notin {"kick", "gatekick"}
                            /\ mpc'[j] \notin {"kick", "gatekick", "kicked"}
<1>1. Quiet => Goal
  BY CallQuiet
<1> HIDE DEF Goal
<1>2. ASSUME NEW f \in Fd, Connect(f) \/ ProcessClose(f) PROVE Goal
  BY <1>1, <1>2 DEF Connect, ProcessClose, mgrVars, agentVars
<1>3. ASSUME NEW r \in Req, ProcessLogin(r) \/ SureAgent(r) \/ SendByFd(r)
      PROVE  Goal
  BY <1>1, <1>3 DEF ProcessLogin, SureAgent, SendByFd, gateVars, mgrVars,
     agentVars
<1>4. ASSUME NEW r \in Req, PasswordChecked(r) \/ SureAgentGone(r) PROVE Goal
  BY <1>1, <1>4, JobProperties DEF PasswordChecked, SureAgentGone, PcInv,
     gateVars, agentVars, TypeOK
<1>5. ASSUME NEW r \in Req,
             \/ ReqLoginRefused(r) \/ ReqLoginSpawned(r)
             \/ ReqLoginSpawnFailed(r) \/ ReqKickRefused(r)
      PROVE  Goal
  BY <1>1, <1>5, JobProperties DEF ReqLoginRefused, ReqLoginSpawned,
     ReqLoginSpawnFailed, ReqKickRefused, gateVars, agentVars, TypeOK
<1>6. ASSUME NEW j \in Job, KickError(j) PROVE Goal
  BY <1>1, <1>6 DEF KickError, gateVars, agentVars, TypeOK
<1>7. ASSUME NEW r \in Req, ReqLoginFresh(r) \/ ReqLoginGateKicked(r) PROVE Goal
  BY <1>1, <1>7, JobProperties DEF ReqLoginFresh, ReqLoginGateKicked,
     NewMgrPlayer, gateVars, agentVars, TypeOK
<1>8. ASSUME NEW r \in Req, NewService(r) PROVE Goal
  <2>1. \A a \in Req : agent[a] = "alive" => agent'[a] = "alive"
    BY <1>8 DEF NewService, TypeOK
  <2>2. \A j \in Job : \/ mpc'[j] = mpc[j]
                       \/ /\ mpc[j] \notin {"kick", "gatekick"}
                          /\ mpc'[j] \notin {"kick", "gatekick", "kicked"}
    BY <1>8, JobProperties DEF NewService, TypeOK
  <2> QED
    BY <1>1, <1>8, <2>1, <2>2 DEF NewService, gateVars
<1>9. ASSUME NEW r \in Req, ReqLoginReplace(r) PROVE Goal
  <2>1. /\ mplayers[PlayerOf[r]] \in Req /\ Login(r) \in Job
        /\ mpc[Login(r)] = "queued"
        /\ CallKick(Login(r), mplayers[PlayerOf[r]])
        /\ mold' = [mold EXCEPT ![Login(r)] = mplayers[PlayerOf[r]]]
        /\ UNCHANGED <<gbox, saving, saved, agent>>
    <3>1. PlayerOf[r] \in Player /\ mplayers[PlayerOf[r]] # None
      BY <1>9, LoginFlowAssumption DEF ReqLoginReplace
    <3>2. mplayers[PlayerOf[r]] \in Req
      BY <3>1 DEF TypeOK
    <3>3. Login(r) \in Job
      BY JobProperties
    <3>4. /\ mpc[Login(r)] = "queued"
          /\ CallKick(Login(r), mplayers[PlayerOf[r]])
          /\ mold' = [mold EXCEPT ![Login(r)] = mplayers[PlayerOf[r]]]
          /\ UNCHANGED <<gbox, saving, saved, agent>>
      BY <1>9 DEF ReqLoginReplace, gateVars
    <3> QED
      BY <3>2, <3>3, <3>4
  <2> QED
    BY <2>1, CallKickCalls DEF Goal
<1>10. ASSUME NEW r \in Req, ReqKick(r) PROVE Goal
  <2>1. /\ mplayers[PlayerOf[r]] \in Req /\ Kick(r) \in Job
        /\ mpc[Kick(r)] = "queued"
        /\ CallKick(Kick(r), mplayers[PlayerOf[r]])
        /\ mold' = [mold EXCEPT ![Kick(r)] = mplayers[PlayerOf[r]]]
        /\ UNCHANGED <<gbox, saving, saved, agent>>
    <3>1. PlayerOf[r] \in Player /\ mplayers[PlayerOf[r]] # None
      BY <1>10, LoginFlowAssumption DEF ReqKick
    <3>2. mplayers[PlayerOf[r]] \in Req
      BY <3>1 DEF TypeOK
    <3>3. Kick(r) \in Job
      BY JobProperties
    <3>4. /\ mpc[Kick(r)] = "queued"
          /\ CallKick(Kick(r), mplayers[PlayerOf[r]])
          /\ mold' = [mold EXCEPT ![Kick(r)] = mplayers[PlayerOf[r]]]
          /\ UNCHANGED <<gbox, saving, saved, agent>>
      BY <1>10 DEF ReqKick, gateVars
    <3> QED
      BY <3>2, <3>3, <3>4
  <2> QED
    BY <2>1, CallKickCalls DEF Goal
<1>11. ASSUME NEW r \in Req, ReqLoginKicked(r) \/ ReqKickKicked(r) PROVE Goal
  BY <1>11, ReqLoginKickedCalls, ReqKickKickedCalls DEF Goal
<1>12. ASSUME NEW r \in Req, AgentKick(r) \/ AgentExit(r) PROVE Goal
  BY <1>12, AgentKickCalls, AgentExitCalls DEF Goal
<1>13. ASSUME NEW r \in Req, NEW j \in Job, AgentSaved(r, j) PROVE Goal
  BY <1>13, AgentSavedCalls DEF Goal
<1>14. ASSUME NEW g \in Gate, GateSend(g) \/ GateKick(g) PROVE Goal
  BY <1>14, GateSendCalls, GateKickCalls DEF Goal
<1>15. ASSUME UNCHANGED vars PROVE Goal
  <2>1. UNCHANGED <<abox, gbox, saving, saved, mold, mpc, agent>>
    BY <1>15 DEF vars, gateVars, mgrVars, agentVars
  <2> QED
    BY <1>1, <2>1
<1> HIDE DEF Quiet
<1>16. Goal
  <2>1. CASE UNCHANGED vars
    BY <1>15, <2>1
  <2>2. CASE Next
    BY <1>2, <1>3, <1>4, <1>5, <1>6, <1>7, <1>8, <1>9, <1>10, <1>11, <1>12,
       <1>13, <1>14, <1>15, <2>2, NextCases, JobProperties
  <2> QED
    BY <2>1, <2>2
<1> QED
  BY <1>16 DEF Goal

-----------------------------------------------------------------------------
(* The exit of an agent.                                                   *)

LEMMA ExitInit == Init => ExitInv
BY DEF Init, ExitInv, SavedBeforeExit

\* A queue of an agent that gets a message behind what it had.
LEMMA ExitAppend ==
  ASSUME TypeOK, ExitInv, NEW a \in Req, NEW m \in AgentMsg,
         m.cmd = "exit" => saved[a],
         abox' = [abox EXCEPT ![a] = Append(@, m)], UNCHANGED <<agent, saved>>
  PROVE  ExitInv'
<1>1. abox[a] \in Seq(AgentMsg)
  BY DEF TypeOK
<1>2. /\ Len(Append(abox[a], m)) = Len(abox[a]) + 1
      /\ \A i \in 1..Len(abox[a]) : Append(abox[a], m)[i] = abox[a][i]
      /\ Append(abox[a], m)[Len(abox[a]) + 1] = m
      /\ Len(abox[a]) \in Nat
  BY <1>1
<1>3. /\ abox'[a] = Append(abox[a], m)
      /\ \A b \in Req : b # a => abox'[b] = abox[b]
  BY DEF TypeOK
<1>4. ASSUME NEW i \in 1..Len(abox'[a]), abox'[a][i].cmd = "exit" PROVE saved[a]
  <2>1. i \in 1..Len(abox[a]) \/ i = Len(abox[a]) + 1
    BY <1>2, <1>3
  <2> QED
    BY <1>2, <1>3, <1>4, <2>1 DEF ExitInv
<1> QED
  BY <1>3, <1>4 DEF ExitInv, SavedBeforeExit

LEMMA ExitStep ==
  TypeOK /\ (\A j \in Job : CallInv(j)) /\ ExitInv /\ [Next]_vars => ExitInv'
<1> SUFFICES ASSUME TypeOK, \A j \in Job : CallInv(j), ExitInv, [Next]_vars
             PROVE  ExitInv'
  OBVIOUS
<1>1. ASSUME UNCHANGED <<abox, saved>>,
             \A a \in Req : agent'[a] = "exited" => agent[a] = "exited"
      PROVE  ExitInv'
  BY <1>1 DEF ExitInv, SavedBeforeExit
<1>2. ASSUME NEW f \in Fd, Connect(f) \/ ProcessClose(f) PROVE ExitInv'
  BY <1>1, <1>2 DEF Connect, ProcessClose, agentVars
<1>3. ASSUME NEW r \in Req,
             \/ ProcessLogin(r) \/ SureAgent(r) \/ SendByFd(r)
             \/ PasswordChecked(r) \/ SureAgentGone(r)
      PROVE  ExitInv'
  BY <1>1, <1>3 DEF ProcessLogin, SureAgent, SendByFd, PasswordChecked,
     SureAgentGone, agentVars
<1>4. ASSUME NEW r \in Req,
             \/ ReqLoginRefused(r) \/ ReqLoginSpawned(r)
             \/ ReqLoginSpawnFailed(r) \/ ReqKickRefused(r)
             \/ ReqLoginFresh(r) \/ ReqLoginGateKicked(r)
      PROVE  ExitInv'
  BY <1>1, <1>4 DEF ReqLoginRefused, ReqLoginSpawned, ReqLoginSpawnFailed,
     ReqKickRefused, ReqLoginFresh, ReqLoginGateKicked, NewMgrPlayer, agentVars
<1>5. ASSUME NEW j \in Job, KickError(j) PROVE ExitInv'
  BY <1>1, <1>5 DEF KickError, agentVars
<1>6. ASSUME NEW r \in Req, NewService(r) PROVE ExitInv'
  BY <1>1, <1>6 DEF NewService, TypeOK
<1>7. ASSUME NEW j \in Job, NEW a \in Req, CallKick(j, a), UNCHANGED <<agent, saved>>
      PROVE  ExitInv'
  <2>1. CASE agent[a] = "alive"
    <3> DEFINE m == [cmd |-> "kick", job |-> j]
    <3>1. m \in AgentMsg /\ m.cmd # "exit"
      BY DEF AgentMsg
    <3>2. abox' = [abox EXCEPT ![a] = Append(@, m)]
      BY <1>7, <2>1 DEF CallKick
    <3> HIDE DEF m
    <3> QED
      BY <1>7, <3>1, <3>2, ExitAppend
  <2>2. CASE agent[a] # "alive"
    BY <1>1, <1>7, <2>2 DEF CallKick
  <2> QED
    BY <2>1, <2>2
<1>8. ASSUME NEW a \in Req, saved[a], SendExit(a), UNCHANGED <<agent, saved>>
      PROVE  ExitInv'
  <2>1. CASE agent[a] = "alive"
    <3> DEFINE m == [cmd |-> "exit", job |-> None]
    <3>1. m \in AgentMsg
      BY DEF AgentMsg
    <3>2. abox' = [abox EXCEPT ![a] = Append(@, m)]
      BY <1>8, <2>1 DEF SendExit
    <3> HIDE DEF m
    <3> QED
      BY <1>8, <3>1, <3>2, ExitAppend
  <2>2. CASE agent[a] # "alive"
    BY <1>1, <1>8, <2>2 DEF SendExit
  <2> QED
    BY <2>1, <2>2
<1>9. ASSUME NEW r \in Req, ReqLoginReplace(r) \/ ReqKick(r) PROVE ExitInv'
  <2>1. mplayers[PlayerOf[r]] \in Req
    BY <1>9, LoginFlowAssumption DEF ReqLoginReplace, ReqKick, TypeOK
  <2>2. /\ \E j \in Job : CallKick(j, mplayers[PlayerOf[r]])
        /\ UNCHANGED <<agent, saved>>
    BY <1>9, JobProperties DEF ReqLoginReplace, ReqKick
  <2> QED
    BY <1>7, <2>1, <2>2
<1>10. ASSUME NEW r \in Req, ReqLoginKicked(r) \/ ReqKickKicked(r) PROVE ExitInv'
  <2>1. \E j \in Job : /\ mpc[j] = "kicked" /\ SendExit(mold[j])
                       /\ UNCHANGED <<agent, saved>>
    BY <1>10, JobProperties DEF ReqLoginKicked, ReqKickKicked
  <2>2. \E a \in Req : saved[a] /\ SendExit(a) /\ UNCHANGED <<agent, saved>>
    BY <2>1 DEF CallInv
  <2> QED
    BY <1>8, <2>2
<1>11. ASSUME NEW a \in Req, AgentKick(a) PROVE ExitInv'
  <2>1. abox[a] \in Seq(AgentMsg) /\ abox[a] # << >>
    BY <1>11 DEF AgentKick, TypeOK
  <2>2. /\ Len(Tail(abox[a])) = Len(abox[a]) - 1 /\ Len(abox[a]) \in Nat \ {0}
        /\ \A i \in 1..(Len(abox[a]) - 1) : Tail(abox[a])[i] = abox[a][i + 1]
    BY <2>1
  <2>3. /\ abox'[a] = Tail(abox[a])
        /\ \A b \in Req : b # a => abox'[b] = abox[b]
        /\ UNCHANGED <<agent, saved>>
    BY <1>11 DEF AgentKick, TypeOK
  <2>4. \A i \in 1..Len(Tail(abox[a])) : i + 1 \in 1..Len(abox[a])
    BY <2>2
  <2>5. \A i \in 1..Len(abox'[a]) : abox'[a][i].cmd = "exit" => saved[a]
    BY <2>2, <2>3, <2>4 DEF ExitInv
  <2> QED
    BY <2>3, <2>5 DEF ExitInv, SavedBeforeExit
<1>12. ASSUME NEW a \in Req, NEW j \in Job, AgentSaved(a, j) PROVE ExitInv'
  <2>1. (\A b \in Req : saved[b] => saved'[b]) /\ UNCHANGED <<abox, agent>>
    BY <1>12 DEF AgentSaved, TypeOK
  <2> QED
    BY <2>1 DEF ExitInv, SavedBeforeExit
<1>13. ASSUME NEW a \in Req, AgentExit(a) PROVE ExitInv'
  <2>1. abox[a] \in Seq(AgentMsg) /\ abox[a] # << >> /\ Head(abox[a]).cmd = "exit"
    BY <1>13 DEF AgentExit, TypeOK
  <2>2. 1 \in 1..Len(abox[a]) /\ abox[a][1] = Head(abox[a])
    BY <2>1
  <2>3. saved[a]
    BY <2>1, <2>2 DEF ExitInv
  <2>4. /\ abox'[a] = << >> /\ agent'[a] = "exited"
        /\ \A b \in Req : b # a => abox'[b] = abox[b] /\ agent'[b] = agent[b]
        /\ UNCHANGED saved
    BY <1>13 DEF AgentExit, TypeOK
  <2> QED
    BY <2>3, <2>4 DEF ExitInv, SavedBeforeExit
<1>14. ASSUME NEW g \in Gate, GateSend(g) \/ GateKick(g) PROVE ExitInv'
  BY <1>1, <1>14 DEF GateSend, GateKick, GateKickEnd, agentVars
<1>15. CASE UNCHANGED vars
  BY <1>1, <1>15 DEF vars, agentVars
<1> QED
  BY <1>2, <1>3, <1>4, <1>5, <1>6, <1>9, <1>10, <1>11, <1>12, <1>13, <1>14,
     <1>15, NextCases, JobProperties

-----------------------------------------------------------------------------
LEMMA FlowInvariant == Spec => []FlowInv
<1>1. Init => FlowInv
  BY TypeInit, PcInit, CallInit, ExitInit DEF FlowInv
<1>2. FlowInv /\ [Next]_vars => FlowInv'
  BY TypeStep, PcStep, CallStep, ExitStep DEF FlowInv
<1> QED
  BY <1>1, <1>2, PTL DEF Spec

\* Whatever clients do, an agent exits only after a kick has run to its end
\* and saved the player: "exit" follows a call of "kick" that returned
\* (agentmgr 67-68 and 118-119).
THEOREM ExitsSaved == Spec => []SavedBeforeExit
<1>1. FlowInv => SavedBeforeExit
  BY DEF FlowInv, ExitInv
<1> QED
  BY <1>1, FlowInvariant, PTL

\* No call is lost: a handler of agentmgr that waits for an agent or a gateway
\* has exactly one request or running callee there, also when the agent exits
\* under it, and a login coroutine waits exactly while its handler runs.
THEOREM NoLostCall == Spec => []CallsPending
<1>1. FlowInv => CallsPending
  BY DEF FlowInv, PcInv, CallInv, CallsPending
<1> QED
  BY <1>1, FlowInvariant, PTL

-----------------------------------------------------------------------------
(* The gateplayers.                                                        *)

\* The gateplayers on the connection of a request are its player's.
Alone(r) ==
  \A g \in Gate : \A p \in Player :
    gplayers[g][p] # None /\ FdOf[gplayers[g][p]] = FdOf[r] => p = PlayerOf[r]

LEMMA GateplayerInit == Init => GateplayerInv
BY DEF Init, GateplayerInv

\* sure_agent binds the connection of the new gateplayer.
LEMMA GateplayerSure ==
  ASSUME TypeOK, GateplayerInv, NEW r \in Req, Alone(r), SureAgent(r)
  PROVE  GateplayerInv'
<1> DEFINE f == FdOf[r]
           s == PlayerOf[r]
           G == GateOf[f]
<1>1. f \in Fd /\ s \in Player /\ G \in Gate /\ r # None /\ s # None
  BY LoginFlowAssumption
<1>2. /\ conn' = [conn EXCEPT ![f] = s] /\ conn[f] # None
      /\ gplayers' = [gplayers EXCEPT ![G][s] = r] /\ UNCHANGED sock
  BY DEF SureAgent
<1>3. \A h \in Fd : conn'[h] = IF h = f THEN s ELSE conn[h]
  BY <1>2 DEF TypeOK
<1>4. \A g \in Gate : \A p \in Player :
        gplayers'[g][p] = IF g = G /\ p = s THEN r ELSE gplayers[g][p]
  BY <1>1, <1>2 DEF TypeOK
<1>5. ASSUME NEW g \in Gate, NEW p \in Player, gplayers'[g][p] # None
      PROVE  /\ PlayerOf[gplayers'[g][p]] = p
             /\ GateOfReq(gplayers'[g][p]) = g
             /\ conn'[FdOf[gplayers'[g][p]]] = p
  <2>1. CASE g = G /\ p = s
    BY <1>1, <1>3, <1>4, <2>1 DEF GateOfReq
  <2>2. CASE ~(g = G /\ p = s)
    <3>1. gplayers'[g][p] = gplayers[g][p]
      BY <1>4, <2>2
    <3>2. gplayers[g][p] \in Req
      BY <1>5, <3>1 DEF TypeOK
    <3>3. FdOf[gplayers[g][p]] \in Fd
      BY <3>2, LoginFlowAssumption
    <3>4. FdOf[gplayers[g][p]] = f => p = s
      BY <1>5, <3>1 DEF Alone
    <3> QED
      BY <1>3, <1>5, <3>1, <3>3, <3>4 DEF GateplayerInv
  <2> QED
    BY <2>1, <2>2
<1>6. \A h \in Fd : sock'[h] = "new" => conn'[h] = None
  BY <1>2, <1>3 DEF GateplayerInv
<1> HIDE DEF f, s, G
<1> QED
  BY <1>5, <1>6 DEF GateplayerInv, GateOfReq

\* resp.kick forgets a gateplayer with its connection, which no other has.
LEMMA GateplayerKick ==
  ASSUME TypeOK, GateplayerInv, NEW h \in Gate, GateKick(h)
  PROVE  GateplayerInv'
<1> DEFINE s == Head(gbox[h]).player
           r == gplayers[h][s]
<1>1. s \in Player
  <2>1. Head(gbox[h]) \in GateMsg
    BY HeadTailProperties DEF GateKick, TypeOK
  <2> QED
    BY <2>1 DEF GateMsg
<1> HIDE DEF s
<1>2. CASE r = None
  BY <1>2 DEF GateKick, GateplayerInv, s, GateOfReq
<1>3. CASE r # None
  <2>1. r \in Req /\ FdOf[r] \in Fd
    BY <1>1, <1>3, LoginFlowAssumption DEF TypeOK
  <2>2. /\ gplayers' = [gplayers EXCEPT ![h][s] = None]
        /\ conn' = [conn EXCEPT ![FdOf[r]] = None]
        /\ sock' = [sock EXCEPT ![FdOf[r]] = "down"]
    BY <1>3 DEF GateKick, s
  <2>3. \A g \in Gate : \A p \in Player :
          gplayers'[g][p] = IF g = h /\ p = s THEN None ELSE gplayers[g][p]
    BY <1>1, <2>2 DEF TypeOK
  <2>4. \A f \in Fd : /\ conn'[f] = IF f = FdOf[r] THEN None ELSE conn[f]
                      /\ sock'[f] = IF f = FdOf[r] THEN "down" ELSE sock[f]
    BY <2>1, <2>2 DEF TypeOK
  <2>5. conn[FdOf[r]] = s /\ GateOf[FdOf[r]] = h
    BY <1>1, <1>3 DEF GateplayerInv, GateOfReq
  <2> HIDE DEF r
  <2>6. ASSUME NEW g \in Gate, NEW p \in Player, gplayers'[g][p] # None
        PROVE  /\ PlayerOf[gplayers'[g][p]] = p
               /\ GateOfReq(gplayers'[g][p]) = g
               /\ conn'[FdOf[gplayers'[g][p]]] = p
    <3>1. gplayers'[g][p] = gplayers[g][p] /\ ~(g = h /\ p = s)
      BY <2>3, <2>6
    <3>2. gplayers[g][p] \in Req
      BY <2>6, <3>1 DEF TypeOK
    <3>3. FdOf[gplayers[g][p]] \in Fd
      BY <3>2, LoginFlowAssumption
    <3>4. FdOf[gplayers[g][p]] # FdOf[r]
      BY <2>5, <2>6, <3>1 DEF GateplayerInv, GateOfReq
    <3> QED
      BY <2>4, <2>6, <3>1, <3>3, <3>4 DEF GateplayerInv
  <2>7. \A f \in Fd : sock'[f] = "new" => conn'[f] = None
    BY <2>4 DEF GateplayerInv
  <2> QED
    BY <2>6, <2>7 DEF GateplayerInv, GateOfReq
<1> QED
  BY <1>2, <1>3

LEMMA GateplayerConnect ==
  ASSUME TypeOK, GateplayerInv, NEW f \in Fd, Connect(f) \/ ProcessClose(f)
  PROVE  GateplayerInv'
<1>1. /\ UNCHANGED gplayers
      /\ \A h \in Fd : /\ conn'[h] = conn[h] \/ conn[h] = None
                       /\ sock'[h] = "new" => sock[h] = "new" /\ conn'[h] = conn[h]
  BY DEF Connect, ProcessClose, TypeOK, GateplayerInv
<1>2. ASSUME NEW g \in Gate, NEW p \in Player, gplayers[g][p] # None
      PROVE  conn'[FdOf[gplayers[g][p]]] = p
  <2>1. gplayers[g][p] \in Req
    BY <1>2 DEF TypeOK
  <2>2. FdOf[gplayers[g][p]] \in Fd /\ p # None
    BY <2>1, LoginFlowAssumption
  <2> QED
    BY <1>1, <1>2, <2>2 DEF GateplayerInv
<1> QED
  BY <1>1, <1>2 DEF GateplayerInv, GateOfReq

\* Every other step leaves the connections and the gateplayers alone.
LEMMA GateQuiet ==
  ASSUME [Next]_vars,
         \A f \in Fd : ~Connect(f) /\ ~ProcessClose(f),
         \A r \in Req : ~SureAgent(r),
         \A g \in Gate : ~GateKick(g)
  PROVE  UNCHANGED <<sock, conn, gplayers>>
<1>1. ASSUME NEW r \in Req,
             \/ ProcessLogin(r) \/ PasswordChecked(r)
             \/ ReqLoginRefused(r) \/ ReqLoginReplace(r) \/ ReqLoginFresh(r)
             \/ ReqLoginKicked(r) \/ ReqLoginGateKicked(r)
             \/ ReqLoginSpawned(r) \/ ReqLoginSpawnFailed(r)
             \/ ReqKickRefused(r) \/ ReqKick(r) \/ ReqKickKicked(r)
             \/ KickError(Login(r)) \/ KickError(Kick(r))
             \/ NewService(r) \/ AgentKick(r) \/ AgentExit(r)
             \/ SureAgentGone(r) \/ SendByFd(r)
      PROVE  UNCHANGED <<sock, conn, gplayers>>
  BY <1>1 DEF ProcessLogin, PasswordChecked, ReqLoginRefused, ReqLoginReplace,
     ReqLoginFresh, ReqLoginKicked, ReqLoginGateKicked, ReqLoginSpawned,
     ReqLoginSpawnFailed, ReqKickRefused, ReqKick, ReqKickKicked, KickError,
     NewService, AgentKick, AgentExit, SureAgentGone, SendByFd, NewMgrPlayer,
     gateVars
<1>2. ASSUME NEW r \in Req, NEW j \in Job, AgentSaved(r, j)
      PROVE  UNCHANGED <<sock, conn, gplayers>>
  BY <1>2 DEF AgentSaved, gateVars
<1>3. ASSUME NEW g \in Gate, GateSend(g) PROVE UNCHANGED <<sock, conn, gplayers>>
  BY <1>3 DEF GateSend
<1>4. CASE UNCHANGED vars
  BY <1>4 DEF vars, gateVars
<1> QED
  BY <1>1, <1>2, <1>3, <1>4, NextCases

LEMMA GateplayerStep ==
  TypeOK /\ GateplayerInv /\ (\A r \in Req : lpc[r] = "sure" => Alone(r))
    /\ [Next]_vars => GateplayerInv'
<1> SUFFICES ASSUME TypeOK, GateplayerInv, [Next]_vars,
                    \A r \in Req : lpc[r] = "sure" => Alone(r)
             PROVE  GateplayerInv'
  OBVIOUS
<1>1. ASSUME UNCHANGED <<sock, conn, gplayers>> PROVE GateplayerInv'
  BY <1>1 DEF GateplayerInv
<1>2. ASSUME NEW r \in Req, SureAgent(r) PROVE GateplayerInv'
  BY <1>2, GateplayerSure DEF SureAgent
<1> QED
  BY <1>1, <1>2, GateplayerKick, GateplayerConnect, GateQuiet

\* A client uses a connection for one account.
OneAccount == \A r, q \in Req : FdOf[r] = FdOf[q] => PlayerOf[r] = PlayerOf[q]

\* While a connection serves one account, a gateplayer's connection is in
\* conns and is its player's, in every order of logins, kicks and closes:
\* what agents send to a player goes to that player's socket (gateway 69-80).
THEOREM RoutedAlways == OneAccount => (Spec => []RoutedIsBound)
<1> SUFFICES ASSUME OneAccount PROVE Spec => []RoutedIsBound
  OBVIOUS
<1>1. ASSUME TypeOK, GateplayerInv, NEW r \in Req PROVE Alone(r)
  <2>1. \A g \in Gate : \A p \in Player : gplayers[g][p] \in Req \cup {None}
    BY <1>1 DEF TypeOK
  <2> QED
    BY <1>1, <2>1 DEF OneAccount, Alone, GateplayerInv
<1>2. TypeOK /\ GateplayerInv /\ [Next]_vars => (TypeOK /\ GateplayerInv)'
  BY <1>1, TypeStep, GateplayerStep
<1>3. GateplayerInv => RoutedIsBound
  BY DEF GateplayerInv, RoutedIsBound
<1> QED
  BY <1>2, <1>3, TypeInit, GateplayerInit, PTL DEF Spec

-----------------------------------------------------------------------------
(* The records.                                                            *)

LEMMA RecordInit == Init => RecordInv /\ LoginInv
<1> SUFFICES ASSUME Init PROVE RecordInv /\ LoginInv
  OBVIOUS
<1> USE JobProperties DEF Init
<1>1. \A a \in Req : StatusInv(a)
  BY DEF StatusInv
<1>2. \A a \in Req : LogoutInv(a)
  BY LoginFlowAssumption DEF LogoutInv
<1>3. LoginInv
  BY DEF LoginInv
<1> QED
  BY <1>1, <1>2, <1>3 DEF RecordInv

HasExit(q) == \E i \in DOMAIN q : q[i].cmd = "exit"

LEMMA HasExitAppend ==
  ASSUME NEW q \in Seq(AgentMsg), NEW m \in AgentMsg
  PROVE  HasExit(Append(q, m)) <=> HasExit(q) \/ m.cmd = "exit"
<1>1. /\ Len(q) \in Nat /\ Len(Append(q, m)) = Len(q) + 1
      /\ DOMAIN q = 1..Len(q)
      /\ DOMAIN Append(q, m) = 1..(Len(q) + 1)
  OBVIOUS
<1>2. /\ \A i \in 1..Len(q) : Append(q, m)[i] = q[i]
      /\ Append(q, m)[Len(q) + 1] = m
  OBVIOUS
<1>3. \A i : i \in 1..(Len(q) + 1) <=> i \in 1..Len(q) \/ i = Len(q) + 1
  BY <1>1
<1> QED
  BY <1>1, <1>2, <1>3 DEF HasExit

LEMMA HasExitTail ==
  ASSUME NEW q \in Seq(AgentMsg), q # << >>, HasExit(Tail(q))
  PROVE  HasExit(q)
<1>1. /\ Len(q) \in Nat \ {0} /\ Len(Tail(q)) = Len(q) - 1
      /\ DOMAIN q = 1..Len(q) /\ DOMAIN Tail(q) = 1..(Len(q) - 1)
      /\ \A i \in 1..(Len(q) - 1) : Tail(q)[i] = q[i + 1]
  OBVIOUS
<1>2. PICK i \in DOMAIN Tail(q) : Tail(q)[i].cmd = "exit"
  BY DEF HasExit
<1>3. i + 1 \in DOMAIN q /\ q[i + 1].cmd = "exit"
  BY <1>1, <1>2
<1> QED
  BY <1>3 DEF HasExit

LEMMA ToldIsExit == \A a \in Req : Told(a) <=> HasExit(abox[a])
BY DEF Told, HasExit

\* A call of "kick" tells no agent to exit, and none that is not there.
LEMMA CallKickTold ==
  ASSUME TypeOK, RecordInv, NEW j \in Job, NEW b \in Req, CallKick(j, b),
         UNCHANGED agent
  PROVE  \A a \in Req : /\ Told(a)' => Told(a)
                        /\ agent[a] = "none" => abox'[a] = << >>
<1> DEFINE m == [cmd |-> "kick", job |-> j]
<1>1. m \in AgentMsg /\ m.cmd # "exit"
  BY DEF AgentMsg
<1> TAKE a \in Req
<1>2. abox[a] \in Seq(AgentMsg) /\ (agent[a] = "none" => abox[a] = << >>)
  BY DEF TypeOK, RecordInv, StatusInv
<1>3. \/ abox'[a] = abox[a]
      \/ agent[a] = "alive" /\ abox'[a] = Append(abox[a], m)
  BY DEF CallKick, TypeOK
<1> HIDE DEF m
<1>4. HasExit(abox'[a]) => HasExit(abox[a])
  BY <1>1, <1>2, <1>3, HasExitAppend
<1> QED
  BY <1>2, <1>3, <1>4 DEF Told, HasExit

\* SendExit tells no other agent.
LEMMA SendExitTold ==
  ASSUME TypeOK, RecordInv, NEW b \in Req, SendExit(b), UNCHANGED agent
  PROVE  /\ \A a \in Req : a # b => abox'[a] = abox[a]
         /\ \A a \in Req : agent[a] = "none" => abox'[a] = << >>
<1>1. \A a \in Req : agent[a] = "none" => abox[a] = << >>
  BY DEF RecordInv, StatusInv
<1> QED
  BY <1>1 DEF SendExit, TypeOK

\* Segments that neither make a record nor take it away.
PlainMove(j) ==
  \/ mpc'[j] = mpc[j]
  \/ mpc[j] = "idle" /\ mpc'[j] = "queued"
  \/ mpc[j] \in {"queued", "kickerr", "spawnfail"} /\ mpc'[j] = "done"
  \/ mpc[j] = "kick" /\ mpc'[j] = "kicked"
  \/ mpc[j] = "gatekick" /\ mpc'[j] = "gatekicked"

LEMMA RecordPlain ==
  ASSUME TypeOK, RecordInv, UNCHANGED <<mplayers, status, mold, agent>>,
         \A j \in Job : PlainMove(j),
         \A a \in Req : Told(a)' => Told(a),
         \A a \in Req : agent[a] = "none" => abox'[a] = << >>
  PROVE  RecordInv'
<1>1. ASSUME NEW a \in Req PROVE StatusInv(a)'
  BY JobProperties DEF RecordInv, StatusInv, PlainMove
<1>2. \A r \in Req : Replacing(r) => Replacing(r)'
  BY JobProperties DEF Replacing, PlainMove
<1>3. \A a \in Req : Removing(a) => Removing(a)'
  BY <1>2, JobProperties DEF Removing, PlainMove
<1>4. ASSUME NEW a \in Req PROVE LogoutInv(a)'
  BY <1>2, <1>3 DEF RecordInv, LogoutInv
<1> QED
  BY <1>1, <1>4 DEF RecordInv

\* A handler asks an agent to kick its player: from then on it removes the
\* record, if it was reqkick that asked.
LEMMA RecordReplace ==
  ASSUME FlowInv, RecordInv, NEW r \in Req, ReqLoginReplace(r)
  PROVE  RecordInv'
<1> DEFINE b == mplayers[PlayerOf[r]]
           j == Login(r)
<1>1. TypeOK /\ j \in Job /\ PlayerOf[r] \in Player /\ j[2] = r
  BY JobProperties, LoginFlowAssumption DEF FlowInv
<1>2. /\ mpc[j] = "queued" /\ b \in Req /\ status[b] = "GAME"
      /\ mold' = [mold EXCEPT ![j] = b] /\ CallKick(j, b)
      /\ UNCHANGED <<mplayers, status, agent>>
  BY <1>1 DEF ReqLoginReplace, TypeOK
<1>3. mpc'[j] \in {"kick", "kickerr"} /\ \A k \in Job : k # j => mpc'[k] = mpc[k]
  BY <1>1, <1>2 DEF CallKick, TypeOK
<1>4. mold'[j] = b /\ \A k \in Job : k # j => mold'[k] = mold[k]
  BY <1>1, <1>2 DEF TypeOK
<1>5. PlayerOf[b] = PlayerOf[r]
  BY <1>1, <1>2, LoginFlowAssumption DEF RecordInv
<1>6. \A a \in Req : /\ Told(a)' => Told(a)
                     /\ agent[a] = "none" => abox'[a] = << >>
  BY <1>1, <1>2, CallKickTold
<1> HIDE DEF b, j
<1>7. ASSUME NEW k \in Job, mold'[k] # None
      PROVE  /\ PlayerOf[mold'[k]] = PlayerOf[k[2]]
             /\ status'[mold'[k]] \in {"GAME", "LOGOUT"}
  BY <1>1, <1>2, <1>4, <1>5, <1>7 DEF RecordInv
<1>8. ASSUME NEW a \in Req PROVE StatusInv(a)'
  <2>1. Login(a) \in Job
    BY JobProperties
  <2> QED
    BY <1>2, <1>3, <1>6, <2>1 DEF RecordInv, StatusInv
<1>9. \A q \in Req : Replacing(q) /\ Login(q) # j => Replacing(q)'
  BY <1>3, JobProperties DEF Replacing
<1>10. \A q \in Req : Replacing(q) => Login(q) # j
  BY <1>2 DEF Replacing
<1>11. \A q \in Req : Kick(q) # j
  BY JobProperties DEF j
<1>12. \A a \in Req : Removing(a) => Removing(a)'
  BY <1>3, <1>4, <1>9, <1>10, <1>11, JobProperties DEF Removing
<1>13. ASSUME NEW a \in Req PROVE LogoutInv(a)'
  <2>1. ASSUME NEW q \in Req, Replacing(q), mold[Login(q)] = a
        PROVE  Replacing(q)' /\ mold'[Login(q)] = a
    BY <1>4, <1>9, <1>10, <2>1, JobProperties
  <2> QED
    BY <1>2, <1>6, <1>12, <2>1 DEF RecordInv, LogoutInv
<1> QED
  BY <1>2, <1>7, <1>8, <1>13 DEF RecordInv

LEMMA RecordReqKick ==
  ASSUME FlowInv, RecordInv, NEW r \in Req, ReqKick(r)
  PROVE  RecordInv'
<1> DEFINE j == Kick(r)
<1>1. TypeOK /\ j \in Job /\ PlayerOf[r] \in Player /\ j[2] = r
  BY JobProperties, LoginFlowAssumption DEF FlowInv
<1>b. PICK b \in Req : b = mplayers[PlayerOf[r]]
  BY <1>1 DEF ReqKick, TypeOK
<1>2. /\ mpc[j] = "queued" /\ status[b] = "GAME"
      /\ mold' = [mold EXCEPT ![j] = b] /\ CallKick(j, b)
      /\ status' = [status EXCEPT ![b] = "LOGOUT"]
      /\ UNCHANGED <<mplayers, agent>>
  BY <1>b, <1>1 DEF ReqKick, TypeOK
<1>3. /\ agent[b] = "alive" => mpc'[j] = "kick"
      /\ agent[b] # "alive" => mpc'[j] = "kickerr"
      /\ \A k \in Job : k # j => mpc'[k] = mpc[k]
  BY <1>1, <1>2 DEF CallKick, TypeOK
<1>4. mold'[j] = b /\ \A k \in Job : k # j => mold'[k] = mold[k]
  BY <1>1, <1>2 DEF TypeOK
<1>5. PlayerOf[b] = PlayerOf[r] /\ mplayers[PlayerOf[b]] = b
  BY <1>b, <1>1, LoginFlowAssumption DEF RecordInv
<1>6. \A a \in Req : /\ Told(a)' => Told(a)
                     /\ agent[a] = "none" => abox'[a] = << >>
  BY <1>1, <1>2, CallKickTold
<1>7. \A a \in Req : status'[a] = IF a = b THEN "LOGOUT" ELSE status[a]
  BY <1>1, <1>2 DEF TypeOK
<1> HIDE DEF j
<1>8. ASSUME NEW k \in Job, mold'[k] # None
      PROVE  /\ PlayerOf[mold'[k]] = PlayerOf[k[2]]
             /\ status'[mold'[k]] \in {"GAME", "LOGOUT"}
  <2>1. mold'[k] \in Req
    BY <1>1, <1>4, <1>8 DEF TypeOK
  <2> QED
    BY <1>1, <1>4, <1>5, <1>7, <1>8, <2>1 DEF RecordInv
<1>9. \A p \in Player : mplayers[p] # None =>
        PlayerOf[mplayers[p]] = p /\ status'[mplayers[p]] # "none"
  BY <1>1, <1>7 DEF RecordInv, TypeOK
<1>10. \A q \in Req : Login(q) # j
  BY JobProperties DEF j
<1>11. ASSUME NEW a \in Req PROVE StatusInv(a)'
  <2>1. Login(a) \in Job /\ mpc'[Login(a)] = mpc[Login(a)]
    BY <1>3, <1>10, JobProperties
  <2>2. a = b => mpc[Login(a)] = "done" /\ agent[a] # "none"
    BY <1>1, <1>2, <2>1 DEF RecordInv, StatusInv, TypeOK, MgrPc
  <2> QED
    BY <1>2, <1>6, <1>7, <2>1, <2>2 DEF RecordInv, StatusInv
<1>12. ASSUME NEW q \in Req, Replacing(q)
       PROVE  Replacing(q)' /\ mold'[Login(q)] = mold[Login(q)]
  BY <1>3, <1>4, <1>10, <1>12, JobProperties DEF Replacing
<1>13. \A a \in Req : Removing(a) => Removing(a)'
  <2>1. \A q \in Req : mpc[Kick(q)] \in {"kick", "kicked"} => Kick(q) # j
    BY <1>2
  <2> QED
    BY <1>3, <1>4, <1>12, <2>1, JobProperties DEF Removing
<1>14. Removing(b)'
  <2>1. CASE agent[b] = "alive"
    BY <1>3, <1>4, <2>1 DEF Removing, j
  <2>2. CASE agent[b] # "alive"
    <3>1. agent[b] = "exited"
      BY <1>1, <1>2, <2>2 DEF RecordInv, StatusInv, TypeOK
    <3>2. PICK q \in Req : Replacing(q) /\ mold[Login(q)] = b
      BY <1>2, <1>5, <3>1 DEF RecordInv, LogoutInv
    <3> QED
      BY <1>12, <3>2 DEF Removing
  <2> QED
    BY <2>1, <2>2
<1>15. ASSUME NEW a \in Req PROVE LogoutInv(a)'
  BY <1>2, <1>6, <1>7, <1>12, <1>13, <1>14 DEF RecordInv, LogoutInv
<1> QED
  BY <1>2, <1>8, <1>9, <1>11, <1>15 DEF RecordInv

\* NewMgrPlayer: the record replaces the one that its handler logged out.
LEMMA RecordNew ==
  ASSUME FlowInv, RecordInv, NEW r \in Req,
         mpc[Login(r)] \in {"queued", "gatekicked"}, NewMgrPlayer(r)
  PROVE  RecordInv'
<1> DEFINE j == Login(r)
           s == PlayerOf[r]
<1>1. TypeOK /\ j \in Job /\ s \in Player
  BY JobProperties, LoginFlowAssumption DEF FlowInv
<1>2. UNCHANGED <<mold, agent, abox>>
  BY DEF NewMgrPlayer, agentVars
<1>3. \A p \in Player : mplayers'[p] = IF p = s THEN r ELSE mplayers[p]
  BY <1>1 DEF NewMgrPlayer, TypeOK
<1>4. \A a \in Req : status'[a] = IF a = r THEN "LOGIN" ELSE status[a]
  BY <1>1 DEF NewMgrPlayer, TypeOK
<1>5. mpc'[j] = "spawn" /\ \A k \in Job : k # j => mpc'[k] = mpc[k]
  BY <1>1 DEF NewMgrPlayer, TypeOK
<1>6. status[r] = "none" /\ agent[r] = "none" /\ abox[r] = << >>
  BY <1>1 DEF RecordInv, StatusInv, TypeOK
<1>7. ASSUME NEW k \in Job, mold[k] # None
      PROVE  /\ mold[k] \in Req /\ mold[k] # r
             /\ PlayerOf[mold[k]] = PlayerOf[k[2]]
             /\ status'[mold[k]] \in {"GAME", "LOGOUT"}
  BY <1>1, <1>4, <1>6, <1>7 DEF RecordInv, TypeOK
<1>8. \A p \in Player : mplayers'[p] # None =>
        PlayerOf[mplayers'[p]] = p /\ status'[mplayers'[p]] # "none"
  <2> TAKE p \in Player
  <2>1. CASE p = s
    BY <1>3, <1>4, <2>1
  <2>2. CASE p # s /\ mplayers[p] # None
    <3>1. mplayers[p] \in Req
      BY <1>1, <2>2 DEF TypeOK
    <3> QED
      BY <1>3, <1>4, <2>2, <3>1 DEF RecordInv
  <2> QED
    BY <1>3, <2>1, <2>2
<1>9. ASSUME NEW a \in Req PROVE StatusInv(a)'
  <2>1. Login(a) \in Job /\ (a # r => Login(a) # j)
    BY JobProperties
  <2>2. CASE a = r
    BY <1>2, <1>4, <1>5, <1>6, <2>2 DEF StatusInv
  <2>3. CASE a # r
    BY <1>2, <1>4, <1>5, <2>1, <2>3 DEF RecordInv, StatusInv
  <2> QED
    BY <2>2, <2>3
<1>10. ASSUME NEW a \in Req PROVE LogoutInv(a)'
  <2>1. CASE a = r
    BY <1>2, <1>4, <1>6, <2>1 DEF LogoutInv, Told
  <2>2. CASE a # r /\ mplayers'[PlayerOf[a]] = a
    <3>1. PlayerOf[a] \in Player /\ PlayerOf[a] # s /\ mplayers[PlayerOf[a]] = a
      BY <1>3, <2>2, LoginFlowAssumption
    <3>2. ASSUME NEW q \in Req, Replacing(q), mold[Login(q)] = a
          PROVE  Replacing(q)' /\ mold'[Login(q)] = a
      <4>1. a # None /\ Login(q) \in Job /\ Login(q)[2] = q
        BY JobProperties, LoginFlowAssumption
      <4>2. PlayerOf[a] = PlayerOf[q]
        BY <3>2, <4>1, <1>7
      <4>3. Login(q) # j
        BY <3>1, <4>2, JobProperties
      <4> QED
        BY <1>2, <1>5, <3>2, <4>1, <4>3 DEF Replacing
    <3>3. \A q \in Req : Kick(q) \in Job /\ Kick(q) # j
      BY JobProperties
    <3>4. Removing(a) => Removing(a)'
      BY <1>2, <1>5, <3>2, <3>3 DEF Removing
    <3>5. Told(a)' => Told(a)
      BY <1>2 DEF Told
    <3> QED
      BY <1>2, <1>4, <2>2, <3>1, <3>2, <3>4, <3>5 DEF RecordInv, LogoutInv
  <2>3. CASE mplayers'[PlayerOf[a]] # a
    BY <2>3 DEF LogoutInv
  <2> QED
    BY <2>1, <2>2, <2>3
<1> QED
  BY <1>2, <1>7, <1>8, <1>9, <1>10 DEF RecordInv

\* The old agent is told to exit while its record is being taken away.
LEMMA RecordKicked ==
  ASSUME FlowInv, RecordInv, NEW r \in Req, ReqLoginKicked(r)
  PROVE  RecordInv'
<1> DEFINE j == Login(r)
<1>1. TypeOK /\ j \in Job /\ j[2] = r /\ CallInv(j)
  BY JobProperties DEF FlowInv
<1>2. PICK b \in Req : b = mold[j]
  BY <1>1 DEF ReqLoginKicked, CallInv
<1>3. /\ mpc[j] = "kicked" /\ SendExit(b)
      /\ UNCHANGED <<mplayers, mold, agent>>
  BY <1>2 DEF ReqLoginKicked
<1>4. \A a \in Req : status'[a] = IF a = b THEN "LOGOUT" ELSE status[a]
  BY <1>1, <1>2 DEF ReqLoginKicked, TypeOK
<1>5. mpc'[j] = "gatekick" /\ \A k \in Job : k # j => mpc'[k] = mpc[k]
  BY <1>1 DEF ReqLoginKicked, TypeOK
<1>6. /\ \A a \in Req : a # b => abox'[a] = abox[a]
      /\ \A a \in Req : agent[a] = "none" => abox'[a] = << >>
  BY <1>1, <1>3, SendExitTold
<1>7. status[b] \in {"GAME", "LOGOUT"} /\ b # None
  BY <1>1, <1>2, LoginFlowAssumption DEF RecordInv
<1>8. Replacing(r)' /\ mold'[Login(r)] = b
  BY <1>2, <1>3, <1>5 DEF Replacing
<1> HIDE DEF j
<1>9. \A k \in Job : mold[k] # None =>
        status'[mold[k]] \in {"GAME", "LOGOUT"}
  BY <1>1, <1>4 DEF RecordInv, TypeOK
<1>10. \A p \in Player : mplayers[p] # None => status'[mplayers[p]] # "none"
  BY <1>1, <1>4 DEF RecordInv, TypeOK
<1>11. ASSUME NEW a \in Req PROVE StatusInv(a)'
  <2>1. Login(a) \in Job /\ (a = r <=> Login(a) = j)
    BY JobProperties DEF j
  <2>2. mpc[Login(b)] = "done" /\ agent[b] # "none" /\ b # r
    <3>1. Login(b) \in Job
      BY JobProperties
    <3> QED
      BY <1>1, <1>3, <1>7, <3>1 DEF RecordInv, StatusInv, TypeOK, MgrPc, j
  <2>3. CASE a = r
    BY <1>3, <1>4, <1>5, <1>6, <2>1, <2>2, <2>3 DEF RecordInv, StatusInv
  <2>4. CASE a # r
    BY <1>3, <1>4, <1>5, <1>6, <2>1, <2>2, <2>4 DEF RecordInv, StatusInv
  <2> QED
    BY <2>3, <2>4
<1>12. ASSUME NEW q \in Req, Replacing(q) PROVE Replacing(q)'
  BY <1>5, <1>12, JobProperties DEF Replacing
<1>13. ASSUME NEW a \in Req PROVE LogoutInv(a)'
  <2>1. CASE a = b
    BY <1>8, <2>1 DEF LogoutInv, Removing
  <2>2. CASE a # b
    <3>1. \A q \in Req : Kick(q) \in Job /\ Kick(q) # j
      BY JobProperties DEF j
    <3>2. Removing(a) => Removing(a)'
      BY <1>3, <1>5, <1>12, <3>1 DEF Removing
    <3>3. Told(a)' => Told(a)
      BY <1>6, <2>2 DEF Told
    <3> QED
      BY <1>3, <1>4, <1>12, <2>2, <3>2, <3>3 DEF RecordInv, LogoutInv
  <2> QED
    BY <2>1, <2>2
<1> QED
  BY <1>3, <1>9, <1>10, <1>11, <1>13 DEF RecordInv

LEMMA RecordSpawned ==
  ASSUME FlowInv, RecordInv, NEW r \in Req, ReqLoginSpawned(r)
  PROVE  RecordInv'
<1>1. TypeOK /\ Login(r) \in Job
  BY JobProperties DEF FlowInv
<1>2. /\ mpc[Login(r)] = "spawned" /\ UNCHANGED <<mplayers, mold, agent, abox>>
      /\ mpc'[Login(r)] = "done"
      /\ \A k \in Job : k # Login(r) => mpc'[k] = mpc[k]
      /\ \A a \in Req : status'[a] = IF a = r THEN "GAME" ELSE status[a]
  BY <1>1 DEF ReqLoginSpawned, agentVars, TypeOK
<1>3. ASSUME NEW a \in Req PROVE StatusInv(a)'
  <2>1. Login(a) \in Job /\ (a # r => Login(a) # Login(r))
    BY JobProperties
  <2>2. CASE a = r
    BY <1>2, <2>2 DEF RecordInv, StatusInv
  <2>3. CASE a # r
    BY <1>2, <2>1, <2>3 DEF RecordInv, StatusInv
  <2> QED
    BY <2>2, <2>3
<1>4. \A q \in Req : Replacing(q) => Replacing(q)'
  BY <1>2, JobProperties DEF Replacing
<1>5. \A a \in Req : Removing(a) => Removing(a)'
  BY <1>2, <1>4, JobProperties DEF Removing
<1>6. \A a \in Req : Told(a)' => Told(a)
  BY <1>2 DEF Told
<1>7. ASSUME NEW a \in Req PROVE LogoutInv(a)'
  BY <1>2, <1>4, <1>5, <1>6 DEF RecordInv, LogoutInv
<1>8. \A k \in Job : mold[k] # None => status'[mold[k]] \in {"GAME", "LOGOUT"}
  BY <1>1, <1>2 DEF RecordInv, TypeOK
<1>9. \A p \in Player : mplayers[p] # None => status'[mplayers[p]] # "none"
  BY <1>1, <1>2 DEF RecordInv, TypeOK
<1> QED
  BY <1>2, <1>3, <1>7, <1>8, <1>9 DEF RecordInv

LEMMA RecordKickKicked ==
  ASSUME FlowInv, RecordInv, NEW r \in Req, ReqKickKicked(r)
  PROVE  RecordInv'
<1> DEFINE j == Kick(r)
           s == PlayerOf[r]
<1>1. TypeOK /\ j \in Job /\ j[2] = r /\ CallInv(j) /\ s \in Player
  BY JobProperties, LoginFlowAssumption DEF FlowInv
<1>2. PICK b \in Req : b = mold[j]
  BY <1>1 DEF ReqKickKicked, CallInv
<1>3. /\ mpc[j] = "kicked" /\ SendExit(b)
      /\ UNCHANGED <<status, mold, agent>>
      /\ mpc'[j] = "done" /\ \A k \in Job : k # j => mpc'[k] = mpc[k]
      /\ \A p \in Player : mplayers'[p] = IF p = s THEN None ELSE mplayers[p]
  BY <1>1, <1>2 DEF ReqKickKicked, TypeOK
<1>4. PlayerOf[b] = s
  BY <1>1, <1>2, LoginFlowAssumption DEF RecordInv
<1>5. /\ \A a \in Req : a # b => abox'[a] = abox[a]
      /\ \A a \in Req : agent[a] = "none" => abox'[a] = << >>
  BY <1>1, <1>3, SendExitTold
<1> HIDE DEF j
<1>6. \A q \in Req : Login(q) \in Job /\ Login(q) # j
  BY JobProperties DEF j
<1>7. ASSUME NEW a \in Req PROVE StatusInv(a)'
  BY <1>3, <1>5, <1>6 DEF RecordInv, StatusInv
<1>8. \A q \in Req : Replacing(q) => Replacing(q)'
  BY <1>3, <1>6 DEF Replacing
<1>9. ASSUME NEW a \in Req PROVE LogoutInv(a)'
  <2>1. CASE PlayerOf[a] = s
    BY <1>1, <1>3, <2>1, LoginFlowAssumption DEF LogoutInv
  <2>2. CASE PlayerOf[a] # s
    <3>1. PlayerOf[a] \in Player /\ mplayers'[PlayerOf[a]] = mplayers[PlayerOf[a]]
      BY <1>3, <2>2, LoginFlowAssumption
    <3>2. \A q \in Req : mold[Kick(q)] = a => Kick(q) \in Job /\ Kick(q) # j
      BY <1>2, <1>4, <2>2, JobProperties
    <3>3. Removing(a) => Removing(a)'
      BY <1>3, <1>8, <3>2 DEF Removing
    <3>4. Told(a)' => Told(a)
      BY <1>4, <1>5, <2>2 DEF Told
    <3> QED
      BY <1>3, <1>8, <3>1, <3>3, <3>4 DEF RecordInv, LogoutInv
  <2> QED
    BY <2>1, <2>2
<1> QED
  BY <1>3, <1>7, <1>9 DEF RecordInv

LEMMA RecordNewService ==
  ASSUME FlowInv, RecordInv, NEW r \in Req, NewService(r)
  PROVE  RecordInv'
<1>1. TypeOK /\ Login(r) \in Job
  BY JobProperties DEF FlowInv
<1>2. /\ mpc[Login(r)] = "spawn" /\ UNCHANGED <<mplayers, status, mold, abox>>
      /\ \A k \in Job : k # Login(r) => mpc'[k] = mpc[k]
      /\ \A a \in Req : a # r => agent'[a] = agent[a]
  BY <1>1 DEF NewService, TypeOK
<1>3. \/ agent'[r] = "alive" /\ mpc'[Login(r)] = "spawned"
      \/ agent'[r] = agent[r] /\ mpc'[Login(r)] = "spawnfail"
  BY <1>1 DEF NewService, TypeOK
<1>4. ASSUME NEW a \in Req PROVE StatusInv(a)'
  <2>1. Login(a) \in Job /\ (a # r => Login(a) # Login(r))
    BY JobProperties
  <2>2. CASE a = r
    BY <1>2, <1>3, <2>2 DEF RecordInv, StatusInv
  <2>3. CASE a # r
    BY <1>2, <2>1, <2>3 DEF RecordInv, StatusInv
  <2> QED
    BY <2>2, <2>3
<1>5. \A q \in Req : Replacing(q) => Replacing(q)'
  BY <1>2, JobProperties DEF Replacing
<1>6. \A a \in Req : Removing(a) => Removing(a)'
  BY <1>2, <1>5, JobProperties DEF Removing
<1>7. \A a \in Req : Told(a)' => Told(a)
  BY <1>2 DEF Told
<1>8. \A a \in Req : agent'[a] = "exited" => agent[a] = "exited"
  BY <1>2, <1>3
<1>9. ASSUME NEW a \in Req PROVE LogoutInv(a)'
  BY <1>2, <1>5, <1>6, <1>7, <1>8 DEF RecordInv, LogoutInv
<1> QED
  BY <1>2, <1>4, <1>9 DEF RecordInv

\* The exit of an agent was asked for by the handler that replaces its record;
\* it fails the other handlers that wait for the agent.
LEMMA RecordExit ==
  ASSUME FlowInv, RecordInv, NEW b \in Req, AgentExit(b)
  PROVE  RecordInv'
<1>1. TypeOK /\ \A j \in Job : CallInv(j)
  BY DEF FlowInv
<1>2. /\ agent[b] = "alive" /\ agent'[b] = "exited" /\ abox'[b] = << >>
      /\ \A a \in Req : a # b => agent'[a] = agent[a] /\ abox'[a] = abox[a]
      /\ UNCHANGED <<mplayers, status, mold>>
  BY <1>1 DEF AgentExit, TypeOK
<1>3. \A j \in Job : \/ mpc'[j] = mpc[j]
                     \/ /\ mpc[j] = "kick" /\ mpc'[j] = "kickerr"
                        /\ mold[j] = b
  BY <1>1 DEF AgentExit, Unanswered, CallInv
<1>4. Told(b)
  <2>1. abox[b] \in Seq(AgentMsg) /\ abox[b] # << >> /\ Head(abox[b]).cmd = "exit"
    BY <1>1 DEF AgentExit, TypeOK
  <2>2. 1 \in DOMAIN abox[b] /\ abox[b][1] = Head(abox[b])
    BY <2>1
  <2> QED
    BY <2>1, <2>2 DEF Told
<1>5. ASSUME NEW a \in Req PROVE StatusInv(a)'
  <2>1. \/ mpc'[Login(a)] = mpc[Login(a)]
        \/ mpc[Login(a)] = "kick" /\ mpc'[Login(a)] = "kickerr"
    BY <1>3, JobProperties
  <2>2. agent'[a] = "none" <=> agent[a] = "none"
    BY <1>2
  <2>3. abox'[a] = abox[a] \/ abox'[a] = << >>
    BY <1>2
  <2> QED
    BY <1>2, <2>1, <2>2, <2>3 DEF RecordInv, StatusInv
<1>6. \A q \in Req : Replacing(q) => Replacing(q)'
  BY <1>3, JobProperties DEF Replacing
<1>7. ASSUME NEW a \in Req PROVE LogoutInv(a)'
  <2>1. CASE a = b
    <3>1. CASE mplayers[PlayerOf[a]] = a
      <4>1. PICK q \in Req : Replacing(q) /\ mold[Login(q)] = a
        BY <1>4, <2>1, <3>1 DEF RecordInv, LogoutInv
      <4>2. Replacing(q)' /\ mold'[Login(q)] = a
        BY <1>2, <1>6, <4>1
      <4> QED
        BY <4>2 DEF LogoutInv, Removing
    <3>2. CASE mplayers[PlayerOf[a]] # a
      BY <1>2, <3>2 DEF LogoutInv
    <3> QED
      BY <3>1, <3>2
  <2>2. CASE a # b
    <3>1. Removing(a) => Removing(a)'
      BY <1>2, <1>3, <1>6, <2>2, JobProperties DEF Removing
    <3>2. Told(a)' => Told(a)
      BY <1>2, <2>2 DEF Told
    <3> QED
      BY <1>2, <1>6, <2>2, <3>1, <3>2 DEF RecordInv, LogoutInv
  <2> QED
    BY <2>1, <2>2
<1> QED
  BY <1>2, <1>5, <1>7 DEF RecordInv

LEMMA RecordStep == FlowInv /\ RecordInv /\ [Next]_vars => RecordInv'
<1> SUFFICES ASSUME FlowInv, RecordInv, [Next]_vars PROVE RecordInv'
  OBVIOUS
<1>1. TypeOK /\ PcInv /\ (\A j \in Job : CallInv(j)) /\ ExitInv
  BY DEF FlowInv
<1>2. \A a \in Req : agent[a] = "none" => abox[a] = << >>
  BY DEF RecordInv, StatusInv
\* Steps that send no agent anything.
<1>3. ASSUME UNCHANGED <<mplayers, status, mold, agent, abox>>,
             \A j \in Job : PlainMove(j)
      PROVE  RecordInv'
  BY <1>1, <1>2, <1>3, RecordPlain DEF Told
<1>4. ASSUME UNCHANGED <<mplayers, status, mold, agent, abox, mpc>> PROVE RecordInv'
  BY <1>3, <1>4 DEF PlainMove
<1>5. ASSUME NEW f \in Fd, Connect(f) \/ ProcessClose(f) PROVE RecordInv'
  BY <1>4, <1>5 DEF Connect, ProcessClose, mgrVars, agentVars
<1>6. ASSUME NEW r \in Req, ProcessLogin(r) \/ SureAgent(r) \/ SendByFd(r)
      PROVE  RecordInv'
  BY <1>4, <1>6 DEF ProcessLogin, SureAgent, SendByFd, mgrVars, agentVars
<1>7. ASSUME NEW r \in Req, PasswordChecked(r) \/ SureAgentGone(r) PROVE RecordInv'
  <2>1. UNCHANGED <<mplayers, status, mold, agent, abox>>
    BY <1>7 DEF PasswordChecked, SureAgentGone, agentVars
  <2>2. lpc[r] \in {"password", "sure"} =>
          mpc[Kick(r)] = "idle" /\ (lpc[r] = "password" => mpc[Login(r)] = "idle")
    BY <1>1 DEF PcInv
  <2>3. \/ UNCHANGED mpc
        \/ \E j \in Job : mpc[j] = "idle" /\ mpc' = [mpc EXCEPT ![j] = "queued"]
    BY <1>7, <2>2, JobProperties DEF PasswordChecked, SureAgentGone
  <2>4. \A j \in Job : PlainMove(j)
    BY <1>1, <2>3 DEF PlainMove, TypeOK
  <2> QED
    BY <1>3, <2>1, <2>4
<1>8. ASSUME NEW r \in Req,
             \/ ReqLoginRefused(r) \/ ReqLoginSpawnFailed(r) \/ ReqKickRefused(r)
             \/ KickError(Login(r)) \/ KickError(Kick(r))
      PROVE  RecordInv'
  <2>1. UNCHANGED <<mplayers, status, mold, agent, abox>>
    BY <1>8 DEF ReqLoginRefused, ReqLoginSpawnFailed, ReqKickRefused, KickError,
       agentVars
  <2>2. \E j \in Job : /\ mpc[j] \in {"queued", "kickerr", "spawnfail"}
                       /\ mpc' = [mpc EXCEPT ![j] = "done"]
    BY <1>8, JobProperties DEF ReqLoginRefused, ReqLoginSpawnFailed,
       ReqKickRefused, KickError
  <2>3. \A j \in Job : PlainMove(j)
    BY <1>1, <2>2 DEF PlainMove, TypeOK
  <2> QED
    BY <1>3, <2>1, <2>3
<1>9. ASSUME NEW r \in Req, ReqLoginFresh(r) \/ ReqLoginGateKicked(r) PROVE RecordInv'
  BY <1>9, RecordNew DEF ReqLoginFresh, ReqLoginGateKicked
<1>10. ASSUME NEW a \in Req, AgentKick(a) PROVE RecordInv'
  <2>1. /\ abox[a] \in Seq(AgentMsg) /\ abox[a] # << >> /\ agent[a] = "alive"
        /\ abox'[a] = Tail(abox[a])
        /\ \A b \in Req : b # a => abox'[b] = abox[b]
        /\ UNCHANGED <<mplayers, status, mold, agent, mpc>>
    BY <1>1, <1>10 DEF AgentKick, TypeOK, mgrVars
  <2>2. HasExit(abox'[a]) => HasExit(abox[a])
    BY <2>1, HasExitTail
  <2>3. \A b \in Req : Told(b)' => Told(b)
    BY <2>1, <2>2 DEF Told, HasExit
  <2>4. \A b \in Req : agent[b] = "none" => abox'[b] = << >>
    BY <1>2, <2>1
  <2> QED
    BY <1>1, <2>1, <2>3, <2>4, RecordPlain DEF PlainMove
<1>11. ASSUME NEW a \in Req, NEW j \in Job, AgentSaved(a, j) PROVE RecordInv'
  <2>1. mpc[j] = "kick"
    BY <1>1, <1>11 DEF AgentSaved, CallInv
  <2>2. \A k \in Job : PlainMove(k)
    BY <1>1, <1>11, <2>1 DEF AgentSaved, PlainMove, TypeOK
  <2> QED
    BY <1>3, <1>11, <2>2 DEF AgentSaved
<1>12. ASSUME NEW g \in Gate, GateSend(g) PROVE RecordInv'
  BY <1>4, <1>12 DEF GateSend, mgrVars, agentVars
<1>13. ASSUME NEW g \in Gate, GateKick(g) PROVE RecordInv'
  <2> DEFINE k == Head(gbox[g]).job
  <2>1. /\ gbox[g] # << >> /\ Head(gbox[g]).cmd = "kick"
        /\ mpc' = IF k = None THEN mpc ELSE [mpc EXCEPT ![k] = "gatekicked"]
        /\ UNCHANGED <<mplayers, status, mold, agent, abox>>
    BY <1>13 DEF GateKick, GateKickEnd, agentVars
  <2>2. k \in Job => mpc[k] = "gatekick"
    <3>1. gbox[g] \in Seq(GateMsg)
      BY <1>1 DEF TypeOK
    <3>2. 1 \in CallsIn(gbox[g], k)
      BY <2>1, <3>1 DEF CallsIn
    <3> QED
      BY <1>1, <3>2 DEF CallInv
  <2> HIDE DEF k
  <2>3. \A j \in Job : PlainMove(j)
    <3>1. CASE k = None
      BY <2>1, <3>1 DEF PlainMove
    <3>2. CASE k # None
      BY <1>1, <2>1, <2>2, <3>2 DEF PlainMove, TypeOK
    <3> QED
      BY <3>1, <3>2
  <2> QED
    BY <1>3, <2>1, <2>3
<1>14. CASE UNCHANGED vars
  BY <1>4, <1>14 DEF vars, mgrVars, agentVars
<1> QED
  BY <1>5, <1>6, <1>7, <1>8, <1>9, <1>10, <1>11, <1>12, <1>13, <1>14, NextCases,
     RecordReplace, RecordReqKick, RecordKicked, RecordSpawned,
     RecordKickKicked, RecordNewService, RecordExit

LEMMA RecordInvariant == Spec => [](FlowInv /\ RecordInv)
<1>1. Init => FlowInv /\ RecordInv
  BY TypeInit, PcInit, CallInit, ExitInit, RecordInit DEF FlowInv
<1>2. (FlowInv /\ RecordInv) /\ [Next]_vars => (FlowInv /\ RecordInv)'
  BY TypeStep, PcStep, CallStep, ExitStep, RecordStep DEF FlowInv
<1> QED
  BY <1>1, <1>2, PTL DEF Spec

\* No error path and no interleaving leaves a record in LOGOUT without a
\* handler of agentmgr that is taking it away (agentmgr 19, 53-58): also when a
\* second reqlogin makes the agent exit under the kick that a reqkick awaits.
THEOREM LogoutEnds == Spec => []LogoutIsUnderWay
<1>1. FlowInv /\ RecordInv => LogoutIsUnderWay
  <2> SUFFICES ASSUME TypeOK, RecordInv, NEW p \in Player,
                      mplayers[p] # None, status[mplayers[p]] = "LOGOUT"
               PROVE  \E j \in Job : mold[j] = mplayers[p] /\ Under(j)
    BY DEF LogoutIsUnderWay, FlowInv
  <2>1. mplayers[p] \in Req /\ PlayerOf[mplayers[p]] = p
    BY DEF TypeOK, RecordInv
  <2>2. Removing(mplayers[p])
    BY <2>1 DEF RecordInv, LogoutInv
  <2> QED
    BY <2>2, JobProperties DEF Removing, Replacing, Under
<1> QED
  BY <1>1, RecordInvariant, PTL

-----------------------------------------------------------------------------
(* Records in LOGIN.                                                       *)

LEMMA LoginRecordStep ==
  ~SpawnMayFail /\ FlowInv /\ RecordInv /\ LoginInv /\ [Next]_vars => LoginInv'
<1> SUFFICES ASSUME ~SpawnMayFail, FlowInv, RecordInv, LoginInv, [Next]_vars
             PROVE  LoginInv'
  OBVIOUS
<1>1. TypeOK /\ PcInv /\ (\A j \in Job : CallInv(j)) /\ ExitInv
  BY DEF FlowInv
\* Steps that put no record in LOGIN and take no handler out of newservice.
<1>2. ASSUME \A a \in Req : status'[a] = "LOGIN" => status[a] = "LOGIN",
             \A j \in Job : \/ mpc'[j] = mpc[j]
                            \/ /\ mpc[j] \notin {"spawn", "spawned"}
                               /\ mpc'[j] # "spawnfail"
      PROVE  LoginInv'
  BY <1>2, JobProperties DEF LoginInv
<1>3. ASSUME UNCHANGED status, NEW h \in Job, NEW x,
             mpc[h] \notin {"spawn", "spawned"}, x # "spawnfail",
             mpc' = [mpc EXCEPT ![h] = x]
      PROVE  LoginInv'
  BY <1>1, <1>2, <1>3 DEF TypeOK
<1>4. ASSUME NEW f \in Fd, Connect(f) \/ ProcessClose(f) PROVE LoginInv'
  BY <1>2, <1>4 DEF Connect, ProcessClose, mgrVars
<1>5. ASSUME NEW r \in Req,
             ProcessLogin(r) \/ SureAgent(r) \/ SendByFd(r) \/ AgentKick(r)
      PROVE  LoginInv'
  BY <1>2, <1>5 DEF ProcessLogin, SureAgent, SendByFd, AgentKick, mgrVars
<1>6. ASSUME NEW r \in Req, PasswordChecked(r) \/ SureAgentGone(r) PROVE LoginInv'
  <2>1. lpc[r] \in {"password", "sure"} =>
          mpc[Kick(r)] = "idle" /\ (lpc[r] = "password" => mpc[Login(r)] = "idle")
    BY <1>1 DEF PcInv
  <2> QED
    BY <1>2, <1>3, <1>6, <2>1, JobProperties DEF PasswordChecked, SureAgentGone
<1>7. ASSUME NEW r \in Req,
             \/ ReqLoginRefused(r) \/ ReqKickRefused(r)
             \/ KickError(Login(r)) \/ KickError(Kick(r))
             \/ ReqKickKicked(r) \/ ReqLoginReplace(r)
      PROVE  LoginInv'
  <2>1. Login(r) \in Job /\ Kick(r) \in Job
    BY JobProperties
  <2>2. CASE ReqLoginRefused(r) \/ ReqKickRefused(r)
    BY <1>3, <2>1, <2>2 DEF ReqLoginRefused, ReqKickRefused
  <2>3. CASE KickError(Login(r)) \/ KickError(Kick(r))
    BY <1>3, <2>1, <2>3 DEF KickError
  <2>4. CASE ReqKickKicked(r)
    BY <1>3, <2>1, <2>4 DEF ReqKickKicked
  <2>5. CASE ReqLoginReplace(r)
    BY <1>3, <2>1, <2>5 DEF ReqLoginReplace, CallKick
  <2> QED
    BY <1>7, <2>2, <2>3, <2>4, <2>5
<1>8. ASSUME NEW r \in Req, ReqLoginSpawnFailed(r) PROVE FALSE
  BY <1>8 DEF ReqLoginSpawnFailed, LoginInv
<1>9. ASSUME NEW r \in Req, ReqLoginFresh(r) \/ ReqLoginGateKicked(r) PROVE LoginInv'
  <2>1. /\ Login(r) \in Job /\ mpc'[Login(r)] = "spawn"
        /\ \A a \in Req : a # r => /\ mpc'[Login(a)] = mpc[Login(a)]
                                   /\ status'[a] = status[a]
    BY <1>1, <1>9, JobProperties
    DEF ReqLoginFresh, ReqLoginGateKicked, NewMgrPlayer, TypeOK
  <2> QED
    BY <2>1 DEF LoginInv
<1>10. ASSUME NEW r \in Req, ReqLoginKicked(r) \/ ReqKick(r) PROVE LoginInv'
  <2>1. \E h \in Job : \E x \in {"gatekick", "kick", "kickerr"} :
          /\ mpc[h] \in {"kicked", "queued"} /\ mpc' = [mpc EXCEPT ![h] = x]
    BY <1>10, JobProperties DEF ReqLoginKicked, ReqKick, CallKick
  <2>2. \A a \in Req : status'[a] = "LOGIN" => status[a] = "LOGIN"
    BY <1>1, <1>10 DEF ReqLoginKicked, ReqKick, TypeOK
  <2> QED
    BY <1>1, <1>2, <2>1, <2>2 DEF TypeOK
<1>11. ASSUME NEW r \in Req, ReqLoginSpawned(r) PROVE LoginInv'
  <2>1. /\ Login(r) \in Job /\ mpc'[Login(r)] = "done" /\ status'[r] = "GAME"
        /\ \A a \in Req : a # r => /\ mpc'[Login(a)] = mpc[Login(a)]
                                   /\ status'[a] = status[a]
    BY <1>1, <1>11, JobProperties DEF ReqLoginSpawned, TypeOK
  <2> QED
    BY <2>1 DEF LoginInv
<1>12. ASSUME NEW r \in Req, NewService(r) PROVE LoginInv'
  <2>1. /\ Login(r) \in Job /\ mpc'[Login(r)] = "spawned" /\ UNCHANGED status
        /\ \A a \in Req : a # r => mpc'[Login(a)] = mpc[Login(a)]
    BY <1>1, <1>12, JobProperties DEF NewService, TypeOK
  <2> QED
    BY <2>1 DEF LoginInv
<1>13. ASSUME NEW a \in Req, NEW j \in Job, AgentSaved(a, j) PROVE LoginInv'
  BY <1>1, <1>3, <1>13 DEF AgentSaved, CallInv
<1>14. ASSUME NEW a \in Req, AgentExit(a) PROVE LoginInv'
  <2>1. \A j \in Job : \/ mpc'[j] = mpc[j]
                       \/ mpc[j] = "kick" /\ mpc'[j] = "kickerr"
    BY <1>1, <1>14 DEF AgentExit, Unanswered, CallInv
  <2> QED
    BY <1>2, <1>14, <2>1 DEF AgentExit
<1>15. ASSUME NEW g \in Gate, GateSend(g) PROVE LoginInv'
  BY <1>2, <1>15 DEF GateSend, mgrVars
<1>16. ASSUME NEW g \in Gate, GateKick(g) PROVE LoginInv'
  <2> DEFINE k == Head(gbox[g]).job
  <2>1. /\ gbox[g] # << >> /\ Head(gbox[g]).cmd = "kick"
        /\ mpc' = IF k = None THEN mpc ELSE [mpc EXCEPT ![k] = "gatekicked"]
        /\ UNCHANGED status
    BY <1>16 DEF GateKick, GateKickEnd
  <2>2. k \in Job => mpc[k] = "gatekick"
    <3>1. gbox[g] \in Seq(GateMsg)
      BY <1>1 DEF TypeOK
    <3>2. 1 \in CallsIn(gbox[g], k)
      BY <2>1, <3>1 DEF CallsIn
    <3> QED
      BY <1>1, <3>2 DEF CallInv
  <2> HIDE DEF k
  <2>3. CASE k \notin Job
    BY <1>1, <1>2, <2>1, <2>3 DEF TypeOK
  <2>4. CASE k \in Job
    BY <1>3, <2>1, <2>2, <2>4, LoginFlowAssumption DEF Job
  <2> QED
    BY <2>3, <2>4
<1>17. CASE UNCHANGED vars
  BY <1>2, <1>17 DEF vars, mgrVars
<1> QED
  BY <1>4, <1>5, <1>6, <1>7, <1>8, <1>9, <1>10, <1>11, <1>12, <1>13, <1>14,
     <1>15, <1>16, <1>17, NextCases

\* While newservice does not fail, no player is ever locked out: a record that
\* refuses logins and kicks has a handler that is about to end that.
THEOREM RecordsEnd == ~SpawnMayFail => (Spec => []RecordIsUnderWay)
<1> SUFFICES ASSUME ~SpawnMayFail PROVE Spec => []RecordIsUnderWay
  OBVIOUS
<1>1. Init => LoginInv
  BY RecordInit
<1>2. (FlowInv /\ RecordInv) /\ LoginInv /\ [Next]_vars => LoginInv'
  BY LoginRecordStep
<1>3. (FlowInv /\ RecordInv) /\ LoginInv => LoginIsUnderWay
  <2> SUFFICES ASSUME TypeOK, LoginInv, NEW p \in Player,
                      mplayers[p] # None, status[mplayers[p]] = "LOGIN"
               PROVE  Under(Login(mplayers[p]))
    BY DEF LoginIsUnderWay, FlowInv
  <2> QED
    BY DEF TypeOK, LoginInv, Under
<1>4. Spec => []LoginIsUnderWay
  BY <1>1, <1>2, <1>3, RecordInvariant, PTL DEF Spec
<1>5. LoginIsUnderWay /\ LogoutIsUnderWay => RecordIsUnderWay
  BY DEF RecordIsUnderWay
<1> QED
  BY <1>4, <1>5, LogoutEnds, PTL

-----------------------------------------------------------------------------
(* Clients that wait for the answer of a login before they log in to the   *)
(* same account again: one agent at a time, and the agreement of agentmgr  *)
(* and the gateways.                                                       *)

LEMMA SerialInit == Init => SerialInv
BY JobProperties
DEF Init, SerialInv, Busy, HandlerInv, AgentInv, InPlay, Ended

\* What a step of request r leaves alone of the other requests: the record of
\* another player, the handlers, and the agents unless it saves one.
Bystander(r, q) ==
  /\ PlayerOf[q] # PlayerOf[r] => mplayers'[PlayerOf[q]] = mplayers[PlayerOf[q]]
  /\ lpc'[q] = lpc[q]
  /\ mpc'[Login(q)] = mpc[Login(q)] /\ mpc'[Kick(q)] = mpc[Kick(q)]
  /\ mold'[Login(q)] = mold[Login(q)] /\ mold'[Kick(q)] = mold[Kick(q)]
  /\ agent'[q] = agent[q]

\* A handler of a request under way: no other login of its player is, so the
\* handlers of other requests do not see the player's record change.
LEMMA OthersKeep ==
  ASSUME TypeOK, PcInv, SerialInv, NEW r \in Req, Busy(r),
         NEW q \in Req, q # r, Bystander(r, q), UNCHANGED saved
  PROVE  HandlerInv(q)'
<1>1. CASE PlayerOf[q] # PlayerOf[r]
  BY <1>1 DEF Bystander, SerialInv, HandlerInv
<1>2. CASE PlayerOf[q] = PlayerOf[r]
  <2>1. ~Busy(q)
    BY <1>2 DEF SerialInv
  <2>2. mpc[Login(q)] \in {"idle", "done"} /\ mpc[Kick(q)] \in {"idle", "done"}
    BY <2>1 DEF PcInv, WaitsForMgr, Under, Busy, Ended
  <2> QED
    BY <2>2 DEF Bystander, HandlerInv
<1> QED
  BY <1>1, <1>2

\* A segment of a handler of r that leaves the record and the agents alone.
LEMMA PlainStep ==
  ASSUME TypeOK, PcInv, SerialInv, NEW r \in Req, Busy(r),
         UNCHANGED <<mplayers, agent, saved>>,
         \A q \in Req : q # r => Bystander(r, q),
         HandlerInv(r)',
         mpc[Login(r)] \in {"spawned", "done"}
           => mpc'[Login(r)] \in {"spawned", "done"},
         agent[r] # "none" => mpc'[Login(r)] \in {"spawned", "done"}
  PROVE  SerialInv'
<1>1. \A q, s \in Req : Busy(q)' /\ Busy(s)' /\ PlayerOf[q] = PlayerOf[s] => q = s
  BY DEF SerialInv, Bystander, Busy
<1>2. \A q \in Req : HandlerInv(q)'
  BY OthersKeep
<1>3. ASSUME NEW q \in Req PROVE AgentInv(q)'
  <2>1. CASE q = r
    BY <2>1 DEF SerialInv, AgentInv, InPlay
  <2>2. CASE q # r
    BY <2>2 DEF SerialInv, AgentInv, InPlay, Bystander
  <2> QED
    BY <2>1, <2>2
<1> QED
  BY <1>1, <1>2, <1>3 DEF SerialInv

\* NewMgrPlayer: the player had no agent in play.
LEMMA NewRecordStep ==
  ASSUME TypeOK, PcInv, SerialInv, NEW r \in Req,
         mpc[Login(r)] \in {"queued", "gatekicked"}, NewMgrPlayer(r),
         \A q \in Req : InPlay(q) => PlayerOf[q] # PlayerOf[r]
  PROVE  SerialInv'
<1>1. Busy(r) /\ lpc[r] = "reqlogin" /\ Login(r) \in Job /\ Kick(r) \in Job
  BY JobProperties DEF PcInv, WaitsForMgr, Under, Busy, Ended
<1>2. /\ mplayers' = [mplayers EXCEPT ![PlayerOf[r]] = r]
      /\ mpc' = [mpc EXCEPT ![Login(r)] = "spawn"]
      /\ UNCHANGED <<lpc, mold, agent, saved>>
  BY DEF NewMgrPlayer, agentVars
<1>3. PlayerOf[r] \in Player
  BY LoginFlowAssumption
<1>4. \A q \in Req : q # r => Bystander(r, q)
  BY <1>2, <1>3, JobProperties, LoginFlowAssumption DEF Bystander, TypeOK
<1>5. mplayers'[PlayerOf[r]] = r /\ mpc'[Login(r)] = "spawn"
      /\ mpc'[Kick(r)] = mpc[Kick(r)]
  BY <1>1, <1>2, <1>3, JobProperties DEF TypeOK
<1>6. \A q, s \in Req : Busy(q)' /\ Busy(s)' /\ PlayerOf[q] = PlayerOf[s] => q = s
  BY <1>2 DEF SerialInv, Busy
<1>7. HandlerInv(r)'
  BY <1>1, <1>5 DEF HandlerInv, PcInv
<1>8. \A q \in Req : HandlerInv(q)'
  BY <1>1, <1>2, <1>4, <1>7, OthersKeep
<1>9. ASSUME NEW q \in Req PROVE AgentInv(q)'
  <2>1. CASE q = r
    BY <1>2, <1>5, <2>1 DEF SerialInv, AgentInv, InPlay
  <2>2. CASE q # r
    <3>1. mpc'[Login(q)] = mpc[Login(q)]
      BY <1>4, <2>2 DEF Bystander
    <3>2. InPlay(q) => mplayers'[PlayerOf[q]] = q
      BY <1>4, <2>2 DEF Bystander, SerialInv, AgentInv
    <3> QED
      BY <1>2, <3>1, <3>2 DEF SerialInv, AgentInv, InPlay
  <2> QED
    BY <2>1, <2>2
<1> QED
  BY <1>6, <1>8, <1>9 DEF SerialInv

\* Steps of other services that resume handlers: from "kick" to "kicked" or
\* "kickerr", from "gatekick" to "gatekicked".
LEMMA ResumeStep ==
  ASSUME TypeOK, SerialInv, UNCHANGED <<lpc, mplayers, mold>>,
         \A a \in Req : saved[a] => saved'[a],
         \A a \in Req : saved'[a] => saved[a] \/ agent[a] # "none",
         \A a \in Req : \/ agent'[a] = agent[a]
                        \/ agent[a] = "alive" /\ agent'[a] = "exited",
         \A j \in Job : \/ mpc'[j] = mpc[j]
                        \/ mpc[j] = "kick" /\ mpc'[j] \in {"kicked", "kickerr"}
                        \/ mpc[j] = "gatekick" /\ mpc'[j] = "gatekicked"
  PROVE  SerialInv'
<1>1. \A q, s \in Req : Busy(q)' /\ Busy(s)' /\ PlayerOf[q] = PlayerOf[s] => q = s
  BY DEF SerialInv, Busy
<1>2. ASSUME NEW q \in Req PROVE HandlerInv(q)' /\ AgentInv(q)'
  <2>1. Login(q) \in Job /\ Kick(q) \in Job /\ HandlerInv(q) /\ AgentInv(q)
    BY JobProperties DEF SerialInv
  <2>2. HandlerInv(q)'
    BY <2>1 DEF HandlerInv
  <2>3. AgentInv(q)'
    BY <2>1 DEF AgentInv, InPlay
  <2> QED
    BY <2>2, <2>3
<1> QED
  BY <1>1, <1>2 DEF SerialInv

LEMMA SerialStep ==
  SerialLogins /\ FlowInv /\ SerialInv /\ [Next]_vars => SerialInv'
<1> SUFFICES ASSUME SerialLogins, FlowInv, SerialInv, [Next]_vars
             PROVE  SerialInv'
  OBVIOUS
<1>1. TypeOK /\ PcInv /\ (\A j \in Job : CallInv(j)) /\ ExitInv
  BY DEF FlowInv
<1>2. ASSUME UNCHANGED <<mplayers, agent, saved, mold, mpc>>,
             \A r, q \in Req : Busy(r)' /\ Busy(q)' /\ PlayerOf[r] = PlayerOf[q]
                               => r = q
      PROVE  SerialInv'
  BY <1>2 DEF SerialInv, HandlerInv, AgentInv, InPlay
<1>3. ASSUME NEW f \in Fd, Connect(f) \/ ProcessClose(f) PROVE SerialInv'
  BY <1>2, <1>3 DEF Connect, ProcessClose, mgrVars, agentVars, SerialInv, Busy
<1>4. ASSUME NEW r \in Req, ProcessLogin(r) PROVE SerialInv'
  <2>1. \A q \in Req \ {r} : PlayerOf[q] = PlayerOf[r] => ~Busy(q)
    BY <1>4 DEF ProcessLogin, MayLogIn, Busy
  <2>2. \A q \in Req \ {r} : Busy(q)' => Busy(q)
    BY <1>1, <1>4 DEF ProcessLogin, Busy, TypeOK
  <2>3. \A s, q \in Req : Busy(s)' /\ Busy(q)' /\ PlayerOf[s] = PlayerOf[q]
                          => s = q
    BY <2>1, <2>2 DEF SerialInv
  <2>4. UNCHANGED <<mplayers, agent, saved, mold, mpc>>
    BY <1>4 DEF ProcessLogin, mgrVars, agentVars
  <2> QED
    BY <1>2, <2>3, <2>4
<1>5. ASSUME NEW r \in Req, SureAgent(r) \/ SendByFd(r) PROVE SerialInv'
  <2>1. \A q \in Req : Busy(q)' => Busy(q)
    BY <1>1, <1>5 DEF SureAgent, SendByFd, Busy, Ended, TypeOK
  <2>2. UNCHANGED <<mplayers, agent, saved, mold, mpc>>
    BY <1>5 DEF SureAgent, SendByFd, mgrVars, agentVars
  <2> QED
    BY <1>2, <2>1, <2>2 DEF SerialInv
\* A segment of a handler that changes nothing but its own place.
<1>6. ASSUME NEW r \in Req, Busy(r), UNCHANGED <<mplayers, agent, saved>>,
             \A q \in Req : q # r => lpc'[q] = lpc[q],
             \A j \in Job : j \notin {Login(r), Kick(r)}
                              => mpc'[j] = mpc[j] /\ mold'[j] = mold[j],
             HandlerInv(r)',
             mpc[Login(r)] \in {"spawned", "done"}
               => mpc'[Login(r)] \in {"spawned", "done"},
             agent[r] # "none" => mpc'[Login(r)] \in {"spawned", "done"}
      PROVE  SerialInv'
  <2>1. \A q \in Req : q # r => Bystander(r, q)
    BY <1>6, JobProperties DEF Bystander
  <2> QED
    BY <1>1, <1>6, <2>1, PlainStep
<1>7. \A r \in Req : /\ Under(Login(r)) \/ Under(Kick(r)) => Busy(r)
                     /\ lpc[r] \in {"password", "reqlogin", "sure"} => Busy(r)
                     /\ HandlerInv(r)
                     /\ agent[r] # "none" => mpc[Login(r)] \in {"spawned", "done"}
  BY <1>1 DEF PcInv, WaitsForMgr, Busy, Ended, SerialInv, AgentInv
<1>8. ASSUME NEW r \in Req, PasswordChecked(r) \/ SureAgentGone(r) PROVE SerialInv'
  <2>1. /\ Busy(r) /\ UNCHANGED <<mplayers, agent, saved, mold>>
        /\ \A q \in Req : q # r => lpc'[q] = lpc[q]
        /\ \/ UNCHANGED mpc
           \/ lpc[r] = "password" /\ mpc' = [mpc EXCEPT ![Login(r)] = "queued"]
           \/ mpc' = [mpc EXCEPT ![Kick(r)] = "queued"]
    BY <1>1, <1>7, <1>8 DEF PasswordChecked, SureAgentGone, agentVars, TypeOK
  <2>2. lpc[r] = "password" => mpc[Login(r)] = "idle"
    BY <1>1 DEF PcInv
  <2>3. HandlerInv(r)'
    BY <1>1, <1>7, <2>1, JobProperties DEF HandlerInv, TypeOK
  <2>4. /\ mpc[Login(r)] \in {"spawned", "done"} => mpc'[Login(r)] = mpc[Login(r)]
        /\ \A j \in Job : j \notin {Login(r), Kick(r)} => mpc'[j] = mpc[j]
    BY <1>1, <2>1, <2>2, JobProperties DEF TypeOK
  <2> QED
    BY <1>6, <1>7, <2>1, <2>3, <2>4
\* The segments that end a handler.
<1>9. ASSUME NEW r \in Req, NEW h \in {Login(r), Kick(r)}, Under(h),
             mpc' = [mpc EXCEPT ![h] = "done"],
             UNCHANGED <<mplayers, agent, saved, mold>>,
             \A q \in Req : q # r => lpc'[q] = lpc[q]
      PROVE  SerialInv'
  <2>1. HandlerInv(r)'
    BY <1>1, <1>7, <1>9, JobProperties DEF HandlerInv, TypeOK
  <2>2. /\ mpc[Login(r)] \in {"spawned", "done"}
             => mpc'[Login(r)] \in {"spawned", "done"}
        /\ \A j \in Job : j \notin {Login(r), Kick(r)} => mpc'[j] = mpc[j]
    BY <1>1, <1>9, JobProperties DEF TypeOK
  <2> QED
    BY <1>6, <1>7, <1>9, <2>1, <2>2
<1>10. ASSUME NEW r \in Req,
              \/ ReqLoginRefused(r) \/ ReqLoginSpawned(r)
              \/ ReqLoginSpawnFailed(r) \/ ReqKickRefused(r)
              \/ KickError(Login(r)) \/ KickError(Kick(r))
       PROVE  SerialInv'
  <2>1. \E h \in {Login(r), Kick(r)} :
          Under(h) /\ mpc' = [mpc EXCEPT ![h] = "done"]
    BY <1>10 DEF ReqLoginRefused, ReqLoginSpawned, ReqLoginSpawnFailed,
       ReqKickRefused, KickError, Under
  <2>2. UNCHANGED <<mplayers, agent, saved, mold>>
    BY <1>10 DEF ReqLoginRefused, ReqLoginSpawned, ReqLoginSpawnFailed,
       ReqKickRefused, KickError, agentVars
  <2>3. \A q \in Req : q # r => lpc'[q] = lpc[q]
    BY <1>1, <1>10, JobProperties DEF ReqLoginRefused, ReqLoginSpawned,
       ReqLoginSpawnFailed, ReqKickRefused, KickError, TypeOK
  <2> QED
    BY <1>9, <2>1, <2>2, <2>3
<1>11. ASSUME NEW r \in Req, ReqLoginReplace(r) \/ ReqKick(r) PROVE SerialInv'
  <2>1. PICK h \in {Login(r), Kick(r)} :
          /\ mpc[h] = "queued" /\ mold' = [mold EXCEPT ![h] = mplayers[PlayerOf[r]]]
          /\ \/ mpc' = [mpc EXCEPT ![h] = "kick"]
             \/ mpc' = [mpc EXCEPT ![h] = "kickerr"]
    BY <1>11 DEF ReqLoginReplace, ReqKick, CallKick
  <2>2. UNCHANGED <<mplayers, agent, saved, lpc>>
    BY <1>11 DEF ReqLoginReplace, ReqKick
  <2>3. Busy(r) /\ Login(r) \in Job /\ Kick(r) \in Job /\ Login(r) # Kick(r)
    BY <1>7, <2>1, JobProperties DEF Under
  <2>4. \A j \in Job : j # h => mpc'[j] = mpc[j] /\ mold'[j] = mold[j]
    BY <1>1, <2>1 DEF TypeOK
  <2>5. mpc'[h] \in {"kick", "kickerr"} /\ mold'[h] = mplayers'[PlayerOf[r]]
    BY <1>1, <2>1, <2>2, <2>3 DEF TypeOK
  <2>6. HandlerInv(r)'
    BY <1>7, <2>2, <2>3, <2>4, <2>5 DEF HandlerInv
  <2>7. mpc[Login(r)] \in {"spawned", "done"} => mpc'[Login(r)] = mpc[Login(r)]
    BY <2>1, <2>3, <2>4
  <2>8. agent[r] # "none" => mpc'[Login(r)] \in {"spawned", "done"}
    BY <1>7, <2>7
  <2> QED
    BY <1>6, <2>2, <2>3, <2>4, <2>6, <2>7, <2>8
<1>12. ASSUME NEW r \in Req, ReqLoginFresh(r) \/ ReqLoginGateKicked(r)
       PROVE  SerialInv'
  <2>1. ASSUME NEW q \in Req, InPlay(q), PlayerOf[q] = PlayerOf[r] PROVE FALSE
    <3>1. mplayers[PlayerOf[r]] = q
      BY <2>1 DEF SerialInv, AgentInv
    <3>2. ~ReqLoginFresh(r)
      BY <3>1, LoginFlowAssumption DEF ReqLoginFresh
    <3>3. mpc[Login(r)] = "gatekicked"
      BY <1>12, <3>2 DEF ReqLoginGateKicked
    <3> QED
      BY <1>7, <2>1, <3>1, <3>3 DEF HandlerInv, InPlay
  <2>2. mpc[Login(r)] \in {"queued", "gatekicked"} /\ NewMgrPlayer(r)
    BY <1>12 DEF ReqLoginFresh, ReqLoginGateKicked
  <2> QED
    BY <1>1, <2>1, <2>2, NewRecordStep
<1>13. ASSUME NEW r \in Req, ReqLoginKicked(r) PROVE SerialInv'
  <2>1. /\ mpc[Login(r)] = "kicked" /\ mpc' = [mpc EXCEPT ![Login(r)] = "gatekick"]
        /\ UNCHANGED <<mplayers, agent, saved, mold, lpc>>
    BY <1>13 DEF ReqLoginKicked
  <2>2. Busy(r) /\ Login(r) \in Job /\ Kick(r) \in Job /\ Login(r) # Kick(r)
    BY <1>7, <2>1, JobProperties DEF Under
  <2>3. mold[Login(r)] \in Req /\ saved[mold[Login(r)]]
    BY <1>1, <2>1, <2>2 DEF CallInv
  <2>4. \A j \in Job : j # Login(r) => mpc'[j] = mpc[j]
    BY <1>1, <2>1 DEF TypeOK
  <2>5. HandlerInv(r)'
    BY <1>7, <2>1, <2>2, <2>3, <2>4 DEF HandlerInv
  <2>6. agent[r] = "none"
    BY <1>7, <2>1
  <2> QED
    BY <1>6, <2>1, <2>2, <2>4, <2>5, <2>6
<1>14. ASSUME NEW r \in Req, ReqKickKicked(r) PROVE SerialInv'
  <2> DEFINE p == PlayerOf[r]
  <2>1. /\ mpc[Kick(r)] = "kicked" /\ mpc' = [mpc EXCEPT ![Kick(r)] = "done"]
        /\ mplayers' = [mplayers EXCEPT ![p] = None]
        /\ lpc' = [lpc EXCEPT ![r] = "fail"]
        /\ UNCHANGED <<agent, saved, mold>>
    BY <1>14 DEF ReqKickKicked
  <2>2. Busy(r) /\ Login(r) \in Job /\ Kick(r) \in Job /\ Login(r) # Kick(r)
    BY <1>7, <2>1, JobProperties DEF Under
  <2>3. mplayers[p] \in Req /\ saved[mplayers[p]]
    BY <1>1, <1>7, <2>1, <2>2 DEF CallInv, HandlerInv
  <2>4. lpc[r] = "reqkick"
    BY <1>1, <2>1 DEF PcInv, WaitsForMgr, Under
  <2>5. mpc[Login(r)] \in {"idle", "done"}
    BY <1>1, <2>4 DEF PcInv, WaitsForMgr, Under
  <2>6. mpc'[Login(r)] = mpc[Login(r)] /\ mpc'[Kick(r)] = "done"
    BY <1>1, <2>1, <2>2 DEF TypeOK
  <2>7. HandlerInv(r)'
    BY <2>5, <2>6 DEF HandlerInv
  <2>8. \A q \in Req : q # r => Bystander(r, q)
    BY <1>1, <2>1, JobProperties, LoginFlowAssumption DEF Bystander, TypeOK
  <2>9. \A q \in Req : HandlerInv(q)'
    BY <1>1, <2>1, <2>2, <2>7, <2>8, OthersKeep
  <2>10. \A q \in Req : Busy(q)' => Busy(q)
    BY <1>1, <2>1, <2>2 DEF Busy, TypeOK
  <2>11. ASSUME NEW q \in Req PROVE AgentInv(q)'
    <3>1. AgentInv(q) /\ mpc'[Login(q)] = mpc[Login(q)]
      BY <2>6, <2>8 DEF SerialInv, Bystander
    <3>2. InPlay(q) => PlayerOf[q] # p
      BY <2>3, <3>1 DEF AgentInv, InPlay
    <3>3. InPlay(q) => mplayers'[PlayerOf[q]] = q
      BY <1>1, <2>1, <3>1, <3>2, LoginFlowAssumption DEF AgentInv, TypeOK
    <3> QED
      BY <2>1, <3>1, <3>3 DEF AgentInv, InPlay
  <2> QED
    BY <2>9, <2>10, <2>11 DEF SerialInv
<1>15. ASSUME NEW r \in Req, NewService(r) PROVE SerialInv'
  <2>1. /\ mpc[Login(r)] = "spawn" /\ UNCHANGED <<lpc, mplayers, mold, saved>>
        /\ \/ /\ agent' = [agent EXCEPT ![r] = "alive"]
              /\ mpc' = [mpc EXCEPT ![Login(r)] = "spawned"]
           \/ mpc' = [mpc EXCEPT ![Login(r)] = "spawnfail"] /\ UNCHANGED agent
    BY <1>15 DEF NewService
  <2>2. Login(r) \in Job /\ Kick(r) \in Job /\ mplayers[PlayerOf[r]] = r
        /\ agent[r] = "none" /\ ~saved[r]
    BY <1>7, <2>1, JobProperties DEF HandlerInv, SerialInv, AgentInv
  <2>3. \A q \in Req : q # r => /\ mpc'[Login(q)] = mpc[Login(q)]
                                /\ agent'[q] = agent[q]
    BY <1>1, <2>1, JobProperties DEF TypeOK
  <2>4. \A q \in Req : mpc'[Kick(q)] = mpc[Kick(q)]
    BY <1>1, <2>1, JobProperties DEF TypeOK
  <2>5. \/ mpc'[Login(r)] = "spawned" /\ agent'[r] = "alive"
        \/ mpc'[Login(r)] = "spawnfail" /\ agent'[r] = "none"
    BY <1>1, <2>1, <2>2 DEF TypeOK
  <2>6. \A q \in Req : HandlerInv(q)'
    BY <1>7, <2>1, <2>2, <2>3, <2>4, <2>5 DEF HandlerInv
  <2>7. \A q \in Req : AgentInv(q)'
    BY <2>1, <2>2, <2>3, <2>5 DEF SerialInv, AgentInv, InPlay
  <2> QED
    BY <2>1, <2>6, <2>7 DEF SerialInv, Busy
<1>16. ASSUME NEW a \in Req, AgentKick(a) PROVE SerialInv'
  BY <1>2, <1>16 DEF AgentKick, mgrVars, SerialInv, Busy
<1>17. ASSUME NEW a \in Req, NEW j \in Job, AgentSaved(a, j) PROVE SerialInv'
  <2>1. mpc[j] = "kick"
    BY <1>1, <1>17 DEF AgentSaved, CallInv
  <2>2. /\ UNCHANGED <<lpc, mplayers, mold, agent>> /\ agent[a] = "alive"
        /\ \A b \in Req : b # a => saved'[b] = saved[b]
        /\ saved'[a]
        /\ \A k \in Job : mpc'[k] = IF k = j THEN "kicked" ELSE mpc[k]
    BY <1>1, <1>17 DEF AgentSaved, TypeOK
  <2> QED
    BY <1>1, <2>1, <2>2, ResumeStep
<1>18. ASSUME NEW a \in Req, AgentExit(a) PROVE SerialInv'
  <2>1. \A k \in Job : k \in Unanswered(a) => mpc[k] = "kick"
    BY <1>1 DEF Unanswered, CallInv
  <2>2. /\ UNCHANGED <<lpc, mplayers, mold, saved>> /\ agent[a] = "alive"
        /\ agent'[a] = "exited" /\ \A b \in Req : b # a => agent'[b] = agent[b]
        /\ \A k \in Job : mpc'[k] = IF k \in Unanswered(a) THEN "kickerr" ELSE mpc[k]
    BY <1>1, <1>18 DEF AgentExit, TypeOK
  <2> QED
    BY <1>1, <2>1, <2>2, ResumeStep
<1>19. ASSUME NEW g \in Gate, GateSend(g) PROVE SerialInv'
  BY <1>2, <1>19 DEF GateSend, mgrVars, agentVars, SerialInv, Busy
<1>20. ASSUME NEW g \in Gate, GateKick(g) PROVE SerialInv'
  <2> DEFINE k == Head(gbox[g]).job
  <2>1. /\ gbox[g] # << >> /\ Head(gbox[g]).cmd = "kick"
        /\ mpc' = IF k = None THEN mpc ELSE [mpc EXCEPT ![k] = "gatekicked"]
        /\ UNCHANGED <<lpc, mplayers, mold, agent, saved>>
    BY <1>20 DEF GateKick, GateKickEnd, agentVars
  <2>2. k \in Job => mpc[k] = "gatekick"
    <3>1. gbox[g] \in Seq(GateMsg)
      BY <1>1 DEF TypeOK
    <3>2. 1 \in CallsIn(gbox[g], k)
      BY <2>1, <3>1 DEF CallsIn
    <3> QED
      BY <1>1, <3>2 DEF CallInv
  <2> HIDE DEF k
  <2>3. \A j \in Job : \/ mpc'[j] = mpc[j]
                       \/ mpc[j] = "gatekick" /\ mpc'[j] = "gatekicked"
    <3>1. mpc \in [Job -> MgrPc]
      BY <1>1 DEF TypeOK
    <3>2. CASE k = None
      BY <2>1, <3>2
    <3>3. CASE k # None
      <4>1. mpc' = [mpc EXCEPT ![k] = "gatekicked"]
        BY <2>1, <3>3
      <4>2. \A j \in Job : j # k => mpc'[j] = mpc[j]
        BY <3>1, <4>1
      <4>3. k \in Job => mpc'[k] = "gatekicked"
        BY <3>1, <4>1
      <4> QED
        BY <2>2, <4>2, <4>3
    <3> QED
      BY <3>2, <3>3
  <2> QED
    BY <1>1, <2>1, <2>3, ResumeStep
<1>21. ASSUME UNCHANGED vars PROVE SerialInv'
  BY <1>2, <1>21 DEF vars, mgrVars, agentVars, SerialInv, Busy
<1>22. CASE Next
  BY <1>3, <1>4, <1>5, <1>8, <1>10, <1>11, <1>12, <1>13, <1>14, <1>15, <1>16,
     <1>17, <1>18, <1>19, <1>20, <1>21, <1>22, NextCases
<1> QED
  BY <1>21, <1>22

\* With serial logins a player never has two agents in play, whatever the
\* order in which the services take their messages and whichever calls fail:
\* what agentmgr is there for (docs/service/service.md 13).
THEOREM SerialOneAgent == SerialLogins => (Spec => []OneAgent)
<1>1. Init => FlowInv /\ SerialInv
  BY TypeInit, PcInit, CallInit, ExitInit, SerialInit DEF FlowInv
<1>2. SerialLogins /\ (FlowInv /\ SerialInv) /\ [Next]_vars => (FlowInv /\ SerialInv)'
  BY TypeStep, PcStep, CallStep, ExitStep, SerialStep DEF FlowInv
<1>3. FlowInv /\ SerialInv => OneAgent
  BY DEF SerialInv, AgentInv, OneAgent
<1> QED
  <2> SUFFICES ASSUME SerialLogins PROVE Spec => []OneAgent
    OBVIOUS
  <2>1. (FlowInv /\ SerialInv) /\ [Next]_vars => (FlowInv /\ SerialInv)'
    BY <1>2
  <2> QED
    BY <1>1, <1>3, <2>1, PTL DEF Spec

-----------------------------------------------------------------------------
(* The login flow implements Presence.                                     *)

LEMMA HolderSame ==
  ASSUME \A a \in Req : InPlay(a)' <=> InPlay(a), UNCHANGED saved
  PROVE  Holder' = Holder /\ Retired' = Retired
<1>1. \A p : InPlayOf(p)' = InPlayOf(p)
  BY DEF InPlayOf
<1> QED
  BY <1>1 DEF Holder, Retired

LEMMA OneOfProperties == OneOf({}) = None /\ \A a : OneOf({a}) = a
BY DEF OneOf

LEMMA HolderIsInPlay ==
  ASSUME SerialInv, NEW p \in Player
  PROVE  /\ \A a \in Req : InPlay(a) /\ PlayerOf[a] = p => Holder[p] = a
         /\ (\A a \in Req : InPlay(a) => PlayerOf[a] # p) => Holder[p] = None
<1>1. ASSUME NEW a \in Req, InPlay(a), PlayerOf[a] = p PROVE Holder[p] = a
  <2>1. InPlayOf(p) = {a}
    BY <1>1 DEF InPlayOf, SerialInv, AgentInv
  <2> QED
    BY <2>1, OneOfProperties DEF Holder
<1>2. ASSUME \A a \in Req : InPlay(a) => PlayerOf[a] # p PROVE Holder[p] = None
  <2>1. InPlayOf(p) = {}
    BY <1>2 DEF InPlayOf
  <2> QED
    BY <2>1, OneOfProperties DEF Holder
<1> QED
  BY <1>1, <1>2

LEMMA PresenceInit == Init => OnePresence!Init
<1> SUFFICES ASSUME Init PROVE OnePresence!Init
  OBVIOUS
<1>1. \A p : InPlayOf(p) = {}
  BY DEF Init, InPlayOf, InPlay
<1>2. Holder = [p \in Player |-> None]
  BY <1>1, OneOfProperties DEF Holder
<1> QED
  BY <1>2 DEF Init, OnePresence!Init, Retired

LEMMA PresenceStep ==
  FlowInv /\ SerialInv /\ SerialInv' /\ [Next]_vars
    => [OnePresence!Next]_<<Holder, Retired>>
<1> SUFFICES ASSUME FlowInv, SerialInv, SerialInv', [Next]_vars
             PROVE  OnePresence!Next \/ UNCHANGED <<Holder, Retired>>
  OBVIOUS
<1>1. TypeOK /\ PcInv /\ (\A j \in Job : CallInv(j)) /\ ExitInv
  BY DEF FlowInv
<1>2. ASSUME UNCHANGED <<agent, saved>> PROVE UNCHANGED <<Holder, Retired>>
  BY <1>2, HolderSame DEF InPlay
<1>3. ASSUME NEW r \in Req, NewService(r)
      PROVE  OnePresence!Next \/ UNCHANGED <<Holder, Retired>>
  <2> DEFINE p == PlayerOf[r]
  <2>1. CASE UNCHANGED agent
    BY <1>2, <1>3, <2>1 DEF NewService
  <2>2. CASE agent' = [agent EXCEPT ![r] = "alive"]
    <3>1. /\ p \in Player /\ mplayers[p] = r /\ agent[r] = "none" /\ ~saved[r]
          /\ UNCHANGED saved
      BY <1>3, LoginFlowAssumption
      DEF NewService, SerialInv, HandlerInv, AgentInv
    <3>2. \A a \in Req : InPlay(a)' <=> InPlay(a) \/ a = r
      BY <1>1, <2>2, <3>1 DEF InPlay, TypeOK
    <3>3. \A a \in Req : InPlay(a) => PlayerOf[a] # p
      BY <3>1 DEF SerialInv, AgentInv, InPlay
    <3>4. Holder[p] = None
      BY <3>1, <3>3, HolderIsInPlay
    <3>5. InPlayOf(p)' = {r}
      BY <3>2, <3>3 DEF InPlayOf
    <3>6. \A q \in Player : q # p => InPlayOf(q)' = InPlayOf(q)
      BY <3>2 DEF InPlayOf
    <3>7. Holder' = [Holder EXCEPT ![p] = r]
      BY <3>1, <3>5, <3>6, OneOfProperties DEF Holder
    <3>8. r \notin Retired /\ Retired' = Retired
      BY <3>1 DEF Retired
    <3> QED
      BY <3>4, <3>7, <3>8 DEF OnePresence!Next, OnePresence!Enter
  <2> QED
    BY <1>3, <2>1, <2>2 DEF NewService
<1>4. ASSUME NEW a \in Req, NEW j \in Job, AgentSaved(a, j)
      PROVE  OnePresence!Next \/ UNCHANGED <<Holder, Retired>>
  <2> DEFINE p == PlayerOf[a]
  <2>1. /\ p \in Player /\ agent[a] = "alive" /\ UNCHANGED agent
        /\ saved' = [saved EXCEPT ![a] = TRUE]
    BY <1>4, LoginFlowAssumption DEF AgentSaved
  <2>2. CASE saved[a]
    BY <1>1, <1>2, <2>1, <2>2 DEF TypeOK
  <2>3. CASE ~saved[a]
    <3>1. InPlay(a)
      BY <2>1, <2>3 DEF InPlay
    <3>2. Holder[p] = a
      BY <2>1, <3>1, HolderIsInPlay
    <3>3. \A b \in Req : InPlay(b)' <=> InPlay(b) /\ b # a
      BY <1>1, <2>1 DEF InPlay, TypeOK
    <3>4. InPlayOf(p)' = {}
      BY <3>1, <3>3 DEF InPlayOf, SerialInv, AgentInv
    <3>5. \A q \in Player : q # p => InPlayOf(q)' = InPlayOf(q)
      BY <3>3 DEF InPlayOf
    <3>6. Holder' = [Holder EXCEPT ![p] = None]
      BY <2>1, <3>4, <3>5, OneOfProperties DEF Holder
    <3>7. Retired' = Retired \cup {a}
      BY <1>1, <2>1 DEF Retired, TypeOK
    <3>8. a # None
      BY LoginFlowAssumption
    <3> QED
      BY <2>1, <3>2, <3>6, <3>7, <3>8 DEF OnePresence!Next, OnePresence!Leave
  <2> QED
    BY <2>2, <2>3
<1>5. ASSUME NEW a \in Req, AgentExit(a) PROVE UNCHANGED <<Holder, Retired>>
  <2>1. abox[a] \in Seq(AgentMsg) /\ abox[a] # << >> /\ Head(abox[a]).cmd = "exit"
    BY <1>1, <1>5 DEF AgentExit, TypeOK
  <2>2. 1 \in 1..Len(abox[a]) /\ abox[a][1] = Head(abox[a])
    BY <2>1
  <2>3. saved[a]
    BY <1>1, <2>1, <2>2 DEF ExitInv
  <2>4. agent' = [agent EXCEPT ![a] = "exited"] /\ UNCHANGED saved
    BY <1>5 DEF AgentExit
  <2>5. \A b \in Req : InPlay(b)' <=> InPlay(b)
    BY <1>1, <2>3, <2>4 DEF InPlay, TypeOK
  <2> QED
    BY <2>4, <2>5, HolderSame
<1>6. ASSUME NEW r \in Req,
             \/ ProcessLogin(r) \/ PasswordChecked(r)
             \/ ReqLoginRefused(r) \/ ReqLoginReplace(r) \/ ReqLoginFresh(r)
             \/ ReqLoginKicked(r) \/ ReqLoginGateKicked(r)
             \/ ReqLoginSpawned(r) \/ ReqLoginSpawnFailed(r)
             \/ ReqKickRefused(r) \/ ReqKick(r) \/ ReqKickKicked(r)
             \/ KickError(Login(r)) \/ KickError(Kick(r)) \/ AgentKick(r)
             \/ SureAgent(r) \/ SureAgentGone(r) \/ SendByFd(r)
      PROVE  UNCHANGED <<agent, saved>>
  BY <1>6 DEF ProcessLogin, PasswordChecked, ReqLoginRefused, ReqLoginReplace,
     ReqLoginFresh, ReqLoginKicked, ReqLoginGateKicked, ReqLoginSpawned,
     ReqLoginSpawnFailed, ReqKickRefused, ReqKick, ReqKickKicked, KickError,
     AgentKick, SureAgent, SureAgentGone, SendByFd, NewMgrPlayer, agentVars
<1>7. ASSUME NEW f \in Fd, Connect(f) \/ ProcessClose(f)
      PROVE  UNCHANGED <<agent, saved>>
  BY <1>7 DEF Connect, ProcessClose, agentVars
<1>8. ASSUME NEW g \in Gate, GateSend(g) \/ GateKick(g)
      PROVE  UNCHANGED <<agent, saved>>
  BY <1>8 DEF GateSend, GateKick, GateKickEnd, agentVars
<1>9. ASSUME UNCHANGED vars PROVE UNCHANGED <<agent, saved>>
  BY <1>9 DEF vars, agentVars
<1>10. CASE Next
  BY <1>2, <1>3, <1>4, <1>5, <1>6, <1>7, <1>8, <1>9, <1>10, NextCases
<1> QED
  BY <1>2, <1>9, <1>10

\* With serial logins the login flow implements Presence: an agent enters for a
\* player whom nobody plays for, and leaves, saved, before the next one enters.
THEOREM SerialPresence == SerialLogins => (Spec => OneAgentAtATime)
<1>1. Init => FlowInv /\ SerialInv
  BY TypeInit, PcInit, CallInit, ExitInit, SerialInit DEF FlowInv
<1>2. SerialLogins /\ (FlowInv /\ SerialInv) /\ [Next]_vars => (FlowInv /\ SerialInv)'
  BY TypeStep, PcStep, CallStep, ExitStep, SerialStep DEF FlowInv
<1> SUFFICES ASSUME SerialLogins PROVE Spec => OneAgentAtATime
  OBVIOUS
<1>3. (FlowInv /\ SerialInv) /\ [Next]_vars => (FlowInv /\ SerialInv)'
  BY <1>2
<1>4. (FlowInv /\ SerialInv) /\ (FlowInv /\ SerialInv)' /\ [Next]_vars
        => [OnePresence!Next]_<<Holder, Retired>>
  BY PresenceStep
<1> QED
  BY <1>1, <1>3, <1>4, PresenceInit, PTL
  DEF Spec, OneAgentAtATime, OnePresence!Spec

-----------------------------------------------------------------------------
(* The agreement of agentmgr and the gateways.                             *)

\* What is known of a state before one of its steps.
Before == /\ SerialLogins /\ FlowInv /\ SerialInv /\ RecordInv /\ SessionInv

LEMMA SessionInit == Init => SessionInv
<1> SUFFICES ASSUME Init PROVE SessionInv
  OBVIOUS
<1> USE JobProperties DEF Init
<1>1. GateplayerInv
  BY GateplayerInit
<1>2. OneConnection
  BY LoginFlowAssumption DEF OneConnection
<1>3. NoOrphan /\ KickedIsTold /\ \A f \in Fd : sock[f] = "up" => conn[f] # None
  BY DEF NoOrphan, KickedIsTold
<1>4. ASSUME NEW r \in Req PROVE LoggingInv(r) /\ ReplaceInv(r)
  BY DEF LoggingInv, ReplaceInv, Replacing, Busy
<1>5. ASSUME NEW p \in Player PROVE OnlineInv(p)
  BY DEF OnlineInv
<1>6. ASSUME NEW g \in Gate PROVE NoticeInv(g)
  BY DEF NoticeInv
<1> QED
  BY <1>1, <1>2, <1>3, <1>4, <1>5, <1>6 DEF SessionInv

-----------------------------------------------------------------------------
(* What the invariants say of one state.                                   *)

LEMMA Handlers ==
  ASSUME Before, NEW r \in Req
  PROVE  /\ Login(r) \in Job /\ Kick(r) \in Job /\ mpc[Kick(r)] = "idle"
         /\ mpc[Login(r)] \notin {"idle", "done"} <=> lpc[r] = "reqlogin"
         /\ lpc[r] \in {"password", "reqlogin", "sure", "success", "fail"} => Busy(r)
BY JobProperties
DEF Before, SessionInv, LoggingInv, FlowInv, PcInv, WaitsForMgr, Under, Busy, Ended

\* A login under way is its player's only one.
LEMMA OnlyLogin ==
  ASSUME Before, NEW r \in Req, NEW q \in Req, PlayerOf[q] = PlayerOf[r],
         lpc[r] \in {"password", "reqlogin", "sure"},
         lpc[q] \in {"password", "reqlogin", "sure"}
  PROVE  q = r
BY DEF Before, SerialInv, Busy, Ended

\* A handler that replaces a record works on the record of its player.
LEMMA Replaced ==
  ASSUME Before, NEW r \in Req, Replacing(r)
  PROVE  /\ mold[Login(r)] \in Req
         /\ mplayers[PlayerOf[r]] = mold[Login(r)]
         /\ PlayerOf[mold[Login(r)]] = PlayerOf[r]
         /\ status[mold[Login(r)]] = "LOGOUT"
         /\ lpc[r] = "reqlogin"
<1>1. lpc[r] = "reqlogin" /\ Login(r) \in Job /\ Login(r)[2] = r
  BY Handlers, JobProperties DEF Replacing
<1>2. mplayers[PlayerOf[r]] = mold[Login(r)] /\ mold[Login(r)] \in Req
  BY DEF Replacing, Before, SerialInv, HandlerInv
<1>3. status[mold[Login(r)]] = "LOGOUT"
  BY DEF Before, SessionInv, ReplaceInv
<1> QED
  BY <1>1, <1>2, <1>3, LoginFlowAssumption DEF Before, RecordInv

\* A call of "kick" to a gateway is a handler's that replaces a record.
LEMMA GateKickIsCall ==
  ASSUME Before, NEW g \in Gate, NEW i \in 1..Len(gbox[g]), gbox[g][i].cmd = "kick"
  PROVE  \E r \in Req : /\ gbox[g][i].job = Login(r)
                        /\ PlayerOf[r] = gbox[g][i].player
                        /\ mpc[Login(r)] = "gatekick" /\ Replacing(r)
                        /\ GateOfReq(mold[Login(r)]) = g
<1>1. PICK r \in Req : gbox[g][i].job = Login(r) /\ PlayerOf[r] = gbox[g][i].player
  BY DEF Before, SessionInv, NoticeInv
<1>2. i \in CallsIn(gbox[g], Login(r))
  BY <1>1 DEF CallsIn
<1>3. Login(r) \in Job
  BY JobProperties
<1>4. mpc[Login(r)] = "gatekick" /\ GateOfReq(mold[Login(r)]) = g
  BY <1>2, <1>3 DEF Before, FlowInv, CallInv
<1> QED
  BY <1>1, <1>4 DEF Replacing

-----------------------------------------------------------------------------
(* Steps that leave the gateways and the records alone.                    *)

\* No agent comes alive, and one that is going goes on.
AgentsGo ==
  \A a \in Req :
    /\ agent'[a] = "alive" => agent[a] = "alive" /\ (Told(a) => Told(a)')
    /\ Told(a) \/ agent[a] = "exited" => Told(a)' \/ agent'[a] = "exited"

\* No login begins, gets its agent or ends with it.
LoginsGo ==
  \A r \in Req :
    /\ Busy(r)' => Busy(r)
    /\ lpc'[r] \in {"password", "reqlogin"} => lpc[r] \in {"password", "reqlogin"}
    /\ lpc'[r] = "sure" <=> lpc[r] = "sure"
    /\ lpc[r] \in {"success", "online"} => lpc'[r] \in {"success", "online"}

\* No reqkick begins, and no handler takes a step with the gateways.
HandlersGo ==
  \A r \in Req :
    /\ mpc'[Kick(r)] = mpc[Kick(r)]
    /\ mpc'[Login(r)] \in {"gatekick", "gatekicked"}
         => /\ mpc'[Login(r)] = mpc[Login(r)]
            /\ mold'[Login(r)] = mold[Login(r)]

LEMMA SessionQuiet ==
  ASSUME Before, AgentsGo, LoginsGo, HandlersGo,
         UNCHANGED <<sock, conn, gplayers, gbox, told, mplayers, status>>
  PROVE  SessionInv'
<1> SessionInv /\ TypeOK
  BY DEF Before, FlowInv
<1>1. GateplayerInv' /\ OneConnection' /\ KickedIsTold'
  BY DEF SessionInv, GateplayerInv, OneConnection, KickedIsTold, GateOfReq
<1>2. NoOrphan'
  BY DEF SessionInv, NoOrphan, AgentsGo
<1>3. \A f \in Fd : sock'[f] = "up" => conn'[f] # None
  BY DEF SessionInv
<1>4. ASSUME NEW r \in Req PROVE LoggingInv(r)'
  BY DEF SessionInv, LoggingInv, LoginsGo, HandlersGo
<1>5. ASSUME NEW r \in Req PROVE ReplaceInv(r)'
  <2>1. CASE mpc'[Login(r)] \in {"gatekick", "gatekicked"}
    <3>1. /\ mpc'[Login(r)] = mpc[Login(r)] /\ mold'[Login(r)] = mold[Login(r)]
          /\ ReplaceInv(r) /\ Replacing(r)
      BY <2>1 DEF HandlersGo, SessionInv, Replacing
    <3>2. status[mold[Login(r)]] = "LOGOUT"
          /\ (Told(mold[Login(r)]) \/ agent[mold[Login(r)]] = "exited")
      BY <3>1 DEF ReplaceInv
    <3>3. mold[Login(r)] \in Req
      BY <3>1, Replaced
    <3> QED
      BY <3>1, <3>2, <3>3 DEF ReplaceInv, AgentsGo
  <2>2. CASE mpc'[Login(r)] \notin {"gatekick", "gatekicked"}
    BY <2>2 DEF ReplaceInv, Replacing
  <2> QED
    BY <2>1, <2>2
<1>6. ASSUME NEW p \in Player PROVE OnlineInv(p)'
  <2>1. mplayers[p] \in Req \cup {None} /\ OnlineInv(p)
    BY DEF SessionInv, TypeOK
  <2> QED
    BY <2>1 DEF OnlineInv, LoginsGo, GateOfReq
<1>7. ASSUME NEW g \in Gate PROVE NoticeInv(g)'
  BY DEF SessionInv, NoticeInv
<1> QED
  BY <1>1, <1>2, <1>3, <1>4, <1>5, <1>6, <1>7 DEF SessionInv

LEMMA AgentsStay == UNCHANGED <<agent, abox>> => AgentsGo
BY DEF AgentsGo, Told

\* A message goes to a mailbox that had none, or behind those it had.
LEMMA AgentsAppend ==
  ASSUME TypeOK, UNCHANGED agent, NEW b \in Req, NEW m \in AgentMsg,
         abox' = [abox EXCEPT ![b] = Append(@, m)]
  PROVE  AgentsGo
<1>1. abox[b] \in Seq(AgentMsg)
  BY DEF TypeOK
<1>2. HasExit(abox[b]) => HasExit(Append(abox[b], m))
  BY <1>1, HasExitAppend
<1>3. \A a \in Req : HasExit(abox[a]) => HasExit(abox'[a])
  BY <1>2 DEF TypeOK
<1>4. \A a \in Req : Told(a) => Told(a)'
  BY <1>3 DEF Told, HasExit
<1> QED
  BY <1>4 DEF AgentsGo

LEMMA QuietHandlers == \* the handlers that end, or call an agent
  ASSUME Before, NEW r \in Req,
         \/ PasswordChecked(r) \/ ReqLoginRefused(r) \/ ReqLoginSpawnFailed(r)
         \/ KickError(Login(r)) \/ ReqLoginReplace(r)
  PROVE  SessionInv'
<1>1. TypeOK /\ PcInv /\ Login(r) \in Job /\ Login(r)[2] = r
  BY JobProperties DEF Before, FlowInv
<1>2. UNCHANGED <<sock, conn, gplayers, gbox, told, mplayers, status, agent>>
  BY DEF PasswordChecked, ReqLoginRefused, ReqLoginSpawnFailed, KickError,
     ReqLoginReplace, gateVars, agentVars
<1>3. /\ \A q \in Req : mpc'[Kick(q)] = mpc[Kick(q)]
      /\ \A q \in Req : q # r => /\ mpc'[Login(q)] = mpc[Login(q)]
                                 /\ mold'[Login(q)] = mold[Login(q)]
      /\ mpc'[Login(r)] \in {"idle", "queued", "done", "kick", "kickerr"}
  <2>1. /\ \A j \in Job : j # Login(r) => mpc'[j] = mpc[j] /\ mold'[j] = mold[j]
        /\ mpc'[Login(r)] \in {"idle", "queued", "done", "kick", "kickerr"}
    BY <1>1 DEF PasswordChecked, ReqLoginRefused, ReqLoginSpawnFailed, KickError,
       ReqLoginReplace, CallKick, TypeOK, PcInv
  <2> QED
    BY <2>1, JobProperties
<1>4. HandlersGo
  <2> SUFFICES ASSUME NEW q \in Req
               PROVE  /\ mpc'[Kick(q)] = mpc[Kick(q)]
                      /\ mpc'[Login(q)] \in {"gatekick", "gatekicked"}
                           => /\ mpc'[Login(q)] = mpc[Login(q)]
                              /\ mold'[Login(q)] = mold[Login(q)]
    BY DEF HandlersGo
  <2>1. CASE q = r
    BY <1>3, <2>1
  <2>2. CASE q # r
    BY <1>3, <2>2
  <2> QED
    BY <2>1, <2>2
<1>5. \/ UNCHANGED lpc
      \/ /\ lpc[r] \in {"password", "reqlogin"}
         /\ \/ lpc' = [lpc EXCEPT ![r] = "fail"]
            \/ lpc' = [lpc EXCEPT ![r] = "reqlogin"]
  <2>1. mpc[Login(r)] \notin {"idle", "done"} => lpc[r] = "reqlogin"
    BY Handlers
  <2> QED
    BY <1>1, <2>1 DEF PasswordChecked, ReqLoginRefused, ReqLoginSpawnFailed,
       KickError, ReqLoginReplace
<1>6. LoginsGo
  BY <1>1, <1>5 DEF LoginsGo, Busy, Ended, TypeOK
<1>7. AgentsGo
  <2>1. CASE UNCHANGED abox
    BY <1>2, <2>1, AgentsStay
  <2>2. CASE ReqLoginReplace(r)
    <3>1. PICK b \in Req : b = mplayers[PlayerOf[r]]
      BY <1>1, <2>2, LoginFlowAssumption DEF ReqLoginReplace, TypeOK
    <3>2. CallKick(Login(r), b)
      BY <2>2, <3>1 DEF ReqLoginReplace
    <3>3. CASE agent[b] = "alive"
      <4> DEFINE m == [cmd |-> "kick", job |-> Login(r)]
      <4>1. m \in AgentMsg
        BY <1>1 DEF AgentMsg
      <4>2. abox' = [abox EXCEPT ![b] = Append(@, m)]
        BY <3>2, <3>3 DEF CallKick
      <4> HIDE DEF m
      <4> QED
        BY <1>1, <1>2, <4>1, <4>2, AgentsAppend
    <3>4. CASE agent[b] # "alive"
      BY <1>2, <3>2, <3>4, AgentsStay DEF CallKick
    <3> QED
      BY <3>3, <3>4
  <2> QED
    BY <2>1, <2>2 DEF PasswordChecked, ReqLoginRefused, ReqLoginSpawnFailed,
       KickError, agentVars
<1> QED
  BY <1>2, <1>4, <1>6, <1>7, SessionQuiet

LEMMA QuietAnswer ==
  ASSUME Before, NEW r \in Req, SendByFd(r) PROVE SessionInv'
<1>1. TypeOK
  BY DEF Before, FlowInv
<1>2. UNCHANGED <<gateVars, mgrVars, agent, abox>>
  BY DEF SendByFd, agentVars
<1>3. LoginsGo
  BY <1>1 DEF SendByFd, LoginsGo, Busy, Ended, TypeOK
<1>4. HandlersGo
  BY <1>2 DEF HandlersGo, mgrVars
<1> QED
  BY <1>2, <1>3, <1>4, AgentsStay, SessionQuiet DEF gateVars, mgrVars

LEMMA QuietAgents ==
  ASSUME Before, NEW b \in Req,
         AgentKick(b) \/ AgentExit(b) \/ \E j \in Job : AgentSaved(b, j)
  PROVE  SessionInv'
<1>1. TypeOK /\ (\A j \in Job : CallInv(j))
  BY DEF Before, FlowInv
<1>2. UNCHANGED <<gateVars, lpc, mplayers, status, mold>>
  BY DEF AgentKick, AgentExit, AgentSaved, mgrVars
<1>3. LoginsGo
  BY <1>2 DEF LoginsGo, Busy
<1>4. HandlersGo
  <2>1. \A j \in Job : \/ mpc'[j] = mpc[j]
                       \/ mpc[j] = "kick" /\ mpc'[j] \in {"kicked", "kickerr"}
    BY <1>1 DEF AgentKick, AgentExit, AgentSaved, Unanswered, CallInv, TypeOK,
       mgrVars
  <2> QED
    BY <1>2, <2>1, Handlers DEF HandlersGo
<1>5. AgentsGo
  <2>1. CASE AgentKick(b)
    <3>1. /\ UNCHANGED agent /\ abox'[b] = Tail(abox[b])
          /\ \A a \in Req : a # b => abox'[a] = abox[a]
          /\ abox[b] \in Seq(AgentMsg) /\ abox[b] # << >>
          /\ Head(abox[b]).cmd # "exit"
      BY <1>1, <2>1 DEF AgentKick, TypeOK
    <3>2. HasExit(abox[b]) => HasExit(Tail(abox[b]))
      <4> SUFFICES ASSUME NEW i \in DOMAIN abox[b], abox[b][i].cmd = "exit"
                   PROVE  HasExit(Tail(abox[b]))
        BY DEF HasExit
      <4>1. /\ Len(abox[b]) \in Nat \ {0} /\ abox[b][1] = Head(abox[b])
            /\ DOMAIN abox[b] = 1..Len(abox[b])
            /\ DOMAIN Tail(abox[b]) = 1..(Len(abox[b]) - 1)
            /\ \A k \in 1..(Len(abox[b]) - 1) : Tail(abox[b])[k] = abox[b][k + 1]
        BY <3>1
      <4>2. i # 1
        BY <3>1, <4>1
      <4>3. i - 1 \in DOMAIN Tail(abox[b]) /\ Tail(abox[b])[i - 1].cmd = "exit"
        BY <4>1, <4>2
      <4> QED
        BY <4>3 DEF HasExit
    <3>3. \A a \in Req : Told(a) => Told(a)'
      BY <3>1, <3>2 DEF Told, HasExit
    <3> QED
      BY <3>1, <3>3 DEF AgentsGo
  <2>2. CASE AgentExit(b)
    BY <1>1, <2>2 DEF AgentExit, AgentsGo, TypeOK, Told
  <2>3. CASE \E j \in Job : AgentSaved(b, j)
    BY <2>3, AgentsStay DEF AgentSaved
  <2> QED
    BY <2>1, <2>2, <2>3
<1> QED
  BY <1>2, <1>3, <1>4, <1>5, SessionQuiet DEF gateVars

LEMMA QuietStutter == Before /\ UNCHANGED vars => SessionInv'
<1> SUFFICES ASSUME Before, UNCHANGED vars PROVE SessionInv'
  OBVIOUS
<1>1. UNCHANGED <<gateVars, lpc, mgrVars, agent, abox>>
  BY DEF vars, agentVars
<1> QED
  BY <1>1, AgentsStay, SessionQuiet
  DEF LoginsGo, HandlersGo, Busy, gateVars, mgrVars

-----------------------------------------------------------------------------
(* The other steps.                                                        *)

\* With its connection there, no sure_agent asks for a kick.
LEMMA NoReqKick ==
  ASSUME Before, NEW r \in Req
  PROVE  /\ ~SureAgentGone(r) /\ ~ReqKickRefused(r) /\ ~ReqKick(r)
         /\ ~ReqKickKicked(r) /\ ~KickError(Kick(r))
<1>1. LoggingInv(r) /\ Unbound # None
  BY LoginFlowAssumption DEF Before, SessionInv
<1> QED
  BY <1>1 DEF LoggingInv, SureAgentGone, ReqKickRefused, ReqKick, ReqKickKicked,
     KickError

LEMMA SessionClient ==
  ASSUME Before, NEW f \in Fd, Connect(f) \/ ProcessClose(f)
  PROVE  SessionInv'
<1>1. TypeOK /\ SessionInv /\ Unbound # None /\ Unbound \notin Player /\ None \notin Player
  BY LoginFlowAssumption DEF Before, FlowInv
<1>2. /\ UNCHANGED <<gplayers, gbox, told, lpc, mplayers, status, mpc, mold,
                     agent, abox>>
  BY DEF Connect, ProcessClose, mgrVars, agentVars
<1>3. \A h \in Fd : \/ conn'[h] = conn[h] /\ sock'[h] = sock[h]
                    \/ conn[h] = None /\ conn'[h] = Unbound /\ sock'[h] = "up"
                    \/ conn'[h] = conn[h] /\ sock[h] = "up" /\ sock'[h] = "down"
  BY <1>1 DEF Connect, ProcessClose, TypeOK, SessionInv, GateplayerInv
<1>4. GateplayerInv'
  BY <1>1, GateplayerConnect DEF SessionInv
<1>5. OneConnection' /\ KickedIsTold'
        /\ \A h \in Fd : sock'[h] = "up" => conn'[h] # None
  BY <1>1, <1>2, <1>3 DEF SessionInv, OneConnection, KickedIsTold
<1>6. NoOrphan'
  BY <1>1, <1>2 DEF SessionInv, NoOrphan, Told
<1>7. ASSUME NEW r \in Req PROVE LoggingInv(r)' /\ ReplaceInv(r)'
  <2>1. FdOf[r] \in Fd /\ LoggingInv(r) /\ ReplaceInv(r)
    BY <1>1, LoginFlowAssumption DEF SessionInv
  <2>2. conn[FdOf[r]] = Unbound => conn'[FdOf[r]] = Unbound
    BY <1>1, <1>3, <2>1
  <2> QED
    BY <1>2, <2>1, <2>2 DEF LoggingInv, ReplaceInv, Replacing, Busy, Told
<1>8. \A p \in Player : OnlineInv(p)'
  BY <1>1, <1>2 DEF SessionInv, OnlineInv, GateOfReq
<1>9. \A g \in Gate : NoticeInv(g)'
  BY <1>1, <1>2 DEF SessionInv, NoticeInv
<1> QED
  BY <1>4, <1>5, <1>6, <1>7, <1>8, <1>9 DEF SessionInv

LEMMA SessionLogin ==
  ASSUME Before, NEW r \in Req, ProcessLogin(r) PROVE SessionInv'
<1>1. TypeOK /\ SessionInv /\ SerialLogins
  BY DEF Before, FlowInv
<1>2. UNCHANGED <<gateVars, mgrVars, agent, abox>>
  BY DEF ProcessLogin, agentVars
<1>3. /\ lpc[r] = "idle" /\ lpc'[r] \in {"password", "ignored"}
      /\ lpc'[r] = "password" => conn[FdOf[r]] = Unbound
      /\ \A q \in Req : q # r => lpc'[q] = lpc[q]
      /\ \A q \in Req : q # r /\ FdOf[q] = FdOf[r] => ~Busy(q)
  BY <1>1 DEF ProcessLogin, MayLogIn, Busy, TypeOK
<1>4. /\ GateplayerInv' /\ OneConnection' /\ KickedIsTold'
      /\ \A f \in Fd : sock'[f] = "up" => conn'[f] # None
      /\ \A g \in Gate : NoticeInv(g)'
  BY <1>1, <1>2 DEF SessionInv, GateplayerInv, OneConnection, KickedIsTold,
     GateOfReq, gateVars, NoticeInv
<1>5. NoOrphan'
  BY <1>1, <1>2 DEF SessionInv, NoOrphan, Told, mgrVars
<1>6. ASSUME NEW q \in Req PROVE LoggingInv(q)'
  <2>1. ASSUME NEW s \in Req, Busy(q)', Busy(s)', FdOf[q] = FdOf[s]
        PROVE  q = s
    <3>1. \A x \in Req : x # r => (Busy(x)' <=> Busy(x))
      BY <1>3 DEF Busy
    <3> QED
      BY <1>1, <1>3, <2>1, <3>1 DEF SessionInv, LoggingInv
  <2>2. LoggingInv(q)
    BY <1>1 DEF SessionInv
  <2>3. CASE q = r
    BY <1>2, <1>3, <2>1, <2>2, <2>3 DEF LoggingInv, gateVars, mgrVars
  <2>4. CASE q # r
    BY <1>2, <1>3, <2>1, <2>2, <2>4 DEF LoggingInv, gateVars, mgrVars
  <2> QED
    BY <2>3, <2>4
<1>7. ASSUME NEW q \in Req PROVE ReplaceInv(q)'
  BY <1>1, <1>2 DEF SessionInv, ReplaceInv, Replacing, Told, gateVars, mgrVars
<1>8. ASSUME NEW p \in Player PROVE OnlineInv(p)'
  <2>1. mplayers[p] \in Req \cup {None} /\ OnlineInv(p)
    BY <1>1 DEF SessionInv, TypeOK
  <2>2. \A a \in Req : /\ lpc[a] \in {"success", "online"} => lpc'[a] = lpc[a]
                       /\ lpc[a] = "sure" => lpc'[a] = "sure"
    BY <1>3
  <2> QED
    BY <1>2, <2>1, <2>2 DEF OnlineInv, GateOfReq, gateVars, mgrVars
<1> QED
  BY <1>4, <1>5, <1>6, <1>7, <1>8 DEF SessionInv

\* agentmgr's steps with a record leave the gateways' state as it is.
LEMMA GatesKeep ==
  ASSUME SessionInv, UNCHANGED <<sock, conn, gplayers, told>>
  PROVE  /\ GateplayerInv' /\ OneConnection' /\ KickedIsTold'
         /\ \A f \in Fd : sock'[f] = "up" => conn'[f] # None
         /\ UNCHANGED gbox => \A g \in Gate : NoticeInv(g)'
BY DEF SessionInv, GateplayerInv, OneConnection, KickedIsTold, GateOfReq, NoticeInv

LEMMA SessionNew ==
  ASSUME Before, NEW r \in Req, ReqLoginFresh(r) \/ ReqLoginGateKicked(r)
  PROVE  SessionInv'
<1> DEFINE s == PlayerOf[r]
<1>1. /\ TypeOK /\ SessionInv /\ RecordInv /\ Login(r) \in Job /\ s \in Player
      /\ r # None
  BY JobProperties, LoginFlowAssumption DEF Before, FlowInv
<1>2. NewMgrPlayer(r) /\ mpc[Login(r)] \in {"queued", "gatekicked"}
  BY DEF ReqLoginFresh, ReqLoginGateKicked
<1>3. UNCHANGED <<gateVars, lpc, mold, agent, abox>>
  BY <1>2 DEF NewMgrPlayer, agentVars
<1>4. /\ \A p \in Player : mplayers'[p] = IF p = s THEN r ELSE mplayers[p]
      /\ \A a \in Req : status'[a] = IF a = r THEN "LOGIN" ELSE status[a]
      /\ mpc'[Login(r)] = "spawn"
      /\ \A q \in Req : /\ q # r => mpc'[Login(q)] = mpc[Login(q)]
                        /\ mpc'[Kick(q)] = mpc[Kick(q)]
  BY <1>1, <1>2, JobProperties DEF NewMgrPlayer, TypeOK
<1>5. lpc[r] = "reqlogin" /\ status[r] = "none"
  BY <1>1, <1>2, Handlers DEF RecordInv, StatusInv
\* No gateway holds the player.
<1>6. \A g \in Gate : gplayers[g][s] = None
  <2>1. CASE ReqLoginFresh(r)
    BY <1>1, <2>1 DEF ReqLoginFresh, SessionInv, OnlineInv
  <2>2. CASE ReqLoginGateKicked(r)
    BY <1>1, <2>2 DEF ReqLoginGateKicked, SessionInv, ReplaceInv
  <2> QED
    BY <2>1, <2>2
\* The agent of the record before has been told to exit.
<1>7. ASSUME NEW a \in Req, PlayerOf[a] = s, agent[a] = "alive" PROVE Told(a)
  <2>1. Told(a) \/ mplayers[s] = a
    BY <1>1, <1>7 DEF SessionInv, NoOrphan
  <2>2. CASE ReqLoginFresh(r)
    BY <2>1, <2>2, LoginFlowAssumption DEF ReqLoginFresh
  <2>3. CASE mpc[Login(r)] = "gatekicked"
    <3>1. Replacing(r) /\ mplayers[s] = mold[Login(r)]
      BY <2>3, Replaced DEF Replacing
    <3> QED
      BY <1>1, <1>7, <2>1, <3>1 DEF SessionInv, ReplaceInv
  <2> QED
    BY <2>2, <2>3 DEF ReqLoginGateKicked
<1>8. NoOrphan'
  <2> SUFFICES ASSUME NEW a \in Req, agent[a] = "alive", ~Told(a)
               PROVE  mplayers'[PlayerOf[a]] = a
    BY <1>3 DEF NoOrphan, Told
  <2>1. PlayerOf[a] # s /\ PlayerOf[a] \in Player
    BY <1>7, LoginFlowAssumption
  <2> QED
    BY <1>1, <1>4, <2>1 DEF SessionInv, NoOrphan
<1>9. ASSUME NEW q \in Req PROVE LoggingInv(q)'
  <2>1. LoggingInv(q) /\ PlayerOf[q] \in Player
    BY <1>1, LoginFlowAssumption DEF SessionInv
  <2>2. lpc[q] = "sure" => PlayerOf[q] # s /\ q # r
    BY <1>5, OnlyLogin
  <2> QED
    BY <1>3, <1>4, <2>1, <2>2 DEF LoggingInv, Busy, gateVars
<1>10. ASSUME NEW q \in Req PROVE ReplaceInv(q)'
  <2>1. CASE q = r
    BY <1>4, <2>1 DEF ReplaceInv, Replacing
  <2>2. CASE q # r /\ Replacing(q)
    <3>1. ReplaceInv(q) /\ mold[Login(q)] \in Req /\ status[mold[Login(q)]] = "LOGOUT"
      BY <1>1, <2>2, Replaced DEF SessionInv
    <3> QED
      BY <1>3, <1>4, <1>5, <2>2, <3>1 DEF ReplaceInv, Replacing, Told, gateVars
  <2>3. CASE q # r /\ ~Replacing(q)
    BY <1>4, <2>3 DEF ReplaceInv, Replacing
  <2> QED
    BY <2>1, <2>2, <2>3
<1>11. ASSUME NEW p \in Player PROVE OnlineInv(p)'
  <2>1. CASE p = s
    <3>1. mplayers'[p] = r /\ status'[r] = "LOGIN" /\ \A g \in Gate : gplayers'[g][p] = None
      BY <1>1, <1>3, <1>4, <1>6, <2>1 DEF gateVars
    <3> QED
      BY <3>1 DEF OnlineInv
  <2>2. CASE p # s
    <3>1. /\ mplayers'[p] = mplayers[p] /\ mplayers[p] \in Req \cup {None}
          /\ OnlineInv(p) /\ mplayers[p] # r
      BY <1>1, <1>4, <2>2 DEF TypeOK, SessionInv, RecordInv
    <3> QED
      BY <1>3, <1>4, <3>1 DEF OnlineInv, GateOfReq, gateVars
  <2> QED
    BY <2>1, <2>2
<1> QED
  BY <1>1, <1>3, <1>8, <1>9, <1>10, <1>11, GatesKeep DEF SessionInv, gateVars

\* The notice and the kick are queued for the gateway of the old record.
LEMMA NoticeKicked ==
  ASSUME TypeOK, SessionInv, NEW r \in Req, mold[Login(r)] \in Req,
         ReqLoginKicked(r)
  PROVE  \A g \in Gate : NoticeInv(g)'
<1> DEFINE G == GateOfReq(mold[Login(r)])
           s == [cmd |-> "send", player |-> PlayerOf[r], job |-> None]
           k == [cmd |-> "kick", player |-> PlayerOf[r], job |-> Login(r)]
<1>1. G \in Gate /\ Login(r) \in Job /\ PlayerOf[r] \in Player
  BY JobProperties, LoginFlowAssumption DEF GateOfReq
<1>2. s \in GateMsg /\ k \in GateMsg
  BY <1>1 DEF GateMsg
<1>3. /\ s.cmd = "send" /\ s.player = PlayerOf[r]
      /\ k.cmd = "kick" /\ k.player = PlayerOf[r] /\ k.job = Login(r)
  OBVIOUS
<1>4. UNCHANGED <<gplayers, told>> /\ gbox' = [gbox EXCEPT ![G] = gbox[G] \o << s, k >>]
  BY DEF ReqLoginKicked
<1> HIDE DEF s, k
<1>5. gbox[G] \in Seq(GateMsg) /\ Len(gbox[G]) \in Nat
  BY <1>1 DEF TypeOK
<1>6. /\ Len(gbox'[G]) = Len(gbox[G]) + 2
      /\ \A i \in 1..Len(gbox[G]) : gbox'[G][i] = gbox[G][i]
      /\ gbox'[G][Len(gbox[G]) + 1] = s /\ gbox'[G][Len(gbox[G]) + 2] = k
  <2>1. gbox'[G] = gbox[G] \o << s, k >>
    BY <1>1, <1>4 DEF TypeOK
  <2> QED
    BY <1>2, <1>5, <2>1
<1>7. \A g \in Gate : g # G => gbox'[g] = gbox[g]
  BY <1>4 DEF TypeOK
<1> HIDE DEF G
<1> TAKE g \in Gate
<1>8. CASE g # G
  BY <1>4, <1>7, <1>8 DEF SessionInv, NoticeInv
<1>9. CASE g = G
  <2> SUFFICES ASSUME NEW i \in 1..Len(gbox'[g]), gbox'[g][i].cmd = "kick"
               PROVE
    /\ \E q \in Req : /\ gbox'[g][i].job = Login(q)
                      /\ PlayerOf[q] = gbox'[g][i].player
    /\ \/ /\ i > 1 /\ gbox'[g][i - 1].cmd = "send"
          /\ gbox'[g][i - 1].player = gbox'[g][i].player
       \/ /\ i = 1
          /\ gplayers'[g][gbox'[g][i].player] # None
               => FdOf[gplayers'[g][gbox'[g][i].player]] \in told'
    BY Zenon DEF NoticeInv
  <2> SUFFICES ASSUME i \in 1..Len(gbox'[G]), gbox'[G][i].cmd = "kick"
               PROVE
    /\ \E q \in Req : /\ gbox'[G][i].job = Login(q)
                      /\ PlayerOf[q] = gbox'[G][i].player
    /\ \/ /\ i > 1 /\ gbox'[G][i - 1].cmd = "send"
          /\ gbox'[G][i - 1].player = gbox'[G][i].player
       \/ /\ i = 1
          /\ gplayers[G][gbox'[G][i].player] # None
               => FdOf[gplayers[G][gbox'[G][i].player]] \in told
    <3>1. g = G /\ gplayers' = gplayers /\ told' = told
      BY <1>4, <1>9
    <3> QED
      BY <3>1
  <2>1. CASE i \in 1..Len(gbox[G])
    <3>1. i > 1 => i - 1 \in 1..Len(gbox[G])
      BY <1>5, <2>1
    <3>2. gbox'[G][i] = gbox[G][i] /\ (i > 1 => gbox'[G][i - 1] = gbox[G][i - 1])
      BY <1>6, <2>1, <3>1
    <3> QED
      BY <1>1, <2>1, <3>2 DEF SessionInv, NoticeInv
  <2>2. CASE i = Len(gbox[G]) + 1
    BY <1>3, <1>6, <2>2
  <2>3. CASE i = Len(gbox[G]) + 2
    <3>1. i > 1 /\ i - 1 = Len(gbox[G]) + 1
      BY <1>5, <2>3
    <3> QED
      BY <1>3, <1>6, <2>3, <3>1
  <2> QED
    BY <1>5, <1>6, <2>1, <2>2, <2>3
<1> QED
  BY <1>8, <1>9

LEMMA SessionKicked ==
  ASSUME Before, NEW r \in Req, ReqLoginKicked(r) PROVE SessionInv'
<1> DEFINE s == PlayerOf[r]
<1>1. /\ TypeOK /\ SessionInv /\ RecordInv /\ Login(r) \in Job /\ s \in Player
      /\ CallInv(Login(r)) /\ HandlerInv(r) /\ Login(r)[2] = r
  BY JobProperties, LoginFlowAssumption DEF Before, FlowInv, SerialInv
<1>2. PICK b \in Req : b = mold[Login(r)]
  BY <1>1 DEF ReqLoginKicked, CallInv
<1>3. /\ mpc[Login(r)] = "kicked" /\ SendExit(b)
      /\ UNCHANGED <<sock, conn, gplayers, told, lpc, mplayers, mold, agent>>
  BY <1>2 DEF ReqLoginKicked
<1>4. /\ \A a \in Req : status'[a] = IF a = b THEN "LOGOUT" ELSE status[a]
      /\ mpc'[Login(r)] = "gatekick"
      /\ \A q \in Req : /\ q # r => mpc'[Login(q)] = mpc[Login(q)]
                        /\ mpc'[Kick(q)] = mpc[Kick(q)]
  BY <1>1, <1>2, JobProperties DEF ReqLoginKicked, TypeOK
<1>5. mplayers[s] = b /\ PlayerOf[b] = s /\ agent[b] # "none"
  BY <1>1, <1>2, <1>3, LoginFlowAssumption DEF HandlerInv, RecordInv, StatusInv
<1>6. lpc[r] = "reqlogin"
  BY <1>3, Handlers
<1>7. (\A a \in Req : Told(a) => Told(a)') /\ (agent[b] = "alive" => Told(b)')
  <2>1. CASE agent[b] = "alive"
    <3> DEFINE m == [cmd |-> "exit", job |-> None]
    <3>1. m \in AgentMsg /\ m.cmd = "exit"
      BY DEF AgentMsg
    <3>2. abox' = [abox EXCEPT ![b] = Append(abox[b], m)]
      BY <1>3, <2>1 DEF SendExit
    <3> HIDE DEF m
    <3>3. HasExit(Append(abox[b], m))
      BY <1>1, <3>1, HasExitAppend DEF TypeOK
    <3>4. /\ abox'[b] = Append(abox[b], m)
          /\ \A a \in Req : a # b => abox'[a] = abox[a]
      BY <1>1, <3>2 DEF TypeOK
    <3> QED
      BY <3>3, <3>4 DEF HasExit, Told
  <2>2. CASE agent[b] # "alive"
    BY <1>3, <2>2 DEF SendExit, Told
  <2> QED
    BY <2>1, <2>2
<1>8. NoOrphan'
  BY <1>1, <1>3, <1>7 DEF SessionInv, NoOrphan
<1>9. ASSUME NEW q \in Req PROVE LoggingInv(q)'
  <2>1. lpc[q] = "sure" => q # b
    BY <1>5, <1>6, OnlyLogin
  <2> QED
    BY <1>1, <1>3, <1>4, <2>1 DEF SessionInv, LoggingInv, Busy
<1>10. ASSUME NEW q \in Req PROVE ReplaceInv(q)'
  <2>1. CASE q = r
    <3>1. mold'[Login(q)] = b /\ status'[b] = "LOGOUT"
      BY <1>2, <1>3, <1>4, <2>1
    <3>2. agent'[b] = "exited" \/ Told(b)'
      BY <1>1, <1>3, <1>5, <1>7 DEF TypeOK
    <3> QED
      BY <1>4, <2>1, <3>1, <3>2 DEF ReplaceInv
  <2>2. CASE q # r /\ Replacing(q)
    <3>1. ReplaceInv(q) /\ mold[Login(q)] \in Req /\ status[mold[Login(q)]] = "LOGOUT"
      BY <1>1, <2>2, Replaced DEF SessionInv
    <3> QED
      BY <1>3, <1>4, <1>7, <2>2, <3>1 DEF ReplaceInv, Replacing
  <2>3. CASE q # r /\ ~Replacing(q)
    BY <1>4, <2>3 DEF ReplaceInv, Replacing
  <2> QED
    BY <2>1, <2>2, <2>3
<1>11. ASSUME NEW p \in Player PROVE OnlineInv(p)'
  <2>1. mplayers[p] \in Req \cup {None} /\ OnlineInv(p)
    BY <1>1 DEF SessionInv, TypeOK
  <2> QED
    BY <1>3, <1>4, <2>1 DEF OnlineInv, GateOfReq
<1>12. \A g \in Gate : NoticeInv(g)'
  BY <1>1, <1>2, NoticeKicked
<1> QED
  BY <1>1, <1>3, <1>8, <1>9, <1>10, <1>11, <1>12, GatesKeep DEF SessionInv

LEMMA SessionSpawned ==
  ASSUME Before, NEW r \in Req, ReqLoginSpawned(r) PROVE SessionInv'
<1> DEFINE s == PlayerOf[r]
<1>1. /\ TypeOK /\ SessionInv /\ RecordInv /\ Login(r) \in Job /\ s \in Player
      /\ HandlerInv(r) /\ r # None
  BY JobProperties, LoginFlowAssumption DEF Before, FlowInv, SerialInv
<1>2. /\ mpc[Login(r)] = "spawned"
      /\ UNCHANGED <<gateVars, mplayers, mold, agent, abox>>
  BY DEF ReqLoginSpawned, agentVars
<1>3. /\ \A a \in Req : status'[a] = IF a = r THEN "GAME" ELSE status[a]
      /\ \A a \in Req : lpc'[a] = IF a = r THEN "sure" ELSE lpc[a]
      /\ mpc'[Login(r)] = "done"
      /\ \A q \in Req : /\ q # r => mpc'[Login(q)] = mpc[Login(q)]
                        /\ mpc'[Kick(q)] = mpc[Kick(q)]
  BY <1>1, JobProperties DEF ReqLoginSpawned, TypeOK
<1>4. mplayers[s] = r /\ status[r] = "LOGIN" /\ lpc[r] = "reqlogin"
  BY <1>1, <1>2, Handlers DEF HandlerInv, RecordInv, StatusInv
<1>5. NoOrphan'
  BY <1>1, <1>2 DEF SessionInv, NoOrphan, Told
<1>6. ASSUME NEW q \in Req PROVE LoggingInv(q)'
  <2>1. Busy(q)' <=> Busy(q)
    BY <1>3, <1>4 DEF Busy, Ended
  <2>2. \A x \in Req : Busy(x)' <=> Busy(x)
    BY <1>3, <1>4 DEF Busy, Ended
  <2>3. LoggingInv(q)
    BY <1>1 DEF SessionInv
  <2>4. CASE q = r
    BY <1>2, <1>3, <1>4, <2>2, <2>3, <2>4 DEF LoggingInv, gateVars
  <2>5. CASE q # r
    BY <1>2, <1>3, <2>2, <2>3, <2>5 DEF LoggingInv, gateVars
  <2> QED
    BY <2>4, <2>5
<1>7. ASSUME NEW q \in Req PROVE ReplaceInv(q)'
  <2>1. CASE Replacing(q) /\ q # r
    <3>1. ReplaceInv(q) /\ mold[Login(q)] \in Req /\ mold[Login(q)] # r
      BY <1>1, <1>4, <2>1, Replaced DEF SessionInv
    <3> QED
      BY <1>2, <1>3, <2>1, <3>1 DEF ReplaceInv, Replacing, Told, gateVars
  <2>2. CASE ~Replacing(q) \/ q = r
    BY <1>3, <2>2 DEF ReplaceInv, Replacing
  <2> QED
    BY <2>1, <2>2
<1>8. ASSUME NEW p \in Player PROVE OnlineInv(p)'
  <2>1. CASE p = s
    <3>1. \A g \in Gate : gplayers[g][p] = None
      BY <1>1, <1>4, <2>1 DEF SessionInv, OnlineInv
    <3> QED
      BY <1>2, <1>3, <1>4, <2>1, <3>1 DEF OnlineInv, gateVars
  <2>2. CASE p # s
    <3>1. mplayers[p] \in Req \cup {None} /\ mplayers[p] # r /\ OnlineInv(p)
      BY <1>1, <2>2 DEF TypeOK, RecordInv, SessionInv
    <3> QED
      BY <1>2, <1>3, <3>1 DEF OnlineInv, GateOfReq, gateVars
  <2> QED
    BY <2>1, <2>2
<1> QED
  BY <1>1, <1>2, <1>5, <1>6, <1>7, <1>8, GatesKeep DEF SessionInv, gateVars

LEMMA SessionNewService ==
  ASSUME Before, NEW r \in Req, NewService(r) PROVE SessionInv'
<1>1. TypeOK /\ SessionInv /\ HandlerInv(r) /\ Login(r) \in Job /\ RecordInv
  BY JobProperties DEF Before, FlowInv, SerialInv
<1>2. /\ mpc[Login(r)] = "spawn"
      /\ UNCHANGED <<gateVars, lpc, mplayers, status, mold, abox>>
  BY DEF NewService
<1>3. /\ \A a \in Req : a # r => agent'[a] = agent[a]
      /\ agent[r] = "none"
      /\ mpc'[Login(r)] \in {"spawned", "spawnfail"}
      /\ \A q \in Req : /\ q # r => mpc'[Login(q)] = mpc[Login(q)]
                        /\ mpc'[Kick(q)] = mpc[Kick(q)]
  BY <1>1, JobProperties DEF NewService, TypeOK, RecordInv, StatusInv
<1>4. mplayers[PlayerOf[r]] = r
  BY <1>1, <1>2 DEF HandlerInv
<1>5. NoOrphan'
  BY <1>1, <1>2, <1>3, <1>4 DEF SessionInv, NoOrphan, Told
<1>6. ASSUME NEW q \in Req PROVE LoggingInv(q)'
  BY <1>1, <1>2, <1>3 DEF SessionInv, LoggingInv, Busy, gateVars
<1>7. ASSUME NEW q \in Req PROVE ReplaceInv(q)'
  <2>1. CASE Replacing(q) /\ q # r
    <3>1. /\ ReplaceInv(q) /\ mold[Login(q)] \in Req
          /\ status[mold[Login(q)]] = "LOGOUT" /\ status[r] = "LOGIN"
      BY <1>1, <1>2, <2>1, Replaced DEF SessionInv, RecordInv, StatusInv
    <3>2. agent'[mold[Login(q)]] = agent[mold[Login(q)]]
      BY <1>3, <3>1
    <3> QED
      BY <1>2, <1>3, <2>1, <3>1, <3>2 DEF ReplaceInv, Replacing, Told, gateVars
  <2>2. CASE ~Replacing(q) \/ q = r
    BY <1>3, <2>2 DEF ReplaceInv, Replacing
  <2> QED
    BY <2>1, <2>2
<1>8. ASSUME NEW p \in Player PROVE OnlineInv(p)'
  BY <1>1, <1>2 DEF SessionInv, OnlineInv, GateOfReq, gateVars
<1> QED
  BY <1>1, <1>2, <1>5, <1>6, <1>7, <1>8, GatesKeep DEF SessionInv, gateVars

LEMMA SessionSure ==
  ASSUME Before, NEW r \in Req, SureAgent(r) PROVE SessionInv'
<1> DEFINE f == FdOf[r]
           s == PlayerOf[r]
           G == GateOf[f]
<1>1. /\ TypeOK /\ SessionInv /\ RecordInv /\ s \in Player /\ f \in Fd
      /\ G \in Gate /\ r # None /\ s # None /\ Unbound \notin Player
      /\ LoggingInv(r)
  BY LoginFlowAssumption DEF Before, FlowInv, SessionInv
<1>2. /\ lpc[r] = "sure" /\ conn[f] = Unbound
      /\ UNCHANGED <<sock, gbox, told, mgrVars, agent, abox>>
  BY <1>1 DEF SureAgent, LoggingInv, agentVars
<1>3. /\ \A h \in Fd : conn'[h] = IF h = f THEN s ELSE conn[h]
      /\ \A g \in Gate : \A p \in Player :
           gplayers'[g][p] = IF g = G /\ p = s THEN r ELSE gplayers[g][p]
      /\ \A q \in Req : lpc'[q] = IF q = r THEN "success" ELSE lpc[q]
  BY <1>1 DEF SureAgent, TypeOK
<1>4. mplayers[s] = r /\ status[r] = "GAME"
  BY <1>1, <1>2 DEF LoggingInv
<1>5. \A g \in Gate : gplayers[g][s] = None
  BY <1>1, <1>2, <1>4 DEF SessionInv, OnlineInv
<1>6. GateplayerInv'
  <2>1. Alone(r)
    BY <1>1, <1>2 DEF Alone, SessionInv, GateplayerInv
  <2> QED
    BY <1>1, <2>1, GateplayerSure DEF SessionInv
<1>7. OneConnection'
  <2> SUFFICES ASSUME NEW h \in Fd, conn'[h] \in Player
               PROVE  /\ gplayers'[GateOf[h]][conn'[h]] # None
                      /\ FdOf[gplayers'[GateOf[h]][conn'[h]]] = h
    BY DEF OneConnection
  <2>1. CASE h = f
    BY <1>1, <1>3, <2>1
  <2>2. CASE h # f
    <3>1. conn'[h] = conn[h] /\ GateOf[h] \in Gate
      BY <1>3, <2>2, LoginFlowAssumption
    <3>2. /\ gplayers[GateOf[h]][conn[h]] # None
          /\ FdOf[gplayers[GateOf[h]][conn[h]]] = h
      BY <1>1, <3>1 DEF SessionInv, OneConnection
    <3>3. conn[h] # s
      BY <1>5, <3>1, <3>2
    <3> QED
      BY <1>3, <3>1, <3>2, <3>3
  <2> QED
    BY <2>1, <2>2
<1>8. KickedIsTold' /\ \A h \in Fd : sock'[h] = "up" => conn'[h] # None
  BY <1>1, <1>2, <1>3 DEF SessionInv, KickedIsTold
<1>9. NoOrphan'
  BY <1>1, <1>2 DEF SessionInv, NoOrphan, Told, mgrVars
<1>10. ASSUME NEW q \in Req PROVE LoggingInv(q)'
  <2>1. \A x \in Req : Busy(x)' <=> Busy(x)
    BY <1>2, <1>3 DEF Busy, Ended
  <2>2. LoggingInv(q) /\ FdOf[q] \in Fd
    BY <1>1, LoginFlowAssumption DEF SessionInv
  <2>3. q # r /\ lpc[q] \in {"password", "reqlogin", "sure"} => FdOf[q] # f
    BY <1>1, <1>2, <2>2 DEF LoggingInv, Busy, Ended
  <2> QED
    BY <1>2, <1>3, <2>1, <2>2, <2>3 DEF LoggingInv, mgrVars
<1>11. ASSUME NEW q \in Req PROVE ReplaceInv(q)'
  <2>1. ReplaceInv(q) /\ PlayerOf[q] \in Player
    BY <1>1, LoginFlowAssumption DEF SessionInv
  <2>2. mpc[Login(q)] = "gatekicked" => PlayerOf[q] # s
    BY <1>2, Handlers, OnlyLogin
  <2> QED
    BY <1>2, <1>3, <2>1, <2>2 DEF ReplaceInv, Replacing, Told, mgrVars
<1>12. ASSUME NEW p \in Player PROVE OnlineInv(p)'
  <2>1. CASE p = s
    BY <1>1, <1>2, <1>3, <1>4, <1>5, <2>1 DEF OnlineInv, GateOfReq, mgrVars
  <2>2. CASE p # s
    <3>1. mplayers[p] \in Req \cup {None} /\ mplayers[p] # r /\ OnlineInv(p)
      BY <1>1, <2>2 DEF TypeOK, RecordInv, SessionInv
    <3>2. \A g \in Gate : gplayers'[g][p] = gplayers[g][p]
      BY <1>3, <2>2
    <3>3. mplayers[p] # None => GateOfReq(mplayers[p]) \in Gate
      BY <3>1, LoginFlowAssumption DEF GateOfReq
    <3> QED
      BY <1>2, <1>3, <3>1, <3>2, <3>3 DEF OnlineInv, GateOfReq, mgrVars
  <2> QED
    BY <2>1, <2>2
<1>13. ASSUME NEW g \in Gate PROVE NoticeInv(g)'
  <2>1. ASSUME NEW i \in 1..Len(gbox[g]), gbox[g][i].cmd = "kick"
        PROVE  gplayers'[g][gbox[g][i].player] = gplayers[g][gbox[g][i].player]
    <3>1. PICK q \in Req : Replacing(q) /\ PlayerOf[q] = gbox[g][i].player
      BY <2>1, GateKickIsCall
    <3>2. lpc[q] = "reqlogin" /\ PlayerOf[q] \in Player
      BY <3>1, Replaced, LoginFlowAssumption
    <3>3. PlayerOf[q] # s
      BY <1>2, <3>2, OnlyLogin
    <3> QED
      BY <1>3, <3>1, <3>2, <3>3
  <2>2. NoticeInv(g)
    BY <1>1 DEF SessionInv
  <2> QED
    BY <1>2, <2>1, <2>2 DEF NoticeInv
<1> QED
  BY <1>6, <1>7, <1>8, <1>9, <1>10, <1>11, <1>12, <1>13 DEF SessionInv

\* A gateway takes the head of its mailbox: the kicks behind it keep their
\* notices, and a kick that comes to the head has had its notice given.
LEMMA NoticeTail ==
  ASSUME TypeOK, SessionInv, NEW h \in Gate, gbox[h] # << >>,
         gbox' = [gbox EXCEPT ![h] = Tail(@)], told \subseteq told',
         Head(gbox[h]).cmd = "send" =>
           LET p == Head(gbox[h]).player IN
           gplayers'[h][p] # None => FdOf[gplayers'[h][p]] \in told',
         \A g \in Gate : g # h => gplayers'[g] = gplayers[g]
  PROVE  \A g \in Gate : NoticeInv(g)'
<1>1. gbox[h] \in Seq(GateMsg)
  BY DEF TypeOK
<1>2. /\ Len(gbox[h]) \in Nat \ {0} /\ Len(Tail(gbox[h])) = Len(gbox[h]) - 1
      /\ Head(gbox[h]) = gbox[h][1]
      /\ \A i \in 1..(Len(gbox[h]) - 1) : Tail(gbox[h])[i] = gbox[h][i + 1]
  BY <1>1
<1>3. gbox'[h] = Tail(gbox[h]) /\ \A g \in Gate : g # h => gbox'[g] = gbox[g]
  BY DEF TypeOK
<1> TAKE g \in Gate
<1>4. CASE g # h
  <2>1. NoticeInv(g) /\ gbox'[g] = gbox[g] /\ gplayers'[g] = gplayers[g]
    BY <1>3, <1>4 DEF SessionInv
  <2> SUFFICES ASSUME NEW i \in 1..Len(gbox'[g]), gbox'[g][i].cmd = "kick"
               PROVE
    /\ \E q \in Req : /\ gbox'[g][i].job = Login(q)
                      /\ PlayerOf[q] = gbox'[g][i].player
    /\ \/ /\ i > 1 /\ gbox'[g][i - 1].cmd = "send"
          /\ gbox'[g][i - 1].player = gbox'[g][i].player
       \/ /\ i = 1
          /\ gplayers'[g][gbox'[g][i].player] # None
               => FdOf[gplayers'[g][gbox'[g][i].player]] \in told'
    BY Zenon DEF NoticeInv
  <2>2. i \in 1..Len(gbox[g]) /\ gbox[g][i].cmd = "kick"
    BY <2>1
  <2>3. /\ \E q \in Req : /\ gbox[g][i].job = Login(q)
                        /\ PlayerOf[q] = gbox[g][i].player
        /\ \/ /\ i > 1 /\ gbox[g][i - 1].cmd = "send"
              /\ gbox[g][i - 1].player = gbox[g][i].player
           \/ /\ i = 1
              /\ gplayers[g][gbox[g][i].player] # None
                   => FdOf[gplayers[g][gbox[g][i].player]] \in told
    BY <2>1, <2>2, Zenon DEF NoticeInv
  <2>4. \A f : f \in told => f \in told'
    OBVIOUS
  <2> QED
    BY ONLY <2>1, <2>3, <2>4
<1>5. CASE g = h
  <2>1. ASSUME NEW i \in 1..Len(Tail(gbox[h]))
        PROVE  /\ i \in 1..(Len(gbox[h]) - 1) /\ i + 1 \in 1..Len(gbox[h])
               /\ gbox'[h][i] = gbox[h][i + 1] /\ i \in Nat \ {0}
               /\ (i + 1) - 1 = i /\ i + 1 # 1
    <3>1. i \in 1..(Len(gbox[h]) - 1)
      BY <1>2
    <3>2. gbox'[h][i] = gbox[h][i + 1]
      BY <1>2, <1>3, <3>1
    <3> QED
      BY <1>2, <3>1, <3>2
  <2>2. ASSUME NEW i \in 1..Len(gbox'[h]), gbox'[h][i].cmd = "kick"
        PROVE
    /\ \E q \in Req : /\ gbox'[h][i].job = Login(q)
                      /\ PlayerOf[q] = gbox'[h][i].player
    /\ \/ /\ i > 1 /\ gbox'[h][i - 1].cmd = "send"
          /\ gbox'[h][i - 1].player = gbox'[h][i].player
       \/ /\ i = 1
          /\ gplayers'[h][gbox'[h][i].player] # None
               => FdOf[gplayers'[h][gbox'[h][i].player]] \in told'
    <3>1. /\ i \in 1..(Len(gbox[h]) - 1) /\ i + 1 \in 1..Len(gbox[h])
          /\ gbox'[h][i] = gbox[h][i + 1] /\ i \in Nat \ {0}
          /\ (i + 1) - 1 = i /\ i + 1 # 1
      BY <1>3, <2>1
    <3>2. /\ \E q \in Req : /\ gbox[h][i + 1].job = Login(q)
                            /\ PlayerOf[q] = gbox[h][i + 1].player
          /\ gbox[h][i].cmd = "send" /\ gbox[h][i].player = gbox[h][i + 1].player
      BY <2>2, <3>1 DEF SessionInv, NoticeInv
    <3>3. CASE i = 1
      BY <1>2, <3>1, <3>2, <3>3
    <3>4. CASE i > 1
      <4>1. i - 1 \in 1..(Len(gbox[h]) - 1) /\ (i - 1) + 1 = i
        BY <1>2, <3>1, <3>4
      <4>2. gbox'[h][i - 1] = gbox[h][i]
        BY <1>2, <1>3, <4>1
      <4> QED
        BY <3>1, <3>2, <3>4, <4>2
    <3>5. i = 1 \/ i > 1
      BY <3>1
    <3> QED
      BY <3>3, <3>4, <3>5, Zenon
  <2>3. NoticeInv(h)'
    BY <2>2, Zenon DEF NoticeInv
  <2> QED
    BY <1>5, <2>3
<1> QED
  BY <1>4, <1>5

LEMMA SessionSend ==
  ASSUME Before, NEW h \in Gate, GateSend(h) PROVE SessionInv'
<1> DEFINE p == Head(gbox[h]).player
           r == gplayers[h][p]
<1>1. TypeOK /\ SessionInv /\ None \notin Player
  BY LoginFlowAssumption DEF Before, FlowInv
<1>2. /\ UNCHANGED <<sock, conn, gplayers, lpc, mgrVars, agent, abox>>
      /\ gbox[h] # << >> /\ gbox' = [gbox EXCEPT ![h] = Tail(@)]
      /\ told' = IF r # None /\ conn[FdOf[r]] # None THEN told \cup {FdOf[r]}
                 ELSE told
  BY DEF GateSend, agentVars
<1>3. p \in Player
  <2>1. Head(gbox[h]) \in GateMsg
    BY <1>1, <1>2, HeadTailProperties DEF TypeOK
  <2> QED
    BY <2>1 DEF GateMsg
<1>4. r # None => FdOf[r] \in told'
  BY <1>1, <1>2, <1>3 DEF SessionInv, GateplayerInv
<1>5. told \subseteq told'
  BY <1>2
<1>6. \A g \in Gate : NoticeInv(g)'
  <2>1. Head(gbox[h]).cmd = "send" =>
          LET q == Head(gbox[h]).player IN
          gplayers'[h][q] # None => FdOf[gplayers'[h][q]] \in told'
    BY <1>2, <1>4
  <2> QED
    BY <1>1, <1>2, <1>5, <2>1, NoticeTail
<1> HIDE DEF p, r
<1>7. GateplayerInv' /\ OneConnection' /\ KickedIsTold'
        /\ \A f \in Fd : sock'[f] = "up" => conn'[f] # None
  BY <1>1, <1>2, <1>5 DEF SessionInv, GateplayerInv, OneConnection,
     KickedIsTold, GateOfReq
<1>8. NoOrphan'
  BY <1>1, <1>2 DEF SessionInv, NoOrphan, Told, mgrVars
<1>9. ASSUME NEW q \in Req PROVE LoggingInv(q)' /\ ReplaceInv(q)'
  BY <1>1, <1>2 DEF SessionInv, LoggingInv, ReplaceInv, Replacing, Busy, Told,
     mgrVars
<1>10. \A q \in Player : OnlineInv(q)'
  BY <1>1, <1>2 DEF SessionInv, OnlineInv, GateOfReq, mgrVars
<1> QED
  BY <1>6, <1>7, <1>8, <1>9, <1>10 DEF SessionInv

LEMMA SessionGateKick ==
  ASSUME Before, NEW h \in Gate, GateKick(h) PROVE SessionInv'
<1> DEFINE s == Head(gbox[h]).player
           x == gplayers[h][s]
<1>1. /\ TypeOK /\ SessionInv /\ RecordInv /\ None \notin Player
      /\ Unbound \notin Player /\ Unbound # None
  BY LoginFlowAssumption DEF Before, FlowInv
<1>2. /\ gbox[h] # << >> /\ Head(gbox[h]).cmd = "kick"
      /\ gbox' = [gbox EXCEPT ![h] = Tail(@)]
      /\ UNCHANGED <<told, lpc, mplayers, status, mold, agent, abox>>
  BY DEF GateKick, GateKickEnd, agentVars
<1>3. 1 \in 1..Len(gbox[h]) /\ Head(gbox[h]) = gbox[h][1]
  BY <1>1, <1>2 DEF TypeOK
\* The handler that called, and the record that it replaces.
<1>4. PICK r \in Req : /\ Head(gbox[h]).job = Login(r) /\ PlayerOf[r] = s
                       /\ mpc[Login(r)] = "gatekick" /\ Replacing(r)
                       /\ GateOfReq(mold[Login(r)]) = h
  BY <1>2, <1>3, GateKickIsCall
<1>5. /\ Login(r) \in Job /\ Login(r) # None /\ s \in Player
      /\ mold[Login(r)] \in Req /\ mplayers[s] = mold[Login(r)]
      /\ status[mold[Login(r)]] = "LOGOUT"
  BY <1>4, Replaced, JobProperties, LoginFlowAssumption DEF Job
<1> HIDE DEF s
<1>6. /\ mpc'[Login(r)] = "gatekicked"
      /\ \A q \in Req : /\ q # r => mpc'[Login(q)] = mpc[Login(q)]
                        /\ mpc'[Kick(q)] = mpc[Kick(q)]
  <2>1. mpc' = [mpc EXCEPT ![Login(r)] = "gatekicked"]
    BY <1>4, <1>5 DEF GateKick, GateKickEnd
  <2> QED
    BY <1>1, <1>5, <2>1, JobProperties DEF TypeOK
<1>7. /\ x # None => x \in Req /\ FdOf[x] \in Fd /\ conn[FdOf[x]] = s
      /\ \A g \in Gate : \A p \in Player :
           gplayers'[g][p] = IF g = h /\ p = s THEN None ELSE gplayers[g][p]
      /\ \A g \in Gate : g # h => gplayers'[g] = gplayers[g]
      /\ \A f \in Fd :
           /\ conn'[f] = IF x # None /\ f = FdOf[x] THEN None ELSE conn[f]
           /\ sock'[f] = IF x # None /\ f = FdOf[x] THEN "down" ELSE sock[f]
  <2>1. x # None => x \in Req /\ FdOf[x] \in Fd /\ conn[FdOf[x]] = s
    BY <1>1, <1>5, LoginFlowAssumption DEF TypeOK, SessionInv, GateplayerInv
  <2>2. CASE x = None
    BY <1>5, <2>1, <2>2 DEF GateKick, s
  <2>3. CASE x # None
    <3>1. /\ gplayers' = [gplayers EXCEPT ![h][s] = None]
          /\ conn' = [conn EXCEPT ![FdOf[x]] = None]
          /\ sock' = [sock EXCEPT ![FdOf[x]] = "down"]
      BY <2>3 DEF GateKick, s
    <3> HIDE DEF x
    <3> QED
      BY <1>1, <1>5, <2>1, <2>3, <3>1 DEF TypeOK
  <2> QED
    BY <2>2, <2>3
<1>8. x # None => FdOf[x] \in told
  <2>1. gbox[h][1].cmd = "kick" /\ gbox[h][1].player = s
    BY <1>2, <1>3 DEF s
  <2> QED
    BY <1>1, <1>3, <2>1 DEF SessionInv, NoticeInv
<1>9. GateplayerInv'
  BY <1>1, GateplayerKick DEF SessionInv
<1>10. \A g \in Gate : NoticeInv(g)'
  BY <1>1, <1>2, <1>7, NoticeTail
<1>11. OneConnection'
  <2> SUFFICES ASSUME NEW f \in Fd, conn'[f] \in Player
               PROVE  /\ gplayers'[GateOf[f]][conn'[f]] # None
                      /\ FdOf[gplayers'[GateOf[f]][conn'[f]]] = f
    BY DEF OneConnection
  <2>1. conn'[f] = conn[f] /\ ~(x # None /\ f = FdOf[x]) /\ GateOf[f] \in Gate
    BY <1>1, <1>7, LoginFlowAssumption
  <2>2. /\ gplayers[GateOf[f]][conn[f]] # None
        /\ FdOf[gplayers[GateOf[f]][conn[f]]] = f
    BY <1>1, <2>1 DEF SessionInv, OneConnection
  <2>3. ~(GateOf[f] = h /\ conn[f] = s)
    BY <2>1, <2>2
  <2> QED
    BY <1>7, <2>1, <2>2, <2>3
<1> HIDE DEF x
<1>12. KickedIsTold' /\ \A f \in Fd : sock'[f] = "up" => conn'[f] # None
  <2> SUFFICES ASSUME NEW f \in Fd
               PROVE  /\ sock'[f] = "down" /\ conn'[f] = None => f \in told'
                      /\ sock'[f] = "up" => conn'[f] # None
    BY DEF KickedIsTold
  <2>1. CASE x # None /\ f = FdOf[x]
    BY <1>2, <1>7, <1>8, <2>1
  <2>2. CASE ~(x # None /\ f = FdOf[x])
    BY <1>1, <1>2, <1>7, <2>2 DEF SessionInv, KickedIsTold
  <2> QED
    BY <2>1, <2>2
<1>13. NoOrphan'
  BY <1>1, <1>2 DEF SessionInv, NoOrphan, Told
<1>14. ASSUME NEW q \in Req PROVE LoggingInv(q)'
  <2>1. LoggingInv(q) /\ FdOf[q] \in Fd
    BY <1>1, LoginFlowAssumption DEF SessionInv
  <2>2. conn[FdOf[q]] = Unbound => conn'[FdOf[q]] = Unbound
    BY <1>1, <1>5, <1>7, <2>1
  <2> QED
    BY <1>2, <1>6, <2>1, <2>2 DEF LoggingInv, Busy
<1>15. ASSUME NEW q \in Req PROVE ReplaceInv(q)'
  <2>1. CASE q = r
    <3>1. ReplaceInv(r)
      BY <1>1 DEF SessionInv
    <3>2. \A g \in Gate : gplayers'[g][s] = None
      <4> SUFFICES ASSUME NEW g \in Gate, gplayers'[g][s] # None PROVE FALSE
        OBVIOUS
      <4>1. g # h /\ gplayers[g][s] # None
        BY <1>5, <1>7
      <4>2. gplayers[g][s] = mplayers[s] /\ GateOfReq(gplayers[g][s]) = g
        BY <1>1, <1>5, <4>1 DEF SessionInv, OnlineInv, GateplayerInv
      <4> QED
        BY <1>4, <1>5, <4>1, <4>2
    <3> QED
      BY <1>2, <1>4, <2>1, <3>1, <3>2 DEF ReplaceInv, Replacing, Told
  <2>2. CASE q # r
    <3>1. ReplaceInv(q) /\ PlayerOf[q] \in Player
      BY <1>1, LoginFlowAssumption DEF SessionInv
    <3>2. \A g \in Gate : \A p \in Player :
            gplayers[g][p] = None => gplayers'[g][p] = None
      BY <1>7
    <3> QED
      BY <1>2, <1>6, <2>2, <3>1, <3>2 DEF ReplaceInv, Replacing, Told
  <2> QED
    BY <2>1, <2>2
<1>16. ASSUME NEW p \in Player PROVE OnlineInv(p)'
  <2>1. mplayers[p] \in Req \cup {None} /\ OnlineInv(p)
    BY <1>1 DEF TypeOK, SessionInv
  <2>2. mplayers[p] # None => GateOfReq(mplayers[p]) \in Gate
    BY <2>1, LoginFlowAssumption DEF GateOfReq
  <2>3. CASE p = s
    BY <1>2, <1>5, <1>7, <2>1, <2>3 DEF OnlineInv, GateOfReq
  <2>4. CASE p # s
    <3>1. \A g \in Gate : gplayers'[g][p] = gplayers[g][p]
      BY <1>7, <2>4
    <3> QED
      BY <1>2, <2>1, <2>2, <3>1 DEF OnlineInv, GateOfReq
  <2> QED
    BY <2>3, <2>4
<1> QED
  BY <1>9, <1>10, <1>11, <1>12, <1>13, <1>14, <1>15, <1>16 DEF SessionInv

-----------------------------------------------------------------------------
LEMMA SessionStep == Before /\ [Next]_vars => SessionInv'
<1> SUFFICES ASSUME Before, [Next]_vars PROVE SessionInv'
  OBVIOUS
<1>1. CASE UNCHANGED vars
  BY <1>1, QuietStutter
<1>2. CASE Next
  BY <1>1, <1>2, NextCases, NoReqKick, QuietHandlers, QuietAnswer, QuietAgents,
     SessionClient, SessionLogin, SessionNew, SessionKicked, SessionSpawned,
     SessionNewService, SessionSure, SessionSend, SessionGateKick
<1> QED
  BY <1>1, <1>2

LEMMA SessionInvariant == SerialLogins => (Spec => []Before)
<1> SUFFICES ASSUME SerialLogins PROVE Spec => []Before
  OBVIOUS
<1>1. Init => Before
  BY TypeInit, PcInit, CallInit, ExitInit, SerialInit, RecordInit, SessionInit
  DEF Before, FlowInv
<1>2. Before /\ [Next]_vars => Before'
  <2>1. Before /\ [Next]_vars => FlowInv'
    BY TypeStep, PcStep, CallStep, ExitStep DEF Before, FlowInv
  <2>2. Before /\ [Next]_vars => SerialInv' /\ RecordInv'
    BY SerialStep, RecordStep DEF Before
  <2> QED
    BY <2>1, <2>2, SessionStep DEF Before
<1> QED
  BY <1>1, <1>2, PTL DEF Spec

\* With serial logins no agent that is alive escapes agentmgr: it is the one
\* of its player's record, or it has been told to exit (agentmgr 65-68, 83).
THEOREM SerialNoOrphan == SerialLogins => (Spec => []NoOrphan)
<1>1. Before => NoOrphan
  BY DEF Before, SessionInv
<1> QED
  BY <1>1, SessionInvariant, PTL

\* With serial logins the connections of a player are those its gateplayers
\* point at: a superseded connection has left conns.
THEOREM SerialConnection == SerialLogins => (Spec => []OneConnection)
<1>1. Before => OneConnection
  BY DEF Before, SessionInv
<1> QED
  BY <1>1, SessionInvariant, PTL

\* With serial logins a gateplayer's connection is its player's, also when
\* several accounts use a connection one after another.
THEOREM SerialRouted == SerialLogins => (Spec => []RoutedIsBound)
<1>1. Before => RoutedIsBound
  BY DEF Before, SessionInv, GateplayerInv, RoutedIsBound
<1> QED
  BY <1>1, SessionInvariant, PTL

\* With serial logins a player that is replaced is told so before its socket
\* is closed: the notice runs ahead of the kick (agentmgr 69-70, gateway 132).
THEOREM SerialTold == SerialLogins => (Spec => []KickedIsTold)
<1>1. Before => KickedIsTold
  BY DEF Before, SessionInv
<1> QED
  BY <1>1, SessionInvariant, PTL

\* With serial logins agentmgr and the gateways agree on who is online between
\* the logins of a player: the record in GAME and the one gateplayer there is
\* belong to the same request, across any number of replaced logins.
THEOREM SerialAgreement == SerialLogins => (Spec => []Agreement)
<1>1. Before => Agreement
  <2> SUFFICES ASSUME Before, NEW p \in Player, NEW g \in Gate,
                      \A r \in Req : PlayerOf[r] = p => lpc[r] \in Ended \cup {"idle"}
               PROVE  gplayers[g][p] =
                        IF /\ mplayers[p] # None /\ status[mplayers[p]] = "GAME"
                           /\ g = GateOfReq(mplayers[p])
                        THEN mplayers[p] ELSE None
    BY DEF Agreement
  <2>1. /\ OnlineInv(p) /\ mplayers[p] \in Req \cup {None}
        /\ mplayers[p] # None => PlayerOf[mplayers[p]] = p
    BY DEF Before, SessionInv, RecordInv, FlowInv, TypeOK
  <2>2. mplayers[p] # None => status[mplayers[p]] # "LOGOUT"
    <3> SUFFICES ASSUME mplayers[p] # None, status[mplayers[p]] = "LOGOUT"
                 PROVE  FALSE
      OBVIOUS
    <3>1. Removing(mplayers[p])
      BY <2>1 DEF Before, RecordInv, LogoutInv
    <3>2. PICK r \in Req : Replacing(r) /\ mold[Login(r)] = mplayers[p]
      BY <3>1, Handlers DEF Removing
    <3>3. lpc[r] = "reqlogin" /\ PlayerOf[r] = p
      BY <2>1, <3>2, Replaced
    <3> QED
      BY <3>3 DEF Ended
  <2>3. CASE gplayers[g][p] # None
    <3>1. /\ gplayers[g][p] = mplayers[p] /\ mplayers[p] # None
          /\ status[mplayers[p]] \in {"GAME", "LOGOUT"}
      BY <2>1, <2>3 DEF OnlineInv
    <3>2. GateOfReq(mplayers[p]) = g
      BY <2>3, <3>1 DEF Before, SessionInv, GateplayerInv
    <3> QED
      BY <2>2, <3>1, <3>2
  <2>4. CASE gplayers[g][p] = None
    <3> SUFFICES ASSUME mplayers[p] # None, status[mplayers[p]] = "GAME",
                        g = GateOfReq(mplayers[p])
                 PROVE  FALSE
      BY <2>4
    <3>1. lpc[mplayers[p]] = "sure"
      BY <2>1, <2>4 DEF OnlineInv
    <3> QED
      BY <2>1, <3>1 DEF Ended
  <2> QED
    BY <2>3, <2>4
<1> QED
  BY <1>1, SessionInvariant, PTL
=============================================================================
